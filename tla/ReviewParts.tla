---------------------------- MODULE ReviewParts -----------------------------
(***************************************************************************)
(* The parts of the browser that look back: the chart screen with its      *)
(* candles, replay, panels and markers, the labels of futures fills, the   *)
(* guided review, and the screens of statistics, summaries and the         *)
(* portfolio.                                                              *)
(*                                                                         *)
(* The parts set none of each other's variables; what one takes from       *)
(* another (the candles the replay filters, the day's items) changes       *)
(* freely in its module.  So no behaviour needs two of them: the first     *)
(* state chooses one.  Names that several parts have stand for one         *)
(* variable, of whichever part it is.                                      *)
(***************************************************************************)
EXTENDS Naturals

CONSTANTS
    None, All, Partial,     \* no value; no filter; a text that names no venue
    FillSymbols, MaxQty, MaxFills,                              \* the labels
    CandleSymbols, Supported, Frames, DayFrame, Csv, LastTime, Limit, MaxCandleEvents,
    KlineLoads, NoKlines, Steps, MaxReplayEvents,               \* the replay
    BoardSymbols, BoardCandles, Bubbles, BoardTrades, BoardPositions, Actions, PanelSize,
    MaxBoardEvents,
    Now, Day, Week, Month, Width, SmartLimit, RecentLimit, MaxMarkers, Spacing, \* the markers
    Plan, MaxVisits, MaxFresh, MaxWire,                         \* the guided review
    LastDay, MaxDayTrades, MaxCompletions, DayRequests,         \* its days
    NoteSymbols, CardsPerPage, Slice, MaxNotes, MaxChanges, MaxGens, MaxTurns,  \* the summaries
    FetchVenues, TotalVenues, MaxAsks, MaxFails, MaxLoads, MaxTotalTrades,  \* the statistics
    HeldVenues, Statuses, HeldPositions, HeldPages, HeldTrades, HeldFills, PageSize \* the portfolio

VARIABLES
    part,       \* the part of the browser this behaviour is about
    \* what several parts have by this name
    position, frame, klines, loading, error, loads, drawn, events, crossed, step, positions,
    trades, failed, open, overlay, filter, day, rows, wire, busy, gen, screen, filters,
    asks, fails,
    \* the labels of futures fills
    fills, first, label,
    \* the candles of the chart
    address, focus, selected, source, stock, more, rested, focused, view, abandoned,
    \* the replay under it
    display, panel, active, now, end, playing, foreign,
    \* what the chart shows about a candle
    served, symbol, stored, local, fetches, candles, due, showBubbles, showTrades, tab,
    summaryPage, group, bubblePage, tradePage,
    \* its markers
    densityMode, visibleRange,
    \* the guided review
    status, late, fresh, review, items, home, flow, visits, shrunk,
    \* its days
    clock, loaded, completed, streak, done,
    \* the page of AI summaries
    server, version, on, notes, of, page, since, url, replacing, turns,
    \* the store of the review
    data, trend, last, updated, gate,
    \* the summary of trades
    chains, summary,
    \* the portfolio
    made, timeline, next, loadingPositions, loadingTimeline, usingTradeFallback,
    backfillLoading, positionPage, overtaken, joined

labelsOwn ==
    <<fills, first, label>>
candlesOwn ==
    <<address, focus, selected, source, stock, more, rested, focused, view, abandoned>>
replayOwn ==
    <<display, panel, active, now, end, playing, foreign>>
boardOwn ==
    <<served, symbol, stored, local, fetches, candles, due, showBubbles, showTrades, tab,
      summaryPage, group, bubblePage, tradePage>>
markersOwn ==
    <<densityMode, visibleRange>>
guidedOwn ==
    <<status, late, fresh, review, items, home, flow, visits, shrunk>>
daysOwn ==
    <<clock, loaded, completed, streak, done>>
summariesOwn ==
    <<server, version, on, notes, of, page, since, url, replacing, turns>>
fetchesOwn ==
    <<data, trend, last, updated, gate>>
totalsOwn ==
    <<chains, summary>>
portfolioOwn ==
    <<made, timeline, next, loadingPositions, loadingTimeline, usingTradeFallback,
      backfillLoading, positionPage, overtaken, joined>>
common ==
    <<position, frame, klines, loading, error, loads, drawn, events, crossed, step,
      positions, trades, failed, open, overlay, filter, day, rows, wire, busy, gen, screen,
      filters, asks, fails>>
vars ==
    <<part, common, labelsOwn, candlesOwn, replayOwn, boardOwn, markersOwn, guidedOwn,
      daysOwn, summariesOwn, fetchesOwn, totalsOwn, portfolioOwn>>

-----------------------------------------------------------------------------
(* The parts *)

\* The labels of futures fills.
Labels == INSTANCE FuturesLabels WITH
    Symbols <- FillSymbols

\* The candles of the chart, from the exchange and from a file.
CandleLoads == INSTANCE ChartCandles WITH
    Symbols <- CandleSymbols, Day <- DayFrame, Nothing <- None, Now <- LastTime,
    MaxEvents <- MaxCandleEvents

\* The replay under the chart.
Replay == INSTANCE ChartReplay WITH
    Loads <- KlineLoads, Empty <- NoKlines, MaxEvents <- MaxReplayEvents

\* What the chart screen shows about a candle.
Board == INSTANCE ChartBoard WITH
    Candles <- BoardCandles, Symbols <- BoardSymbols, Trades <- BoardTrades,
    Positions <- BoardPositions, Nothing <- None, PageSize <- PanelSize, MaxEvents <- MaxBoardEvents

\* The markers, when entries are dense.
Markers == INSTANCE ChartMarkers

\* The guided review and its store.
Guided == INSTANCE GuidedReview

\* The days of the guided review and the streak.
GuidedDay == INSTANCE GuidedDays WITH
    MaxTrades <- MaxDayTrades, Requests <- DayRequests

\* The page of AI summaries.
Summaries == INSTANCE AiSummaries WITH
    Symbols <- NoteSymbols, PageSize <- CardsPerPage

\* The store of the review, under its page and the home screen.
Fetches == INSTANCE ReviewFetches WITH
    Venues <- FetchVenues

\* The summary of trades on the same two screens.
Totals == INSTANCE TradeSummaries WITH
    Venues <- TotalVenues, MaxTrades <- MaxTotalTrades

\* The portfolio.
Portfolio == INSTANCE PortfolioScreen WITH
    Venues <- HeldVenues, Positions <- HeldPositions, Pages <- HeldPages,
    Trades <- HeldTrades, Replacements <- HeldFills

\* What the modules assume of their constants.
ASSUME PartsAssumption ==
    /\ Labels!LabelBounds
    /\ CandleLoads!SymbolAssumption /\ CandleLoads!TagAssumption /\ CandleLoads!TimeAssumption
    /\ Replay!LoadAssumption /\ Replay!StepAssumption
    /\ Board!DataAssumption /\ Board!BoundAssumption
    /\ Markers!SpanAssumption /\ Markers!LimitAssumption /\ Markers!SpacingAssumption
    /\ Guided!PlanAssumption
    /\ GuidedDay!DaysAssumption
    /\ Summaries!BoundAssumption
    /\ Fetches!BoundAssumption /\ Fetches!NoneAssumption
    /\ Totals!BoundAssumption /\ Totals!NoneAssumption
    /\ Portfolio!BoundAssumption /\ Portfolio!DataAssumption

-----------------------------------------------------------------------------
(* A behaviour is about one part: it sets the variables the part has no use for to *)
(* Unused, and leaves them so.                                                      *)

Unused == "unused"

NoLabels ==
    fills = Unused /\ first = Unused /\ label = Unused
NoCandleLoads ==
    address = Unused /\ focus = Unused /\ selected = Unused /\ source = Unused /\
    stock = Unused /\ more = Unused /\ rested = Unused /\ focused = Unused /\
    view = Unused /\ abandoned = Unused
NoReplay ==
    display = Unused /\ panel = Unused /\ active = Unused /\ now = Unused /\ end = Unused /\
    playing = Unused /\ foreign = Unused
NoBoard ==
    served = Unused /\ symbol = Unused /\ stored = Unused /\ local = Unused /\
    fetches = Unused /\ candles = Unused /\ due = Unused /\ showBubbles = Unused /\
    showTrades = Unused /\ tab = Unused /\ summaryPage = Unused /\ group = Unused /\
    bubblePage = Unused /\ tradePage = Unused
NoMarkers ==
    densityMode = Unused /\ visibleRange = Unused
NoGuided ==
    status = Unused /\ late = Unused /\ fresh = Unused /\ review = Unused /\
    items = Unused /\ home = Unused /\ flow = Unused /\ visits = Unused /\ shrunk = Unused
NoGuidedDay ==
    clock = Unused /\ loaded = Unused /\ completed = Unused /\ streak = Unused /\
    done = Unused
NoSummaries ==
    server = Unused /\ version = Unused /\ on = Unused /\ notes = Unused /\ of = Unused /\
    page = Unused /\ since = Unused /\ url = Unused /\ replacing = Unused /\ turns = Unused
NoFetches ==
    data = Unused /\ trend = Unused /\ last = Unused /\ updated = Unused /\ gate = Unused
NoTotals ==
    chains = Unused /\ summary = Unused
NoPortfolio ==
    made = Unused /\ timeline = Unused /\ next = Unused /\ loadingPositions = Unused /\
    loadingTimeline = Unused /\ usingTradeFallback = Unused /\ backfillLoading = Unused /\
    positionPage = Unused /\ overtaken = Unused /\ joined = Unused

Init ==
    \/ /\ part = "labels" /\ Labels!Init
       /\ NoCandleLoads /\ NoReplay /\ NoBoard /\ NoMarkers /\ NoGuided /\ NoGuidedDay /\
          NoSummaries /\ NoFetches /\ NoTotals /\ NoPortfolio
       /\ frame = Unused /\ klines = Unused /\ loading = Unused /\ error = Unused /\
          loads = Unused /\ drawn = Unused /\ events = Unused /\ crossed = Unused /\
          step = Unused /\ positions = Unused /\ trades = Unused /\ failed = Unused /\
          open = Unused /\ overlay = Unused /\ filter = Unused /\ day = Unused /\
          rows = Unused /\ wire = Unused /\ busy = Unused /\ gen = Unused /\
          screen = Unused /\ filters = Unused /\ asks = Unused /\ fails = Unused
    \/ /\ part = "candles" /\ CandleLoads!Init
       /\ NoLabels /\ NoReplay /\ NoBoard /\ NoMarkers /\ NoGuided /\ NoGuidedDay /\
          NoSummaries /\ NoFetches /\ NoTotals /\ NoPortfolio
       /\ position = Unused /\ step = Unused /\ positions = Unused /\ trades = Unused /\
          failed = Unused /\ open = Unused /\ overlay = Unused /\ filter = Unused /\
          day = Unused /\ rows = Unused /\ wire = Unused /\ busy = Unused /\ gen = Unused /\
          screen = Unused /\ filters = Unused /\ asks = Unused /\ fails = Unused
    \/ /\ part = "replay" /\ Replay!Init
       /\ NoLabels /\ NoCandleLoads /\ NoBoard /\ NoMarkers /\ NoGuided /\ NoGuidedDay /\
          NoSummaries /\ NoFetches /\ NoTotals /\ NoPortfolio
       /\ position = Unused /\ frame = Unused /\ loading = Unused /\ error = Unused /\
          loads = Unused /\ drawn = Unused /\ positions = Unused /\ trades = Unused /\
          failed = Unused /\ open = Unused /\ overlay = Unused /\ filter = Unused /\
          day = Unused /\ rows = Unused /\ wire = Unused /\ busy = Unused /\ gen = Unused /\
          screen = Unused /\ filters = Unused /\ asks = Unused /\ fails = Unused
    \/ /\ part = "board" /\ Board!Init
       /\ NoLabels /\ NoCandleLoads /\ NoReplay /\ NoMarkers /\ NoGuided /\ NoGuidedDay /\
          NoSummaries /\ NoFetches /\ NoTotals /\ NoPortfolio
       /\ frame = Unused /\ klines = Unused /\ loading = Unused /\ error = Unused /\
          loads = Unused /\ drawn = Unused /\ crossed = Unused /\ step = Unused /\
          day = Unused /\ rows = Unused /\ wire = Unused /\ busy = Unused /\ gen = Unused /\
          screen = Unused /\ filters = Unused /\ asks = Unused /\ fails = Unused
    \/ /\ part = "markers" /\ Markers!Init
       /\ NoLabels /\ NoCandleLoads /\ NoReplay /\ NoBoard /\ NoGuided /\ NoGuidedDay /\
          NoSummaries /\ NoFetches /\ NoTotals /\ NoPortfolio
       /\ position = Unused /\ frame = Unused /\ klines = Unused /\ loading = Unused /\
          error = Unused /\ loads = Unused /\ drawn = Unused /\ events = Unused /\
          crossed = Unused /\ step = Unused /\ positions = Unused /\ trades = Unused /\
          failed = Unused /\ open = Unused /\ filter = Unused /\ day = Unused /\
          rows = Unused /\ wire = Unused /\ busy = Unused /\ gen = Unused /\
          screen = Unused /\ filters = Unused /\ asks = Unused /\ fails = Unused
    \/ /\ part = "guided" /\ Guided!Init
       /\ NoLabels /\ NoCandleLoads /\ NoReplay /\ NoBoard /\ NoMarkers /\ NoGuidedDay /\
          NoSummaries /\ NoFetches /\ NoTotals /\ NoPortfolio
       /\ position = Unused /\ frame = Unused /\ klines = Unused /\ loads = Unused /\
          drawn = Unused /\ events = Unused /\ crossed = Unused /\ positions = Unused /\
          trades = Unused /\ failed = Unused /\ overlay = Unused /\ filter = Unused /\
          busy = Unused /\ gen = Unused /\ screen = Unused /\ filters = Unused /\
          asks = Unused /\ fails = Unused
    \/ /\ part = "days" /\ GuidedDay!Init
       /\ NoLabels /\ NoCandleLoads /\ NoReplay /\ NoBoard /\ NoMarkers /\ NoGuided /\
          NoSummaries /\ NoFetches /\ NoTotals /\ NoPortfolio
       /\ position = Unused /\ frame = Unused /\ klines = Unused /\ loading = Unused /\
          error = Unused /\ loads = Unused /\ drawn = Unused /\ events = Unused /\
          crossed = Unused /\ step = Unused /\ positions = Unused /\ failed = Unused /\
          open = Unused /\ overlay = Unused /\ filter = Unused /\ wire = Unused /\
          gen = Unused /\ screen = Unused /\ filters = Unused /\ asks = Unused /\
          fails = Unused
    \/ /\ part = "summaries" /\ Summaries!Init
       /\ NoLabels /\ NoCandleLoads /\ NoReplay /\ NoBoard /\ NoMarkers /\ NoGuided /\
          NoGuidedDay /\ NoFetches /\ NoTotals /\ NoPortfolio
       /\ position = Unused /\ frame = Unused /\ klines = Unused /\ drawn = Unused /\
          events = Unused /\ crossed = Unused /\ step = Unused /\ positions = Unused /\
          trades = Unused /\ failed = Unused /\ open = Unused /\ overlay = Unused /\
          day = Unused /\ rows = Unused /\ wire = Unused /\ busy = Unused /\
          screen = Unused /\ filters = Unused /\ asks = Unused /\ fails = Unused
    \/ /\ part = "fetches" /\ Fetches!Init
       /\ NoLabels /\ NoCandleLoads /\ NoReplay /\ NoBoard /\ NoMarkers /\ NoGuided /\
          NoGuidedDay /\ NoSummaries /\ NoTotals /\ NoPortfolio
       /\ position = Unused /\ frame = Unused /\ klines = Unused /\ loading = Unused /\
          error = Unused /\ loads = Unused /\ drawn = Unused /\ events = Unused /\
          crossed = Unused /\ step = Unused /\ positions = Unused /\ trades = Unused /\
          open = Unused /\ overlay = Unused /\ filter = Unused /\ day = Unused /\
          rows = Unused /\ gen = Unused
    \/ /\ part = "home" /\ Totals!Init
       /\ NoLabels /\ NoCandleLoads /\ NoReplay /\ NoBoard /\ NoMarkers /\ NoGuided /\
          NoGuidedDay /\ NoSummaries /\ NoFetches /\ NoPortfolio
       /\ position = Unused /\ klines = Unused /\ loading = Unused /\ error = Unused /\
          loads = Unused /\ events = Unused /\ crossed = Unused /\ step = Unused /\
          positions = Unused /\ failed = Unused /\ open = Unused /\ overlay = Unused /\
          filter = Unused /\ day = Unused /\ rows = Unused /\ wire = Unused /\
          busy = Unused /\ asks = Unused
    \/ /\ part = "portfolio" /\ Portfolio!Init
       /\ NoLabels /\ NoCandleLoads /\ NoReplay /\ NoBoard /\ NoMarkers /\ NoGuided /\
          NoGuidedDay /\ NoSummaries /\ NoFetches /\ NoTotals
       /\ position = Unused /\ frame = Unused /\ klines = Unused /\ loading = Unused /\
          loads = Unused /\ drawn = Unused /\ events = Unused /\ crossed = Unused /\
          step = Unused /\ trades = Unused /\ failed = Unused /\ open = Unused /\
          overlay = Unused /\ filter = Unused /\ day = Unused /\ rows = Unused /\
          busy = Unused /\ gen = Unused /\ screen = Unused

LabelsStep ==
    /\ part = "labels" /\ Labels!Next
    /\ UNCHANGED <<part, candlesOwn, replayOwn, boardOwn, markersOwn, guidedOwn, daysOwn,
                   summariesOwn, fetchesOwn, totalsOwn, portfolioOwn, frame, klines,
                   loading, error, loads, drawn, events, crossed, step, positions, trades,
                   failed, open, overlay, filter, day, rows, wire, busy, gen, screen,
                   filters, asks, fails>>
CandleLoadsStep ==
    /\ part = "candles" /\ CandleLoads!Next
    /\ UNCHANGED <<part, labelsOwn, replayOwn, boardOwn, markersOwn, guidedOwn, daysOwn,
                   summariesOwn, fetchesOwn, totalsOwn, portfolioOwn, position, step,
                   positions, trades, failed, open, overlay, filter, day, rows, wire, busy,
                   gen, screen, filters, asks, fails>>
ReplayStep ==
    /\ part = "replay" /\ Replay!Next
    /\ UNCHANGED <<part, labelsOwn, candlesOwn, boardOwn, markersOwn, guidedOwn, daysOwn,
                   summariesOwn, fetchesOwn, totalsOwn, portfolioOwn, position, frame,
                   loading, error, loads, drawn, positions, trades, failed, open, overlay,
                   filter, day, rows, wire, busy, gen, screen, filters, asks, fails>>
BoardStep ==
    /\ part = "board" /\ Board!Next
    /\ UNCHANGED <<part, labelsOwn, candlesOwn, replayOwn, markersOwn, guidedOwn, daysOwn,
                   summariesOwn, fetchesOwn, totalsOwn, portfolioOwn, frame, klines,
                   loading, error, loads, drawn, crossed, step, day, rows, wire, busy, gen,
                   screen, filters, asks, fails>>
MarkersStep ==
    /\ part = "markers" /\ Markers!Next
    /\ UNCHANGED <<part, labelsOwn, candlesOwn, replayOwn, boardOwn, guidedOwn, daysOwn,
                   summariesOwn, fetchesOwn, totalsOwn, portfolioOwn, position, frame,
                   klines, loading, error, loads, drawn, events, crossed, step, positions,
                   trades, failed, open, filter, day, rows, wire, busy, gen, screen,
                   filters, asks, fails>>
GuidedStep ==
    /\ part = "guided" /\ Guided!Next
    /\ UNCHANGED <<part, labelsOwn, candlesOwn, replayOwn, boardOwn, markersOwn, daysOwn,
                   summariesOwn, fetchesOwn, totalsOwn, portfolioOwn, position, frame,
                   klines, loads, drawn, events, crossed, positions, trades, failed,
                   overlay, filter, busy, gen, screen, filters, asks, fails>>
GuidedDayStep ==
    /\ part = "days" /\ GuidedDay!Next
    /\ UNCHANGED <<part, labelsOwn, candlesOwn, replayOwn, boardOwn, markersOwn, guidedOwn,
                   summariesOwn, fetchesOwn, totalsOwn, portfolioOwn, position, frame,
                   klines, loading, error, loads, drawn, events, crossed, step, positions,
                   failed, open, overlay, filter, wire, gen, screen, filters, asks, fails>>
SummariesStep ==
    /\ part = "summaries" /\ Summaries!Next
    /\ UNCHANGED <<part, labelsOwn, candlesOwn, replayOwn, boardOwn, markersOwn, guidedOwn,
                   daysOwn, fetchesOwn, totalsOwn, portfolioOwn, position, frame, klines,
                   drawn, events, crossed, step, positions, trades, failed, open, overlay,
                   day, rows, wire, busy, screen, filters, asks, fails>>
FetchesStep ==
    /\ part = "fetches" /\ Fetches!Next
    /\ UNCHANGED <<part, labelsOwn, candlesOwn, replayOwn, boardOwn, markersOwn, guidedOwn,
                   daysOwn, summariesOwn, totalsOwn, portfolioOwn, position, frame, klines,
                   loading, error, loads, drawn, events, crossed, step, positions, trades,
                   open, overlay, filter, day, rows, gen>>
TotalsStep ==
    /\ part = "home" /\ Totals!Next
    /\ UNCHANGED <<part, labelsOwn, candlesOwn, replayOwn, boardOwn, markersOwn, guidedOwn,
                   daysOwn, summariesOwn, fetchesOwn, portfolioOwn, position, klines,
                   loading, error, loads, events, crossed, step, positions, failed, open,
                   overlay, filter, day, rows, wire, busy, asks>>
PortfolioStep ==
    /\ part = "portfolio" /\ Portfolio!Next
    /\ UNCHANGED <<part, labelsOwn, candlesOwn, replayOwn, boardOwn, markersOwn, guidedOwn,
                   daysOwn, summariesOwn, fetchesOwn, totalsOwn, position, frame, klines,
                   loading, loads, drawn, events, crossed, step, trades, failed, open,
                   overlay, filter, day, rows, busy, gen, screen>>

Next ==
    \/ LabelsStep
    \/ CandleLoadsStep
    \/ ReplayStep
    \/ BoardStep
    \/ MarkersStep
    \/ GuidedStep
    \/ GuidedDayStep
    \/ SummariesStep
    \/ FetchesStep
    \/ TotalsStep
    \/ PortfolioStep

Spec == Init /\ [][Next]_vars

-----------------------------------------------------------------------------
(* Properties *)

\* Every variable has values of its kind, whichever the part.
TypeOK ==
    /\ part = "labels" => Labels!TypeOK
    /\ part = "candles" => CandleLoads!TypeOK
    /\ part = "replay" => Replay!TypeOK
    /\ part = "board" => Board!TypeOK
    /\ part = "markers" => Markers!TypeOK
    /\ part = "guided" => Guided!TypeOK
    /\ part = "days" => GuidedDay!TypeOK
    /\ part = "summaries" => Summaries!TypeOK
    /\ part = "fetches" => Fetches!TypeOK
    /\ part = "home" => Totals!TypeOK
    /\ part = "portfolio" => Portfolio!TypeOK

\* A fill on the page is called what it did to the account, if the account was flat in its symbol
\* where the page begins (futuresActionById in Trades.tsx).
LabelsAreTrue == part = "labels" => Labels!LabelsAreTrue

\* With no load under way the chart has all candles of its symbol and timeframe between the oldest
\* and the latest, and more can be had, but for failures and late answers (Chart.tsx).
CandlesAreWhole == part = "candles" => CandleLoads!CandlesAreWhole

\* Every pager is on a page there is, the markers are those of the symbol, and none of its trades
\* is missing once no request is under way (Chart.tsx).
BoardIsSound == part = "board" => Board!BoardIsSound

\* However dense the entries are, what is drawn stands for them: each counted once, in its place,
\* and not more markers than allowed (Chart.tsx:820-920).
MarkersAreTrue == part = "markers" => Markers!MarkersAreTrue

\* No review is completed with an open item, nothing is shown as answered that is not stored, no
\* half answer is sent, and questions have an item (guidedReviewStore.ts, GuidedReviewFlow.tsx).
ReviewIsSound == part = "guided" => Guided!ReviewIsSound

\* Over the days every trade is asked about once, and the streak counts completed days in a row,
\* however completions overlap (guided_review_repository_impl.go).
DaysAreSound == part = "days" => GuidedDay!DaysAreSound

\* With the panel up nothing after the moment is displayed, and a replay that comes to its end
\* has shown every candle, but for candles loaded meanwhile (ChartReplay.tsx, Chart.tsx:443).
ReplayIsHonest == [][part = "replay" => Replay!FutureHidden' /\ Replay!ShowsAllAtEnd]_vars

\* What is shown as loaded is as young as the last refresh, in whatever order loads are answered,
\* and no change of filter or page strands the reader on a page without cards (review/page.tsx).
SummariesAreFresh == [][part = "summaries" => Summaries!NotesAreOfRefresh' /\ Summaries!KeepsCards]_vars

\* Statistics, totals and the portfolio are those of the filters that are set, are called missing
\* or idle, or replaced by trades, only where they are (reviewStore.ts, HomeSnapshot.tsx,
\* PortfolioDashboard.tsx).
FiguresFit ==
    /\ part = "fetches" => Fetches!FiguresFit
    /\ part = "home" => Totals!TotalsFit
    /\ part = "portfolio" => Portfolio!PortfolioFits
=============================================================================
