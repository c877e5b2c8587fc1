------------------------------ MODULE PortfolioScreen ------------------------------
(***************************************************************************)
(* The portfolio screen (components/portfolio/PortfolioDashboard.tsx):     *)
(* positions and a timeline of the portfolio's events under one filter,    *)
(* asked for together and never called back.  Without positions an effect  *)
(* takes both from the trades instead; the screen then offers to make the  *)
(* events that are missing.                                                *)
(*                                                                         *)
(* A step is a handler or an answer with the effects it sets off.  A list  *)
(* is known by where it is from, the filter it was asked for and its       *)
(* length.  Of a filter there are the venue, the status (which the events  *)
(* of the timeline do not heed) and whether asset class and source allow   *)
(* trades.  How many positions, pages of events and trades a filter has    *)
(* are constants; an account without events has none until they are made.  *)
(* The chips of the trade summary are left out.                            *)
(***************************************************************************)
EXTENDS Naturals, FiniteSets

CONSTANTS
    Venues, Statuses,
    Positions, Pages,       \* positions and event pages by filter, of the events
    Trades, Replacements,   \* trades by venue, positions computed from them by filter
    PageSize,
    MaxAsks, MaxFails       \* bounds of the model

Filters == [venue : Venues, status : Statuses, trades : BOOLEAN]

BoundAssumption == {MaxAsks, PageSize} \subseteq Nat \ {0} /\ MaxFails \in Nat
DataAssumption ==
    /\ Positions \in [Filters -> Nat] /\ Pages \in [Filters -> Nat]
    /\ Trades \in [Venues -> Nat] /\ Replacements \in [Filters -> Nat]
    /\ \A f \in Filters : Replacements[f] > 0 => Trades[f.venue] > 0

VARIABLES
    made,                       \* whether the server has events
    filters,
    positions, timeline, next,  \* next: the page of events below the timeline, or 0
    loadingPositions, loadingTimeline, error,
    usingTradeFallback, backfillLoading,
    positionPage,
    wire, asks, fails,
    overtaken, joined           \* history, see the properties

data == <<positions, timeline, next>>
flags == <<loadingPositions, loadingTimeline, error, usingTradeFallback, backfillLoading>>
vars == <<made, filters, data, flags, positionPage, wire, asks, fails, overtaken, joined>>

Larger(a, b) == IF a >= b THEN a ELSE b
Smaller(a, b) == IF a <= b THEN a ELSE b

List(from, f, n) == [from |-> from, of |-> f, n |-> n]
PagesOf(n) == Larger(1, (n + PageSize - 1) \div PageSize)

\* What the server has for a filter, with or without events.
PositionsOf(f, m) == IF m THEN Positions[f] ELSE 0
EventPages(f, m) == IF m THEN Pages[f] ELSE 0

TypeOK ==
    /\ made \in BOOLEAN /\ filters \in Filters
    /\ positions.from \in {"start", "events", "trades"} /\ positions.of \in Filters
    /\ timeline.from \in {"start", "events", "trades", "mixed"} /\ timeline.of \in Filters
    /\ positions.n \in Nat /\ timeline.n \in Nat /\ next \in Nat
    /\ {loadingPositions, loadingTimeline, error, usingTradeFallback, backfillLoading} \subseteq BOOLEAN
    /\ positionPage \in Nat \ {0}
    /\ \A r \in wire :
        /\ r.k \in {"positions", "timeline", "more", "trades", "make", "remade"}
        /\ r.of \in Filters /\ r.made \in BOOLEAN /\ r.n \in 1 .. asks /\ r.page \in Nat
    /\ asks \in 0 .. MaxAsks /\ fails \in 0 .. MaxFails
    /\ overtaken \in BOOLEAN /\ joined \in BOOLEAN

Request(k, f, p) == [k |-> k, of |-> f, made |-> made, n |-> asks', page |-> p]
Both(f) == {Request("positions", f, 1), Request("timeline", f, 1)}

NoFilter(f) == f.trades /\ \A g \in Filters : g.trades => Positions[g] <= Positions[f] /\ Pages[g] <= Pages[f]

\* The first effects ask for everything.
Init ==
    /\ made \in BOOLEAN
    /\ filters \in {f \in Filters : NoFilter(f)}
    /\ positions = List("start", filters, 0) /\ timeline = List("start", filters, 0) /\ next = 0
    /\ loadingPositions = TRUE /\ loadingTimeline = TRUE /\ error = FALSE
    /\ usingTradeFallback = FALSE /\ backfillLoading = FALSE
    /\ positionPage = 1
    /\ asks = 1 /\ fails = 0 /\ overtaken = FALSE /\ joined = FALSE
    /\ wire = {[k |-> k, of |-> filters, made |-> made, n |-> 1, page |-> 1] : k \in {"positions", "timeline"}}

-----------------------------------------------------------------------------
(* Effects *)

\* The effect that replaces missing positions by trades.  It runs when a flag or a length
\* changes and calls back the request it had made; using is the banner the handler leaves.
Fallback(w, using) ==
    LET kept == {r \in w : r.k # "trades"}
        changed == <<loadingPositions, loadingTimeline, positions.n, timeline.n>>' #
                   <<loadingPositions, loadingTimeline, positions.n, timeline.n>>
    IN  IF ~ changed
        THEN wire' = w /\ usingTradeFallback' = using
        ELSE IF loadingPositions' \/ loadingTimeline'
        THEN wire' = kept /\ usingTradeFallback' = using
        ELSE IF positions'.n > 0 \/ ~ filters'.trades
        THEN wire' = kept /\ usingTradeFallback' = FALSE
        ELSE wire' = kept \cup {[k |-> "trades", of |-> filters', made |-> made', n |-> Larger(asks', 1), page |-> 1]}
             /\ usingTradeFallback' = using

\* The page follows a list that got shorter.
Clamp == positionPage' = Smaller(positionPage, PagesOf(positions'.n))

-----------------------------------------------------------------------------
(* The user *)

May == asks < MaxAsks /\ asks' = asks + 1

\* A new load overtakes the page that is under way.
Replaces == overtaken' = (overtaken \/ \E r \in wire : r.k = "more")

\* The effects of the new filter run before loading is up: the banner may go at once, a
\* request for trades is made and called back.
SetFilter(f) ==
    /\ f # filters /\ May
    /\ filters' = f /\ positionPage' = 1
    /\ loadingPositions' = TRUE /\ loadingTimeline' = TRUE /\ error' = FALSE
    /\ usingTradeFallback' =
          IF ~ loadingPositions /\ ~ loadingTimeline /\ (positions.n > 0 \/ ~ f.trades)
          THEN FALSE ELSE usingTradeFallback
    /\ wire' = {r \in wire : r.k # "trades"} \cup Both(f)
    /\ Replaces
    /\ UNCHANGED <<made, data, backfillLoading, fails, joined>>

\* An import elsewhere, in this tab or another, says that there is news.
Refresh ==
    /\ May
    /\ loadingPositions' = TRUE /\ loadingTimeline' = TRUE /\ error' = FALSE
    /\ Replaces
    /\ UNCHANGED <<made, filters, data, backfillLoading, positionPage, fails, joined>>
    /\ Fallback(wire \cup Both(filters), usingTradeFallback)

LoadMore ==
    /\ next # 0 /\ ~ loadingTimeline /\ May
    /\ loadingTimeline' = TRUE
    /\ joined' = (joined \/ timeline.from = "trades")
    /\ UNCHANGED <<made, filters, data, loadingPositions, error, backfillLoading, positionPage,
                   fails, overtaken>>
    /\ Fallback(wire \cup {Request("more", filters, next)}, usingTradeFallback)

\* The button stands beside the banner.
BackfillEvents ==
    /\ usingTradeFallback /\ ~ backfillLoading /\ May
    /\ backfillLoading' = TRUE
    /\ wire' = wire \cup {Request("make", filters, 1)}
    /\ UNCHANGED <<made, filters, data, loadingPositions, loadingTimeline, error,
                   usingTradeFallback, positionPage, fails, overtaken, joined>>

GoToPage(p) ==
    /\ ~ loadingPositions
    /\ positionPage' = Larger(1, Smaller(PagesOf(positions.n), p))
    /\ UNCHANGED <<made, filters, data, flags, wire, asks, fails, overtaken, joined>>

-----------------------------------------------------------------------------
(* Answers *)

\* A request is answered from what the server has now or had when it was made.
Answers(r, m) == m \in {r.made, made}

\* An answer is overtaken by new filters, by events made since, or by another load of its kind.
Crossed(r, m) ==
    overtaken' = (overtaken \/ r.of # filters \/ m # made \/ \E q \in wire \ {r} : q.k = r.k)

FirstPage(f, m) ==
    /\ timeline' = List("events", f, Smaller(1, EventPages(f, m)))
    /\ next' = IF EventPages(f, m) > 1 THEN 2 ELSE 0

PositionsAnswered(r, m) ==
    /\ r.k = "positions" /\ Answers(r, m) /\ Crossed(r, m)
    /\ positions' = List("events", r.of, PositionsOf(r.of, m)) /\ Clamp
    /\ loadingPositions' = FALSE
    /\ UNCHANGED <<made, filters, timeline, next, loadingTimeline, error, backfillLoading, asks, fails, joined>>
    /\ Fallback(wire \ {r}, usingTradeFallback)

TimelineAnswered(r, m) ==
    /\ r.k = "timeline" /\ Answers(r, m) /\ Crossed(r, m)
    /\ FirstPage(r.of, m)
    /\ loadingTimeline' = FALSE
    /\ UNCHANGED <<made, filters, positions, loadingPositions, error, backfillLoading, positionPage,
                   asks, fails, joined>>
    /\ Fallback(wire \ {r}, usingTradeFallback)

\* The page goes below whatever the timeline is by then.
MoreAnswered(r, m) ==
    /\ r.k = "more" /\ Answers(r, m) /\ Crossed(r, m)
    /\ LET found == IF r.page <= EventPages(r.of, m) THEN 1 ELSE 0
       IN  timeline' = [timeline EXCEPT !.n = @ + found,
                            !.from = IF found = 0 \/ (@ = "events" /\ timeline.of = r.of) THEN @ ELSE "mixed"]
    /\ next' = IF r.page < EventPages(r.of, m) THEN r.page + 1 ELSE 0
    /\ loadingTimeline' = FALSE
    /\ UNCHANGED <<made, filters, positions, loadingPositions, error, backfillLoading, positionPage,
                   asks, fails, joined>>
    /\ Fallback(wire \ {r}, usingTradeFallback)

\* Trades take the place of both lists; the cursor stays that of the events.
TradesAnswered(r) ==
    /\ r.k = "trades"
    /\ UNCHANGED <<made, filters, next, loadingPositions, loadingTimeline, error, backfillLoading,
                   asks, fails, overtaken, joined>>
    /\ IF Trades[r.of.venue] = 0
       THEN /\ wire' = wire \ {r}
            /\ UNCHANGED <<positions, timeline, usingTradeFallback, positionPage>>
       ELSE /\ positions' = List("trades", r.of, Replacements[r.of]) /\ Clamp
            /\ timeline' = List("trades", r.of, Trades[r.of.venue])
            /\ Fallback(wire \ {r}, TRUE)

\* The events are made, and both lists asked for with the filter of the click.
EventsMade(r) ==
    /\ r.k = "make" /\ made' = TRUE
    /\ wire' = (wire \ {r}) \cup {[r EXCEPT !.k = "remade", !.made = TRUE]}
    /\ UNCHANGED <<filters, data, flags, positionPage, asks, fails, overtaken, joined>>

Remade(r) ==
    /\ r.k = "remade" /\ Crossed(r, TRUE)
    /\ positions' = List("events", r.of, PositionsOf(r.of, TRUE)) /\ Clamp
    /\ FirstPage(r.of, TRUE)
    /\ backfillLoading' = FALSE
    /\ UNCHANGED <<made, filters, loadingPositions, loadingTimeline, error, asks, fails, joined>>
    /\ Fallback(wire \ {r}, FALSE)

\* A failure leaves what there is; of the trades and of the making it leaves no word in error.
Fails(r) ==
    /\ fails < MaxFails /\ fails' = fails + 1
    /\ loadingPositions' = (loadingPositions /\ r.k # "positions")
    /\ loadingTimeline' = (loadingTimeline /\ r.k \notin {"timeline", "more"})
    /\ error' = (error \/ r.k \in {"positions", "timeline", "more"})
    /\ backfillLoading' = (backfillLoading /\ r.k \notin {"make", "remade"})
    /\ UNCHANGED <<made, filters, data, positionPage, asks, overtaken, joined>>
    /\ Fallback(wire \ {r}, usingTradeFallback)

Next ==
    \/ \E f \in Filters : SetFilter(f)
    \/ Refresh \/ LoadMore \/ BackfillEvents
    \/ \E p \in 0 .. PagesOf(positions.n) + 1 : GoToPage(p)
    \/ \E r \in wire, m \in BOOLEAN :
        PositionsAnswered(r, m) \/ TimelineAnswered(r, m) \/ MoreAnswered(r, m)
    \/ \E r \in wire : TradesAnswered(r) \/ EventsMade(r) \/ Remade(r) \/ Fails(r)

Spec == Init /\ [][Next]_vars

-----------------------------------------------------------------------------
(* Properties *)

AtRest == wire = {} /\ fails = 0 /\ ~ overtaken

\* At rest both lists are those of the filters that are set, unless an answer was overtaken by a
\* change of the filters or by the making of events, or failed.
ListsFit == AtRest => positions.of = filters /\ timeline.of = filters

\* Trades stand in for positions only where the events have none, and where they stand the
\* filter allows them.
TradesOnlyInPlace ==
    AtRest /\ positions.from = "trades" => filters.trades /\ PositionsOf(filters, made) = 0

\* Where trades make positions but the events none, those of the trades are shown.  Trades that
\* make none need not be: events made of them leave the lengths the effect heeds as they were.
TradesInPlace ==
    AtRest /\ filters.trades /\ PositionsOf(filters, made) = 0 /\ Replacements[filters] > 0
        => positions.from = "trades"

\* The banner that says so stands only over trades, unless the venue has none.
BannerIsTrue ==
    AtRest /\ usingTradeFallback => positions.from = "trades" \/ Trades[filters.venue] = 0

\* The timeline is of one kind, unless the user asked for more below the trades or an answer was
\* overtaken.
OneKind == timeline.from = "mixed" => joined \/ overtaken \/ fails > 0

\* The pager is on a page there is.
PageExists == positionPage <= PagesOf(positions.n)

\* What the portfolio shows is so.
PortfolioFits ==
    ListsFit /\ TradesOnlyInPlace /\ TradesInPlace /\ BannerIsTrue /\ OneKind /\ PageExists
=============================================================================
