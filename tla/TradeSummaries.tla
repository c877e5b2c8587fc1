------------------------------ MODULE TradeSummaries ------------------------------
(***************************************************************************)
(* The summary of the trades on the home screen (HomeSnapshot.tsx) and on  *)
(* the review page (app/(app)/review/page.tsx), under the filters both     *)
(* share.  A filter without trades is widened on the home screen; a load   *)
(* that failed is repeated there without any filter.  Of the loads of a    *)
(* screen only the youngest counts, the others run on.                     *)
(*                                                                         *)
(* A trade is its venue and whether it is recent, and gains or loses one.  *)
(* The period is one of two; the venue is typed as free text, Partial is a *)
(* text no venue is recognised in.                                         *)
(***************************************************************************)
EXTENDS Integers, FiniteSets

CONSTANTS Venues, Partial, All, None, MaxLoads, MaxFails, MaxTrades

BoundAssumption == {MaxLoads, MaxFails, MaxTrades} \subseteq Nat /\ IsFiniteSet(Venues)
NoneAssumption == None \notin Int

Ages == {"recent", "old"}
Periods == {"7d", "all"}
Filters == [period : Periods, venue : Venues \cup {Partial, All}]
Whole == [period |-> "all", venue |-> All]
Trades == Venues \X Ages \X {1, -1}

VARIABLES
    trades,             \* at the server
    screen, filters,
    gen,                \* loads begun; the youngest is the one that counts
    chains,             \* loads under way, each at one of its requests
    summary,            \* None, or what was found, for which filter, at which request of its load
    drawn, frame,       \* the total the home screen draws, and the one it moves to or None
    fails               \* bound

vars == <<trades, screen, filters, gen, chains, summary, drawn, frame, fails>>

\* What the server finds for a filter: how many trades, and their total.
Found(f) == {t \in trades : (f.venue = All \/ t[1] = f.venue) /\ (f.period = "7d" => t[2] = "recent")}
Total(ts) == Cardinality({t \in ts : t[3] = 1}) - Cardinality({t \in ts : t[3] = -1})

TypeOK ==
    /\ trades \subseteq Trades /\ screen \in {"home", "review", "away"} /\ filters \in Filters
    /\ gen \in 0 .. MaxLoads
    /\ \A c \in chains : c.n \in 1 .. gen /\ c.stage \in {"first", "wider", "whole"} /\ c.of \in Filters
    /\ summary = None \/ (summary.of \in Filters /\ summary.count \in 0 .. MaxTrades)
    /\ drawn \in - MaxTrades .. MaxTrades /\ frame \in {None} \cup (- MaxTrades .. MaxTrades)
    /\ fails \in 0 .. MaxFails

\* The filters are those of an earlier visit.
Init ==
    /\ trades \in SUBSET Trades /\ Cardinality(trades) <= MaxTrades
    /\ screen = "away" /\ filters \in Filters
    /\ gen = 0 /\ chains = {} /\ summary = None
    /\ drawn = 0 /\ frame = None /\ fails = 0

-----------------------------------------------------------------------------
(* Filters and screens *)

\* A text that names no venue is no filter; the review page sends it as it is.
Venue(t) == IF t \in Venues THEN t ELSE All

Load(s, f) ==
    /\ gen < MaxLoads /\ gen' = gen + 1
    /\ chains' = chains \cup
          {[n |-> gen + 1, home |-> s = "home", stage |-> "first",
            of |-> [f EXCEPT !.venue = IF s = "home" THEN Venue(@) ELSE @]]}

Visit(s) ==
    /\ screen = "away" /\ screen' = s
    /\ Load(s, filters)
    /\ summary' = None /\ drawn' = 0 /\ frame' = None
    /\ UNCHANGED <<trades, filters, fails>>

Leave ==
    /\ screen # "away" /\ screen' = "away" /\ frame' = None
    /\ UNCHANGED <<trades, filters, gen, chains, summary, drawn, fails>>

\* On the home screen there is the period to choose only.
Choose(f) ==
    /\ screen # "away" /\ f # filters /\ filters' = f
    /\ screen = "home" => f.venue = filters.venue
    /\ Load(screen, f)
    /\ UNCHANGED <<trades, screen, summary, drawn, frame, fails>>

\* A sync that was started elsewhere stores a trade, and the screen is told.
Refresh(t) ==
    /\ Cardinality(trades) < MaxTrades /\ t \notin trades /\ trades' = trades \cup {t}
    /\ IF screen = "away" THEN UNCHANGED <<gen, chains>> ELSE Load(screen, filters)
    /\ UNCHANGED <<screen, filters, summary, drawn, frame, fails>>

-----------------------------------------------------------------------------
(* Loads *)

Counts(c) == screen # "away" /\ c.n = gen

\* A total that changes is moved to from the one it was; a movement under way is cancelled.
Pnl(s) == IF s = None THEN 0 ELSE s.total

Moves(s) == frame' = IF Pnl(s) = Pnl(summary) \/ screen # "home" THEN frame ELSE Pnl(s)

Shows(c, s) ==
    IF Counts(c) THEN summary' = s /\ Moves(s) ELSE UNCHANGED <<summary, frame>>

Goes(c, to) == chains' = (chains \ {c}) \cup to

\* Without trades, a filter of a venue or a period is asked again without the venue.
Empty(c) == c.home /\ c.stage = "first" /\ Found(c.of) = {} /\ c.of # Whole

Widened(c) ==
    /\ Empty(c)
    /\ Goes(c, {[c EXCEPT !.stage = "wider", !.of.venue = All]})
    /\ UNCHANGED <<trades, screen, filters, gen, summary, drawn, frame, fails>>

Answered(c) ==
    /\ ~ Empty(c)
    /\ Goes(c, {})
    /\ Shows(c, [of |-> c.of, stage |-> c.stage,
                 count |-> Cardinality(Found(c.of)), total |-> Total(Found(c.of))])
    /\ UNCHANGED <<trades, screen, filters, gen, drawn, fails>>

\* The home screen asks for all there is, once; without that there is no summary.
Fails(c) ==
    /\ fails < MaxFails /\ fails' = fails + 1
    /\ IF c.home /\ c.stage # "whole"
       THEN Goes(c, {[c EXCEPT !.stage = "whole", !.of = Whole]}) /\ UNCHANGED <<summary, frame>>
       ELSE Goes(c, {}) /\ Shows(c, None)
    /\ UNCHANGED <<trades, screen, filters, gen, drawn>>

\* The movement ends.
Arrive ==
    /\ frame # None /\ frame' = None /\ drawn' = frame
    /\ UNCHANGED <<trades, screen, filters, gen, chains, summary, fails>>

-----------------------------------------------------------------------------
(* What the home screen makes of it *)

\* The mood without bubbles, when none is chosen for a preview.
Mood ==
    IF summary = None \/ summary.count = 0 THEN "idle"
    ELSE IF summary.total >= 1 THEN "good" ELSE IF summary.total <= -1 THEN "bad" ELSE "ok"

\* The question after the position is ticked off.
PositionDone == summary # None /\ summary.count > 0

-----------------------------------------------------------------------------
Next ==
    \/ \E s \in {"home", "review"} : Visit(s)
    \/ Leave
    \/ \E f \in Filters : Choose(f)
    \/ \E t \in Trades : Refresh(t)
    \/ \E c \in chains : Widened(c) \/ Answered(c) \/ Fails(c)
    \/ Arrive

Spec == Init /\ [][Next]_vars

-----------------------------------------------------------------------------
(* Properties *)

\* The load that counts has ended.
Loaded == screen # "away" /\ ~ \E c \in chains : c.n = gen

\* Loaded, the summary is of the period that is chosen, unless its load failed and it is of
\* everything, whatever loads were overtaken; on the review page it is of the venue as well.
SummaryOfFilters ==
    Loaded /\ summary # None =>
        /\ summary.stage # "whole" => summary.of.period = filters.period
        /\ screen = "review" => summary.of.venue = filters.venue

\* Loaded and nothing failed, the home screen is idle only where the period has no trade at any
\* venue, and ticks the position off where it has one.
IdleIsNothing ==
    LET exist == Found([period |-> filters.period, venue |-> All]) # {}
    IN  Loaded /\ screen = "home" /\ summary # None /\ summary.stage # "whole" =>
            (Mood = "idle" <=> ~ exist) /\ (PositionDone <=> exist)

\* When nothing moves the total that is drawn is the summary's, however often it changed.
DrawnIsTotal == screen = "home" /\ frame = None => drawn = Pnl(summary)

\* What the screens say of the trades is so.
TotalsFit == SummaryOfFilters /\ IdleIsNothing /\ DrawnIsTotal
=============================================================================
