------------------------------ MODULE ChartCandles ------------------------------
(***************************************************************************)
(* The candles of the chart screen (components-old/Chart.tsx): the symbol  *)
(* comes from the address, the list of symbols or the selector; an effect  *)
(* loads the latest candles of symbol and timeframe; scrolling and two     *)
(* buttons load older and newer ones, which no effect cancels; a link may  *)
(* ask for a moment and a timeframe (focus_ts, focus_tf).                  *)
(*                                                                         *)
(* A step is a handler or an answer together with the effects it sets off, *)
(* which run in the order of the file.  A candle is the symbol and         *)
(* timeframe it was loaded for, at a time in 1 .. Now; the server sends    *)
(* Limit of them (500).  MaxEvents bounds what the user and the refresh    *)
(* event do.                                                               *)
(***************************************************************************)
EXTENDS Naturals, FiniteSets

CONSTANTS
    Symbols, Supported,     \* symbols; the ones with a source of candles
    Frames, Day,            \* timeframes; the one every symbol begins with, 1d
    Nothing, Csv,           \* no symbol or timeframe; the tag of uploaded candles
    Now, Limit,
    MaxEvents

SymbolAssumption == Supported \subseteq Symbols /\ Day \in Frames
TagAssumption == Nothing \notin Symbols \cup Frames /\ Csv \notin Symbols \cup Frames
TimeAssumption == Now \in Nat \ {0} /\ Limit \in Nat \ {0} /\ MaxEvents \in Nat

VARIABLES
    address, focus,         \* the symbol of the address; focus_tf, its moment being 1
    selected, frame, source, stock, \* selectedSymbol, timeframe, dataSource, stockKlines
    klines, loading, error,
    loads, more,            \* requests under way: the effect's, loadMoreHistory's and -Future's
    drawn,                  \* what the handlers of the chart drawn last were made with
    rested,                 \* the cooldown of the history is over
    focused, view,          \* focusQueryRef; where the chart looks
    events,
    crossed, abandoned      \* history, see the properties

vars == <<address, focus, selected, frame, source, stock, klines, loading, error, loads, more,
          drawn, rested, focused, view, events, crossed, abandoned>>

Times == 1 .. Now
Tags == [symbol : Symbols \cup {Csv}, frame : Frames \cup {Csv}]
Uploaded == [t \in Times |-> [symbol |-> Csv, frame |-> Csv]]
NoCandles == [t \in {} |-> Nothing]
Key(s, f) == [symbol |-> s, frame |-> f]
Keys == [symbol : Symbols \cup {Nothing}, frame : Frames]

TypeOK ==
    /\ address \in Symbols \cup {Nothing} /\ focus \in Frames \cup {Nothing}
    /\ selected \in Symbols \cup {Nothing} /\ frame \in Frames
    /\ source \in {"crypto", "stock"} /\ stock \in BOOLEAN
    /\ DOMAIN klines \subseteq Times /\ \A t \in DOMAIN klines : klines[t] \in Tags
    /\ loading \in BOOLEAN /\ error \in BOOLEAN
    /\ \A l \in loads : l.key \in Keys /\ l.live \in BOOLEAN
    /\ \A m \in more : m.key \in Keys /\ m.edge \in Times /\ m.to \in {"history", "future"}
    /\ drawn \in Keys /\ rested \in BOOLEAN
    /\ focused \in BOOLEAN /\ view \in {"recent", "moment"}
    /\ events \in 0 .. MaxEvents /\ crossed \in BOOLEAN /\ abandoned \in BOOLEAN

Oldest(k) == CHOOSE t \in DOMAIN k : \A u \in DOMAIN k : t <= u
Latest(k) == CHOOSE t \in DOMAIN k : \A u \in DOMAIN k : t >= u
Has(k) == DOMAIN k # {}

Init ==
    /\ address \in Symbols \cup {Nothing} /\ focus \in Frames \cup {Nothing}
    /\ selected = Nothing /\ frame = Day /\ source = "crypto" /\ stock = FALSE
    /\ klines = NoCandles /\ loading = FALSE /\ error = FALSE
    /\ loads = {} /\ more = {}
    /\ drawn = Key(Nothing, Day) /\ rested = TRUE
    /\ focused = FALSE /\ view = "recent"
    /\ events = 0 /\ crossed = FALSE /\ abandoned = FALSE

-----------------------------------------------------------------------------
(* Server *)

\* GET /v1/market/klines: the last Limit candles up to a time.
Sent(key, upTo) == [t \in {u \in Times : u <= upTo /\ u + Limit > upTo} |-> key]

-----------------------------------------------------------------------------
(* Effects *)

Dead(ls) == {[l EXCEPT !.live = FALSE] : l \in ls}
Live(ls) == \E l \in ls : l.live

\* What the load effect does for a symbol: it is cancelled first.
LoadEffect(s, f, src, st) ==
    IF s = Nothing THEN UNCHANGED <<klines, loading, error, loads, abandoned>>
    ELSE IF src = "crypto" /\ s \notin Supported
    THEN /\ klines' = NoCandles /\ error' = TRUE /\ loads' = Dead(loads)
         /\ abandoned' = (abandoned \/ Live(loads)) /\ UNCHANGED loading
    ELSE IF src = "stock"
    THEN /\ klines' = IF st THEN Uploaded ELSE NoCandles
         /\ error' = ~ st /\ loads' = Dead(loads)
         /\ abandoned' = (abandoned \/ Live(loads)) /\ UNCHANGED loading
    ELSE /\ loads' = Dead(loads) \cup {[key |-> Key(s, f), live |-> TRUE]}
         /\ loading' = TRUE /\ error' = FALSE /\ abandoned' = FALSE
         /\ UNCHANGED klines

\* The chart is made anew whenever its candles or the timeframe change, and then shows
\* the most recent candles: this effect comes after the one that looks at the moment.
Draw(k, s, f, moment) ==
    IF k # klines \/ f # frame
    THEN /\ drawn' = Key(s, f)
         /\ view' = "recent"
    ELSE UNCHANGED drawn /\ view' = IF moment THEN "moment" ELSE view

\* The focus effect: first the timeframe, then, with candles, the moment, once.
Wants(f) == IF focus # Nothing /\ ~ focused THEN focus ELSE f
FocusesOn(k, f) == focus = f /\ ~ focused /\ Has(k)

\* One commit of the page for symbol, timeframe, source and uploads.
Show(s, chosen, src, st, again) ==
    LET f == IF s = Nothing THEN chosen ELSE Wants(chosen) IN
    /\ selected' = s /\ frame' = f /\ source' = src /\ stock' = st
    /\ IF again \/ <<s, f, src, st>> # <<selected, frame, source, stock>>
       THEN LoadEffect(s, f, src, st)
       ELSE UNCHANGED <<klines, loading, error, loads, abandoned>>
    /\ focused' = (focused \/ FocusesOn(klines', f))
    /\ Draw(klines', s, f, focused' /\ ~ focused)

-----------------------------------------------------------------------------
(* Steps *)

Event == events < MaxEvents /\ events' = events + 1

\* The symbols are there, for the first time or again after a refresh event: the symbol
\* of the address or the first one is selected, with timeframe 1d.
SymbolsArrive ==
    \E first \in Symbols :
        /\ selected = Nothing \/ events < MaxEvents
        /\ events' = IF selected = Nothing THEN events ELSE events + 1
        /\ address' = IF address = Nothing THEN first ELSE address
        /\ Show(address', Day, source, stock, FALSE)
        /\ UNCHANGED <<focus, more, rested, crossed>>

\* The selector and the quick picks: the address follows, and with it timeframe 1d.
SelectSymbol(s) ==
    /\ Event /\ selected # Nothing
    /\ address' = s
    /\ Show(s, Day, source, stock, FALSE)
    /\ UNCHANGED <<focus, more, rested, crossed>>

PickFrame(f) ==
    /\ Event /\ f # frame
    /\ Show(selected, f, source, stock, FALSE)
    /\ UNCHANGED <<address, focus, more, rested, crossed>>

PickSource(src) ==
    /\ Event /\ src # source
    /\ Show(selected, frame, src, stock, FALSE)
    /\ UNCHANGED <<address, focus, more, rested, crossed>>

\* A file of candles is uploaded: they are on the chart until the effect of the crypto
\* source has loaded its own again.
UploadStock ==
    /\ Event /\ selected # Nothing
    /\ Show(selected, frame, source, TRUE, TRUE)
    /\ UNCHANGED <<address, focus, more, rested, crossed>>

\* Mutant: the answer is taken whether or not its effect was cancelled.
LoadAnsweredAlways(l) ==
    /\ l \in loads
    /\ loads' = loads \ {l}
    /\ klines' = Sent(l.key, Now) /\ loading' = FALSE
    /\ crossed' = FALSE /\ abandoned' = FALSE
    /\ focused' = (focused \/ FocusesOn(klines', frame))
    /\ Draw(klines', selected, frame, FALSE)
    /\ UNCHANGED <<address, focus, selected, frame, source, stock, error, more, rested, events>>

LoadAnswered(l) ==
    /\ l \in loads
    /\ loads' = loads \ {l}
    /\ IF l.live
       THEN /\ klines' = Sent(l.key, Now) /\ loading' = FALSE
            /\ crossed' = FALSE /\ abandoned' = FALSE
            /\ focused' = (focused \/ FocusesOn(klines', frame))
            /\ Draw(klines', selected, frame, FALSE)
       ELSE UNCHANGED <<klines, loading, crossed, abandoned, focused, drawn, view>>
    /\ UNCHANGED <<address, focus, selected, frame, source, stock, error, more, rested, events>>

\* The candles stay: those of the symbol or timeframe before, if these were changed.
LoadFails(l) ==
    /\ l \in loads
    /\ loads' = loads \ {l}
    /\ IF l.live THEN error' = TRUE /\ loading' = FALSE /\ crossed' = TRUE /\ abandoned' = FALSE
                 ELSE UNCHANGED <<error, loading, crossed, abandoned>>
    /\ UNCHANGED <<address, focus, selected, frame, source, stock, klines, more, drawn,
                   rested, focused, view, events>>

\* loadMoreHistory from the chart's own handler, made with what was drawn, or from the
\* button, made with what is selected.
LoadHistory(key) ==
    /\ Event /\ rested /\ ~ loading /\ Has(klines) /\ key.symbol # Nothing
    /\ more' = more \cup {[to |-> "history", key |-> key, edge |-> Oldest(klines)]}
    /\ loading' = TRUE /\ rested' = FALSE
    /\ UNCHANGED <<address, focus, selected, frame, source, stock, klines, error, loads, drawn,
                   focused, view, crossed, abandoned>>

LoadFuture ==
    /\ Event /\ ~ loading /\ Has(klines) /\ selected # Nothing
    /\ more' = more \cup {[to |-> "future", key |-> Key(selected, frame), edge |-> Latest(klines)]}
    /\ loading' = TRUE
    /\ UNCHANGED <<address, focus, selected, frame, source, stock, klines, error, loads, drawn,
                   rested, focused, view, crossed, abandoned>>

\* Merging by time: for the history the candles there are win, for the future the new.
Merged(m) ==
    LET old == klines
        new == IF m.to = "history" THEN Sent(m.key, m.edge - 1) ELSE Sent(m.key, Now)
        both == DOMAIN old \cup DOMAIN new
    IN  [t \in both |-> IF m.to = "history"
                        THEN (IF t \in DOMAIN old THEN old[t] ELSE new[t])
                        ELSE (IF t \in DOMAIN new THEN new[t] ELSE old[t])]

\* History: the answer does not continue the candles that are on the chart now.
Continues(m) ==
    /\ m.key = Key(selected, frame)
    /\ Has(klines) /\ m.edge = IF m.to = "history" THEN Oldest(klines) ELSE Latest(klines)

MoreAnswered(m) ==
    /\ m \in more
    /\ more' = more \ {m}
    /\ loading' = FALSE /\ abandoned' = FALSE
    /\ klines' = Merged(m)
    /\ crossed' = (crossed \/ (klines' # klines /\ ~ Continues(m)))
    /\ focused' = (focused \/ FocusesOn(klines', frame))
    /\ Draw(klines', selected, frame, FALSE)
    /\ UNCHANGED <<address, focus, selected, frame, source, stock, error, loads, rested, events>>

MoreFails(m) ==
    /\ m \in more
    /\ more' = more \ {m}
    /\ loading' = FALSE /\ abandoned' = FALSE
    /\ UNCHANGED <<address, focus, selected, frame, source, stock, klines, error, loads, drawn,
                   rested, focused, view, events, crossed>>

\* Three seconds since the last load of history.
CooldownEnds ==
    /\ ~ rested /\ rested' = TRUE
    /\ UNCHANGED <<address, focus, selected, frame, source, stock, klines, loading, error, loads,
                   more, drawn, focused, view, events, crossed, abandoned>>

Next ==
    \/ SymbolsArrive \/ UploadStock
    \/ \E s \in Symbols : SelectSymbol(s)
    \/ \E f \in Frames : PickFrame(f)
    \/ \E src \in {"crypto", "stock"} : PickSource(src)
    \/ \E l \in loads : LoadAnswered(l) \/ LoadFails(l)
    \/ LoadHistory(drawn) \/ LoadHistory(Key(selected, frame)) \/ LoadFuture
    \/ \E m \in more : MoreAnswered(m) \/ MoreFails(m)
    \/ CooldownEnds

Spec == Init /\ [][Next]_vars

-----------------------------------------------------------------------------
(* Properties *)

Loaded == source = "crypto" /\ selected \in Supported /\ ~ Live(loads) /\ ~ crossed

\* With no load under way, every candle on the chart is of the symbol and timeframe on
\* the screen, unless the last load failed or an answer came that did not continue them.
CandlesBelong == Loaded => \A t \in DOMAIN klines : klines[t] = Key(selected, frame)

\* Under the same condition no candle between the oldest and the latest is missing.
NoGap ==
    Loaded /\ Has(klines) => \A t \in Oldest(klines) .. Latest(klines) : t \in DOMAIN klines

\* The flag that keeps older and newer candles from being loaded is only up while a
\* request is under way, or after one was cancelled in favour of a source without any.
LoadingIsHonest == loading => Live(loads) \/ more # {} \/ abandoned

\* The candles on the chart are those of its symbol and timeframe, all of them between the
\* oldest and the latest, and more can be had.
CandlesAreWhole == CandlesBelong /\ NoGap /\ LoadingIsHonest
=============================================================================
