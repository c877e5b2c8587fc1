------------------------------ MODULE ChartReplay ------------------------------
(***************************************************************************)
(* The replay of the chart screen (components/chart/ChartReplay.tsx and    *)
(* the replay part of stores/reviewStore.ts): a panel under the chart that *)
(* hides the candles after a moment and moves the moment by hand or with a *)
(* timer.  The chart owns the candles and what it displays of them; the    *)
(* store, which outlives the panel, owns the moment.                       *)
(*                                                                         *)
(* A step is a handler, the timer or an answer with the effects it sets    *)
(* off: the panel's before the chart's, and again after they have set      *)
(* something.  Loads are the candles the chart may load, from one time to  *)
(* another; the step of a timeframe is in the same units.  The speed only  *)
(* paces the timer and is left out.  MaxEvents bounds the chart's changes. *)
(***************************************************************************)
EXTENDS Integers

CONSTANTS Loads, Empty, Steps, MaxEvents

LoadAssumption ==
    /\ \A k \in Loads : k.from \in Nat /\ k.to \in Nat /\ k.from <= k.to
    /\ Empty.from \in Nat /\ Empty.to \in Nat /\ Empty.to < Empty.from /\ Empty \notin Loads
StepAssumption == Steps \subseteq Nat \ {0} /\ Steps # {} /\ MaxEvents \in Nat

VARIABLES
    klines, step,       \* of the chart; timeframeSeconds
    display,            \* displayKlines
    panel,              \* showReplay
    active, now, end, playing, \* the store's replay
    events,
    crossed, foreign    \* history: candles changed since display, since the replay began

vars == <<klines, step, display, panel, active, now, end, playing, events, crossed, foreign>>
replay == <<active, now, end, playing>>

Candles(k) == k.from .. k.to
Has(k) == k # Empty

TypeOK ==
    /\ klines \in Loads \cup {Empty} /\ step \in Steps /\ display \subseteq Nat
    /\ panel \in BOOLEAN /\ active \in BOOLEAN /\ playing \in BOOLEAN
    /\ now \in Nat /\ end \in Nat
    /\ events \in 0 .. MaxEvents /\ crossed \in BOOLEAN /\ foreign \in BOOLEAN

Init ==
    /\ klines = Empty /\ step \in Steps /\ display = {}
    /\ panel = FALSE
    /\ active = FALSE /\ now = 0 /\ end = 0 /\ playing = FALSE
    /\ events = 0 /\ crossed = FALSE /\ foreign = FALSE

-----------------------------------------------------------------------------
(* Effects *)

\* Seventy percent of the way through the candles.
Begin(k) == k.from + (7 * (k.to - k.from)) \div 10

Filtered(k, at) == {t \in Candles(k) : t <= at}

\* The panel is there, with candles and without a replay: it begins one.
Begins(k, shown, on) == shown /\ Has(k) /\ ~ on

\* The store after a step that leaves it with on, at, last and play.
Store(k, shown, on, at, last, play) ==
    IF Begins(k, shown, on)
    THEN active' = TRUE /\ now' = Begin(k) /\ end' = k.to /\ playing' = FALSE /\ foreign' = FALSE
    ELSE active' = on /\ now' = at /\ end' = last /\ playing' = play
         /\ foreign' = (foreign \/ k # klines)

\* What the chart displays: the panel filters when the replay began or moved; the chart,
\* after it, takes all candles when these have.
Display(k, shown, began) ==
    IF shown /\ (~ panel \/ began \/ now' # now)
    THEN /\ display' = IF active' /\ Has(k) THEN Filtered(k, now') ELSE Candles(k)
         /\ crossed' = FALSE
    ELSE IF k # klines THEN display' = Candles(k) /\ crossed' = TRUE
    ELSE UNCHANGED <<display, crossed>>

Commit(k, shown, on, at, last, play) ==
    /\ klines' = k /\ panel' = shown
    /\ Store(k, shown, on, at, last, play)
    /\ Display(k, shown, Begins(k, shown, on))

-----------------------------------------------------------------------------
(* Steps *)

Event == events < MaxEvents /\ events' = events + 1

\* Other candles: another symbol or timeframe, older or newer ones.
CandlesArrive(k) ==
    /\ Event /\ k # klines
    /\ Commit(k, panel, active, now, end, playing)
    /\ UNCHANGED step

PickFrame(s) ==
    /\ Event /\ s # step /\ step' = s
    /\ UNCHANGED <<klines, display, panel, replay, crossed, foreign>>

ShowReplay ==
    /\ Event /\ ~ panel
    /\ Commit(klines, TRUE, active, now, end, playing)
    /\ UNCHANGED step

\* Hiding the panel clears its timer and leaves the store and the display as they are.
HideReplay ==
    /\ panel /\ panel' = FALSE
    /\ UNCHANGED <<klines, step, display, replay, events, crossed, foreign>>

\* The slider and the buttons beside play are disabled while it plays.
Controls == panel /\ active /\ Has(klines)
ByHand == Controls /\ ~ playing

SetReplayTime(t) ==
    /\ Commit(klines, panel, active, t, end, playing)
    /\ UNCHANGED <<step, events>>

Slide(t) == ByHand /\ SetReplayTime(t)

StepBack ==
    /\ ByHand
    /\ SetReplayTime(IF now - step > klines.from THEN now - step ELSE klines.from)

StepForward ==
    /\ ByHand
    /\ SetReplayTime(IF now + step < klines.to THEN now + step ELSE klines.to)

TogglePlay ==
    /\ Controls
    /\ Event
    /\ playing' = ~ playing
    /\ UNCHANGED <<klines, step, display, panel, active, now, end, crossed, foreign>>

\* Stop resets the store and hands over all candles; the panel is still there.
Stop ==
    /\ Controls
    /\ Commit(klines, panel, FALSE, 0, 0, FALSE)
    /\ UNCHANGED <<step, events>>

\* Mutant: at the end the timer only stops.
TickStops ==
    /\ panel /\ active /\ playing
    /\ IF now + step >= end
       THEN Commit(klines, panel, active, now, end, FALSE)
       ELSE Commit(klines, panel, active, now + step, end, TRUE)
    /\ UNCHANGED <<step, events>>

\* The timer: one candle on, or to the end of the replay, where it stops.
Tick ==
    /\ panel /\ active /\ playing
    /\ IF now + step >= end
       THEN Commit(klines, panel, active, end, end, FALSE)
       ELSE Commit(klines, panel, active, now + step, end, TRUE)
    /\ UNCHANGED <<step, events>>

Next ==
    \/ \E k \in Loads \cup {Empty} : CandlesArrive(k)
    \/ \E s \in Steps : PickFrame(s)
    \/ ShowReplay \/ HideReplay
    \/ \E t \in Candles(klines) : Slide(t)
    \/ StepBack \/ StepForward
    \/ TogglePlay \/ Stop \/ Tick

Spec == Init /\ [][Next]_vars

\* The browser fires the panel's timer.
FairSpec == Spec /\ WF_vars(Tick)

-----------------------------------------------------------------------------
(* Properties *)

\* With the panel up, the chart displays exactly the candles up to the moment, unless the
\* candles were replaced after the panel had filtered them.
FutureHidden == panel /\ active /\ Has(klines) /\ ~ crossed => display = Filtered(klines, now)

\* A replay that comes to its end by itself has shown every candle, unless the candles
\* changed since it began.
ShowsAllAtEnd == Tick /\ ~ playing' /\ ~ foreign => display' = Candles(klines)
EndShowsAll == [][ShowsAllAtEnd]_vars

\* Playing ends, as long as the panel is up.
Plays == playing /\ panel
PlayEnds == Plays ~> ~ Plays
=============================================================================
