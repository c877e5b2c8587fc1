------------------------------ MODULE ChartMarkers ------------------------------
(***************************************************************************)
(* The density of the chart's markers (components-old/Chart.tsx,           *)
(* densityAdjustedPositions): the entries of the overlay (ChartBoard) are  *)
(* gathered by day, week or month, cut to the range in view, thinned out   *)
(* to MaxMarkers (60) and gathered once more where they would overlap.     *)
(*                                                                         *)
(* An entry is a candle's time with what is on it, here the candle itself; *)
(* a marker stands for the candles whose entries it holds.  A day is Day   *)
(* candles long, and so on; a candle is Width pixels wide.                 *)
(***************************************************************************)
EXTENDS Naturals, FiniteSets, FiniteSetsExt

CONSTANTS
    Now,                        \* the latest candle
    Day, Week, Month, Width,
    SmartLimit, RecentLimit, MaxMarkers, \* 80, 60, 60
    Spacing                     \* the pixels a marker needs, by mode

Modes == {"smart", "recent", "daily", "weekly", "monthly", "all"}

SpanAssumption == {Now, Day, Week, Month, Width} \subseteq Nat \ {0}
LimitAssumption == {SmartLimit, RecentLimit, MaxMarkers} \subseteq Nat \ {0}
SpacingAssumption == Spacing \in [Modes -> Nat \ {0}]

VARIABLES overlay, densityMode, visibleRange

vars == <<overlay, densityMode, visibleRange>>

Times == 1 .. Now
Ranges == {r \in [from : Times, to : Times] : r.from <= r.to}
Whole == [from |-> 1, to |-> Now]

TypeOK == overlay \subseteq Times /\ densityMode \in Modes /\ visibleRange \in Ranges

Init == overlay = {} /\ densityMode = "smart" /\ visibleRange = Whole

-----------------------------------------------------------------------------
(* densityAdjustedPositions *)

\* Automatically: by day when there are many.
ModeFor(mode, times) ==
    IF mode # "smart" THEN mode ELSE IF Cardinality(times) > SmartLimit THEN "daily" ELSE "all"

\* A marker is at the time of its latest entry.
Marker(times) == [time |-> Max(times), holds |-> times]

Gathered(times, span) ==
    {Marker({u \in times : u \div span = t \div span}) : t \in times}

Recent(times) == {t \in times : Cardinality({u \in times : u > t}) < RecentLimit}

Grouped(times, mode) ==
    CASE mode = "daily" -> Gathered(times, Day)
      [] mode = "weekly" -> Gathered(times, Week)
      [] mode = "monthly" -> Gathered(times, Month)
      [] mode = "recent" -> {Marker({t}) : t \in Recent(times)}
      [] OTHER -> {Marker({t}) : t \in times}

InView(markers, range) == {m \in markers : range.from <= m.time /\ m.time <= range.to}

\* Every step-th of too many markers, from the first on.
Thinned(markers) ==
    LET step == (Cardinality(markers) + MaxMarkers - 1) \div MaxMarkers IN
    IF Cardinality(markers) <= MaxMarkers THEN markers
    ELSE {m \in markers : Cardinality({n \in markers : n.time < m.time}) % step = 0}

\* Mutant: every marker of a bucket stays where it is.
BucketedInPlace(markers, spacing) ==
    LET Together(m) == {n \in markers : (n.time * Width) \div spacing = (m.time * Width) \div spacing}
    IN  {[time |-> m.time, holds |-> UNION {n.holds : n \in Together(m)}] : m \in markers}

\* Markers in the same bucket of pixels become one, at the latest time.
Bucketed(markers, spacing) ==
    LET Bucket(m) == (m.time * Width) \div spacing
        Together(m) == {n \in markers : Bucket(n) = Bucket(m)}
    IN  {[time |-> Max({n.time : n \in Together(m)}), holds |-> UNION {n.holds : n \in Together(m)}] :
            m \in markers}

DensityAdjusted ==
    LET mode == ModeFor(densityMode, overlay)
    IN  Bucketed(Thinned(InView(Grouped(overlay, mode), visibleRange)), Spacing[mode])

\* What the summary says is shown: markers, and the entries they hold.
DensitySummary ==
    [markers |-> Cardinality(DensityAdjusted), totalMarkers |-> Cardinality(overlay),
     entries |-> Cardinality(UNION {m.holds : m \in DensityAdjusted})]

-----------------------------------------------------------------------------
(* Steps *)

\* updatePositions places the entries anew.
Place(times) == overlay' = times /\ UNCHANGED <<densityMode, visibleRange>>

SetDensity(mode) ==
    mode # densityMode /\ densityMode' = mode /\ UNCHANGED <<overlay, visibleRange>>

Scroll(range) == visibleRange' = range /\ UNCHANGED <<overlay, densityMode>>

Next ==
    \/ \E t \in Times \ overlay : Place(overlay \cup {t})
    \/ \E t \in overlay : Place(overlay \ {t})
    \/ \E m \in Modes : SetDensity(m)
    \/ \E r \in Ranges : Scroll(r)

Spec == Init /\ [][Next]_vars

-----------------------------------------------------------------------------
(* Properties *)

\* No entry is counted twice: markers hold different entries and stand at different times.
NothingTwice ==
    \A m, n \in DensityAdjusted : m # n => m.holds \cap n.holds = {} /\ m.time # n.time

\* However dense the entries, at most MaxMarkers are drawn.
LimitHolds == DensitySummary.markers <= MaxMarkers

\* With everything in view and no more groups than are drawn, the counts of the markers add
\* up to all entries (all of the recent ones in that mode).
CountsTrue ==
    LET mode == ModeFor(densityMode, overlay)
        times == IF mode = "recent" THEN Recent(overlay) ELSE overlay
    IN  visibleRange = Whole /\ Cardinality(Grouped(overlay, mode)) <= MaxMarkers
          => UNION {m.holds : m \in DensityAdjusted} = times

\* A marker in view stands at the time of an entry it holds.
AtOwnEntry == \A m \in DensityAdjusted : m.time \in m.holds /\ m.time \in visibleRange.from .. visibleRange.to

\* What is drawn stands for the entries: each once, in its place, and not too many.
MarkersAreTrue == NothingTwice /\ LimitHolds /\ CountsTrue /\ AtOwnEntry
=============================================================================
