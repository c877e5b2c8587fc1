------------------------------ MODULE ReviewFetches ------------------------------
(***************************************************************************)
(* The statistics of the home screen (HomeSnapshot.tsx) and of the review  *)
(* page (app/(app)/review/page.tsx): both fetch them into one store        *)
(* (stores/reviewStore.ts) under filters they share, and call no request   *)
(* back; the chart of the trend fetches for itself.                        *)
(*                                                                         *)
(* An answer is the filters it is of.  The period is one of two, and the   *)
(* outcome period goes with it; asset class is a further field like the    *)
(* venue, which is typed as free text: Partial is a text no venue is       *)
(* recognised in.                                                          *)
(***************************************************************************)
EXTENDS Integers, FiniteSets

CONSTANTS Venues, Partial, All, None, MaxAsks, MaxFails

BoundAssumption == {MaxAsks, MaxFails} \subseteq Nat

Periods == {"7d", "all"}
Texts == Venues \cup {Partial, All}
Filters == [period : Periods, venue : Texts]
Kinds == {"stats", "accuracy", "calendar", "trend"}
Flags == {"main", "accuracy", "trend"}
Answers == [of : Filters, n : Nat]

NoneAssumption == None \notin Answers

VARIABLES
    screen, filters,    \* the filters outlive the screen and the page
    data,               \* per kind: None or what was answered, and to which request
    busy,               \* isLoading, isLoadingAccuracy, and the chart's
    trend,              \* the chart of the trend is there
    wire, asks, last,   \* requests; how many there were; per kind, the last of them
    updated, gate,      \* the home screen has a time; its requests that have not ended
    fails, failed       \* bound, and history: kinds of which a request failed

vars == <<screen, filters, data, busy, trend, wire, asks, last, updated, gate, fails, failed>>

TypeOK ==
    /\ screen \in {"home", "review", "away"} /\ filters \in Filters
    /\ \A k \in Kinds : data[k] = None \/ (data[k].of \in Filters /\ data[k].n \in 1 .. last[k])
    /\ busy \in [Flags -> BOOLEAN] /\ {updated, trend} \subseteq BOOLEAN
    /\ \A r \in wire : r.n \in 1 .. last[r.k]
    /\ gate \subseteq wire /\ failed \subseteq Kinds
    /\ asks \in 0 .. MaxAsks + 1 /\ fails \in 0 .. MaxFails

Init ==
    /\ screen = "away" /\ filters \in Filters
    /\ data = [k \in Kinds |-> None] /\ busy = [b \in Flags |-> FALSE] /\ trend = FALSE
    /\ wire = {} /\ asks = 0 /\ last = [k \in Kinds |-> 0]
    /\ updated = FALSE /\ gate = {} /\ fails = 0 /\ failed = {}

-----------------------------------------------------------------------------
(* Filters *)

\* A text that names no venue is no filter.
Venue(t) == IF t \in Venues THEN t ELSE All

\* The filters a request of a kind carries.
Params(k, f) ==
    [period |-> IF k = "calendar" THEN "all" ELSE f.period,
     venue |-> IF k = "trend" THEN All ELSE Venue(f.venue)]

Flag(k) == IF k \in {"accuracy", "trend"} THEN k ELSE "main"

OnHome == {"stats", "accuracy"}
OnReview == {"stats", "accuracy", "calendar"} \cup (IF trend THEN {"trend"} ELSE {})

-----------------------------------------------------------------------------
(* Fetching *)

Requests(ks, times, f) == {[k |-> k, of |-> Params(k, f), n |-> n] : k \in ks, n \in asks + 1 .. asks + times}

\* Each kind in ks is asked for, so many times at once.
Ask(ks, times, f, w) ==
    /\ asks < MaxAsks /\ asks' = asks + times
    /\ wire' = w \cup Requests(ks, times, f)
    /\ last' = [k \in Kinds |-> IF k \in ks THEN asks + times ELSE last[k]]
    /\ busy' = [b \in Flags |-> busy[b] \/ \E k \in ks : Flag(k) = b]

\* The home screen asks once and waits for both answers.
GoHome ==
    /\ screen = "away" /\ screen' = "home"
    /\ Ask(OnHome, 1, filters, wire)
    /\ updated' = FALSE /\ gate' = Requests(OnHome, 1, filters)
    /\ UNCHANGED <<filters, data, trend, fails, failed>>

\* The review page asks for everything twice as it opens: two effects do.
GoReview ==
    /\ screen = "away" /\ screen' = "review"
    /\ Ask(OnReview, 2, filters, wire)
    /\ UNCHANGED <<filters, data, trend, updated, gate, fails, failed>>

NoTrend == {r \in wire : r.k # "trend"}

GoAway ==
    /\ screen # "away" /\ screen' = "away"
    /\ gate' = {} /\ trend' = FALSE /\ wire' = NoTrend
    /\ UNCHANGED <<filters, data, busy, asks, last, updated, fails, failed>>

\* The home screen asks again with the period, and waits for these from now on.
ChoosePeriod(p) ==
    /\ screen = "home" /\ p # filters.period
    /\ filters' = [filters EXCEPT !.period = p]
    /\ Ask(OnHome, 1, filters', wire)
    /\ gate' = Requests(OnHome, 1, filters')
    /\ UNCHANGED <<screen, data, trend, updated, fails, failed>>

\* The chart of the trend depends on the period alone.
Filter(f) ==
    /\ screen = "review" /\ f # filters /\ filters' = f
    /\ f.period = filters.period \/ f.venue = filters.venue
    /\ Ask(IF f.period = filters.period THEN OnReview \ {"trend"} ELSE OnReview, 1, f, wire)
    /\ UNCHANGED <<screen, data, trend, updated, gate, fails, failed>>

\* The chart starts without data, and takes none that is meant for one before it.
ShowTrend ==
    /\ screen = "review" /\ ~ trend /\ trend' = TRUE
    /\ Ask({"trend"}, 1, filters, NoTrend)
    /\ data' = [data EXCEPT !["trend"] = None] /\ failed' = failed \ {"trend"}
    /\ UNCHANGED <<screen, filters, updated, gate, fails>>

HideTrend ==
    /\ trend /\ trend' = FALSE /\ wire' = NoTrend
    /\ UNCHANGED <<screen, filters, data, busy, asks, last, updated, gate, fails, failed>>

\* A sync that was started elsewhere has ended, and the screen is told.
Refresh ==
    /\ screen # "away"
    /\ Ask(IF screen = "home" THEN OnHome ELSE OnReview \ {"trend"}, 1, filters, wire)
    /\ UNCHANGED <<screen, filters, data, trend, updated, gate, fails, failed>>

\* Mutant: the calendar's answer ends the loading of the accuracy.
EndedBoth(k) == [busy EXCEPT ![Flag(k)] = FALSE, !["accuracy"] = @ /\ k # "calendar"]

Ended(k) == [busy EXCEPT ![Flag(k)] = FALSE]

\* A request ends, with the last that is waited for the home screen has its time.
Settled(r) ==
    /\ wire' = wire \ {r} /\ busy' = Ended(r.k)
    /\ gate' = gate \ {r} /\ updated' = (updated \/ gate = {r})
    /\ UNCHANGED <<screen, filters, trend, asks, last>>

\* The answer stays, whichever request it is to.
Answered(r) ==
    /\ Settled(r)
    /\ data' = [data EXCEPT ![r.k] = [of |-> r.of, n |-> r.n]]
    /\ UNCHANGED <<fails, failed>>

Failed(r) ==
    /\ fails < MaxFails /\ fails' = fails + 1 /\ failed' = failed \cup {r.k}
    /\ Settled(r)
    /\ UNCHANGED data

-----------------------------------------------------------------------------
\* A card: loading, without data, or with.
Card(k) == IF busy[Flag(k)] THEN "loading" ELSE IF data[k] = None THEN "nothing" ELSE "data"

Kept == IF screen = "home" THEN OnHome ELSE OnReview

Next ==
    \/ GoHome \/ GoReview \/ GoAway
    \/ \E p \in Periods : ChoosePeriod(p)
    \/ \E f \in Filters : Filter(f)
    \/ ShowTrend \/ HideTrend \/ Refresh
    \/ \E r \in wire : Answered(r) \/ Failed(r)

Spec == Init /\ [][Next]_vars

-----------------------------------------------------------------------------
(* Properties *)

\* What the last request of a kind answered is of the filters that are set: no change of theirs,
\* on either screen, is without its request.
DataOfFilters ==
    screen # "away" =>
        \A k \in Kept : data[k] # None /\ data[k].n = last[k] => data[k].of = Params(k, filters)

\* Accuracy and trend are called missing only when none is on its way, unless one failed.  (The
\* statistics share their flag with the calendar, and have no such promise.)
MissingIsFinal ==
    \A k \in {"accuracy", "trend"} \cap Kept :
        Card(k) = "nothing" /\ k \notin failed => \A r \in wire : r.k # k

\* The home screen has a time once the requests it waits for have both ended: with the first time
\* statistics and accuracy are there, unless one failed.
UpdatedHasData ==
    screen = "home" /\ updated => \A k \in OnHome : data[k] # None \/ k \in failed

\* What the screens say of their figures is so.
FiguresFit == DataOfFilters /\ MissingIsFinal /\ UpdatedHasData
=============================================================================
