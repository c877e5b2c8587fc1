------------------------------- MODULE GuidedDays -------------------------------
(***************************************************************************)
(* What the server asks about from day to day (guided_review_repository_   *)
(* impl.go): the trades of a day that its review covers, those after its   *)
(* completion that are supplemented or carried over to the next day, and   *)
(* the streak of completed days.                                           *)
(*                                                                         *)
(* One user and one symbol, its fills far enough apart to be bundles of    *)
(* their own; moments are the order in which things happen.  Completing    *)
(* marks the review first and then reads and writes the streak, without a  *)
(* lock, so that two completions overlap.                                  *)
(***************************************************************************)
EXTENDS Integers, FiniteSets

CONSTANTS LastDay, MaxTrades, MaxCompletions, Requests, None

DaysAssumption == LastDay \in Nat \ {0} /\ MaxTrades \in Nat /\ MaxCompletions \in Nat

Days == 1 .. LastDay

VARIABLES
    day, clock,         \* today; moments so far
    trades,             \* the moments of each day's trades
    loaded,             \* days whose review was made
    completed,          \* when a day's review was completed last; 0: it was not
    rows,               \* the items of each day
    streak,             \* current_streak, last_review_date (0: none)
    busy,               \* completions under way: the day and the streak that was read
    done                \* completions so far

vars == <<day, clock, trades, loaded, completed, rows, streak, busy, done>>

\* count is trade_count, of the trades whose moments are known to be covered.
Item(kind, n, from, about) ==
    [kind |-> kind, count |-> n, from |-> from, about |-> about, answered |-> FALSE]

TypeOK ==
    /\ day \in Days /\ clock \in Nat /\ loaded \subseteq Days
    /\ trades \in [Days -> SUBSET (1 .. clock)]
    /\ completed \in [Days -> 0 .. clock]
    /\ \A d \in Days : \A it \in rows[d] : it.kind \in {"plan", "supplement", "rollover"} /\ it.count >= 0
    /\ streak.current \in 0 .. LastDay /\ streak.last \in 0 .. LastDay
    /\ \A r \in Requests : busy[r] = None \/ busy[r].d \in Days

Init ==
    /\ day = 1 /\ clock = 0
    /\ trades = [d \in Days |-> {}]
    /\ loaded = {} /\ completed = [d \in Days |-> 0]
    /\ rows = [d \in Days |-> {}]
    /\ streak = [current |-> 0, last |-> 0]
    /\ busy = [r \in Requests |-> None] /\ done = 0

Trade ==
    /\ Cardinality(UNION {trades[d] : d \in Days}) < MaxTrades
    /\ clock' = clock + 1
    /\ trades' = [trades EXCEPT ![day] = @ \cup {clock + 1}]
    /\ UNCHANGED <<day, loaded, completed, rows, streak, busy, done>>

NewDay ==
    /\ day < LastDay /\ day' = day + 1
    /\ UNCHANGED <<clock, trades, loaded, completed, rows, streak, busy, done>>

-----------------------------------------------------------------------------
(* Today's review *)

\* Mutant: every trade of the day comes after its completion.
AfterAny(d) == trades[d]

\* aggregateTradesAfter
After(d) == {t \in trades[d] : t > completed[d]}

\* The sum of the counts of items.
Count(its) == Cardinality(UNION {{it} \X (1 .. it.count) : it \in its})

Counted(d, kind) == Count({it \in rows[d] : it.kind = kind})

\* The trades there are when the review is made; a day without any has one item of its own.
FirstItems(d) ==
    IF d \in loaded THEN rows[d] ELSE {Item("plan", Cardinality(trades[d]), d, trades[d])}

RolledOver(d) == \E it \in rows[d] : it.kind = "rollover"

\* Once, and by counts: of the trades after yesterday's completion those beyond its
\* supplements, answered or not.
Rollover(d) ==
    LET p == d - 1
        delta == Cardinality(After(p)) - Counted(p, "supplement")
    IN  IF p \in Days /\ completed[p] # 0 /\ ~ RolledOver(d) /\ delta > 0
        THEN {Item("rollover", delta, p, {})}
        ELSE {}

\* An unanswered supplement is made anew; an answered one is kept, and no other is made.
Supplemented(d, its) ==
    IF completed[d] # 0 /\ After(d) # {}
       /\ ~ \E it \in its : it.kind = "supplement" /\ it.answered
    THEN {it \in its : it.kind # "supplement"}
         \cup {Item("supplement", Cardinality(After(d)), d, After(d))}
    ELSE its

GetOrCreateToday ==
    /\ loaded' = loaded \cup {day}
    /\ rows' = [rows EXCEPT ![day] = Supplemented(day, FirstItems(day) \cup Rollover(day))]
    /\ UNCHANGED <<day, clock, trades, completed, streak, busy, done>>

SubmitItem(d, it) ==
    /\ it \in rows[d] /\ ~ it.answered
    /\ rows' = [rows EXCEPT ![d] = (@ \ {it}) \cup {[it EXCEPT !.answered = TRUE]}]
    /\ UNCHANGED <<day, clock, trades, loaded, completed, streak, busy, done>>

-----------------------------------------------------------------------------
(* Completion; a page left open completes the review of an earlier day *)

CompleteReview(r, d) ==
    /\ done < MaxCompletions /\ done' = done + 1
    /\ busy[r] = None /\ d \in loaded /\ \A it \in rows[d] : it.answered
    /\ clock' = clock + 1
    /\ completed' = [completed EXCEPT ![d] = clock + 1]
    /\ busy' = [busy EXCEPT ![r] = [d |-> d, read |-> None]]
    /\ UNCHANGED <<day, trades, loaded, rows, streak>>

ReadStreak(r) ==
    /\ busy[r] # None /\ busy[r].read = None
    /\ busy' = [busy EXCEPT ![r].read = streak]
    /\ UNCHANGED <<day, clock, trades, loaded, completed, rows, streak, done>>

NextStreak(s, d) ==
    CASE s.last = d -> s
      [] s.last # 0 /\ s.last = d - 1 -> [current |-> s.current + 1, last |-> d]
      [] OTHER -> [current |-> 1, last |-> d]

\* The first streak is inserted, which fails when another completion was first.
WriteStreak(r) ==
    /\ busy[r] # None /\ busy[r].read # None
    /\ streak' = IF \/ busy[r].read.last = busy[r].d
                    \/ busy[r].read.last = 0 /\ streak.last # 0
                 THEN streak
                 ELSE NextStreak(busy[r].read, busy[r].d)
    /\ busy' = [busy EXCEPT ![r] = None]
    /\ UNCHANGED <<day, clock, trades, loaded, completed, rows, done>>

Next ==
    \/ Trade \/ NewDay \/ GetOrCreateToday
    \/ \E d \in Days : \E it \in rows[d] : SubmitItem(d, it)
    \/ \E r \in Requests : \/ \E d \in Days : CompleteReview(r, d)
                           \/ ReadStreak(r) \/ WriteStreak(r)

Spec == Init /\ [][Next]_vars

-----------------------------------------------------------------------------
(* Properties *)

\* No trade is asked about twice: what all days' items count of a day's trades never
\* exceeds the trades of that day.
NothingAskedTwice ==
    \A d \in Days :
        Count({it \in UNION {rows[e] : e \in Days} : it.from = d}) <= Cardinality(trades[d])

\* The streak is a run of completed days that ends with its last day, however completions
\* of several days overlap.
StreakIsARun ==
    \A k \in 0 .. streak.current - 1 :
        streak.last - k \in Days /\ completed[streak.last - k] # 0

\* Over the days every trade is asked about once, and the streak counts what was done.
DaysAreSound == NothingAskedTwice /\ StreakIsARun
=============================================================================
