------------------------------- MODULE TradesPage -------------------------------
(***************************************************************************)
(* The trade history (components-old/Trades.tsx): two effects ask the      *)
(* server for a page of trades and for a summary whenever what they        *)
(* depend on changes.  Neither effect is cancelled, so that the answers to *)
(* earlier requests arrive whenever they do.                               *)
(*                                                                         *)
(* Exchange, side and symbol are one filter; an answer is known by what it *)
(* was asked for; Count says how many trades the server has for a filter.  *)
(* MaxCalls bounds the requests.                                           *)
(***************************************************************************)
EXTENDS Naturals, FiniteSets

CONSTANTS
    Filters, Everything,    \* filters; the one of a fresh page
    Count,                  \* trades of each filter
    PageSize,               \* 25
    None,
    MaxCalls

FilterAssumption == Everything \in Filters /\ None \notin Filters
CountAssumption == Count \in [Filters -> Nat] /\ PageSize \in Nat \ {0}
CallBounds == MaxCalls \in Nat \ {0}   \* the page asks once as it opens

VARIABLES
    filter, newest, page,   \* exchange, side and symbol; sortOrder; currentPage
    calls, sums,            \* requests under way for the list and the summary
    shown, total, loading, error,               \* the list
    summary, summaryLoading, summaryError,      \* the summary
    asked, answered, sumAnswered,   \* requests numbered in their order; the last ones answered
    overtaken, sumOvertaken, misled             \* history, see the properties

list == <<calls, shown, total, loading, error>>
sum == <<sums, summary, summaryLoading, summaryError, sumAnswered, sumOvertaken>>
vars == <<filter, newest, page, list, sum, asked, answered, overtaken, misled>>

View(f, o, p) == [filter |-> f, newest |-> o, page |-> p]
Nothing == View(Everything, TRUE, 0)
Views == [filter : Filters, newest : BOOLEAN, page : Nat]

TypeOK ==
    /\ filter \in Filters /\ newest \in BOOLEAN /\ page \in Nat \ {0}
    /\ \A c \in calls : c.n \in 1 .. MaxCalls /\ c.view \in Views
    /\ \A c \in sums : c.n \in 1 .. MaxCalls /\ c.filter \in Filters
    /\ shown \in Views /\ total \in Nat /\ loading \in BOOLEAN /\ error \in BOOLEAN
    /\ summary \in Filters \cup {None} /\ summaryLoading \in BOOLEAN /\ summaryError \in BOOLEAN
    /\ {asked, answered, sumAnswered} \subseteq 0 .. MaxCalls
    /\ overtaken \in BOOLEAN /\ sumOvertaken \in BOOLEAN /\ misled \in BOOLEAN

Pages(n) == IF n = 0 THEN 1 ELSE (n + PageSize - 1) \div PageSize

\* Mutant: no end of the list stops the pager.
PagerOffersEnds(move) == ~ loading /\ Pages(total) > 1

\* The pager: it is disabled while the list is loading, and absent
\* while there is one page.
PagerOffers(move) ==
    /\ ~ loading /\ Pages(total) > 1
    /\ move = "previous" => page > 1
    /\ move = "next" => page < Pages(total)

\* The rows appear when nothing is loading and there is no error; the tiles take the
\* count of the summary, or of the list where that is missing or zero.
RowsShown == ~ loading /\ ~ error /\ shown.page # 0
TotalShown == IF summary # None /\ Count[summary] # 0 THEN Count[summary] ELSE total

-----------------------------------------------------------------------------
(* Effects *)

\* fetchTrades: one request for every view, numbered from n.
Fetch(views, n) ==
    /\ n + Cardinality(views) <= MaxCalls
    /\ loading' = TRUE /\ error' = FALSE
    /\ calls' = calls \cup {[n |-> n + v.k, view |-> v.view] : v \in views}
    /\ UNCHANGED <<shown, total>>

\* fetchSummary: it does not depend on the order.
FetchSummary(f, n) ==
    /\ summaryLoading' = TRUE /\ summaryError' = FALSE
    /\ sums' = sums \cup {[n |-> n, filter |-> f]}
    /\ UNCHANGED <<summary, sumAnswered, sumOvertaken>>

\* Rendering with another filter or order: the list effect asks for the page there is,
\* and, when that is not page one, again after the effect that turns back to it.
ViewsOf(f, o) == {[k |-> 1, view |-> View(f, o, page)]}
                    \cup (IF page = 1 THEN {} ELSE {[k |-> 2, view |-> View(f, o, 1)]})

Init ==
    /\ filter = Everything /\ newest = TRUE /\ page = 1
    /\ calls = {[n |-> 1, view |-> View(Everything, TRUE, 1)]}
    /\ sums = {[n |-> 1, filter |-> Everything]}
    /\ shown = Nothing /\ total = 0 /\ loading = TRUE /\ error = FALSE
    /\ summary = None /\ summaryLoading = TRUE /\ summaryError = FALSE
    /\ asked = 1 /\ answered = 0 /\ sumAnswered = 0
    /\ overtaken = FALSE /\ sumOvertaken = FALSE /\ misled = FALSE

\* Mutant: the order is missing from the dependencies of the list effect.
RefreshByFilter(f, o) ==
    /\ filter' = f /\ newest' = o /\ page' = 1
    /\ IF f # filter THEN Fetch(ViewsOf(f, o), asked) ELSE UNCHANGED list
    /\ IF f # filter THEN FetchSummary(f, asked + 1) ELSE UNCHANGED sum
    /\ asked' = IF f # filter THEN asked + Cardinality(ViewsOf(f, o)) ELSE asked
    /\ UNCHANGED <<answered, overtaken, misled>>

Refresh(f, o) ==
    /\ filter' = f /\ newest' = o /\ page' = 1
    /\ Fetch(ViewsOf(f, o), asked)
    /\ IF f # filter THEN FetchSummary(f, asked + 1) ELSE UNCHANGED sum
    /\ asked' = asked + Cardinality(ViewsOf(f, o))
    /\ UNCHANGED <<answered, overtaken, misled>>

\* The filters are always offered, while anything is loading too.
SetFilter(f) == f # filter /\ Refresh(f, newest)
SetSort == Refresh(filter, ~ newest)
ResetFilters == (filter # Everything \/ ~ newest) /\ Refresh(Everything, TRUE)

Turn(p) ==
    /\ p # page
    /\ page' = p
    /\ Fetch({[k |-> 1, view |-> View(filter, newest, p)]}, asked)
    /\ asked' = asked + 1
    /\ UNCHANGED <<filter, newest, sum, answered, overtaken, misled>>

\* jumpToPage: below one the number typed is put back, above the last page it is that.
Move ==
    \/ PagerOffers("previous") /\ (Turn(1) \/ Turn(page - 1))
    \/ PagerOffers("next") /\ (Turn(Pages(total)) \/ Turn(page + 1))
    \/ \E p \in 1 .. Pages(total) : PagerOffers("jump") /\ Turn(p)

-----------------------------------------------------------------------------
(* Answers, in any order *)

\* History: an answer after that of a later request; one for a filter that is gone.
Arrived(c, ok) ==
    /\ calls' = calls \ {c}
    /\ answered' = IF c.n > answered THEN c.n ELSE answered
    /\ overtaken' = (overtaken \/ c.n < answered)
    /\ misled' = (misled \/ c.view.filter # filter \/ ~ ok)
    /\ UNCHANGED <<filter, newest, page, sum, asked>>

ListAnswered(c) ==
    /\ c \in calls
    /\ shown' = c.view /\ total' = Count[c.view.filter]
    /\ loading' = FALSE
    /\ UNCHANGED error
    /\ Arrived(c, TRUE)

ListFails(c) ==
    /\ c \in calls
    /\ error' = TRUE /\ loading' = FALSE
    /\ UNCHANGED <<shown, total>>
    /\ Arrived(c, FALSE)

SummaryArrived(c) ==
    /\ sums' = sums \ {c}
    /\ summaryLoading' = FALSE
    /\ sumAnswered' = IF c.n > sumAnswered THEN c.n ELSE sumAnswered
    /\ sumOvertaken' = (sumOvertaken \/ c.n < sumAnswered)
    /\ UNCHANGED <<filter, newest, page, list, asked, answered, overtaken, misled>>

SummaryAnswered(c) ==
    c \in sums /\ summary' = c.filter /\ UNCHANGED summaryError /\ SummaryArrived(c)

SummaryFails(c) ==
    c \in sums /\ summary' = None /\ summaryError' = TRUE /\ SummaryArrived(c)

Next ==
    \/ \E f \in Filters : SetFilter(f)
    \/ SetSort \/ ResetFilters \/ Move
    \/ \E c \in calls : ListAnswered(c) \/ ListFails(c)
    \/ \E c \in sums : SummaryAnswered(c) \/ SummaryFails(c)

Spec == Init /\ [][Next]_vars

-----------------------------------------------------------------------------
(* Properties *)

\* Once every request is answered, the rows on the screen are those for its filter, order
\* and page, unless an answer was overtaken by a later one.
ListFits ==
    calls = {} /\ ~ overtaken /\ RowsShown =>
        shown = View(filter, newest, page) /\ total = Count[filter]

\* The page number is beyond the filter's last page only after the list had an answer for
\* another filter, or none.
PageExists == page <= Pages(Count[filter]) \/ misled

\* The summary beside the list is the one of the same filter once both are answered,
\* unless one was overtaken by a later one; so is the count on its first tile, which is
\* the list's where the summary has none.
SummaryFits ==
    sums = {} /\ ~ sumOvertaken =>
        \/ summaryError
        \/ summary = filter /\ (calls = {} /\ ~ overtaken /\ RowsShown => TotalShown = Count[filter])

\* List, page and summary are those of the filter on the screen.
AnswersFit == ListFits /\ PageExists /\ SummaryFits
=============================================================================
