------------------------------- MODULE BubblesPage -------------------------------
(***************************************************************************)
(* The bubble library (components-old/Bubbles.tsx) over the bubble store:  *)
(* filter, paging, the selected bubble and the one a link asks for         *)
(* (?bubble_id=).  The list changes under the page whenever a load ends,   *)
(* and effects then change the selection.                                  *)
(*                                                                         *)
(* Only the store operations this page starts, and what the server does,   *)
(* take steps here, so the list keeps the server's order, newest first.    *)
(* The search text is one more filter; bubbles about the same trade share  *)
(* action and tags.                                                        *)
(***************************************************************************)
EXTENDS BubbleStore

CONSTANTS
    ActionOf,       \* the action of a bubble, by what it is about
    PageSize,       \* 12 bubbles a page
    MaxOpens        \* bound: how often the page is opened

ActionsAssumption == ActionOf \in [About -> {"BUY", "SELL", "HOLD", "TP", "SL", "NONE"}]
PageAssumption == PageSize \in Nat \ {0} /\ MaxOpens \in Nat

VARIABLES
    requested,          \* bubble_id of the address
    selected, page,     \* selectedId, currentPage
    filter, newest,     \* actionFilter, sortOrder
    crashed,            \* rendering threw
    opens,
    arrived, touched, shrunk   \* history, see the properties

pageVars == <<requested, selected, page, filter, newest, crashed, opens,
              arrived, touched, shrunk>>
idleStore == <<trades, file, work, imports, excused, mixed>>

Nothing == NoBubble
All == "all"
Filters == {ActionOf[a] : a \in About} \cup {All}

PageTypeOK ==
    /\ requested \in Bubbles \cup {Nothing} /\ selected \in Bubbles \cup {Nothing}
    /\ page \in 1 .. MaxBubbles /\ filter \in Filters /\ newest \in BOOLEAN
    /\ crashed \in BOOLEAN /\ opens \in 0 .. MaxOpens
    /\ arrived \in BOOLEAN /\ touched \in BOOLEAN /\ shrunk \in BOOLEAN

-----------------------------------------------------------------------------
(* What is shown *)

Action(b) == ActionOf[about[b]]
Kept(b, f) == f = All \/ Action(b) = f
Filtered(l, f) == Selected(l, {i \in DOMAIN l : Kept(l[i], f)})
TotalPages(l, f) == Larger(1, (Len(Filtered(l, f)) + PageSize - 1) \div PageSize)
Sorted(s) == IF newest THEN s ELSE [i \in DOMAIN s |-> s[Len(s) + 1 - i]]
Paged == LET s == Sorted(Filtered(list, filter))
         IN SubSeq(s, (page - 1) * PageSize + 1, Smaller(page * PageSize, Len(s)))
Pages == TotalPages(list, filter)

\* PageJumpPager: with one page there is only the count.
PagerOffers(move) ==
    /\ Pages > 1
    /\ move \in {"first", "previous"} => page > 1
    /\ move \in {"next", "last"} => page < Pages

\* similarAnalysis: bubbles like the selected one, and the table of outcomes, which has
\* no entry for NONE.
Similar(b, l) == {c \in Elements(l) \ {b} : about[c] = about[b]}
Tallied == {"BUY", "SELL", "TP", "SL", "HOLD"}
Throws(b, l) == b \in Elements(l) /\ Similar(b, l) # {} /\ Action(b) \notin Tallied

\* What the rows offer: a row is opened, the open one can be deleted.
Offers(what, b) ==
    /\ ~ crashed /\ opens > 0
    /\ what \in {"row", "delete"} => b \in Elements(Paged)
    /\ what = "delete" => b = selected

\* Rendering after a step with the list l and the selection b.
Render(b, l) ==
    /\ selected' = b
    /\ crashed' = (crashed \/ Throws(b, l))

\* Mutant: the effect sees the list as it was.
ReselectEarly(b, l) == IF requested \in Elements(list) THEN requested ELSE b

\* The effect on a new list: the bubble the link asks for is selected, if it is there.
Reselect(b, l) == IF requested \in Elements(l) THEN requested ELSE b

-----------------------------------------------------------------------------
(* Steps *)

PageInit ==
    /\ Init
    /\ requested = Nothing /\ selected = Nothing /\ page = 1 /\ filter = All /\ newest = TRUE
    /\ crashed = FALSE /\ opens = 0
    /\ arrived = FALSE /\ touched = FALSE /\ shrunk = FALSE

\* The page is opened: a load starts; the effect of the link selects the bubble, and
\* the effect of the filters, which comes after it, takes the selection back.
Open(b, f) ==
    /\ opens < MaxOpens
    /\ opens' = opens + 1
    /\ StartFetch(f)
    /\ requested' = b
    /\ selected' = Nothing /\ page' = 1 /\ filter' = All /\ newest' = TRUE /\ crashed' = FALSE
    /\ arrived' = FALSE /\ touched' = FALSE /\ shrunk' = FALSE

\* The event kifu-portfolio-refresh.
Refresh(f) == opens > 0 /\ ~ crashed /\ StartFetch(f) /\ UNCHANGED pageVars

\* Another list under the page: the page number stays.
Listed ==
    /\ Render(Reselect(selected, list'), list')
    /\ arrived' = TRUE
    /\ shrunk' = (shrunk \/ TotalPages(list', filter) < Pages)
    /\ UNCHANGED <<requested, page, filter, newest, opens, touched>>

LoadStep(f) ==
    \/ (ServePage(f) \/ FetchFails(f)) /\ UNCHANGED pageVars
    \/ /\ ReceivePage(f)
       /\ IF fetch'[f].at = "idle" /\ opens > 0 THEN Listed ELSE UNCHANGED pageVars

\* The filter, sort order or search changes: page one, nothing selected.
ResetView == selected' = Nothing /\ page' = 1 /\ shrunk' = FALSE

SetFilter(f) ==
    /\ Offers("filter", Nothing)
    /\ f # All \/ filter # All
    /\ filter' = IF f = filter THEN All ELSE f
    /\ ResetView /\ touched' = TRUE
    /\ UNCHANGED <<requested, newest, crashed, opens, arrived>> /\ UNCHANGED storeVars

SetSort ==
    /\ Offers("sort", Nothing)
    /\ newest' = ~ newest
    /\ ResetView /\ touched' = TRUE
    /\ UNCHANGED <<requested, filter, crashed, opens, arrived>> /\ UNCHANGED storeVars

Toggle(b) ==
    /\ Offers("row", b)
    /\ Render(IF selected = b THEN Nothing ELSE b, list)
    /\ touched' = TRUE
    /\ UNCHANGED <<requested, page, filter, newest, opens, arrived, shrunk>>
    /\ UNCHANGED storeVars

\* 이 버블을 삭제하시겠습니까?  The bubble goes from the store of the browser.
Delete(b) ==
    /\ Offers("delete", b)
    /\ DeleteBubble(b)
    /\ Render(Reselect(Nothing, list'), list')
    /\ touched' = TRUE
    /\ shrunk' = (shrunk \/ TotalPages(list', filter) < Pages)
    /\ UNCHANGED <<requested, page, filter, newest, opens, arrived>>

\* 모든 버블을 삭제하시겠습니까?  The selection goes whether or not the user agrees.
ClearEverything(agreed) ==
    /\ Offers("clear", Nothing)
    /\ IF agreed THEN ClearAll ELSE UNCHANGED storeVars
    /\ selected' = Nothing /\ touched' = TRUE
    /\ shrunk' = (shrunk \/ TotalPages(list', filter) < Pages)
    /\ UNCHANGED <<requested, page, filter, newest, crashed, opens, arrived>>

Turn(p) ==
    /\ page' = p /\ shrunk' = (shrunk /\ p > Pages) /\ touched' = TRUE
    /\ UNCHANGED <<requested, selected, filter, newest, crashed, opens, arrived>>
    /\ UNCHANGED storeVars

\* jumpToPage: any number is taken to the nearest page.
JumpTarget(n) == Smaller(Pages, Larger(1, n))

Move ==
    /\ Offers("pager", Nothing)
    /\ \/ PagerOffers("first") /\ Turn(1)
       \/ PagerOffers("previous") /\ Turn(Larger(page - 1, 1))
       \/ PagerOffers("next") /\ Turn(Smaller(page + 1, Pages))
       \/ PagerOffers("last") /\ Turn(Pages)
       \/ \E n \in 0 .. MaxBubbles + 1 : PagerOffers("jump") /\ Turn(JumpTarget(n))

PageNext ==
    \/ \E t \in About : ServerGains(t) /\ UNCHANGED pageVars
    \/ \E f \in Fetchers : LoadStep(f) \/ Refresh(f) \/ \E b \in Bubbles \cup {Nothing} : Open(b, f)
    \/ \E f \in Filters : SetFilter(f)
    \/ SetSort \/ Move
    \/ \E b \in Bubbles : Toggle(b) \/ Delete(b)
    \/ \E agreed \in BOOLEAN : ClearEverything(agreed)

PageSpec == PageInit /\ [][PageNext]_<<storeVars, pageVars>>

-----------------------------------------------------------------------------
(* Properties *)

\* A link to a bubble is honoured: once a load ended on the open page, and as long as the
\* user did nothing else, the bubble asked for is the selected one if it is in the list.
LinkHonoured ==
    arrived /\ ~ touched /\ requested \in Elements(list) => selected = requested

\* The page shown is empty although there are results only after the list got shorter
\* than the page number, and since then no page was turned to that there is: the button
\* for the previous page may lead to another one past the end.
BlankOnlyAfterShrinking ==
    Filtered(list, filter) # <<>> /\ Paged = <<>> => shrunk

\* The library shows what was asked for, and something where there is something.
ViewIsSound == LinkHonoured /\ BlankOnlyAfterShrinking
=============================================================================
