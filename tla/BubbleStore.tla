------------------------------- MODULE BubbleStore -------------------------------
(***************************************************************************)
(* The bubbles of the journal in the browser (lib/bubbleStore.ts) beside   *)
(* the bubbles of the server: loading them page by page, writing one       *)
(* (composer), one per trade of a CSV file, dummies kept only here, and    *)
(* the JSON file of lib/dataHandler.ts.  Every await lets the others in:   *)
(* a request is asked, served and answered in steps of its own.            *)
(*                                                                         *)
(* Abstractions.  A bubble is a number; about[b] is the trade it would be  *)
(* matched with (symbol, time, action and price) or Manual.  Its note,     *)
(* tags and venue, and so what a patch fills in, are left out.  The client *)
(* never deletes at the server.  MaxBubbles, MaxImports and MaxFaults      *)
(* bound the model.                                                        *)
(***************************************************************************)
EXTENDS Naturals, Sequences, FiniteSets, Selection

CONSTANTS
    Fetchers, Writers,      \* calls of fetchBubblesFromServer, of the creating operations
    Trades, Manual,         \* trades; a bubble that belongs to none
    Files,                  \* the trade lists a CSV file may hold
    PageLimit, PageCap,     \* 200 bubbles a page; the last page with a next one, 200
    MaxBubbles, MaxImports, MaxFaults

TradesAssumption == Manual \notin Trades /\ Files \subseteq Seq(Trades)
PagesAssumption == PageLimit \in Nat \ {0} /\ PageCap \in Nat \ {0}
StoreBounds == MaxBubbles \in Nat /\ MaxImports \in Nat /\ MaxFaults \in Nat

VARIABLES
    server, about,          \* bubbles of the server, newest candle first; what each is about
    list, total, trades,    \* the store: bubbles, totalBubbles, trades
    file,                   \* the last JSON export
    fetch, work,            \* the loads and the writes under way
    imports, faults,
    calm, mixed, excused    \* history, see the properties

storeVars == <<server, about, list, total, trades, file, fetch, work, imports, faults,
               calm, mixed, excused>>

Bubbles == 1 .. MaxBubbles
NoBubble == 0
About == Trades \cup {Manual}
Unborn == "unborn"
AboutAssumption == Unborn \notin About
NoFile == [bubbles |-> <<>>, trades |-> <<>>, made |-> FALSE]
NoFetch == [at |-> "idle", page |-> 1, mapped |-> <<>>, total |-> 0, items |-> <<>>, count |-> 0]
NoWork == [at |-> "idle", trade |-> Manual, id |-> NoBubble, rest |-> <<>>, known |-> {}]

Elements(s) == {s[i] : i \in DOMAIN s}
Larger(a, b) == IF a >= b THEN a ELSE b
Smaller(a, b) == IF a <= b THEN a ELSE b
TradesOf(s) == {about[b] : b \in Elements(s)} \ {Manual}

TypeOK ==
    /\ server \in Seq(Bubbles) /\ list \in Seq(Bubbles) /\ total \in Nat
    /\ about \in [Bubbles -> About \cup {Unborn}]
    /\ trades \in Seq(Trades)
    /\ file.bubbles \in Seq(Bubbles) /\ file.trades \in Seq(Trades) /\ file.made \in BOOLEAN
    /\ \A f \in Fetchers :
        /\ fetch[f].at \in {"idle", "asked", "served"}
        /\ fetch[f].page \in 1 .. PageCap + 1
        /\ fetch[f].mapped \in Seq(Bubbles) /\ fetch[f].items \in Seq(Bubbles)
        /\ Len(fetch[f].items) <= PageLimit
        /\ fetch[f].total \in 0 .. MaxBubbles /\ fetch[f].count \in 0 .. MaxBubbles
    /\ \A w \in Writers :
        /\ work[w].at \in {"idle", "next", "putting", "asked", "served"}
        /\ work[w].trade \in About /\ work[w].id \in Bubbles \cup {NoBubble}
        /\ work[w].rest \in Seq(Trades) /\ work[w].known \subseteq Trades
    /\ imports \in 0 .. MaxImports /\ faults \in 0 .. MaxFaults
    /\ calm \subseteq Fetchers /\ mixed \in BOOLEAN /\ excused \in BOOLEAN

Init ==
    /\ server = <<>> /\ about = [b \in Bubbles |-> Unborn]
    /\ list = <<>> /\ total = 0 /\ trades = <<>> /\ file = NoFile
    /\ fetch = [f \in Fetchers |-> NoFetch]
    /\ work = [w \in Writers |-> NoWork]
    /\ imports = 0 /\ faults = 0
    /\ calm = {} /\ mixed = FALSE /\ excused = FALSE

-----------------------------------------------------------------------------
(* Server *)

\* A new bubble of the server, anywhere in the order of candle times; one that comes
\* between two pages of a load shifts the pages.
Insert(b, k) == server' = SubSeq(server, 1, k) \o <<b>> \o SubSeq(server, k + 1, Len(server))
BetweenPages(f) == fetch[f].at = "served" \/ fetch[f].page > 1
Unused == {b \in Bubbles : about[b] = Unborn}
Born(t) ==
    \E b \in Unused, k \in 0 .. Len(server) :
        /\ \A c \in Unused : b <= c
        /\ Insert(b, k)
        /\ about' = [about EXCEPT ![b] = t]
        /\ calm' = {}
        /\ mixed' = (mixed \/ \E f \in Fetchers : BetweenPages(f))

\* A bubble from elsewhere: the trade poller, another device.
ServerGains(t) ==
    /\ t \in About \ TradesOf(server)
    /\ Born(t)
    /\ excused' = (excused \/ \E w \in Writers :
                        work[w].at # "idle" /\ t \in Elements(work[w].rest) \cup {work[w].trade})
    /\ UNCHANGED <<list, total, trades, file, fetch, work, imports, faults>>

\* GET /v1/bubbles: one page and the count of all.
ServePage(f) ==
    /\ fetch[f].at = "asked"
    /\ LET first == (fetch[f].page - 1) * PageLimit + 1 IN
       fetch' = [fetch EXCEPT ![f].at = "served", ![f].count = Len(server),
                    ![f].items = SubSeq(server, first, Smaller(first + PageLimit - 1, Len(server)))]
    /\ mixed' = (mixed \/ \E w \in Writers : work[w].at = "served")
    /\ UNCHANGED <<server, about, list, total, trades, file, work, imports, faults, calm, excused>>

\* POST /v1/bubbles.
ServeCreate(w) ==
    /\ work[w].at = "asked"
    /\ Born(work[w].trade)
    /\ work' = [work EXCEPT ![w].at = "served", ![w].id = CHOOSE b \in Bubbles : about'[b] # about[b]]
    /\ UNCHANGED <<list, total, trades, file, fetch, imports, faults, excused>>

-----------------------------------------------------------------------------
(* Loading *)

\* fetchBubblesFromServer(200, true), as every caller calls it: page one is asked for.
StartFetch(f) ==
    /\ fetch[f].at = "idle"
    /\ fetch' = [fetch EXCEPT ![f] = [NoFetch EXCEPT !.at = "asked"]]
    /\ calm' = calm \cup {f}
    /\ UNCHANGED <<server, about, list, total, trades, file, work, imports, faults, mixed, excused>>

\* Mutant: the last page by count comes one early.
LastPageByCount(r) ==
    \/ r.total > 0 /\ r.page * PageLimit + 1 >= r.total
    \/ r.items = <<>>
    \/ r.page > PageCap

\* The exits of the loop, in the order of the code: all there, an empty page, the
\* last page by count, too many pages.
LastPage(r) ==
    \/ r.total > 0 /\ Len(r.mapped) >= r.total
    \/ r.items = <<>>
    \/ r.total > 0 /\ r.page * PageLimit >= r.total
    \/ r.page > PageCap

\* Mutant: what was mapped is appended to the list.
ReceivePageAppends(f) ==
    LET r == [fetch[f] EXCEPT !.mapped = @ \o fetch[f].items,
                              !.total = IF fetch[f].count > 0 THEN fetch[f].count ELSE @]
    IN
    /\ fetch[f].at = "served"
    /\ IF LastPage(r)
       THEN /\ list' = list \o r.mapped
            /\ total' = Larger(r.total, Len(list'))
            /\ fetch' = [fetch EXCEPT ![f] = NoFetch]
       ELSE /\ fetch' = [fetch EXCEPT ![f] = [r EXCEPT !.at = "asked", !.page = @ + 1,
                                              !.items = <<>>, !.count = 0]]
            /\ UNCHANGED <<list, total>>
    /\ UNCHANGED <<server, about, trades, file, work, imports, faults, calm, mixed, excused>>

\* fetchBubblesFromServer after an answer: the next page, or the list is replaced by
\* what was mapped, whatever happened to it since.
ReceivePage(f) ==
    LET r == [fetch[f] EXCEPT !.mapped = @ \o fetch[f].items,
                              !.total = IF fetch[f].count > 0 THEN fetch[f].count ELSE @]
    IN
    /\ fetch[f].at = "served"
    /\ IF LastPage(r)
       THEN /\ list' = r.mapped
            /\ total' = Larger(r.total, Len(r.mapped))
            /\ fetch' = [fetch EXCEPT ![f] = NoFetch]
       ELSE /\ fetch' = [fetch EXCEPT ![f] = [r EXCEPT !.at = "asked", !.page = @ + 1,
                                              !.items = <<>>, !.count = 0]]
            /\ UNCHANGED <<list, total>>
    /\ UNCHANGED <<server, about, trades, file, work, imports, faults, calm, mixed, excused>>

\* The callers catch the error and leave the list as it was.
FetchFails(f) ==
    /\ fetch[f].at = "asked" /\ faults < MaxFaults
    /\ faults' = faults + 1
    /\ fetch' = [fetch EXCEPT ![f] = NoFetch]
    /\ UNCHANGED <<server, about, list, total, trades, file, work, imports, calm, mixed, excused>>

-----------------------------------------------------------------------------
(* Writing *)

\* createBubbleRemote from the composer.
Compose(w) ==
    /\ work[w].at = "idle"
    /\ work' = [work EXCEPT ![w] = [NoWork EXCEPT !.at = "asked"]]
    /\ UNCHANGED <<server, about, list, total, trades, file, fetch, imports, faults,
                   calm, mixed, excused>>

Repeats(s) == Cardinality(Elements(s)) < Len(s)
Busy(w) == IF work[w].at = "idle" THEN {} ELSE Elements(work[w].rest) \cup {work[w].trade}

\* A CSV file is imported, with the automatic bubbles on: the bubbles there are at
\* this moment are what every trade of the file is matched with.
ImportTrades(w, csv) ==
    /\ work[w].at = "idle" /\ imports < MaxImports
    /\ imports' = imports + 1
    /\ trades' = trades \o csv
    /\ work' = [work EXCEPT ![w] = [NoWork EXCEPT !.at = "next", !.rest = csv, !.known = TradesOf(list)]]
    /\ excused' = (excused \/ Repeats(csv)
                     \/ ~ (TradesOf(server) \cap Elements(csv) \subseteq TradesOf(list))
                     \/ \E v \in Writers : Busy(v) \cap Elements(csv) # {})
    /\ UNCHANGED <<server, about, list, total, file, fetch, faults, calm, mixed>>

\* Mutant: the bubble is compared with a price that is never equal.
KnownExactly(w, t) == FALSE

\* The loop of createBubblesFromTrades: a trade with a bubble is patched if that lacks
\* something, one without gets a bubble.
Known(w, t) == t \in work[w].known

NextTrade(w) ==
    /\ work[w].at = "next"
    /\ IF work[w].rest = <<>> THEN work' = [work EXCEPT ![w] = NoWork]
       ELSE LET t == Head(work[w].rest)
                after == [work[w] EXCEPT !.rest = Tail(@)]
            IN IF Known(w, t)
               THEN \E needed \in BOOLEAN :
                    work' = [work EXCEPT ![w] = IF needed THEN [after EXCEPT !.at = "putting"] ELSE after]
               ELSE work' = [work EXCEPT ![w] = [after EXCEPT !.at = "asked", !.trade = t]]
    /\ UNCHANGED <<server, about, list, total, trades, file, fetch, imports, faults,
                   calm, mixed, excused>>

\* updateBubbleRemote answered; an error is ignored.
Patched(w) ==
    /\ work[w].at = "putting"
    /\ work' = [work EXCEPT ![w].at = "next"]
    /\ UNCHANGED <<server, about, list, total, trades, file, fetch, imports, faults,
                   calm, mixed, excused>>

\* The answer to POST /v1/bubbles: the bubble is appended to what the list is now.
CreateAnswered(w) ==
    /\ work[w].at = "served"
    /\ list' = Append(list, work[w].id)
    /\ total' = Larger(total, Len(list) + 1)
    /\ work' = [work EXCEPT ![w].at = "next", ![w].id = NoBubble, ![w].trade = Manual]
    /\ UNCHANGED <<server, about, trades, file, fetch, imports, faults, calm, mixed, excused>>

\* The request or its answer fails: the whole import stops, the rest of the file too.
CreateFails(w) ==
    /\ work[w].at \in {"asked", "served"} /\ faults < MaxFaults
    /\ faults' = faults + 1
    /\ work' = [work EXCEPT ![w] = NoWork]
    /\ UNCHANGED <<server, about, list, total, trades, file, fetch, imports, calm, mixed, excused>>

-----------------------------------------------------------------------------
(* Operations on the store alone *)

\* generateDummyBubbles: addBubble with an id of its own.
AddBubble ==
    \E b \in Unused :
        /\ \A c \in Unused : b <= c
        /\ about' = [about EXCEPT ![b] = Manual]
        /\ list' = Append(list, b)
        /\ total' = IF total > 0 THEN total + 1 ELSE Len(list) + 1
        /\ UNCHANGED <<server, trades, file, fetch, work, imports, faults, calm, mixed, excused>>

Other(b, c) == c # b
DeleteBubble(b) ==
    /\ b \in Elements(list)
    /\ list' = Selected(list, {i \in DOMAIN list : Other(b, list[i])})
    /\ total' = IF total > 0 THEN total - 1 ELSE Len(list')
    /\ UNCHANGED <<server, about, trades, file, fetch, work, imports, faults, calm, mixed, excused>>

ReplaceAll(bubbles) == list' = bubbles /\ total' = Len(bubbles)

\* Clear All of the library.
ClearAll ==
    /\ ReplaceAll(<<>>)
    /\ UNCHANGED <<server, about, trades, file, fetch, work, imports, faults, calm, mixed, excused>>

ExportBubbles ==
    /\ file' = [bubbles |-> list, trades |-> trades, made |-> TRUE]
    /\ UNCHANGED <<server, about, list, total, trades, fetch, work, imports, faults,
                   calm, mixed, excused>>

\* The trades of the store are replaced only by a file that has some.
ImportBubbles ==
    /\ file.made
    /\ ReplaceAll(file.bubbles)
    /\ trades' = IF file.trades # <<>> THEN file.trades ELSE trades
    /\ UNCHANGED <<server, about, file, fetch, work, imports, faults, calm, mixed, excused>>

\* RESET on the chart removes the key bubble-storage and loads the page: requests are
\* gone, and the store is read back from bubble-storage-v2.
ResetAndReload ==
    /\ fetch' = [f \in Fetchers |-> NoFetch]
    /\ work' = [w \in Writers |-> NoWork]
    /\ UNCHANGED <<server, about, list, total, trades, file, imports, faults, calm, mixed, excused>>

Next ==
    \/ \E t \in About : ServerGains(t)
    \/ \E f \in Fetchers : StartFetch(f) \/ ServePage(f) \/ ReceivePage(f) \/ FetchFails(f)
    \/ \E w \in Writers : \/ Compose(w) \/ NextTrade(w) \/ Patched(w)
                          \/ ServeCreate(w) \/ CreateAnswered(w) \/ CreateFails(w)
                          \/ \E csv \in Files : ImportTrades(w, csv)
    \/ AddBubble \/ ClearAll \/ \E b \in Bubbles : DeleteBubble(b)
    \/ ExportBubbles \/ ImportBubbles \/ ResetAndReload

Spec == Init /\ [][Next]_storeVars

-----------------------------------------------------------------------------
(* Properties *)

\* The number shown above the library (totalBubbles) is never less than the bubbles in
\* the list: it is kept by four operations in four different ways.
TotalCoversList == total >= Len(list)

\* A load during which the server did not change ends with exactly the server's bubbles,
\* in its order and with its count, or with the first PageCap + 1 pages of them: none of
\* the four exits of the paging loop is a page early or late.
LoadsExactly ==
    \A f \in Fetchers :
        ReceivePage(f) /\ fetch'[f].at = "idle" /\ f \in calm =>
            /\ list' = SubSeq(server, 1, Smaller(Len(server), (PageCap + 1) * PageLimit))
            /\ total' = Len(server)

LoadIsExact == [][LoadsExactly]_storeVars

\* A bubble is in the list twice only if a page was served while the answer to its
\* creation was still on the way, or the server's list changed between two pages.
TwiceOnlyIfMixed == mixed \/ Cardinality(Elements(list)) = Len(list)

\* The store counts what it lists, and lists it once.
ListIsSound == TotalCoversList /\ TwiceOnlyIfMixed

\* Importing trades gives a trade a second bubble at the server only if the file repeats
\* it, the list did not have the server's bubbles when the import began, or another
\* import was at the same trade.
OneBubblePerTrade ==
    excused \/ \A i, j \in DOMAIN server :
        about[server[i]] = about[server[j]] /\ about[server[i]] # Manual => i = j
=============================================================================
