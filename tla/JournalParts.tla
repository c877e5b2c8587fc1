---------------------------- MODULE JournalParts -----------------------------
(***************************************************************************)
(* The parts of the browser that hold the journal: the session, the store  *)
(* of bubbles, the library, the trade history, the two halves of the form  *)
(* of a bubble, the notes and the verdicts.                                *)
(*                                                                         *)
(* What two parts share is a variable of each of their modules (BubblesPage*)
(* extends BubbleStore, the session holds the marks of the store), and the *)
(* parts set no other variable of each other's.  So no behaviour needs two *)
(* of them: the first state chooses one.  The store is here three times,   *)
(* with constants of its own: loading lists, importing, and under the      *)
(* library.                                                                *)
(***************************************************************************)
EXTENDS Naturals

CONSTANTS
    Tabs, Calls, Users, Guest, Nobody, MaxPairs, MaxFaults,     \* the session
    Fetchers, Manual,                                           \* the store
    ListsStore, ImportStore, LibraryStore,   \* the rest of its constants, for each of its parts
    ActionOf, MaxOpens,                                         \* the library
    TradeFilters, Everything, Count, PageSize, None, MaxCalls,       \* the trade history
    MaxOpenings, MaxEdits, MaxBuilds, Retries, MaxAsks,         \* the form
    Limit, MaxNotes, MaxRevs, MaxWire, MaxGets, MaxOthers, New, \* the notes
    Venues, Verdicts, MaxTrades, MaxTime, Window, CardLimit, MaxLoads, MaxSubmits   \* the verdicts

VARIABLES
    part,       \* the part of the browser this behaviour is about
    \* what several parts have by this name
    faults, server, total, trades, mixed, page, filter, newest, shown, loading, error,
    asked, overtaken, open, openings, edits, submitting, crossed,
    \* the session
    owner, row, fresh, disk, memory, journal, isRefreshing, call, signing, exchange,
    mishap, tainted, forcedOut,
    \* the store of bubbles
    about, list, file, fetch, work, imports, calm, excused,
    \* the library over it
    requested, selected, crashed, opens, arrived, touched, shrunk,
    \* the trade history
    calls, sums, summary, summaryLoading, summaryError, answered, sumAnswered,
    sumOvertaken, misled,
    \* the evidence of a form
    evidence, included, preset, scope, symbols, packet, builds,
    \* the form of a bubble
    bubbles, memo, answer, aiLoading, aiError, aiRetryAttempt, asks, saves, stale, lost,
    \* the notes
    made, notes, pages, editor, wire, gets, others,
    \* the verdicts
    safety, venue, loads, submits, given

sessionOwn ==
    <<owner, row, fresh, disk, memory, journal, isRefreshing, call, signing, exchange,
      mishap, tainted, forcedOut>>
storeOwn ==
    <<about, list, file, fetch, work, imports, calm, excused>>
pageOwn ==
    <<requested, selected, crashed, opens, arrived, touched, shrunk>>
tradesOwn ==
    <<calls, sums, summary, summaryLoading, summaryError, answered, sumAnswered,
      sumOvertaken, misled>>
evidenceOwn ==
    <<evidence, included, preset, scope, symbols, packet, builds>>
composerOwn ==
    <<bubbles, memo, answer, aiLoading, aiError, aiRetryAttempt, asks, saves, stale, lost>>
notesOwn ==
    <<made, notes, pages, editor, wire, gets, others>>
safetyOwn ==
    <<safety, venue, loads, submits, given>>
common ==
    <<faults, server, total, trades, mixed, page, filter, newest, shown, loading, error,
      asked, overtaken, open, openings, edits, submitting, crossed>>
vars ==
    <<part, common, sessionOwn, storeOwn, pageOwn, tradesOwn, evidenceOwn, composerOwn,
      notesOwn, safetyOwn>>

-----------------------------------------------------------------------------
(* The parts *)

\* The session of the browser's tabs.
Session == INSTANCE BrowserSession

\* The store of bubbles, loaded page by page while bubbles are made.
Lists == INSTANCE BubbleStore WITH
    Writers <- ListsStore.writers, Trades <- ListsStore.trades, Files <- ListsStore.files,
    PageLimit <- ListsStore.limit, PageCap <- ListsStore.cap, MaxBubbles <- ListsStore.bubbles,
    MaxImports <- ListsStore.imports, MaxFaults <- ListsStore.faults

\* The store while files are imported.
Import == INSTANCE BubbleStore WITH
    Writers <- ImportStore.writers, Trades <- ImportStore.trades, Files <- ImportStore.files,
    PageLimit <- ImportStore.limit, PageCap <- ImportStore.cap, MaxBubbles <- ImportStore.bubbles,
    MaxImports <- ImportStore.imports, MaxFaults <- ImportStore.faults

\* The library of bubbles over the store.
Library == INSTANCE BubblesPage WITH
    Writers <- LibraryStore.writers, Trades <- LibraryStore.trades, Files <- LibraryStore.files,
    PageLimit <- LibraryStore.limit, PageCap <- LibraryStore.cap, MaxBubbles <- LibraryStore.bubbles,
    MaxImports <- LibraryStore.imports, MaxFaults <- LibraryStore.faults, PageSize <- LibraryStore.page

TradeList == INSTANCE TradesPage WITH Filters <- TradeFilters
Evidence == INSTANCE EvidenceOptions WITH Nothing <- None
Composer == INSTANCE BubbleComposer WITH Nothing <- None
Notes == INSTANCE NoteJournal
Safety == INSTANCE SafetyCheck WITH Limit <- CardLimit, All <- Everything

\* What the modules assume of their constants.
SessionAssumption == Session!GuestAssumption /\ Session!SessionBounds /\ Session!TabsAssumption
ListsAssumption ==
    /\ Lists!TradesAssumption /\ Lists!PagesAssumption /\ Lists!StoreBounds
    /\ Lists!AboutAssumption
ImportAssumption ==
    /\ Import!TradesAssumption /\ Import!PagesAssumption /\ Import!StoreBounds
    /\ Import!AboutAssumption
LibraryAssumption ==
    /\ Library!TradesAssumption /\ Library!PagesAssumption /\ Library!StoreBounds
    /\ Library!AboutAssumption /\ Library!ActionsAssumption /\ Library!PageAssumption
TradeListAssumption ==
    TradeList!FilterAssumption /\ TradeList!CountAssumption /\ TradeList!CallBounds
FormAssumption ==
    Evidence!BoundAssumption /\ Composer!BoundAssumption /\ Composer!NothingAssumption

ASSUME PartsAssumption ==
    /\ SessionAssumption /\ ListsAssumption /\ ImportAssumption /\ LibraryAssumption
    /\ TradeListAssumption /\ FormAssumption
    /\ Notes!BoundAssumption /\ Safety!BoundAssumption

-----------------------------------------------------------------------------
(* A behaviour is about one part: it sets the variables the part has no use for to *)
(* Unused, and leaves them so.                                                      *)

Unused == "unused"

NoSession ==
    owner = Unused /\ row = Unused /\ fresh = Unused /\ disk = Unused /\ memory = Unused /\
    journal = Unused /\ isRefreshing = Unused /\ call = Unused /\ signing = Unused /\
    exchange = Unused /\ mishap = Unused /\ tainted = Unused /\ forcedOut = Unused
NoStore ==
    about = Unused /\ list = Unused /\ file = Unused /\ fetch = Unused /\ work = Unused /\
    imports = Unused /\ calm = Unused /\ excused = Unused
NoPage ==
    requested = Unused /\ selected = Unused /\ crashed = Unused /\ opens = Unused /\
    arrived = Unused /\ touched = Unused /\ shrunk = Unused
NoTrades ==
    calls = Unused /\ sums = Unused /\ summary = Unused /\ summaryLoading = Unused /\
    summaryError = Unused /\ answered = Unused /\ sumAnswered = Unused /\
    sumOvertaken = Unused /\ misled = Unused
NoEvidence ==
    evidence = Unused /\ included = Unused /\ preset = Unused /\ scope = Unused /\
    symbols = Unused /\ packet = Unused /\ builds = Unused
NoComposer ==
    bubbles = Unused /\ memo = Unused /\ answer = Unused /\ aiLoading = Unused /\
    aiError = Unused /\ aiRetryAttempt = Unused /\ asks = Unused /\ saves = Unused /\
    stale = Unused /\ lost = Unused
NoNotes ==
    made = Unused /\ notes = Unused /\ pages = Unused /\ editor = Unused /\
    wire = Unused /\ gets = Unused /\ others = Unused
NoSafety ==
    safety = Unused /\ venue = Unused /\ loads = Unused /\ submits = Unused /\
    given = Unused

Init ==
    \/ /\ part = "session" /\ Session!Init
       /\ NoStore /\ NoPage /\ NoTrades /\ NoEvidence /\ NoComposer /\ NoNotes /\ NoSafety
       /\ server = Unused /\ total = Unused /\ trades = Unused /\ mixed = Unused /\
          page = Unused /\ filter = Unused /\ newest = Unused /\ shown = Unused /\
          loading = Unused /\ error = Unused /\ asked = Unused /\ overtaken = Unused /\
          open = Unused /\ openings = Unused /\ edits = Unused /\ submitting = Unused /\
          crossed = Unused
    \/ /\ part = "lists" /\ Lists!Init
       /\ NoSession /\ NoPage /\ NoTrades /\ NoEvidence /\ NoComposer /\ NoNotes /\ NoSafety
       /\ page = Unused /\ filter = Unused /\ newest = Unused /\ shown = Unused /\
          loading = Unused /\ error = Unused /\ asked = Unused /\ overtaken = Unused /\
          open = Unused /\ openings = Unused /\ edits = Unused /\ submitting = Unused /\
          crossed = Unused
    \/ /\ part = "import" /\ Import!Init
       /\ NoSession /\ NoPage /\ NoTrades /\ NoEvidence /\ NoComposer /\ NoNotes /\ NoSafety
       /\ page = Unused /\ filter = Unused /\ newest = Unused /\ shown = Unused /\
          loading = Unused /\ error = Unused /\ asked = Unused /\ overtaken = Unused /\
          open = Unused /\ openings = Unused /\ edits = Unused /\ submitting = Unused /\
          crossed = Unused
    \/ /\ part = "library" /\ Library!PageInit
       /\ NoSession /\ NoTrades /\ NoEvidence /\ NoComposer /\ NoNotes /\ NoSafety
       /\ shown = Unused /\ loading = Unused /\ error = Unused /\ asked = Unused /\
          overtaken = Unused /\ open = Unused /\ openings = Unused /\ edits = Unused /\
          submitting = Unused /\ crossed = Unused
    \/ /\ part = "trades" /\ TradeList!Init
       /\ NoSession /\ NoStore /\ NoPage /\ NoEvidence /\ NoComposer /\ NoNotes /\ NoSafety
       /\ faults = Unused /\ server = Unused /\ trades = Unused /\ mixed = Unused /\
          open = Unused /\ openings = Unused /\ edits = Unused /\ submitting = Unused /\
          crossed = Unused
    \/ /\ part = "evidence" /\ Evidence!Init
       /\ NoSession /\ NoStore /\ NoPage /\ NoTrades /\ NoComposer /\ NoNotes /\ NoSafety
       /\ faults = Unused /\ server = Unused /\ total = Unused /\ trades = Unused /\
          mixed = Unused /\ page = Unused /\ filter = Unused /\ newest = Unused /\
          shown = Unused /\ asked = Unused /\ submitting = Unused /\ crossed = Unused
    \/ /\ part = "composer" /\ Composer!Init
       /\ NoSession /\ NoStore /\ NoPage /\ NoTrades /\ NoEvidence /\ NoNotes /\ NoSafety
       /\ faults = Unused /\ server = Unused /\ total = Unused /\ trades = Unused /\
          mixed = Unused /\ page = Unused /\ filter = Unused /\ newest = Unused /\
          shown = Unused /\ loading = Unused /\ error = Unused /\ overtaken = Unused
    \/ /\ part = "notes" /\ Notes!Init
       /\ NoSession /\ NoStore /\ NoPage /\ NoTrades /\ NoEvidence /\ NoComposer /\ NoSafety
       /\ faults = Unused /\ total = Unused /\ trades = Unused /\ mixed = Unused /\
          page = Unused /\ filter = Unused /\ newest = Unused /\ asked = Unused /\
          overtaken = Unused /\ open = Unused /\ openings = Unused /\ edits = Unused /\
          submitting = Unused
    \/ /\ part = "safety" /\ Safety!Init
       /\ NoSession /\ NoStore /\ NoPage /\ NoTrades /\ NoEvidence /\ NoComposer /\ NoNotes
       /\ server = Unused /\ total = Unused /\ page = Unused /\ filter = Unused /\
          newest = Unused /\ shown = Unused /\ overtaken = Unused /\ open = Unused /\
          openings = Unused /\ edits = Unused

SessionStep ==
    /\ part = "session" /\ Session!Next
    /\ UNCHANGED <<part, storeOwn, pageOwn, tradesOwn, evidenceOwn, composerOwn, notesOwn,
                   safetyOwn, server, total, trades, mixed, page, filter, newest, shown,
                   loading, error, asked, overtaken, open, openings, edits, submitting,
                   crossed>>
ListsStep ==
    /\ part = "lists" /\ Lists!Next
    /\ UNCHANGED <<part, sessionOwn, pageOwn, tradesOwn, evidenceOwn, composerOwn,
                   notesOwn, safetyOwn, page, filter, newest, shown, loading, error, asked,
                   overtaken, open, openings, edits, submitting, crossed>>
ImportStep ==
    /\ part = "import" /\ Import!Next
    /\ UNCHANGED <<part, sessionOwn, pageOwn, tradesOwn, evidenceOwn, composerOwn,
                   notesOwn, safetyOwn, page, filter, newest, shown, loading, error, asked,
                   overtaken, open, openings, edits, submitting, crossed>>
LibraryStep ==
    /\ part = "library" /\ Library!PageNext
    /\ UNCHANGED <<part, sessionOwn, tradesOwn, evidenceOwn, composerOwn, notesOwn,
                   safetyOwn, shown, loading, error, asked, overtaken, open, openings,
                   edits, submitting, crossed>>
TradeListStep ==
    /\ part = "trades" /\ TradeList!Next
    /\ UNCHANGED <<part, sessionOwn, storeOwn, pageOwn, evidenceOwn, composerOwn, notesOwn,
                   safetyOwn, faults, server, trades, mixed, open, openings, edits,
                   submitting, crossed>>
EvidenceStep ==
    /\ part = "evidence" /\ Evidence!Next
    /\ UNCHANGED <<part, sessionOwn, storeOwn, pageOwn, tradesOwn, composerOwn, notesOwn,
                   safetyOwn, faults, server, total, trades, mixed, page, filter, newest,
                   shown, asked, submitting, crossed>>
ComposerStep ==
    /\ part = "composer" /\ Composer!Next
    /\ UNCHANGED <<part, sessionOwn, storeOwn, pageOwn, tradesOwn, evidenceOwn, notesOwn,
                   safetyOwn, faults, server, total, trades, mixed, page, filter, newest,
                   shown, loading, error, overtaken>>
NotesStep ==
    /\ part = "notes" /\ Notes!Next
    /\ UNCHANGED <<part, sessionOwn, storeOwn, pageOwn, tradesOwn, evidenceOwn,
                   composerOwn, safetyOwn, faults, total, trades, mixed, page, filter,
                   newest, asked, overtaken, open, openings, edits, submitting>>
SafetyStep ==
    /\ part = "safety" /\ Safety!Next
    /\ UNCHANGED <<part, sessionOwn, storeOwn, pageOwn, tradesOwn, evidenceOwn,
                   composerOwn, notesOwn, server, total, page, filter, newest, shown,
                   overtaken, open, openings, edits>>

Next ==
    \/ SessionStep
    \/ ListsStep
    \/ ImportStep
    \/ LibraryStep
    \/ TradeListStep
    \/ EvidenceStep
    \/ ComposerStep
    \/ NotesStep
    \/ SafetyStep

Spec == Init /\ [][Next]_vars

-----------------------------------------------------------------------------
(* Properties *)

\* Every variable has values of its kind, whichever the part.
TypeOK ==
    /\ part = "session" => Session!TypeOK
    /\ part = "lists" => Lists!TypeOK
    /\ part = "import" => Import!TypeOK
    /\ part = "library" => Library!PageTypeOK
    /\ part = "trades" => TradeList!TypeOK
    /\ part = "evidence" => Evidence!TypeOK
    /\ part = "composer" => Composer!TypeOK
    /\ part = "notes" => Notes!TypeOK
    /\ part = "safety" => Safety!TypeOK

\* However many calls fail at once a tab renews its token once and nobody waits when it does not,
\* and only a mishap (a lost answer, two tabs with one token) signs the user out (lib/api.ts).
RenewalsAreSafe == part = "session" => Session!RenewalsAreSafe

\* A tab shows the journal of the account it is signed in with and takes no member for a guest,
\* but for doors that reset nothing and calls under way (lib/guestSession.ts, Shell.tsx).
AccountsStayApart == part = "session" => Session!AccountsStayApart

\* The store counts at least what it lists, and lists a bubble once, unless a creation or a change
\* at the server crossed a page (lib/bubbleStore.ts).
ListIsSound == part = "lists" => Lists!ListIsSound

\* A load during which the server did not change ends with exactly the bubbles of the server, up
\* to the last page it may ask for (bubbleStore.ts:160-217).
LoadIsExact == [][part = "lists" => Lists!LoadsExactly]_vars

\* An import gives no trade a second bubble at the server, unless the file repeats it, the list was
\* behind the server, or another import was at the same trade (bubbleStore.ts:306-360).
OneBubblePerTrade == part = "import" => Import!OneBubblePerTrade

\* A link to a bubble is honoured when the list has it, and an empty page is shown in place of
\* results only after the list got shorter (Bubbles.tsx).
ViewIsSound == part = "library" => Library!ViewIsSound

\* List, page number and summary are those of the filter on the screen, unless an answer was
\* overtaken by a later one (Trades.tsx).
AnswersFit == part = "trades" => TradeList!AnswersFit

\* The list of notes shows notes the server has, as it has them and once each, unless a change
\* crossed its answers (noteStore.ts).
NotesAreTrue == part = "notes" => Notes!ListIsTrue

\* What the card says of its items is so at the server, and they are those of the chosen venue,
\* unless loads or verdicts crossed or failed (HomeSafetyCheckCard.tsx).
CardIsTrue == part = "safety" => Safety!CardIsTrue

\* A verdict that was given is stored for every trade of its item (HomeSafetyCheckCard.tsx:120-150).
VerdictForAll == [][part = "safety" => Safety!EndsForAll]_vars

\* The form saves a bubble once, with its own opinion, and says where its question stands; the
\* evidence it previews is what its options amount to (BubbleCreateModal.tsx).
FormFits ==
    /\ part = "composer" => Composer!FormIsSound
    /\ part = "evidence" => Evidence!PreviewFits

\* What the user typed, a memo or a note, no answer takes away, with the exceptions the two
\* modules name (BubbleCreateModal.tsx:323, NoteEditor.tsx, NoteList.tsx).
TypedIsKept ==
    [][/\ part = "composer" => Composer!KeepsMemo
       /\ part = "notes" => Notes!KeepsText]_vars
=============================================================================
