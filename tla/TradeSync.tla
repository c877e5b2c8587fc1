------------------------------ MODULE TradeSync ------------------------------
(***************************************************************************)
(* Exchange synchronisation of one user's Binance credential               *)
(* (backend/internal/jobs/trade_poller.go, the Sync handler that runs the  *)
(* same code, and the two repositories behind it).                         *)
(*                                                                         *)
(* The poller goroutine and any number of manual syncs (HTTP requests) run *)
(* fetchAndStoreTrades symbol by symbol, without a lock between them: each *)
(* reads the cursor row once, pages through the exchange's trades, commits *)
(* every new trade (with its bubble) in a transaction of its own, then     *)
(* writes the trade event on a best-effort basis, and overwrites the       *)
(* cursor after the last page.  The process may crash at any point.        *)
(*                                                                         *)
(* Abstractions.  A trade is its rank among the user's trades of a symbol  *)
(* (the code only compares ids and adds one).  A trade row and its bubble  *)
(* are one element, since one transaction writes both.  Time is counted in *)
(* units of which Window make the seven days of the first look-back.       *)
(* "origin" and "floor" are history variables: no action reads them to     *)
(* decide anything.                                                        *)
(***************************************************************************)
EXTENDS Integers, Sequences, FiniteSets

CONSTANTS
    Symbol,     \* symbols of the user's list (user_symbols)
    NoSymbol,   \* no symbol: the value of an idle worker's local
    Dead,       \* symbols whose requests the exchange always rejects
    Poller,     \* the goroutine of startUserPoller
    Manual,     \* HTTP requests that run the Sync handler
    PageLimit,  \* trades per page: limit=1000
    Window,     \* look-back of a first sync: 7 days
    MaxTime,    \* bound of the clock
    MaxTrades,  \* bound of the trades made per symbol
    MaxFaults   \* bound of crashes and failed calls

ASSUME SymbolAssumption == NoSymbol \notin Symbol /\ Dead \subseteq Symbol
ASSUME PageAssumption == PageLimit \in Nat \ {0}
ASSUME WindowAssumption == Window \in Nat \ {0}
ASSUME BoundsAssumption == MaxTime \in Nat /\ MaxTrades \in Nat /\ MaxFaults \in Nat
ASSUME PollerAssumption == Poller \notin Manual
ASSUME ManualAssumption == IsFiniteSet(Manual)

Worker == Manual \cup {Poller}

VARIABLES
    clock,      \* current time
    ledger,     \* exchange: ledger[s][i] is the time of trade i of symbol s
    trades,     \* table trades (and its bubbles): ids stored per symbol
    events,     \* table trade_events: ids that have their event
    cursor,     \* trade_sync_state.last_trade_id, 0 when there is no row
    origin,     \* history: oldest time the first saved cursor vouches for
    up,         \* the backend process runs
    registered, \* a valid exchange_credentials row exists
    polling,    \* a poller goroutine exists in runningPollers
    enabled,    \* admin policy agent_service_poller_enabled
    faults,     \* crashes and failed calls so far
    run,        \* table runs: manual syncs whose row says "running"
    pc,         \* where each worker stands
    todo,       \* symbols it has not synced yet
    sync,       \* symbol it is syncing, and what for
    ask,        \* parameters of its next request
    page,       \* the page of trades in hand
    next        \* id of the first trade of the page not yet persisted

exchangeVars == <<clock, ledger>>
tables   == <<trades, events, cursor, origin>>
service  == <<up, registered, polling, enabled>>
locals   == <<sync, ask, page, next>>
worker   == <<pc, todo, locals>>
vars     == <<exchangeVars, tables, service, faults, run, worker>>

Locations == {"idle", "read", "request", "persist", "event", "save"}

\* Locals of fetchAndStoreTrades; zero stands for "not set", as in the code.
Sync == [sym   : Symbol \cup {NoSymbol},
         floor : Nat,       \* history: oldest time this sync covers
         began : Nat]       \* when it read the cursor row
Ask  == [byId  : BOOLEAN,   \* useFromID
         from  : Nat,       \* fromID
         start : Nat]       \* startTime
Page == [last   : Nat,      \* lastID: the highest id of the page
         full   : BOOLEAN,  \* the page had PageLimit trades
         latest : Nat]      \* latestID

NoSync == [sym |-> NoSymbol, floor |-> 0, began |-> 0]
NoAsk  == [byId |-> FALSE, from |-> 0, start |-> 0]
NoPage == [last |-> 0, full |-> FALSE, latest |-> 0]

VariablesTyped ==
    /\ clock \in Nat
    /\ ledger \in [Symbol -> Seq(Nat)]
    /\ trades \in [Symbol -> SUBSET Nat]
    /\ events \in [Symbol -> SUBSET Nat]
    /\ cursor \in [Symbol -> Nat]
    /\ origin \in [Symbol -> Nat]
    /\ up \in BOOLEAN /\ registered \in BOOLEAN
    /\ polling \in BOOLEAN /\ enabled \in BOOLEAN
    /\ faults \in Nat
    /\ run \subseteq Manual
    /\ pc \in [Worker -> Locations]
    /\ todo \in [Worker -> SUBSET Symbol]
    /\ sync \in [Worker -> Sync]
    /\ ask \in [Worker -> Ask]
    /\ page \in [Worker -> Page]
    /\ next \in [Worker -> Nat]

\* A worker inside fetchAndStoreTrades.
Busy(w) == pc[w] \in {"request", "persist", "event", "save"}

\* Types, and what a worker's place says of its locals: a busy one has a symbol,
\* one about to write an event has just stored a trade.
TypeOK ==
    /\ VariablesTyped
    /\ \A w \in Worker : Busy(w) => sync[w].sym \in Symbol
    /\ \A w \in Worker : pc[w] = "event" => next[w] > 0

Init ==
    /\ clock = 0
    /\ ledger = [s \in Symbol |-> <<>>]
    /\ trades = [s \in Symbol |-> {}]
    /\ events = [s \in Symbol |-> {}]
    /\ cursor = [s \in Symbol |-> 0]
    /\ origin = [s \in Symbol |-> 0]
    /\ up = TRUE
    /\ registered \in BOOLEAN
    /\ polling = registered
    /\ enabled = TRUE
    /\ faults = 0
    /\ run = {}
    /\ pc = [w \in Worker |-> "idle"]
    /\ todo = [w \in Worker |-> {}]
    /\ sync = [w \in Worker |-> NoSync]
    /\ ask = [w \in Worker |-> NoAsk]
    /\ page = [w \in Worker |-> NoPage]
    /\ next = [w \in Worker |-> 0]

-----------------------------------------------------------------------------
(* The exchange and the clock *)

\* A trade the user makes on the exchange; it is visible at once.
TradeOccurs(s) ==
    /\ Len(ledger[s]) < MaxTrades
    /\ ledger' = [ledger EXCEPT ![s] = Append(@, clock)]
    /\ UNCHANGED <<clock, tables, service, faults, run, worker>>

\* Time passes.  The sync of one symbol takes less than the seven-day window:
\* every request in it has a fifteen-second timeout.
Tick ==
    /\ clock < MaxTime
    /\ \A w \in Worker : Busy(w) => clock < sync[w].began + Window
    /\ clock' = clock + 1
    /\ UNCHANGED <<ledger, tables, service, faults, run, worker>>

-----------------------------------------------------------------------------
(* Failures: every failing call spends one of MaxFaults. *)

Fault == faults < MaxFaults /\ faults' = faults + 1

-----------------------------------------------------------------------------
(* Starting a pass over the symbols *)

\* Mutant: a pass that requests trades before it has picked a symbol.
BeginUnread(w) ==
    /\ pc[w] = "idle"
    /\ pc' = [pc EXCEPT ![w] = "request"]
    /\ todo' = [todo EXCEPT ![w] = Symbol]

Begin(w) ==
    /\ pc[w] = "idle"
    /\ pc' = [pc EXCEPT ![w] = "read"]
    /\ todo' = [todo EXCEPT ![w] = Symbol]

\* A tick of the poller goroutine.  The policy fails open: an error reading it
\* lets the pass start.
PollStart ==
    /\ up /\ polling
    /\ Begin(Poller)
    /\ \/ enabled /\ UNCHANGED faults
       \/ ~enabled /\ Fault
    /\ UNCHANGED <<exchangeVars, tables, service, run, locals>>

\* The Sync handler: a run row, then the same pass in the request's goroutine.
ManualStart(w) ==
    /\ up /\ registered
    /\ Begin(w)
    /\ run' = run \cup {w}
    /\ UNCHANGED <<exchangeVars, tables, service, faults, locals>>

\* pollOnce fails before the first symbol (keys or symbol list): the handler
\* marks the run failed.
ManualFails(w) ==
    /\ pc[w] = "read" /\ todo[w] = Symbol
    /\ Fault
    /\ pc' = [pc EXCEPT ![w] = "idle"]
    /\ todo' = [todo EXCEPT ![w] = {}]
    /\ run' = run \ {w}
    /\ UNCHANGED <<exchangeVars, tables, service, locals>>

-----------------------------------------------------------------------------
(* fetchAndStoreTrades *)

WindowStart == IF clock > Window THEN clock - Window ELSE 0

\* Reading the cursor row decides what the sync asks for: everything by id
\* (full backfill, manual only), everything after the cursor, or the window.
ReadState(w, s, backfill) ==
    LET resume == ~backfill /\ cursor[s] > 0
    IN  /\ pc[w] = "read" /\ s \in todo[w]
        /\ backfill => w \in Manual
        /\ todo' = [todo EXCEPT ![w] = @ \ {s}]
        /\ sync' = [sync EXCEPT ![w] =
                      [sym |-> s, began |-> clock,
                       floor |-> IF backfill THEN 0
                                 ELSE IF resume THEN origin[s] ELSE WindowStart]]
        /\ ask' = [ask EXCEPT ![w] =
                     [byId  |-> backfill \/ resume,
                      from  |-> IF resume THEN cursor[s] + 1 ELSE 0,
                      start |-> IF backfill \/ resume THEN 0 ELSE WindowStart]]
        /\ page' = [page EXCEPT ![w] = NoPage]
        /\ next' = [next EXCEPT ![w] = 0]
        /\ pc' = [pc EXCEPT ![w] = "request"]
        /\ UNCHANGED <<exchangeVars, tables, service, faults, run>>

\* What the exchange has for the request: trades from an id on, or from a time on.
Matching(w) ==
    {i \in 1..Len(ledger[sync[w].sym]) :
        IF ask[w].byId THEN i >= ask[w].from
                       ELSE ledger[sync[w].sym][i] >= ask[w].start}

RequestEmpty(w) ==
    /\ pc[w] = "request" /\ sync[w].sym \notin Dead
    /\ Matching(w) = {}
    /\ pc' = [pc EXCEPT ![w] = "save"]
    /\ UNCHANGED <<exchangeVars, tables, service, faults, run, todo, locals>>

\* A page: the oldest PageLimit matching trades, in id order.
RequestPage(w) ==
    /\ pc[w] = "request" /\ sync[w].sym \notin Dead
    /\ \E lo \in Matching(w) :
        LET len  == Len(ledger[sync[w].sym])
            more == lo + PageLimit - 1 <= len
            hi   == IF more THEN lo + PageLimit - 1 ELSE len
        IN  /\ \A i \in Matching(w) : lo <= i
            /\ next' = [next EXCEPT ![w] = lo]
            /\ page' = [page EXCEPT ![w] =
                          [last |-> hi, full |-> more,
                           latest |-> IF hi > page[w].latest THEN hi ELSE page[w].latest]]
    /\ pc' = [pc EXCEPT ![w] = "persist"]
    /\ UNCHANGED <<exchangeVars, tables, service, faults, run, todo, sync, ask>>

\* persistTrades meets a trade it already has: no row, and no event either.
SkipDuplicate(w) ==
    /\ pc[w] = "persist" /\ next[w] <= page[w].last
    /\ next[w] \in trades[sync[w].sym]
    /\ next' = [next EXCEPT ![w] = @ + 1]
    /\ UNCHANGED <<exchangeVars, tables, service, faults, run, pc, todo, sync, ask, page>>

\* Mutant: the event is left to the next sync, which skips the trade as a duplicate.
InsertTradeOnly(w) ==
    /\ pc[w] = "persist" /\ next[w] <= page[w].last
    /\ next[w] \notin trades[sync[w].sym]
    /\ trades' = [trades EXCEPT ![sync[w].sym] = @ \cup {next[w]}]
    /\ next' = [next EXCEPT ![w] = @ + 1]
    /\ UNCHANGED <<exchangeVars, events, cursor, origin, service, faults, run,
                   pc, todo, sync, ask, page>>

\* The transaction of trade and bubble commits; the event is still to be written.
InsertTrade(w) ==
    /\ pc[w] = "persist" /\ next[w] <= page[w].last
    /\ next[w] \notin trades[sync[w].sym]
    /\ trades' = [trades EXCEPT ![sync[w].sym] = @ \cup {next[w]}]
    /\ next' = [next EXCEPT ![w] = @ + 1]
    /\ pc' = [pc EXCEPT ![w] = "event"]
    /\ UNCHANGED <<exchangeVars, events, cursor, origin, service, faults, run,
                   todo, sync, ask, page>>

\* ensureTradeEvent: an error is only logged, and nobody tries again.
EnsureEvent(w) ==
    /\ pc[w] = "event"
    /\ \/ /\ events' = [events EXCEPT ![sync[w].sym] = @ \cup {next[w] - 1}]
          /\ UNCHANGED faults
       \/ Fault /\ UNCHANGED events
    /\ pc' = [pc EXCEPT ![w] = "persist"]
    /\ UNCHANGED <<exchangeVars, trades, cursor, origin, service, run, todo, locals>>

\* The page is stored: a full one is followed by a request for what comes after it.
PageDone(w) ==
    /\ pc[w] = "persist" /\ next[w] > page[w].last
    /\ IF page[w].full
       THEN /\ ask' = [ask EXCEPT ![w] =
                         [byId |-> TRUE, from |-> page[w].last + 1, start |-> 0]]
            /\ pc' = [pc EXCEPT ![w] = "request"]
       ELSE /\ pc' = [pc EXCEPT ![w] = "save"]
            /\ UNCHANGED ask
    /\ UNCHANGED <<exchangeVars, tables, service, faults, run, todo, sync, page, next>>

\* fetchAndStoreTrades returns to the loop over the symbols.
Return(w) ==
    /\ pc' = [pc EXCEPT ![w] = "read"]
    /\ sync' = [sync EXCEPT ![w] = NoSync]
    /\ ask' = [ask EXCEPT ![w] = NoAsk]
    /\ page' = [page EXCEPT ![w] = NoPage]
    /\ next' = [next EXCEPT ![w] = 0]

\* Upsert overwrites the cursor with what this sync saw; a sync that saw no
\* trade leaves the row alone.
SaveCursor(w) ==
    LET s == sync[w].sym
        seen == page[w].latest
    IN  /\ pc[w] = "save"
        /\ cursor' = [cursor EXCEPT ![s] = IF seen > 0 THEN seen ELSE @]
        /\ origin' = [origin EXCEPT ![s] = IF seen > 0 /\ cursor[s] = 0 THEN sync[w].floor ELSE @]
        /\ Return(w)
        /\ UNCHANGED <<exchangeVars, trades, events, service, faults, run, todo>>

\* Mutant: a failed sync saves how far it has read.
FailureSavesCursor(w) ==
    /\ Busy(w) /\ pc[w] # "event"
    /\ IF pc[w] = "request" /\ sync[w].sym \in Dead THEN UNCHANGED faults ELSE Fault
    /\ cursor' = [cursor EXCEPT ![sync[w].sym] =
                     IF page[w].latest > 0 THEN page[w].latest ELSE @]
    /\ Return(w)
    /\ UNCHANGED <<exchangeVars, trades, events, origin, service, run, todo>>

\* Mutant: the first symbol that fails ends the pass.
FailureEndsPass(w) ==
    /\ Busy(w) /\ pc[w] # "event"
    /\ IF pc[w] = "request" /\ sync[w].sym \in Dead THEN UNCHANGED faults ELSE Fault
    /\ todo' = [todo EXCEPT ![w] = {}]
    /\ Return(w)
    /\ UNCHANGED <<exchangeVars, tables, service, run>>

\* A request, an insert or the upsert fails: the symbol is given up, the pass goes on.
SymbolFails(w) ==
    /\ Busy(w) /\ pc[w] # "event"
    /\ IF pc[w] = "request" /\ sync[w].sym \in Dead THEN UNCHANGED faults ELSE Fault
    /\ Return(w)
    /\ UNCHANGED <<exchangeVars, tables, service, run, todo>>

\* The pass is over.  Errors of single symbols were only logged, so the run of a
\* manual sync is completed; a failed status update is ignored.
PassDone(w) ==
    /\ pc[w] = "read" /\ todo[w] = {}
    /\ pc' = [pc EXCEPT ![w] = "idle"]
    /\ \/ run' = run \ {w} /\ UNCHANGED faults
       \/ w \in Manual /\ Fault /\ UNCHANGED run
    /\ UNCHANGED <<exchangeVars, tables, service, todo, locals>>

-----------------------------------------------------------------------------
(* Administration, crash and restart *)

\* Register and Delete of the exchange handler touch the row, not the goroutine.
Register ==
    /\ up /\ ~registered
    /\ registered' = TRUE
    /\ UNCHANGED <<exchangeVars, tables, up, polling, enabled, faults, run, worker>>

DeleteCredential ==
    /\ up /\ registered
    /\ registered' = FALSE
    /\ UNCHANGED <<exchangeVars, tables, up, polling, enabled, faults, run, worker>>

SetPolicy ==
    /\ up
    /\ enabled' = ~enabled
    /\ UNCHANGED <<exchangeVars, tables, up, registered, polling, faults, run, worker>>

\* Everything in memory is lost; no job has a shutdown hook.
Crash ==
    /\ up /\ Fault
    /\ up' = FALSE
    /\ polling' = FALSE
    /\ pc' = [w \in Worker |-> "idle"]
    /\ todo' = [w \in Worker |-> {}]
    /\ sync' = [w \in Worker |-> NoSync]
    /\ ask' = [w \in Worker |-> NoAsk]
    /\ page' = [w \in Worker |-> NoPage]
    /\ next' = [w \in Worker |-> 0]
    /\ UNCHANGED <<exchangeVars, tables, registered, enabled, run>>

\* Start: one goroutine for every valid credential; if listing them fails there
\* is none until the next restart.
Restart ==
    /\ ~up
    /\ up' = TRUE
    /\ \/ polling' = registered /\ UNCHANGED faults
       \/ Fault /\ polling' = FALSE
    /\ UNCHANGED <<exchangeVars, tables, registered, enabled, run, worker>>

-----------------------------------------------------------------------------
\* The steps a worker takes by itself once it has started.
Work(w) ==
    \/ \E s \in Symbol, backfill \in BOOLEAN : ReadState(w, s, backfill)
    \/ RequestEmpty(w) \/ RequestPage(w)
    \/ SkipDuplicate(w) \/ InsertTrade(w) \/ EnsureEvent(w)
    \/ PageDone(w) \/ SaveCursor(w) \/ SymbolFails(w) \/ PassDone(w)

Next ==
    \/ \E s \in Symbol : TradeOccurs(s)
    \/ Tick
    \/ PollStart
    \/ \E w \in Manual : ManualStart(w) \/ ManualFails(w)
    \/ \E w \in Worker : Work(w)
    \/ Register \/ DeleteCredential \/ SetPolicy
    \/ Crash \/ Restart

Spec == Init /\ [][Next]_vars

\* The goroutines are scheduled and their calls return (client timeouts); the
\* container restarts (docker-compose: restart: unless-stopped); the ticker fires.
Fairness ==
    /\ \A w \in Worker : WF_vars(Work(w))
    /\ WF_vars(PollStart /\ enabled)
    /\ WF_vars(Restart)

LiveSpec == Spec /\ Fairness

-----------------------------------------------------------------------------
(* Properties *)

\* A saved cursor tells the truth: every trade at or below it, back to the oldest
\* time the first cursor covered, is stored - whatever manual syncs, crashes and
\* late upserts (which may move the cursor back) did in between.  Otherwise the
\* next sync, which asks for cursor + 1 on, would never see the missing trade.
CursorSound ==
    \A s \in Symbol : \A i \in 1..Len(ledger[s]) :
        (i <= cursor[s] /\ ledger[s][i] >= origin[s]) => i \in trades[s]

\* The strengthening that makes CursorSound inductive.

\* Every trade of s made at t or later that satisfies P is stored.
Stored(s, t, P(_)) ==
    \A i \in 1..Len(ledger[s]) : (P(i) /\ ledger[s][i] >= t) => i \in trades[s]

\* No cursor is ahead of the exchange, and none vouches for the future.
CursorInRange ==
    \A s \in Symbol : cursor[s] <= Len(ledger[s]) /\ origin[s] <= clock

\* The sync of w started less than a window ago.  The oldest trades it does not
\* ask for were asked for by the sync that created the cursor while w was busy.
LookBackSound(w) ==
    LET s == sync[w].sym
        floor == sync[w].floor
        began == sync[w].began
    IN  /\ floor <= began /\ began <= clock /\ clock <= began + Window
        /\ cursor[s] = 0 => (floor = 0 \/ floor + Window <= began)
        /\ cursor[s] > 0 => Stored(s, origin[s], LAMBDA i : ledger[s][i] < floor)

\* What the sync of w has stored so far, at each place of fetchAndStoreTrades.
ProgressSound(w) ==
    LET s == sync[w].sym
        floor == sync[w].floor
        latest == page[w].latest
    IN  /\ latest <= Len(ledger[s])
        /\ pc[w] = "request" /\ ask[w].byId =>
             /\ latest = 0 \/ latest < ask[w].from
             /\ ask[w].from <= Len(ledger[s]) + 1
             /\ Stored(s, floor, LAMBDA i : i < ask[w].from)
        /\ pc[w] = "request" /\ ~ask[w].byId => latest = 0 /\ ask[w].start = floor
        /\ pc[w] \in {"persist", "event"} =>
             /\ next[w] \in 1..(page[w].last + 1)
             /\ latest = page[w].last
             /\ Stored(s, floor, LAMBDA i : i < next[w])
             /\ ~page[w].full =>
                  \A i \in 1..Len(ledger[s]) : ledger[s][i] < sync[w].began => i <= latest
        /\ pc[w] = "save" =>
             Stored(s, floor, LAMBDA i : i <= latest \/ ledger[s][i] < sync[w].began)

JobSound(w) == LookBackSound(w) /\ ProgressSound(w)

\* The inductive invariant behind CursorSound.
CursorInvariant ==
    /\ CursorInRange
    /\ CursorSound
    /\ \A w \in Worker : Busy(w) => JobSound(w)

\* The stored trades whose event nobody is about to write.
Orphans(s) ==
    {i \in trades[s] \ events[s] :
        ~ \E w \in Worker : pc[w] = "event" /\ sync[w].sym = s /\ next[w] - 1 = i}

\* A stored trade lacks its event only through a crash or a failed insert, and
\* each costs at most one trade per worker: two syncs racing over the same page
\* never both leave the event to the other.
OrphansNeedFaults ==
    \A s \in Symbol : Cardinality(Orphans(s)) <= faults * Cardinality(Worker)

\* Trade i of s is older than anything the first cursor of s covers.
OutOfScope(s, i) == i <= Len(ledger[s]) /\ ledger[s][i] < origin[s]

\* With the policy on and a live poller from some time on, every trade made after
\* a cursor exists is stored in the end, after a pause of any length; a symbol the
\* exchange rejects does not hold up the others.
EveryTradeStored ==
    \A s \in Symbol \ Dead : \A i \in 1..MaxTrades :
        <>[](enabled /\ polling) =>
            ((cursor[s] > 0 /\ i <= Len(ledger[s]))
                ~> (i \in trades[s] \/ OutOfScope(s, i)))

=============================================================================
