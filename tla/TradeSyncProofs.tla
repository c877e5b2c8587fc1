--------------------------- MODULE TradeSyncProofs ---------------------------
(***************************************************************************)
(* Proofs about TradeSync, for any number of symbols, manual syncs, trades *)
(* and faults: the types, and that a saved cursor never lies.              *)
(***************************************************************************)
EXTENDS TradeSync, FiniteSetTheorems, TLAPS

\* Case split used by every invariance proof: one action at a time.
LEMMA StepCases ==
    ASSUME Next
    PROVE  \/ \E s \in Symbol : TradeOccurs(s)
           \/ Tick
           \/ PollStart
           \/ \E w \in Manual : ManualStart(w)
           \/ \E w \in Manual : ManualFails(w)
           \/ \E w \in Worker, s \in Symbol, backfill \in BOOLEAN : ReadState(w, s, backfill)
           \/ \E w \in Worker : RequestEmpty(w)
           \/ \E w \in Worker : RequestPage(w)
           \/ \E w \in Worker : SkipDuplicate(w)
           \/ \E w \in Worker : InsertTrade(w)
           \/ \E w \in Worker : EnsureEvent(w)
           \/ \E w \in Worker : PageDone(w)
           \/ \E w \in Worker : SaveCursor(w)
           \/ \E w \in Worker : SymbolFails(w)
           \/ \E w \in Worker : PassDone(w)
           \/ Register \/ DeleteCredential \/ SetPolicy
           \/ Crash
           \/ Restart
  BY Zenon DEF Next, Work

\* The locals of an idle worker are well typed.
LEMMA NoLocalsTyped == NoSync \in Sync /\ NoAsk \in Ask /\ NoPage \in Page
  BY DEF NoSync, Sync, NoAsk, Ask, NoPage, Page

-----------------------------------------------------------------------------
(* Type correctness *)

LEMMA TypingInit == Init => TypeOK
<1> SUFFICES ASSUME Init PROVE TypeOK
  OBVIOUS
<1>1. VariablesTyped
  BY NoLocalsTyped DEF Init, VariablesTyped, Locations
<1>2. \A w \in Worker : pc[w] = "idle"
  BY DEF Init
<1> QED
  BY <1>1, <1>2 DEF TypeOK, Busy

\* The variables Return resets, typed.
ReturnTyped ==
    /\ pc \in [Worker -> Locations]
    /\ sync \in [Worker -> Sync]
    /\ ask \in [Worker -> Ask]
    /\ page \in [Worker -> Page]
    /\ next \in [Worker -> Nat]

LEMMA ReturnKeepsTypes ==
    ASSUME ReturnTyped, NEW w \in Worker, Return(w)
    PROVE  ReturnTyped'
  BY NoLocalsTyped DEF ReturnTyped, Return, Locations

LEMMA VariablesTypedStep == TypeOK /\ [Next]_vars => VariablesTyped'
<1> SUFFICES ASSUME VariablesTyped,
                    \A w \in Worker : Busy(w) => sync[w].sym \in Symbol,
                    \A w \in Worker : pc[w] = "event" => next[w] > 0,
                    [Next]_vars
             PROVE  VariablesTyped'
  BY DEF TypeOK
<1> USE DEF exchangeVars, tables, service, worker, locals
<1>0. CASE UNCHANGED vars
  BY <1>0 DEF vars, VariablesTyped
<1>1. ASSUME NEW s \in Symbol, TradeOccurs(s) PROVE VariablesTyped'
  BY <1>1 DEF TradeOccurs, VariablesTyped
<1>2. CASE Tick
  BY <1>2 DEF Tick, VariablesTyped
<1>3. CASE PollStart
  <2>1. faults' \in Nat
    BY <1>3 DEF PollStart, Fault, VariablesTyped
  <2>2. /\ pc' \in [Worker -> Locations]
        /\ todo' \in [Worker -> SUBSET Symbol]
    BY <1>3 DEF PollStart, Begin, VariablesTyped, Locations
  <2> QED
    BY <1>3, <2>1, <2>2 DEF PollStart, VariablesTyped
<1>4. ASSUME NEW w \in Manual, ManualStart(w) PROVE VariablesTyped'
  <2>1. /\ pc' \in [Worker -> Locations]
        /\ todo' \in [Worker -> SUBSET Symbol]
    BY <1>4 DEF ManualStart, Begin, VariablesTyped, Locations
  <2> QED
    BY <1>4, <2>1 DEF ManualStart, VariablesTyped
<1>5. ASSUME NEW w \in Manual, ManualFails(w) PROVE VariablesTyped'
  <2>1. faults' \in Nat
    BY <1>5 DEF ManualFails, Fault, VariablesTyped
  <2>2. /\ pc' \in [Worker -> Locations]
        /\ todo' \in [Worker -> SUBSET Symbol]
    BY <1>5 DEF ManualFails, VariablesTyped, Locations
  <2>3. run' \subseteq Manual
    BY <1>5 DEF ManualFails, VariablesTyped
  <2>4. UNCHANGED <<clock, ledger, trades, events, cursor, origin, up, registered, polling, enabled, sync, ask, page, next>>
    BY <1>5 DEF ManualFails
  <2> QED
    BY <2>1, <2>2, <2>3, <2>4 DEF VariablesTyped
<1>6. ASSUME NEW w \in Worker, NEW s \in Symbol, NEW backfill \in BOOLEAN,
             ReadState(w, s, backfill)
      PROVE  VariablesTyped'
  <2>1. WindowStart \in Nat
    BY WindowAssumption DEF WindowStart, VariablesTyped
  <2>2. sync' \in [Worker -> Sync]
    BY <1>6, <2>1 DEF ReadState, Sync, VariablesTyped
  <2>3. ask' \in [Worker -> Ask]
    BY <1>6, <2>1 DEF ReadState, Ask, VariablesTyped
  <2>4. /\ pc' \in [Worker -> Locations]
        /\ todo' \in [Worker -> SUBSET Symbol]
        /\ page' \in [Worker -> Page]
        /\ next' \in [Worker -> Nat]
    BY <1>6, NoLocalsTyped DEF ReadState, VariablesTyped, Locations
  <2>5. UNCHANGED <<clock, ledger, trades, events, cursor, origin, up, registered, polling, enabled, faults, run>>
    BY <1>6 DEF ReadState
  <2> QED
    BY <2>2, <2>3, <2>4, <2>5 DEF VariablesTyped
<1>7. ASSUME NEW w \in Worker, RequestEmpty(w) PROVE VariablesTyped'
  BY <1>7 DEF RequestEmpty, VariablesTyped, Locations
<1>8. ASSUME NEW w \in Worker, RequestPage(w) PROVE VariablesTyped'
  <2>1. sync[w].sym \in Symbol /\ page[w].latest \in Nat
    BY <1>8 DEF RequestPage, Busy, VariablesTyped, Page
  <2>2. page' \in [Worker -> Page] /\ next' \in [Worker -> Nat]
    BY <1>8, <2>1, PageAssumption DEF RequestPage, Matching, Page, VariablesTyped
  <2>3. pc' \in [Worker -> Locations]
    BY <1>8 DEF RequestPage, VariablesTyped, Locations
  <2>4. UNCHANGED <<clock, ledger, trades, events, cursor, origin, up, registered, polling, enabled, faults, run, todo, sync, ask>>
    BY <1>8 DEF RequestPage
  <2> QED
    BY <2>2, <2>3, <2>4 DEF VariablesTyped
<1>9. ASSUME NEW w \in Worker, SkipDuplicate(w) PROVE VariablesTyped'
  BY <1>9 DEF SkipDuplicate, VariablesTyped
<1>10. ASSUME NEW w \in Worker, InsertTrade(w) PROVE VariablesTyped'
  <2>1. trades' \in [Symbol -> SUBSET Nat]
    BY <1>10 DEF InsertTrade, Busy, VariablesTyped
  <2>2. pc' \in [Worker -> Locations] /\ next' \in [Worker -> Nat]
    BY <1>10 DEF InsertTrade, VariablesTyped, Locations
  <2>3. UNCHANGED <<clock, ledger, events, cursor, origin, up, registered, polling, enabled, faults, run, todo, sync, ask, page>>
    BY <1>10 DEF InsertTrade
  <2> QED
    BY <2>1, <2>2, <2>3 DEF VariablesTyped
<1>11. ASSUME NEW w \in Worker, EnsureEvent(w) PROVE VariablesTyped'
  <2>1. events' \in [Symbol -> SUBSET Nat]
    <3>1. sync[w].sym \in Symbol /\ next[w] - 1 \in Nat
      BY <1>11 DEF EnsureEvent, Busy, VariablesTyped
    <3>2. \/ events' = [events EXCEPT ![sync[w].sym] = @ \cup {next[w] - 1}]
          \/ events' = events
      BY <1>11 DEF EnsureEvent
    <3>3. events \in [Symbol -> SUBSET Nat]
      BY DEF VariablesTyped
    <3>4. events[sync[w].sym] \cup {next[w] - 1} \in SUBSET Nat
      BY <3>1, <3>3
    <3>5. CASE events' = [events EXCEPT ![sync[w].sym] = @ \cup {next[w] - 1}]
      BY <3>3, <3>4, <3>5, Zenon
    <3> QED
      BY <3>2, <3>3, <3>5
  <2>2. pc' \in [Worker -> Locations] /\ faults' \in Nat
    BY <1>11 DEF EnsureEvent, VariablesTyped, Locations, Fault
  <2>3. UNCHANGED <<clock, ledger, trades, cursor, origin, up, registered, polling, enabled, run, todo, sync, ask, page, next>>
    BY <1>11 DEF EnsureEvent
  <2> QED
    BY <2>1, <2>2, <2>3 DEF VariablesTyped
<1>12. ASSUME NEW w \in Worker, PageDone(w) PROVE VariablesTyped'
  <2>1. ask' \in [Worker -> Ask]
    <3>1. page[w].last + 1 \in Nat
      BY DEF VariablesTyped, Page
    <3>2. [byId |-> TRUE, from |-> page[w].last + 1, start |-> 0] \in Ask
      BY <3>1 DEF Ask
    <3>3. \/ ask' = [ask EXCEPT ![w] = [byId |-> TRUE, from |-> page[w].last + 1, start |-> 0]]
          \/ ask' = ask
      BY <1>12, Zenon DEF PageDone
    <3> QED
      BY <3>2, <3>3 DEF VariablesTyped
  <2>2. pc' \in [Worker -> Locations]
    BY <1>12 DEF PageDone, VariablesTyped, Locations
  <2>3. UNCHANGED <<clock, ledger, trades, events, cursor, origin, up, registered, polling, enabled, faults, run, todo, sync, page, next>>
    BY <1>12 DEF PageDone
  <2> QED
    BY <2>1, <2>2, <2>3 DEF VariablesTyped
<1>13. ASSUME NEW w \in Worker, SaveCursor(w) PROVE VariablesTyped'
  <2>1. cursor' \in [Symbol -> Nat] /\ origin' \in [Symbol -> Nat]
    BY <1>13 DEF SaveCursor, Busy, VariablesTyped, Sync, Page
  <2>2. ReturnTyped'
    BY <1>13, ReturnKeepsTypes DEF SaveCursor, VariablesTyped, ReturnTyped
  <2> QED
    BY <1>13, <2>1, <2>2 DEF SaveCursor, VariablesTyped, ReturnTyped
<1>14. ASSUME NEW w \in Worker, SymbolFails(w) PROVE VariablesTyped'
  <2>1. faults' \in Nat
    BY <1>14 DEF SymbolFails, Fault, VariablesTyped
  <2>2. ReturnTyped'
    BY <1>14, ReturnKeepsTypes DEF SymbolFails, VariablesTyped, ReturnTyped
  <2> QED
    BY <1>14, <2>1, <2>2 DEF SymbolFails, VariablesTyped, ReturnTyped
<1>15. ASSUME NEW w \in Worker, PassDone(w) PROVE VariablesTyped'
  <2>1. run' \subseteq Manual
    BY <1>15 DEF PassDone, VariablesTyped
  <2>2. pc' \in [Worker -> Locations] /\ faults' \in Nat
    BY <1>15 DEF PassDone, VariablesTyped, Locations, Fault
  <2> QED
    BY <1>15, <2>1, <2>2 DEF PassDone, VariablesTyped
<1>16. CASE Register \/ DeleteCredential \/ SetPolicy
  BY <1>16 DEF Register, DeleteCredential, SetPolicy, VariablesTyped
<1>17. CASE Crash
  <2>1. /\ pc' \in [Worker -> Locations]
        /\ todo' \in [Worker -> SUBSET Symbol]
        /\ next' \in [Worker -> Nat]
        /\ faults' \in Nat
    BY <1>17 DEF Crash, Fault, VariablesTyped, Locations
  <2>2. /\ sync' \in [Worker -> Sync]
        /\ ask' \in [Worker -> Ask]
        /\ page' \in [Worker -> Page]
    BY <1>17, NoLocalsTyped DEF Crash
  <2>3. up' \in BOOLEAN /\ polling' \in BOOLEAN
    BY <1>17 DEF Crash
  <2> QED
    BY <1>17, <2>1, <2>2, <2>3 DEF Crash, VariablesTyped
<1>18. CASE Restart
  <2>1. faults' \in Nat
    BY <1>18 DEF Restart, Fault, VariablesTyped
  <2>2. up' \in BOOLEAN /\ polling' \in BOOLEAN
    BY <1>18 DEF Restart, VariablesTyped
  <2> QED
    BY <1>18, <2>1, <2>2 DEF Restart, VariablesTyped
<1> QED
  BY <1>0, <1>1, <1>2, <1>3, <1>4, <1>5, <1>6, <1>7, <1>8, <1>9, <1>10, <1>11,
     <1>12, <1>13, <1>14, <1>15, <1>16, <1>17, <1>18, StepCases, Zenon

\* Where a step puts a worker, its locals are the ones its place asks for.
LEMMA PlacesStep ==
    ASSUME TypeOK, [Next]_vars, NEW w \in Worker
    PROVE  /\ Busy(w)' => sync'[w].sym \in Symbol
           /\ pc'[w] = "event" => next'[w] > 0
<1> USE DEF exchangeVars, tables, service, worker, locals
<1>0. /\ VariablesTyped
      /\ \A v \in Worker : Busy(v) => sync[v].sym \in Symbol
      /\ \A v \in Worker : pc[v] = "event" => next[v] > 0
  BY DEF TypeOK
<1>1. CASE UNCHANGED <<pc, sync, next>>
  BY <1>0, <1>1 DEF Busy
<1>2. CASE PollStart
  BY <1>0, <1>2 DEF PollStart, Begin, Busy, VariablesTyped
<1>3. ASSUME NEW v \in Manual, ManualStart(v) \/ ManualFails(v)
      PROVE  /\ Busy(w)' => sync'[w].sym \in Symbol
             /\ pc'[w] = "event" => next'[w] > 0
  BY <1>0, <1>3 DEF ManualStart, ManualFails, Begin, Busy, VariablesTyped
<1>4. ASSUME NEW v \in Worker, NEW s \in Symbol, NEW backfill \in BOOLEAN,
             ReadState(v, s, backfill)
      PROVE  /\ Busy(w)' => sync'[w].sym \in Symbol
             /\ pc'[w] = "event" => next'[w] > 0
  BY <1>0, <1>4 DEF ReadState, Busy, VariablesTyped
<1>5. ASSUME NEW v \in Worker,
             RequestEmpty(v) \/ EnsureEvent(v) \/ PageDone(v) \/ PassDone(v)
      PROVE  /\ Busy(w)' => sync'[w].sym \in Symbol
             /\ pc'[w] = "event" => next'[w] > 0
  BY <1>0, <1>5 DEF RequestEmpty, EnsureEvent, PageDone, PassDone, Busy, VariablesTyped
<1>6. ASSUME NEW v \in Worker,
             RequestPage(v) \/ SkipDuplicate(v) \/ InsertTrade(v)
      PROVE  /\ Busy(w)' => sync'[w].sym \in Symbol
             /\ pc'[w] = "event" => next'[w] > 0
  BY <1>0, <1>6 DEF RequestPage, SkipDuplicate, InsertTrade, Busy, VariablesTyped
<1>7. ASSUME NEW v \in Worker, Return(v), w # v => UNCHANGED <<pc[w], sync[w], next[w]>>
      PROVE  /\ Busy(w)' => sync'[w].sym \in Symbol
             /\ pc'[w] = "event" => next'[w] > 0
  BY <1>0, <1>7 DEF Return, Busy, VariablesTyped
<1>8. CASE Crash
  BY <1>8 DEF Crash, Busy
<1>9. \A v \in Worker : Return(v) /\ w # v => UNCHANGED <<pc[w], sync[w], next[w]>>
  BY <1>0 DEF Return, VariablesTyped
<1>10. CASE \E v \in Worker : SaveCursor(v) \/ SymbolFails(v)
  BY <1>7, <1>9, <1>10 DEF SaveCursor, SymbolFails
<1>11. CASE \/ \E s \in Symbol : TradeOccurs(s)
            \/ Tick \/ Register \/ DeleteCredential \/ SetPolicy \/ Restart \/ UNCHANGED vars
  BY <1>1, <1>11 DEF TradeOccurs, Tick, Register, DeleteCredential, SetPolicy, Restart, vars
<1> QED
  BY <1>2, <1>3, <1>4, <1>5, <1>6, <1>8, <1>10, <1>11, StepCases, Zenon

LEMMA TypingStep == TypeOK /\ [Next]_vars => TypeOK'
  BY VariablesTypedStep, PlacesStep DEF TypeOK

\* Every variable keeps its type (TypeOK of TradeSync).
THEOREM Typing == Spec => []TypeOK
  BY TypingInit, TypingStep, PTL DEF Spec

-----------------------------------------------------------------------------
(* The cursor *)

\* A step that leaves a busy worker, its symbol's ledger and the cursor alone, and
\* deletes no trade, leaves its part of the invariant alone.
LEMMA Undisturbed ==
    ASSUME TypeOK, NEW w \in Worker, Busy(w), JobSound(w),
           UNCHANGED <<clock, ledger, cursor, origin>>,
           UNCHANGED <<pc[w], sync[w], ask[w], page[w], next[w]>>,
           \A s \in Symbol : trades[s] \subseteq trades'[s]
    PROVE  JobSound(w)'
<1>1. sync[w].sym \in Symbol
  BY DEF TypeOK
<1>2. LookBackSound(w)'
  BY <1>1 DEF JobSound, LookBackSound, Stored
<1>3. ProgressSound(w)'
  BY <1>1 DEF JobSound, ProgressSound, Stored
<1> QED
  BY <1>2, <1>3 DEF JobSound

LEMMA CursorInit == Init => CursorInvariant
  BY DEF Init, CursorInvariant, CursorInRange, CursorSound, Busy

\* A step of worker w that touches no cursor and deletes no trade keeps the
\* invariant if it keeps w's own part.
LEMMA OwnPart ==
    ASSUME TypeOK, CursorInvariant, NEW w \in Worker,
           UNCHANGED <<clock, ledger, cursor, origin>>,
           \A s \in Symbol : trades[s] \subseteq trades'[s],
           \A v \in Worker \ {w} : UNCHANGED <<pc[v], sync[v], ask[v], page[v], next[v]>>,
           Busy(w)' => JobSound(w)'
    PROVE  CursorInvariant'
<1>1. CursorInRange' /\ CursorSound'
  BY DEF CursorInvariant, CursorInRange, CursorSound
<1>2. ASSUME NEW v \in Worker, v # w, Busy(v)' PROVE JobSound(v)'
  <2>1. UNCHANGED <<pc[v], sync[v], ask[v], page[v], next[v]>>
    BY <1>2
  <2>2. Busy(v) /\ JobSound(v)
    BY <1>2, <2>1 DEF Busy, CursorInvariant
  <2> QED
    BY <2>1, <2>2, Undisturbed
<1> QED
  BY <1>1, <1>2 DEF CursorInvariant

\* The exchange and the clock: a new trade is later than all that was promised.
LEMMA TradeOccursStep ==
    ASSUME TypeOK, CursorInvariant, NEW s \in Symbol, TradeOccurs(s)
    PROVE  CursorInvariant'
<1> USE DEF tables, worker, locals
<1> DEFINE n == Len(ledger[s]) + 1
<1>1. /\ ledger \in [Symbol -> Seq(Nat)] /\ clock \in Nat
      /\ ledger' = [ledger EXCEPT ![s] = Append(ledger[s], clock)]
      /\ UNCHANGED <<clock, trades, cursor, origin, pc, sync, ask, page, next>>
  BY DEF TradeOccurs, TypeOK, VariablesTyped
<1>2. ASSUME NEW r \in Symbol
      PROVE  /\ Len(ledger[r]) \in Nat
             /\ Len(ledger'[r]) \in Nat /\ Len(ledger'[r]) >= Len(ledger[r])
             /\ \A i \in 1..Len(ledger[r]) : ledger'[r][i] = ledger[r][i]
             /\ \A i \in 1..Len(ledger'[r]) :
                  i \in 1..Len(ledger[r]) \/ (i = Len(ledger[r]) + 1 /\ ledger'[r][i] = clock)
  <2>1. ledger[r] \in Seq(Nat)
    BY <1>1
  <2>2. CASE r = s
    <3>1. ledger'[r] = Append(ledger[r], clock)
      BY <1>1, <2>2
    <3> QED
      BY <1>1, <2>1, <3>1
  <2>3. CASE r # s
    <3>1. ledger'[r] = ledger[r]
      BY <1>1, <2>3
    <3> QED
      BY <2>1, <3>1
  <2> QED
    BY <2>2, <2>3
<1>3. CursorInRange'
  BY <1>1, <1>2 DEF CursorInvariant, CursorInRange, TypeOK, VariablesTyped
<1>4. CursorSound'
  BY <1>1, <1>2 DEF CursorInvariant, CursorInRange, CursorSound, TypeOK, VariablesTyped
<1>5. ASSUME NEW w \in Worker, Busy(w)' PROVE JobSound(w)'
  <2>1. Busy(w) /\ JobSound(w) /\ sync[w].sym \in Symbol
    BY <1>1, <1>5 DEF Busy, CursorInvariant, TypeOK
  <2>2. /\ cursor[sync[w].sym] \in Nat /\ origin[sync[w].sym] \in Nat
        /\ sync[w] \in Sync /\ ask[w] \in Ask /\ page[w] \in Page /\ next[w] \in Nat
    BY <2>1 DEF TypeOK, VariablesTyped
  <2>3. PICK r \in Symbol : r = sync[w].sym
    BY <2>1
  <2>4. /\ Len(ledger[r]) \in Nat /\ Len(ledger'[r]) \in Nat
        /\ Len(ledger'[r]) >= Len(ledger[r])
        /\ \A i \in 1..Len(ledger'[r]) :
             \/ i \in 1..Len(ledger[r]) /\ ledger'[r][i] = ledger[r][i]
             \/ i = Len(ledger[r]) + 1 /\ ledger'[r][i] = clock
    BY <1>2
  <2>5. sync[w].floor \in Nat /\ sync[w].began \in Nat
    BY <2>2 DEF Sync
  <2>6. LookBackSound(w) /\ ProgressSound(w)
    BY <2>1 DEF JobSound
  <2>7. LookBackSound(w)'
    <3>1. sync[w].floor <= clock
      BY <1>1, <2>5, <2>6 DEF LookBackSound
    <3>2. ASSUME NEW i \in 1..Len(ledger'[r]), cursor[r] > 0, ledger'[r][i] < sync[w].floor,
                 ledger'[r][i] >= origin[r]
          PROVE  i \in trades[r]
      <4>1. \A k \in 1..Len(ledger[r]) :
              ledger[r][k] < sync[w].floor /\ ledger[r][k] >= origin[r] => k \in trades[r]
        BY <2>3, <2>6, <3>2 DEF LookBackSound, Stored
      <4> QED
        BY <1>1, <2>4, <2>5, <3>1, <3>2, <4>1
    <3> QED
      BY <1>1, <2>3, <2>6, <3>2 DEF LookBackSound, Stored
  <2>8. ProgressSound(w)'
    <3>1. /\ ask[w].from \in Nat /\ page[w].latest \in Nat /\ page[w].last \in Nat
          /\ next[w] \in Nat /\ sync[w].began <= clock
      BY <2>2, <2>6 DEF Ask, Page, LookBackSound
    <3>2. page[w].latest <= Len(ledger'[r])
      BY <2>3, <2>4, <2>6, <3>1 DEF ProgressSound
    <3>3. ASSUME pc[w] = "request", ask[w].byId
          PROVE  /\ ask[w].from <= Len(ledger'[r]) + 1
                 /\ \A i \in 1..Len(ledger'[r]) :
                      i < ask[w].from /\ ledger'[r][i] >= sync[w].floor => i \in trades[r]
      <4>1. /\ ask[w].from <= Len(ledger[r]) + 1
            /\ \A i \in 1..Len(ledger[r]) :
                 i < ask[w].from /\ ledger[r][i] >= sync[w].floor => i \in trades[r]
        BY <2>3, <2>6, <3>3 DEF ProgressSound, Stored
      <4> QED
        BY <2>4, <3>1, <4>1, SMTT(30)
    <3>4. ASSUME pc[w] \in {"persist", "event"}
          PROVE  /\ \A i \in 1..Len(ledger'[r]) :
                      i < next[w] /\ ledger'[r][i] >= sync[w].floor => i \in trades[r]
                 /\ ~page[w].full =>
                      \A i \in 1..Len(ledger'[r]) :
                        ledger'[r][i] < sync[w].began => i <= page[w].latest
      <4>1. next[w] <= Len(ledger[r]) + 1
        BY <2>3, <2>6, <3>1, <3>4, <2>4 DEF ProgressSound
      <4>2. \A i \in 1..Len(ledger[r]) :
              i < next[w] /\ ledger[r][i] >= sync[w].floor => i \in trades[r]
        BY <2>3, <2>6, <3>4 DEF ProgressSound, Stored
      <4>3. ~page[w].full =>
              \A i \in 1..Len(ledger[r]) : ledger[r][i] < sync[w].began => i <= page[w].latest
        BY <2>3, <2>6, <3>4, Zenon DEF ProgressSound
      <4>4. ASSUME NEW i \in 1..Len(ledger'[r]), i < next[w], ledger'[r][i] >= sync[w].floor
            PROVE  i \in trades[r]
        BY <2>4, <3>1, <4>1, <4>2, <4>4
      <4>5. ASSUME ~page[w].full, NEW i \in 1..Len(ledger'[r]), ledger'[r][i] < sync[w].began
            PROVE  i <= page[w].latest
        BY <1>1, <2>4, <2>5, <3>1, <4>3, <4>5
      <4> QED
        BY <4>4, <4>5
    <3>5. ASSUME pc[w] = "save"
          PROVE  \A i \in 1..Len(ledger'[r]) :
                   (i <= page[w].latest \/ ledger'[r][i] < sync[w].began)
                     /\ ledger'[r][i] >= sync[w].floor => i \in trades[r]
      <4>1. \A i \in 1..Len(ledger[r]) :
              (i <= page[w].latest \/ ledger[r][i] < sync[w].began)
                /\ ledger[r][i] >= sync[w].floor => i \in trades[r]
        BY <2>3, <2>6, <3>5 DEF ProgressSound, Stored
      <4>2. page[w].latest <= Len(ledger[r])
        BY <2>3, <2>6 DEF ProgressSound
      <4> QED
        BY <1>1, <2>4, <2>5, <3>1, <4>1, <4>2
    <3>6. UNCHANGED <<trades, pc, sync, ask, page, next>>
      BY <1>1
    <3> QED
      BY <2>3, <2>6, <3>2, <3>3, <3>4, <3>5, <3>6 DEF ProgressSound, Stored
  <2> QED
    BY <2>7, <2>8 DEF JobSound
<1> QED
  BY <1>3, <1>4, <1>5 DEF CursorInvariant

\* A sync of one symbol is over before a window has passed.
LEMMA TickStep ==
    ASSUME TypeOK, CursorInvariant, Tick
    PROVE  CursorInvariant'
<1> USE DEF tables, worker, locals
<1>1. /\ clock \in Nat /\ clock' = clock + 1
      /\ UNCHANGED <<ledger, trades, cursor, origin, pc, sync, ask, page, next>>
      /\ \A w \in Worker : Busy(w) => clock < sync[w].began + Window
  BY DEF Tick, TypeOK, VariablesTyped
<1>2. CursorInRange' /\ CursorSound'
  BY <1>1 DEF CursorInvariant, CursorInRange, CursorSound, TypeOK, VariablesTyped
<1>3. ASSUME NEW w \in Worker, Busy(w)' PROVE JobSound(w)'
  <2>1. Busy(w) /\ JobSound(w) /\ sync[w].began \in Nat
    BY <1>1, <1>3 DEF Busy, CursorInvariant, TypeOK, VariablesTyped, Sync
  <2>2. LookBackSound(w)'
    BY <1>1, <2>1, WindowAssumption DEF JobSound, LookBackSound, Stored
  <2>3. ProgressSound(w)'
    BY <1>1, <2>1 DEF JobSound, ProgressSound, Stored
  <2> QED
    BY <2>2, <2>3 DEF JobSound
<1> QED
  BY <1>2, <1>3 DEF CursorInvariant

\* Reading the cursor: what the sync will not ask for is stored or out of its window.
LEMMA ReadStateStep ==
    ASSUME TypeOK, CursorInvariant, NEW w \in Worker, NEW s \in Symbol,
           NEW backfill \in BOOLEAN, ReadState(w, s, backfill)
    PROVE  CursorInvariant'
<1> USE DEF exchangeVars, tables, worker, locals
<1> DEFINE resume == ~backfill /\ cursor[s] > 0
           floor  == IF backfill THEN 0 ELSE IF resume THEN origin[s] ELSE WindowStart
<1>1. /\ clock \in Nat /\ cursor[s] \in Nat /\ origin[s] \in Nat
      /\ ledger[s] \in Seq(Nat) /\ Len(ledger[s]) \in Nat
      /\ cursor[s] <= Len(ledger[s]) /\ origin[s] <= clock
  BY DEF TypeOK, VariablesTyped, CursorInvariant, CursorInRange
<1>2. /\ UNCHANGED <<clock, ledger, trades, cursor, origin>>
      /\ \A v \in Worker \ {w} : UNCHANGED <<pc[v], sync[v], ask[v], page[v], next[v]>>
  BY DEF ReadState, TypeOK, VariablesTyped
<1>3. /\ sync'[w] = [sym |-> s, began |-> clock, floor |-> floor]
      /\ ask'[w] = [byId  |-> backfill \/ resume,
                    from  |-> IF resume THEN cursor[s] + 1 ELSE 0,
                    start |-> IF backfill \/ resume THEN 0 ELSE WindowStart]
      /\ page'[w] = NoPage /\ pc'[w] = "request"
  BY DEF ReadState, TypeOK, VariablesTyped
<1>4. /\ WindowStart \in Nat /\ WindowStart <= clock
      /\ WindowStart = 0 \/ WindowStart + Window <= clock
  BY <1>1, WindowAssumption DEF WindowStart
<1>5. LookBackSound(w)'
  <2>1. floor \in Nat /\ floor <= clock
    BY <1>1, <1>4
  <2>2. cursor[s] = 0 => floor = 0 \/ floor + Window <= clock
    BY <1>1, <1>4
  <2>3. ASSUME cursor[s] > 0, NEW i \in 1..Len(ledger[s]), ledger[s][i] < floor,
               ledger[s][i] >= origin[s]
        PROVE  FALSE
    <3>1. ledger[s][i] \in Nat
      BY <1>1, <2>3
    <3> QED
      BY <1>1, <2>3, <3>1
  <2>4. /\ sync'[w].sym = s /\ sync'[w].began = clock /\ sync'[w].floor = floor
    BY <1>3
  <2> HIDE DEF floor
  <2> QED
    BY <1>1, <1>2, <2>1, <2>2, <2>3, <2>4, WindowAssumption DEF LookBackSound, Stored
<1>6. ProgressSound(w)'
  <2>1. /\ sync'[w].sym = s /\ sync'[w].floor = floor /\ page'[w].latest = 0
        /\ ask'[w].byId = (backfill \/ resume)
        /\ ask'[w].from = (IF resume THEN cursor[s] + 1 ELSE 0)
        /\ ask'[w].start = (IF backfill \/ resume THEN 0 ELSE WindowStart)
    BY <1>3 DEF NoPage
  <2>2. CASE resume
    <3>1. \A i \in 1..Len(ledger[s]) :
            i < cursor[s] + 1 /\ ledger[s][i] >= origin[s] => i \in trades[s]
      BY <1>1, SMTT(30) DEF CursorInvariant, CursorSound
    <3>2. floor = origin[s] /\ ask'[w].from = cursor[s] + 1 /\ ask'[w].byId
      BY <2>1, <2>2
    <3> QED
      BY <1>1, <1>2, <1>3, <2>1, <3>1, <3>2 DEF ProgressSound, Stored
  <2>3. CASE backfill
    <3>1. floor = 0 /\ ask'[w].from = 0 /\ ask'[w].byId
      BY <2>1, <2>3
    <3> QED
      BY <1>1, <1>2, <1>3, <2>1, <3>1 DEF ProgressSound, Stored
  <2>4. CASE ~resume /\ ~backfill
    <3>1. floor = WindowStart /\ ask'[w].start = WindowStart /\ ~ask'[w].byId
      BY <2>1, <2>4
    <3> QED
      BY <1>1, <1>2, <1>3, <2>1, <3>1 DEF ProgressSound, Stored
  <2> QED
    BY <2>2, <2>3, <2>4
<1> QED
  BY <1>2, <1>5, <1>6, OwnPart DEF JobSound

\* What the locals of a busy worker are, for the steps that follow.
LEMMA BusyLocals ==
    ASSUME TypeOK, CursorInvariant, NEW w \in Worker, Busy(w)
    PROVE  /\ sync[w].sym \in Symbol /\ sync[w].floor \in Nat /\ sync[w].began \in Nat
           /\ ask[w].byId \in BOOLEAN /\ ask[w].from \in Nat /\ ask[w].start \in Nat
           /\ page[w].last \in Nat /\ page[w].full \in BOOLEAN /\ page[w].latest \in Nat
           /\ next[w] \in Nat
           /\ ledger[sync[w].sym] \in Seq(Nat) /\ Len(ledger[sync[w].sym]) \in Nat
           /\ \A i \in 1..Len(ledger[sync[w].sym]) : ledger[sync[w].sym][i] \in Nat
           /\ LookBackSound(w) /\ ProgressSound(w)
<1>1. sync[w].sym \in Symbol /\ LookBackSound(w) /\ ProgressSound(w)
  BY DEF TypeOK, CursorInvariant, JobSound
<1>2. /\ sync[w] \in Sync /\ ask[w] \in Ask /\ page[w] \in Page /\ next[w] \in Nat
      /\ ledger[sync[w].sym] \in Seq(Nat)
  BY <1>1 DEF TypeOK, VariablesTyped
<1>3. \A i \in 1..Len(ledger[sync[w].sym]) : ledger[sync[w].sym][i] \in Nat
  BY <1>2
<1> QED
  BY <1>1, <1>2, <1>3 DEF Sync, Ask, Page

\* Nothing matches the request: whatever exists is stored already or before the window.
LEMMA RequestEmptyStep ==
    ASSUME TypeOK, CursorInvariant, NEW w \in Worker, RequestEmpty(w)
    PROVE  CursorInvariant'
<1> USE DEF exchangeVars, tables, worker, locals
<1> DEFINE s == sync[w].sym
<1>1. Busy(w) /\ pc[w] = "request" /\ Matching(w) = {}
  BY DEF RequestEmpty, Busy
<1>2. /\ UNCHANGED <<clock, ledger, trades, cursor, origin, sync, ask, page, next>>
      /\ pc'[w] = "save"
      /\ \A v \in Worker \ {w} : UNCHANGED <<pc[v], sync[v], ask[v], page[v], next[v]>>
  BY DEF RequestEmpty, TypeOK, VariablesTyped
<1>3. \A i \in 1..Len(ledger[s]) : ledger[s][i] >= sync[w].floor => i \in trades[s]
  <2>1. \A i \in 1..Len(ledger[s]) :
          IF ask[w].byId THEN ~ (i >= ask[w].from) ELSE ~ (ledger[s][i] >= ask[w].start)
    BY <1>1 DEF Matching
  <2>2. CASE ask[w].byId
    BY <1>1, <2>1, <2>2, BusyLocals, SMTT(30) DEF ProgressSound, Stored
  <2>3. CASE ~ask[w].byId
    BY <1>1, <2>1, <2>3, BusyLocals DEF ProgressSound
  <2> QED
    BY <1>1, <2>2, <2>3, BusyLocals
<1>4. LookBackSound(w)'
  BY <1>1, <1>2, BusyLocals DEF LookBackSound, Stored
<1>5. ProgressSound(w)'
  BY <1>1, <1>2, <1>3, BusyLocals DEF ProgressSound, Stored
<1> QED
  BY <1>2, <1>4, <1>5, OwnPart DEF JobSound

\* A page starts at the oldest match: nothing that was asked for lies before it.
LEMMA RequestPageStep ==
    ASSUME TypeOK, CursorInvariant, NEW w \in Worker, RequestPage(w)
    PROVE  CursorInvariant'
<1> USE DEF exchangeVars, tables, worker, locals
<1> DEFINE s   == sync[w].sym
           len == Len(ledger[s])
<1>1. Busy(w) /\ pc[w] = "request"
  BY DEF RequestPage, Busy
<1>0. /\ s \in Symbol /\ len \in Nat /\ \A i \in 1..len : ledger[s][i] \in Nat
      /\ ask[w].from \in Nat /\ ask[w].start \in Nat /\ page[w].latest \in Nat
      /\ sync[w].floor \in Nat
  BY <1>1, BusyLocals
<1>2. /\ UNCHANGED <<clock, ledger, trades, cursor, origin, sync, ask>>
      /\ pc'[w] = "persist"
      /\ \A v \in Worker \ {w} : UNCHANGED <<pc[v], sync[v], ask[v], page[v], next[v]>>
  BY DEF RequestPage, TypeOK, VariablesTyped
<1>3. PICK lo \in 1..len :
        /\ IF ask[w].byId THEN lo >= ask[w].from ELSE ledger[s][lo] >= ask[w].start
        /\ \A i \in Matching(w) : lo <= i
        /\ next' = [next EXCEPT ![w] = lo]
        /\ LET more == lo + PageLimit - 1 <= len
               hi   == IF more THEN lo + PageLimit - 1 ELSE len
           IN  page' = [page EXCEPT ![w] =
                          [last |-> hi, full |-> more,
                           latest |-> IF hi > page[w].latest THEN hi ELSE page[w].latest]]
  BY DEF RequestPage, Matching
<1>4. \A i \in 1..len :
        i < lo => IF ask[w].byId THEN i < ask[w].from ELSE ledger[s][i] < ask[w].start
  <2>1. \A i \in 1..len :
          (IF ask[w].byId THEN i >= ask[w].from ELSE ledger[s][i] >= ask[w].start) => lo <= i
    BY <1>3 DEF Matching
  <2> QED
    BY <1>0, <1>3, <2>1
<1>5. PICK hi \in lo..len :
        /\ page'[w] = [last |-> hi, full |-> lo + PageLimit - 1 <= len,
                       latest |-> IF hi > page[w].latest THEN hi ELSE page[w].latest]
        /\ ~(lo + PageLimit - 1 <= len) => hi = len
  <2>1. CASE lo + PageLimit - 1 <= len
    <3>1. lo + PageLimit - 1 \in lo..len
      BY <1>0, <2>1, PageAssumption
    <3> QED
      BY <1>3, <2>1, <3>1 DEF TypeOK, VariablesTyped
  <2>2. CASE ~(lo + PageLimit - 1 <= len)
    <3>1. len \in lo..len
      BY <1>0
    <3> QED
      BY <1>3, <2>2, <3>1 DEF TypeOK, VariablesTyped
  <2> QED
    BY <2>1, <2>2
<1>6. page[w].latest = 0 \/ page[w].latest < lo
  <2>1. CASE ask[w].byId
    <3>1. page[w].latest = 0 \/ page[w].latest < ask[w].from
      BY <1>1, <2>1, BusyLocals DEF ProgressSound
    <3> QED
      BY <1>0, <1>3, <2>1, <3>1
  <2>2. CASE ~ask[w].byId
    BY <1>1, <2>2, BusyLocals DEF ProgressSound
  <2> QED
    BY <2>1, <2>2
<1>7. /\ page'[w].last = hi /\ page'[w].latest = hi
      /\ page'[w].full = (lo + PageLimit - 1 <= len)
      /\ next'[w] = lo
  <2>1. hi > page[w].latest
    BY <1>0, <1>3, <1>5, <1>6
  <2>2. next'[w] = lo
    BY <1>3 DEF TypeOK, VariablesTyped
  <2> QED
    BY <1>5, <2>1, <2>2
<1>8. \A i \in 1..len : i < lo /\ ledger[s][i] >= sync[w].floor => i \in trades[s]
  <2>1. CASE ask[w].byId
    BY <1>1, <1>4, <2>1, BusyLocals DEF ProgressSound, Stored
  <2>2. CASE ~ask[w].byId
    <3>1. ask[w].start = sync[w].floor
      BY <1>1, <2>2, BusyLocals DEF ProgressSound
    <3> QED
      BY <1>0, <1>4, <2>2, <3>1
  <2> QED
    BY <2>1, <2>2
<1>9. LookBackSound(w)'
  BY <1>1, <1>2, BusyLocals DEF LookBackSound, Stored
<1>10. ProgressSound(w)'
  <2>1. hi \in Nat /\ hi <= len /\ lo \in 1..(hi + 1) /\ len \in Nat
    BY <1>1, <1>3, <1>5, BusyLocals
  <2>2. ~page'[w].full => \A i \in 1..len : i <= hi
    <3>1. ~page'[w].full => hi = len
      BY <1>5, <1>7
    <3> QED
      BY <2>1, <3>1
  <2> QED
    BY <1>2, <1>7, <1>8, <2>1, <2>2 DEF ProgressSound, Stored
<1> QED
  BY <1>2, <1>9, <1>10, OwnPart DEF JobSound

\* persistTrades: one trade of the page after the other.
LEMMA PersistStep ==
    ASSUME TypeOK, CursorInvariant, NEW w \in Worker,
           SkipDuplicate(w) \/ InsertTrade(w) \/ EnsureEvent(w)
    PROVE  CursorInvariant'
<1> USE DEF exchangeVars, tables, worker, locals
<1> DEFINE s == sync[w].sym
<1>1. Busy(w) /\ pc[w] \in {"persist", "event"}
  BY DEF SkipDuplicate, InsertTrade, EnsureEvent, Busy
<1>0. /\ s \in Symbol /\ \A i \in 1..Len(ledger[s]) : ledger[s][i] \in Nat
      /\ page[w].last \in Nat /\ next[w] \in Nat /\ sync[w].floor \in Nat
  BY <1>1, BusyLocals
<1>2. /\ UNCHANGED <<clock, ledger, cursor, origin, sync, ask, page>>
      /\ pc'[w] \in {"persist", "event"}
      /\ \A r \in Symbol : trades[r] \subseteq trades'[r]
      /\ \A v \in Worker \ {w} : UNCHANGED <<pc[v], sync[v], ask[v], page[v], next[v]>>
  <2>1. CASE SkipDuplicate(w)
    BY <2>1 DEF SkipDuplicate, TypeOK, VariablesTyped
  <2>2. CASE InsertTrade(w)
    BY <2>2 DEF InsertTrade, TypeOK, VariablesTyped
  <2>3. CASE EnsureEvent(w)
    BY <2>3 DEF EnsureEvent, TypeOK, VariablesTyped
  <2> QED
    BY <2>1, <2>2, <2>3
<1>3. \/ next'[w] = next[w]
      \/ next[w] <= page[w].last /\ next'[w] = next[w] + 1 /\ next[w] \in trades'[s]
  BY <1>1, BusyLocals DEF SkipDuplicate, InsertTrade, EnsureEvent, TypeOK, VariablesTyped
<1>4. /\ next[w] \in 1..(page[w].last + 1) /\ page[w].latest = page[w].last
      /\ \A i \in 1..Len(ledger[s]) : i < next[w] /\ ledger[s][i] >= sync[w].floor => i \in trades[s]
  BY <1>1, BusyLocals DEF ProgressSound, Stored
<1>5. next'[w] \in 1..(page[w].last + 1)
  BY <1>1, <1>3, <1>4, BusyLocals
<1>6. \A i \in 1..Len(ledger[s]) : i < next'[w] /\ ledger[s][i] >= sync[w].floor => i \in trades'[s]
  <2>1. CASE next'[w] = next[w]
    BY <1>0, <1>2, <1>4, <2>1
  <2>2. CASE next'[w] = next[w] + 1 /\ next[w] \in trades'[s]
    <3>1. ASSUME NEW i \in 1..Len(ledger[s]), i < next'[w], ledger[s][i] >= sync[w].floor
          PROVE  i \in trades'[s]
      <4>1. i < next[w] \/ i = next[w]
        BY <1>0, <2>2, <3>1
      <4> QED
        BY <1>0, <1>2, <1>4, <2>2, <3>1, <4>1
    <3> QED
      BY <3>1
  <2> QED
    BY <1>3, <2>1, <2>2
<1>7. LookBackSound(w)'
  BY <1>1, <1>2, BusyLocals DEF LookBackSound, Stored
<1>8. ProgressSound(w)'
  BY <1>1, <1>2, <1>4, <1>5, <1>6, BusyLocals DEF ProgressSound, Stored
<1> QED
  BY <1>2, <1>7, <1>8, OwnPart DEF JobSound

\* A stored page is followed by the trades after it, or ends the sync.
LEMMA PageDoneStep ==
    ASSUME TypeOK, CursorInvariant, NEW w \in Worker, PageDone(w)
    PROVE  CursorInvariant'
<1> USE DEF exchangeVars, tables, worker, locals
<1> DEFINE s == sync[w].sym
<1>1. Busy(w) /\ pc[w] = "persist" /\ next[w] > page[w].last
  BY DEF PageDone, Busy
<1>2. /\ UNCHANGED <<clock, ledger, trades, cursor, origin, sync, page, next>>
      /\ \A v \in Worker \ {w} : UNCHANGED <<pc[v], sync[v], ask[v], page[v], next[v]>>
  BY DEF PageDone, TypeOK, VariablesTyped
<1>3. /\ next[w] = page[w].last + 1 /\ page[w].latest = page[w].last
      /\ page[w].latest <= Len(ledger[s])
      /\ \A i \in 1..Len(ledger[s]) : i < next[w] /\ ledger[s][i] >= sync[w].floor => i \in trades[s]
      /\ ~page[w].full =>
           \A i \in 1..Len(ledger[s]) : ledger[s][i] < sync[w].began => i <= page[w].latest
  <2>1. next[w] \in 1..(page[w].last + 1) /\ page[w].last \in Nat
    BY <1>1, BusyLocals DEF ProgressSound
  <2>2. page[w].latest = page[w].last /\ page[w].latest <= Len(ledger[s])
    BY <1>1, BusyLocals DEF ProgressSound
  <2>3. \A i \in 1..Len(ledger[s]) : i < next[w] /\ ledger[s][i] >= sync[w].floor => i \in trades[s]
    BY <1>1, BusyLocals DEF ProgressSound, Stored
  <2>4. ~page[w].full =>
           \A i \in 1..Len(ledger[s]) : ledger[s][i] < sync[w].began => i <= page[w].latest
    BY <1>1, BusyLocals, Zenon DEF ProgressSound
  <2> QED
    BY <1>1, <2>1, <2>2, <2>3, <2>4
<1>4. LookBackSound(w)'
  BY <1>1, <1>2, BusyLocals DEF LookBackSound, Stored
<1>5. CASE page[w].full
  <2>1. pc'[w] = "request" /\ ask'[w].byId /\ ask'[w].from = page[w].last + 1
    BY <1>5 DEF PageDone, TypeOK, VariablesTyped
  <2>2. ProgressSound(w)'
    BY <1>1, <1>2, <1>3, <2>1, BusyLocals DEF ProgressSound, Stored
  <2> QED
    BY <1>2, <1>4, <2>2, OwnPart DEF JobSound
<1>6. CASE ~page[w].full
  <2>1. pc'[w] = "save"
    BY <1>6 DEF PageDone, TypeOK, VariablesTyped
  <2>2. ProgressSound(w)'
    BY <1>1, <1>2, <1>3, <1>6, <2>1, BusyLocals DEF ProgressSound, Stored
  <2> QED
    BY <1>2, <1>4, <2>2, OwnPart DEF JobSound
<1> QED
  BY <1>1, <1>5, <1>6, BusyLocals

\* A worker that returns from fetchAndStoreTrades is no longer busy.
LEMMA ReturnEnds ==
    ASSUME TypeOK, NEW w \in Worker, Return(w)
    PROVE  /\ ~Busy(w)'
           /\ \A v \in Worker \ {w} : UNCHANGED <<pc[v], sync[v], ask[v], page[v], next[v]>>
  BY DEF Return, Busy, TypeOK, VariablesTyped

\* Overwriting the cursor, forwards or backwards, keeps it true; creating it takes
\* over the look-back of w, which covers what every other sync left out.
LEMMA SaveCursorStep ==
    ASSUME TypeOK, CursorInvariant, NEW w \in Worker, SaveCursor(w)
    PROVE  CursorInvariant'
<1> USE DEF exchangeVars, tables, worker, locals
<1> DEFINE s == sync[w].sym
           seen == page[w].latest
<1>1. Busy(w) /\ pc[w] = "save" /\ Return(w)
  BY DEF SaveCursor, Busy
<1>0. /\ s \in Symbol /\ seen \in Nat /\ seen <= Len(ledger[s])
      /\ sync[w].floor \in Nat /\ sync[w].began \in Nat /\ clock \in Nat
      /\ \A i \in 1..Len(ledger[s]) : ledger[s][i] \in Nat
      /\ cursor \in [Symbol -> Nat] /\ origin \in [Symbol -> Nat]
      /\ sync[w].floor <= sync[w].began /\ sync[w].began <= clock
      /\ clock <= sync[w].began + Window
  BY <1>1, BusyLocals DEF ProgressSound, LookBackSound, TypeOK, VariablesTyped
<1>2. /\ UNCHANGED <<clock, ledger, trades>>
      /\ ~Busy(w)'
      /\ \A v \in Worker \ {w} : UNCHANGED <<pc[v], sync[v], ask[v], page[v], next[v]>>
  BY <1>1, ReturnEnds DEF SaveCursor
<1>3. /\ cursor' = [cursor EXCEPT ![s] = IF seen > 0 THEN seen ELSE @]
      /\ origin' = [origin EXCEPT ![s] = IF seen > 0 /\ cursor[s] = 0 THEN sync[w].floor ELSE @]
  BY DEF SaveCursor
<1>4. \A r \in Symbol : r # s => cursor'[r] = cursor[r] /\ origin'[r] = origin[r]
  BY <1>0, <1>3
<1>5. \/ seen = 0 /\ cursor'[s] = cursor[s] /\ origin'[s] = origin[s]
      \/ seen > 0 /\ cursor'[s] = seen /\ cursor[s] = 0 /\ origin'[s] = sync[w].floor
      \/ seen > 0 /\ cursor'[s] = seen /\ cursor[s] > 0 /\ origin'[s] = origin[s]
  BY <1>0, <1>3
<1>6. /\ \A i \in 1..Len(ledger[s]) :
           (i <= seen \/ ledger[s][i] < sync[w].began) /\ ledger[s][i] >= sync[w].floor
             => i \in trades[s]
      /\ cursor[s] > 0 =>
           \A i \in 1..Len(ledger[s]) :
             ledger[s][i] < sync[w].floor /\ ledger[s][i] >= origin[s] => i \in trades[s]
  BY <1>1, BusyLocals DEF ProgressSound, LookBackSound, Stored
<1>7. CursorInRange'
  BY <1>0, <1>2, <1>4, <1>5 DEF CursorInvariant, CursorInRange
<1>8. CursorSound'
  <2>1. ASSUME NEW i \in 1..Len(ledger[s]), i <= cursor'[s], ledger[s][i] >= origin'[s]
        PROVE  i \in trades[s]
    <3>1. CASE seen = 0 /\ cursor'[s] = cursor[s] /\ origin'[s] = origin[s]
      BY <1>0, <2>1, <3>1 DEF CursorInvariant, CursorSound
    <3>2. CASE seen > 0 /\ cursor'[s] = seen /\ cursor[s] = 0 /\ origin'[s] = sync[w].floor
      BY <1>6, <2>1, <3>2
    <3>3. CASE seen > 0 /\ cursor'[s] = seen /\ cursor[s] > 0 /\ origin'[s] = origin[s]
      BY <1>0, <1>6, <2>1, <3>3
    <3> QED
      BY <1>5, <3>1, <3>2, <3>3
  <2>2. ASSUME NEW r \in Symbol, r # s, NEW i \in 1..Len(ledger[r]),
               i <= cursor'[r], ledger[r][i] >= origin'[r]
        PROVE  i \in trades[r]
    BY <1>4, <2>2 DEF CursorInvariant, CursorSound
  <2> QED
    BY <1>2, <2>1, <2>2 DEF CursorSound
<1>9. ASSUME NEW v \in Worker, Busy(v)' PROVE JobSound(v)'
  <2>1. v # w /\ UNCHANGED <<pc[v], sync[v], ask[v], page[v], next[v]>>
    BY <1>2, <1>9
  <2>2. Busy(v)
    BY <1>9, <2>1 DEF Busy
  <2>3. ProgressSound(v)'
    BY <1>2, <2>1, <2>2, BusyLocals DEF ProgressSound, Stored
  <2>4. LookBackSound(v)'
    <3>1. CASE sync[v].sym # s
      <4>1. PICK r \in Symbol : r = sync[v].sym
        BY <2>2, BusyLocals
      <4>2. cursor'[r] = cursor[r] /\ origin'[r] = origin[r]
        BY <1>4, <3>1, <4>1
      <4>3. LookBackSound(v)
        BY <2>2, BusyLocals
      <4> QED
        BY <1>2, <2>1, <4>1, <4>2, <4>3 DEF LookBackSound, Stored
    <3>2. CASE sync[v].sym = s
      <4>1. /\ sync[v].floor \in Nat /\ sync[v].began \in Nat
            /\ sync[v].floor <= sync[v].began /\ sync[v].began <= clock
            /\ clock <= sync[v].began + Window
            /\ cursor[s] = 0 => sync[v].floor = 0 \/ sync[v].floor + Window <= sync[v].began
            /\ cursor[s] > 0 =>
                 \A i \in 1..Len(ledger[s]) :
                   ledger[s][i] < sync[v].floor /\ ledger[s][i] >= origin[s] => i \in trades[s]
        BY <2>2, <3>2, BusyLocals DEF LookBackSound, Stored
      <4>2. ASSUME cursor'[s] > 0, NEW i \in 1..Len(ledger[s]),
                   ledger[s][i] < sync[v].floor, ledger[s][i] >= origin'[s]
            PROVE  i \in trades[s]
        <5>1. CASE cursor[s] > 0
          BY <1>0, <1>5, <4>1, <4>2, <5>1
        <5>2. CASE cursor[s] = 0
          <6>1. origin'[s] = sync[w].floor
            BY <1>0, <1>5, <4>2, <5>2
          <6>2. sync[v].floor <= sync[w].began
            BY <1>0, <4>1, <5>2, WindowAssumption
          <6>3. ledger[s][i] < sync[w].began
            BY <1>0, <4>1, <4>2, <6>2, SMTT(30)
          <6> QED
            BY <1>6, <4>2, <6>1, <6>3
        <5> QED
          BY <1>0, <5>1, <5>2
      <4>3. cursor'[s] = 0 => cursor[s] = 0
        BY <1>0, <1>5
      <4> QED
        BY <1>2, <2>1, <3>2, <4>1, <4>2, <4>3 DEF LookBackSound, Stored
    <3> QED
      BY <3>1, <3>2
  <2> QED
    BY <2>3, <2>4 DEF JobSound
<1> QED
  BY <1>7, <1>8, <1>9 DEF CursorInvariant

\* Steps that end a sync, or concern no sync at all.
LEMMA OtherSteps ==
    ASSUME TypeOK, CursorInvariant,
           UNCHANGED <<clock, ledger, trades, cursor, origin>>,
           \A w \in Worker : Busy(w)' =>
              Busy(w) /\ UNCHANGED <<pc[w], sync[w], ask[w], page[w], next[w]>>
    PROVE  CursorInvariant'
<1>1. CursorInRange' /\ CursorSound'
  BY DEF CursorInvariant, CursorInRange, CursorSound
<1>2. ASSUME NEW w \in Worker, Busy(w)' PROVE JobSound(w)'
  BY <1>2, Undisturbed DEF CursorInvariant
<1> QED
  BY <1>1, <1>2 DEF CursorInvariant

LEMMA CursorStep == TypeOK /\ CursorInvariant /\ [Next]_vars => CursorInvariant'
<1> SUFFICES ASSUME TypeOK, CursorInvariant, [Next]_vars PROVE CursorInvariant'
  OBVIOUS
<1> USE DEF exchangeVars, tables, service, worker, locals
<1>1. CASE \/ UNCHANGED vars \/ Register \/ DeleteCredential \/ SetPolicy \/ Restart
  <2>1. UNCHANGED <<clock, ledger, trades, cursor, origin, pc, sync, ask, page, next>>
    BY <1>1 DEF vars, Register, DeleteCredential, SetPolicy, Restart
  <2> QED
    BY <2>1, OtherSteps DEF Busy
<1>2. CASE PollStart
  BY <1>2, OtherSteps DEF PollStart, Begin, Busy, TypeOK, VariablesTyped
<1>3. ASSUME NEW w \in Manual, ManualStart(w) PROVE CursorInvariant'
  BY <1>3, OtherSteps DEF ManualStart, Begin, Busy, TypeOK, VariablesTyped
<1>4. ASSUME NEW w \in Manual, ManualFails(w) PROVE CursorInvariant'
  BY <1>4, OtherSteps DEF ManualFails, Busy, TypeOK, VariablesTyped
<1>5. ASSUME NEW w \in Worker, PassDone(w) PROVE CursorInvariant'
  BY <1>5, OtherSteps DEF PassDone, Busy, TypeOK, VariablesTyped
<1>6. CASE Crash
  BY <1>6, OtherSteps DEF Crash, Busy
<1>7. ASSUME NEW w \in Worker, SymbolFails(w) PROVE CursorInvariant'
  <2>1. /\ UNCHANGED <<clock, ledger, trades, cursor, origin>>
        /\ Return(w)
    BY <1>7 DEF SymbolFails
  <2>2. /\ ~Busy(w)'
        /\ \A v \in Worker \ {w} : UNCHANGED <<pc[v], sync[v], ask[v], page[v], next[v]>>
    BY <2>1, ReturnEnds
  <2>3. \A v \in Worker \ {w} : Busy(v)' => Busy(v)
    BY <2>2 DEF Busy
  <2> QED
    BY <2>1, <2>2, <2>3, OtherSteps
<1> QED
  BY <1>1, <1>2, <1>3, <1>4, <1>5, <1>6, <1>7, TradeOccursStep, TickStep, ReadStateStep,
     RequestEmptyStep, RequestPageStep, PersistStep, PageDoneStep, SaveCursorStep,
     StepCases, Zenon

\* A saved cursor never passes over a trade that is not stored (CursorSound of
\* TradeSync), for any number of manual syncs beside the poller and of crashes.
THEOREM CursorNeverLies == Spec => []CursorSound
<1>1. Init => TypeOK /\ CursorInvariant
  BY TypingInit, CursorInit
<1>2. (TypeOK /\ CursorInvariant) /\ [Next]_vars => (TypeOK /\ CursorInvariant)'
  BY TypingStep, CursorStep
<1>3. CursorInvariant => CursorSound
  BY DEF CursorInvariant
<1> QED
  BY <1>1, <1>2, <1>3, PTL DEF Spec

-----------------------------------------------------------------------------
(* Events *)

\* The events in hand: what the workers at "event" are about to write for s.
InHand(s) ==
    {next[w] - 1 : w \in {v \in Worker : pc[v] = "event" /\ sync[v].sym = s}}

OrphansFinite == \A s \in Symbol : IsFiniteSet(Orphans(s))

EventInvariant == OrphansFinite /\ OrphansNeedFaults

LEMMA WorkersFinite ==
    IsFiniteSet(Worker) /\ Cardinality(Worker) \in Nat /\ Cardinality(Worker) >= 1
<1>1. IsFiniteSet(Worker)
  BY ManualAssumption, FS_AddElement DEF Worker
<1>2. Cardinality(Worker) \in Nat /\ Cardinality(Worker) # 0
  BY <1>1, FS_CardinalityType, FS_EmptySet DEF Worker
<1> QED
  BY <1>1, <1>2

LEMMA OrphansAre ==
    ASSUME NEW s \in Symbol
    PROVE  Orphans(s) = (trades[s] \ events[s]) \ InHand(s)
  BY DEF Orphans, InHand

\* There are never more events in hand than workers.
LEMMA HandsBounded ==
    ASSUME NEW s \in Symbol
    PROVE  /\ IsFiniteSet(InHand(s))
           /\ Cardinality(InHand(s)) \in Nat
           /\ Cardinality(InHand(s)) <= Cardinality(Worker)
<1> DEFINE V == {v \in Worker : pc[v] = "event" /\ sync[v].sym = s}
           f == [w \in V |-> next[w] - 1]
<1>1. IsFiniteSet(V) /\ Cardinality(V) <= Cardinality(Worker)
  BY WorkersFinite, FS_Subset
<1>2. f \in Surjection(V, InHand(s))
  BY DEF Surjection, InHand
<1> HIDE DEF V, f
<1>3. IsFiniteSet(InHand(s)) /\ Cardinality(InHand(s)) <= Cardinality(V)
  BY <1>1, <1>2, FS_Surjection
<1> QED
  BY <1>1, <1>3, WorkersFinite, FS_CardinalityType

\* Without new orphans the bound stands.
LEMMA NoNewOrphans ==
    ASSUME TypeOK, TypeOK', EventInvariant, faults' >= faults,
           \A s \in Symbol : Orphans(s)' \subseteq Orphans(s)
    PROVE  EventInvariant'
<1> SUFFICES ASSUME NEW s \in Symbol
             PROVE  /\ IsFiniteSet(Orphans(s)')
                    /\ Cardinality(Orphans(s)') <= faults' * Cardinality(Worker)
  BY DEF EventInvariant, OrphansFinite, OrphansNeedFaults
<1>1. IsFiniteSet(Orphans(s)) /\ Cardinality(Orphans(s)) <= faults * Cardinality(Worker)
  BY DEF EventInvariant, OrphansFinite, OrphansNeedFaults
<1>2. IsFiniteSet(Orphans(s)') /\ Cardinality(Orphans(s)') <= Cardinality(Orphans(s))
  BY <1>1, FS_Subset
<1>3. Cardinality(Orphans(s)) \in Nat /\ Cardinality(Orphans(s)') \in Nat
  BY <1>1, <1>2, FS_CardinalityType
<1>4. faults \in Nat /\ faults' \in Nat
  BY DEF TypeOK, VariablesTyped
<1>5. faults * Cardinality(Worker) <= faults' * Cardinality(Worker)
  BY <1>4, WorkersFinite
<1> QED
  BY <1>1, <1>2, <1>3, <1>4, <1>5, WorkersFinite

\* A fault may orphan one trade in each worker's hand.
LEMMA NewOrphans ==
    ASSUME TypeOK, EventInvariant, faults' = faults + 1,
           \A s \in Symbol : Orphans(s)' \subseteq Orphans(s) \cup InHand(s)
    PROVE  EventInvariant'
<1> SUFFICES ASSUME NEW s \in Symbol
             PROVE  /\ IsFiniteSet(Orphans(s)')
                    /\ Cardinality(Orphans(s)') <= faults' * Cardinality(Worker)
  BY DEF EventInvariant, OrphansFinite, OrphansNeedFaults
<1>1. IsFiniteSet(Orphans(s)) /\ Cardinality(Orphans(s)) <= faults * Cardinality(Worker)
  BY DEF EventInvariant, OrphansFinite, OrphansNeedFaults
<1> DEFINE U == Orphans(s) \cup InHand(s)
           m == Cardinality(Worker)
<1>2. IsFiniteSet(Orphans(s) \cap InHand(s))
  BY <1>1, FS_Subset
<1>3. /\ IsFiniteSet(U)
      /\ Cardinality(U) = Cardinality(Orphans(s)) + Cardinality(InHand(s))
                          - Cardinality(Orphans(s) \cap InHand(s))
  BY <1>1, HandsBounded, FS_Union
<1>4. IsFiniteSet(Orphans(s)') /\ Cardinality(Orphans(s)') <= Cardinality(U)
  BY <1>3, FS_Subset
<1>5. /\ Cardinality(Orphans(s)) \in Nat /\ Cardinality(Orphans(s)') \in Nat
      /\ Cardinality(U) \in Nat /\ Cardinality(Orphans(s) \cap InHand(s)) \in Nat
  BY <1>1, <1>2, <1>3, <1>4, FS_CardinalityType
<1>6. faults \in Nat /\ m \in Nat
  BY WorkersFinite DEF TypeOK, VariablesTyped
<1> HIDE DEF m, U
<1>7. (faults + 1) * m = faults * m + m
  BY <1>6
<1>8. Cardinality(U) <= faults * m + m
  BY <1>1, <1>3, <1>5, <1>6, HandsBounded DEF m
<1> QED
  BY <1>4, <1>5, <1>6, <1>7, <1>8 DEF m

LEMMA InsertTradeStep ==
    ASSUME TypeOK, NEW w \in Worker, InsertTrade(w), NEW s \in Symbol
    PROVE  Orphans(s)' \subseteq Orphans(s)
<1> USE DEF locals, worker
<1>1. /\ trades' = [trades EXCEPT ![sync[w].sym] = @ \cup {next[w]}] /\ events' = events
      /\ next' = [next EXCEPT ![w] = @ + 1] /\ pc' = [pc EXCEPT ![w] = "event"]
      /\ sync' = sync /\ pc[w] = "persist"
  BY DEF InsertTrade
<1>2. pc'[w] = "event" /\ next'[w] - 1 = next[w]
  BY <1>1 DEF TypeOK, VariablesTyped
<1>3. \A v \in Worker : pc[v] = "event" => pc'[v] = "event" /\ next'[v] = next[v]
  BY <1>1 DEF TypeOK, VariablesTyped
<1> SUFFICES ASSUME NEW i \in Orphans(s)' PROVE i \in Orphans(s)
  OBVIOUS
<1>4. /\ i \in trades'[s] /\ i \notin events[s]
      /\ \A v \in Worker : ~(pc'[v] = "event" /\ sync[v].sym = s /\ next'[v] - 1 = i)
  BY <1>1 DEF Orphans
<1>5. i \in trades[s]
  BY <1>1, <1>2, <1>4 DEF TypeOK, VariablesTyped
<1> QED
  BY <1>3, <1>4, <1>5 DEF Orphans

LEMMA EnsureEventStep ==
    ASSUME TypeOK, TypeOK', EventInvariant, NEW w \in Worker, EnsureEvent(w)
    PROVE  EventInvariant'
<1> USE DEF locals, worker
<1>1. /\ UNCHANGED <<trades, next, sync>>
      /\ pc[w] = "event" /\ pc' = [pc EXCEPT ![w] = "persist"]
  BY DEF EnsureEvent
<1>2. \A v \in Worker : v # w => pc'[v] = pc[v]
  BY <1>1 DEF TypeOK, VariablesTyped
<1>3. CASE events' = events /\ faults' = faults + 1
  <2>1. \A s \in Symbol : Orphans(s)' \subseteq Orphans(s) \cup InHand(s)
    BY <1>1, <1>3 DEF Orphans, InHand
  <2> QED
    BY <1>3, <2>1, NewOrphans
<1>4. CASE /\ events' = [events EXCEPT ![sync[w].sym] = @ \cup {next[w] - 1}]
           /\ faults' = faults
  <2>1. ASSUME NEW s \in Symbol, NEW i \in Orphans(s)' PROVE i \in Orphans(s)
    <3>1. /\ i \in trades[s] /\ i \notin events'[s]
          /\ \A v \in Worker : ~(pc'[v] = "event" /\ sync[v].sym = s /\ next[v] - 1 = i)
      BY <1>1, <2>1 DEF Orphans
    <3>2. i \notin events[s] /\ ~(sync[w].sym = s /\ next[w] - 1 = i)
      BY <1>4, <3>1 DEF TypeOK, VariablesTyped
    <3> QED
      BY <1>2, <3>1, <3>2 DEF Orphans
  <2>2. \A s \in Symbol : Orphans(s)' \subseteq Orphans(s)
    BY <2>1
  <2>3. faults' >= faults
    BY <1>4 DEF TypeOK, VariablesTyped
  <2> QED
    BY <2>2, <2>3, NoNewOrphans
<1> QED
  BY <1>3, <1>4 DEF EnsureEvent, Fault

\* A step that writes no table and moves no worker that stands at "event".
LEMMA HandsStay ==
    ASSUME TypeOK, TypeOK', EventInvariant, faults' >= faults,
           UNCHANGED <<trades, events>>,
           \A w \in Worker : pc[w] = "event" => UNCHANGED <<pc[w], sync[w], next[w]>>
    PROVE  EventInvariant'
<1>1. \A s \in Symbol : Orphans(s)' \subseteq Orphans(s)
  BY DEF Orphans
<1> QED
  BY <1>1, NoNewOrphans

LEMMA EventStep == TypeOK /\ TypeOK' /\ EventInvariant /\ [Next]_vars => EventInvariant'
<1> SUFFICES ASSUME TypeOK, TypeOK', EventInvariant, [Next]_vars PROVE EventInvariant'
  OBVIOUS
<1> USE DEF exchangeVars, tables, service, worker, locals
<1>0. /\ pc \in [Worker -> Locations] /\ faults \in Nat
      /\ sync \in [Worker -> Sync] /\ next \in [Worker -> Nat]
  BY DEF TypeOK, VariablesTyped
<1>1. ASSUME UNCHANGED <<trades, events, pc, sync, next>>, faults' >= faults
      PROVE  EventInvariant'
  BY <1>1, HandsStay
<1>2. CASE \/ \E s \in Symbol : TradeOccurs(s)
           \/ Tick \/ Register \/ DeleteCredential \/ SetPolicy \/ Restart \/ UNCHANGED vars
  BY <1>0, <1>1, <1>2 DEF TradeOccurs, Tick, Register, DeleteCredential, SetPolicy, Restart,
     Fault, vars
<1>3. ASSUME NEW w \in Worker, pc[w] # "event", faults' >= faults,
             UNCHANGED <<trades, events>>,
             \A v \in Worker : v # w => UNCHANGED <<pc[v], sync[v], next[v]>>
      PROVE  EventInvariant'
  BY <1>3, HandsStay
<1>4. CASE PollStart
  BY <1>0, <1>3, <1>4 DEF PollStart, Begin, Fault, Worker
<1>5. ASSUME NEW w \in Manual, ManualStart(w) \/ ManualFails(w) PROVE EventInvariant'
  BY <1>0, <1>3, <1>5 DEF ManualStart, ManualFails, Begin, Fault, Worker
<1>6. ASSUME NEW w \in Worker, NEW s \in Symbol, NEW backfill \in BOOLEAN, ReadState(w, s, backfill)
      PROVE  EventInvariant'
  BY <1>0, <1>3, <1>6 DEF ReadState
<1>7. ASSUME NEW w \in Worker, RequestEmpty(w) \/ RequestPage(w) \/ SkipDuplicate(w) \/ PageDone(w)
      PROVE  EventInvariant'
  BY <1>0, <1>3, <1>7 DEF RequestEmpty, RequestPage, SkipDuplicate, PageDone
<1>8. ASSUME NEW w \in Worker, Return(w)
      PROVE  \A v \in Worker : v # w => UNCHANGED <<pc[v], sync[v], next[v]>>
  BY <1>0, <1>8 DEF Return
<1>9. ASSUME NEW w \in Worker, SaveCursor(w) \/ SymbolFails(w) PROVE EventInvariant'
  <2>1. Return(w) /\ UNCHANGED <<trades, events>> /\ pc[w] # "event" /\ faults' >= faults
    BY <1>0, <1>9 DEF SaveCursor, SymbolFails, Fault
  <2> QED
    BY <1>3, <1>8, <2>1
<1>10. ASSUME NEW w \in Worker, PassDone(w) PROVE EventInvariant'
  BY <1>0, <1>3, <1>10 DEF PassDone, Fault
<1>11. ASSUME NEW w \in Worker, InsertTrade(w) PROVE EventInvariant'
  <2>1. \A s \in Symbol : Orphans(s)' \subseteq Orphans(s)
    BY <1>11, InsertTradeStep
  <2>2. faults' >= faults
    BY <1>0, <1>11 DEF InsertTrade
  <2> QED
    BY <2>1, <2>2, NoNewOrphans
<1>12. CASE Crash
  <2>1. faults' = faults + 1 /\ UNCHANGED <<trades, events>>
    BY <1>12 DEF Crash, Fault
  <2>2. \A s \in Symbol : Orphans(s)' \subseteq Orphans(s) \cup InHand(s)
    BY <2>1 DEF Orphans, InHand
  <2> QED
    BY <2>1, <2>2, NewOrphans
<1> QED
  BY <1>2, <1>4, <1>5, <1>6, <1>7, <1>9, <1>10, <1>11, <1>12, EnsureEventStep,
     StepCases, Zenon

\* However many syncs race over the same pages, a stored trade lacks its event only
\* through a crash or a failed insert, one trade per worker and fault at most.
THEOREM EventsAreWritten == Spec => []OrphansNeedFaults
<1>1. Init => TypeOK /\ EventInvariant
  <2> SUFFICES ASSUME Init PROVE EventInvariant
    BY TypingInit
  <2>1. \A s \in Symbol : Orphans(s) = {}
    BY DEF Init, Orphans
  <2>2. 0 * Cardinality(Worker) = 0
    BY WorkersFinite
  <2> QED
    <3>1. IsFiniteSet({}) /\ Cardinality({}) = 0
      BY FS_EmptySet
    <3>2. OrphansFinite
      BY <2>1, <3>1 DEF OrphansFinite
    <3>3. \A s \in Symbol : Cardinality(Orphans(s)) = 0
      BY <2>1, <3>1
    <3>4. OrphansNeedFaults
      BY <2>2, <3>3 DEF Init, OrphansNeedFaults
    <3> QED
      BY <3>2, <3>4 DEF EventInvariant
<1>2. (TypeOK /\ EventInvariant) /\ [Next]_vars => (TypeOK /\ EventInvariant)'
  BY TypingStep, EventStep
<1>3. EventInvariant => OrphansNeedFaults
  BY DEF EventInvariant
<1> QED
  BY <1>1, <1>2, <1>3, PTL DEF Spec

=============================================================================
