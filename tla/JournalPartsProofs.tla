------------------------- MODULE JournalPartsProofs -------------------------
(***************************************************************************)
(* Proofs about the browser as a composition of its parts: the trade       *)
(* history, and then what is proved of the session, the store of bubbles   *)
(* and the library by themselves, which holds of the browser they are      *)
(* parts of.                                                               *)
(*                                                                         *)
(* BrowserSessionProofs and BubbleStoreProofs bring copies of the          *)
(* definitions they are about; for each part it is shown that the copy is  *)
(* the part, that a behaviour of the browser about this part is one of the *)
(* part, and that the others never become one.                             *)
(***************************************************************************)
EXTENDS JournalParts, Integers, FiniteSetTheorems, TLAPS

\* A behaviour stays with its part.
LEMMA PartStays == [Next]_vars => part' = part
  BY DEF Next, vars, SessionStep, ListsStep, ImportStep, LibraryStep, TradeListStep,
         EvidenceStep, ComposerStep, NotesStep, SafetyStep

-----------------------------------------------------------------------------
(* The trade history *)

LEMMA PagesPositive ==
    ASSUME NEW n \in Nat, PageSize \in Nat \ {0}
    PROVE  TradeList!Pages(n) \in Nat \ {0}
<1>1. CASE n = 0
  BY <1>1 DEF TradeList!Pages
<1>2. CASE n # 0
  <2>1. (n + PageSize - 1) \div PageSize >= 1
    BY <1>2
  <2> QED
    BY <1>2, <2>1 DEF TradeList!Pages
<1> QED
  BY <1>1, <1>2

LEMMA SameCardinality == \A S : TradeList!Cardinality(S) = Cardinality(S)
  BY DEF TradeList!Cardinality, Cardinality

LEMMA ViewsCounted ==
    ASSUME NEW f, NEW o
    PROVE  TradeList!Cardinality(TradeList!ViewsOf(f, o)) = IF page = 1 THEN 1 ELSE 2
<1> DEFINE a == [k |-> 1, view |-> TradeList!View(f, o, page)]
           b == [k |-> 2, view |-> TradeList!View(f, o, 1)]
<1>1. a # b
  OBVIOUS
<1>2. Cardinality({a}) = 1 /\ IsFiniteSet({a})
  BY FS_Singleton
<1>3. Cardinality({a} \cup {b}) = 2
  BY <1>1, <1>2, FS_AddElement
<1>4. Cardinality(TradeList!ViewsOf(f, o)) = IF page = 1 THEN 1 ELSE 2
  BY <1>2, <1>3 DEF TradeList!ViewsOf
<1> QED
  BY <1>4, SameCardinality

LEMMA ViewTyped ==
    ASSUME NEW f \in TradeFilters, NEW o \in BOOLEAN, NEW p \in Nat
    PROVE  TradeList!View(f, o, p) \in TradeList!Views
  BY DEF TradeList!View, TradeList!Views

LEMMA TradesTypeInit == TradeListAssumption /\ TradeList!Init => TradeList!TypeOK
<1> SUFFICES ASSUME TradeListAssumption, TradeList!Init PROVE TradeList!TypeOK
  OBVIOUS
<1>1. Everything \in TradeFilters /\ MaxCalls \in Nat \ {0}
  BY DEF TradeListAssumption, TradeList!FilterAssumption, TradeList!CallBounds
<1>2. \A p \in Nat : TradeList!View(Everything, TRUE, p) \in TradeList!Views
  BY <1>1, ViewTyped
<1>3. shown \in TradeList!Views
  BY <1>2 DEF TradeList!Init, TradeList!Nothing
<1>4. \A c \in calls : c.n \in 1 .. MaxCalls /\ c.view \in TradeList!Views
  <2>1. PICK v \in TradeList!Views : calls = {[n |-> 1, view |-> v]}
    BY <1>2, Zenon DEF TradeList!Init
  <2> QED
    BY <1>1, <2>1
<1>5. \A c \in sums : c.n \in 1 .. MaxCalls /\ c.filter \in TradeFilters
  BY <1>1 DEF TradeList!Init
<1>6. {asked, answered, sumAnswered} \subseteq 0 .. MaxCalls
  BY <1>1 DEF TradeList!Init
<1>7. /\ filter \in TradeFilters /\ page \in Nat \ {0} /\ total \in Nat
      /\ summary \in TradeFilters \cup {None}
  BY <1>1 DEF TradeList!Init
<1>8. /\ newest \in BOOLEAN /\ loading \in BOOLEAN /\ error \in BOOLEAN
      /\ summaryLoading \in BOOLEAN /\ summaryError \in BOOLEAN
      /\ overtaken \in BOOLEAN /\ sumOvertaken \in BOOLEAN /\ misled \in BOOLEAN
  BY DEF TradeList!Init
<1> QED
  BY <1>3, <1>4, <1>5, <1>6, <1>7, <1>8 DEF TradeList!TypeOK

\* What fetchTrades leaves: one more request, or two of which the later asks for page one.
LEMMA RefreshAsks ==
    ASSUME TradeList!TypeOK, TradeListAssumption, NEW f \in TradeFilters, NEW o \in BOOLEAN,
           TradeList!Refresh(f, o)
    PROVE  /\ filter' = f /\ newest' = o /\ page' = 1
           /\ loading' = TRUE /\ error' = FALSE
           /\ UNCHANGED <<shown, total, answered, overtaken, misled>>
           /\ asked' \in {asked + 1, asked + 2} /\ asked' <= MaxCalls
           /\ \A c \in calls' : \/ c \in calls
                                \/ /\ c.n \in asked + 1 .. asked' /\ c.view \in TradeList!Views
                                   /\ c.n = asked' => c.view = TradeList!View(f, o, 1)
           /\ \E c \in calls' : c.n = asked'
<1>0. TradeList!Fetch(TradeList!ViewsOf(f, o), asked)
  BY DEF TradeList!Refresh
<1>1. /\ filter' = f /\ newest' = o /\ page' = 1
      /\ loading' = TRUE /\ error' = FALSE
      /\ UNCHANGED <<shown, total, answered, overtaken, misled>>
      /\ asked + TradeList!Cardinality(TradeList!ViewsOf(f, o)) <= MaxCalls
      /\ calls' = calls \cup {[n |-> asked + v.k, view |-> v.view] : v \in TradeList!ViewsOf(f, o)}
      /\ asked' = asked + TradeList!Cardinality(TradeList!ViewsOf(f, o))
  BY <1>0, Zenon DEF TradeList!Refresh, TradeList!Fetch
<1>2. asked \in Nat /\ page \in Nat
  BY DEF TradeList!TypeOK, TradeListAssumption, TradeList!CallBounds
<1>3. CASE page = 1
  <2>1. TradeList!ViewsOf(f, o) = {[k |-> 1, view |-> TradeList!View(f, o, 1)]}
    BY <1>3 DEF TradeList!ViewsOf
  <2>2. calls' = calls \cup {[n |-> asked + 1, view |-> TradeList!View(f, o, 1)]} /\ asked' = asked + 1
    BY <1>1, <1>3, <2>1, ViewsCounted
  <2>3. [n |-> asked + 1, view |-> TradeList!View(f, o, 1)] \in calls'
    BY <2>2
  <2>4. \E c \in calls' : c.n = asked'
    BY <2>2, <2>3
  <2>5. TradeList!View(f, o, 1) \in TradeList!Views
    BY ViewTyped
  <2> QED
    BY <1>1, <1>2, <2>2, <2>4, <2>5
<1>4. CASE page # 1
  <2>1. TradeList!ViewsOf(f, o) = {[k |-> 1, view |-> TradeList!View(f, o, page)],
                                   [k |-> 2, view |-> TradeList!View(f, o, 1)]}
    BY <1>4 DEF TradeList!ViewsOf
  <2>2. /\ calls' = calls \cup {[n |-> asked + 1, view |-> TradeList!View(f, o, page)],
                                [n |-> asked + 2, view |-> TradeList!View(f, o, 1)]}
        /\ asked' = asked + 2
    BY <1>1, <1>4, <2>1, ViewsCounted, SMTT(30)
  <2>3. [n |-> asked + 2, view |-> TradeList!View(f, o, 1)] \in calls'
    BY <2>2
  <2>4. \E c \in calls' : c.n = asked'
    BY <2>2, <2>3
  <2>5. TradeList!View(f, o, 1) \in TradeList!Views /\ TradeList!View(f, o, page) \in TradeList!Views
    BY <1>2, ViewTyped
  <2> QED
    BY <1>1, <1>2, <2>2, <2>4, <2>5
<1> QED
  BY <1>3, <1>4

\* A request for a view: what the steps that ask for trades have in common.
AsksFor(f, o, p) ==
    /\ filter' = f /\ newest' = o /\ page' = p
    /\ loading' = TRUE /\ error' = FALSE
    /\ UNCHANGED <<shown, total, answered, overtaken, misled>>
    /\ asked' \in {asked + 1, asked + 2} /\ asked' <= MaxCalls
    /\ \A c \in calls' : \/ c \in calls
                         \/ /\ c.n \in asked + 1 .. asked' /\ c.view \in TradeList!Views
                            /\ c.n = asked' => c.view = TradeList!View(f, o, p)
    /\ \E c \in calls' : c.n = asked'

\* An answer for the list, whatever it says.
ListArrives(c) ==
    /\ c \in calls /\ calls' = calls \ {c} /\ loading' = FALSE
    /\ \/ /\ shown' = c.view /\ total' = Count[c.view.filter] /\ error' = error
          /\ c.view.filter # filter => misled'
       \/ shown' = shown /\ total' = total /\ error' = TRUE /\ misled'
    /\ answered' = (IF c.n > answered THEN c.n ELSE answered)
    /\ overtaken => overtaken'
    /\ c.n < answered => overtaken'
    /\ misled => misled'
    /\ overtaken' \in BOOLEAN /\ misled' \in BOOLEAN
    /\ UNCHANGED <<filter, newest, page, asked>>

LEMMA TurnAsks ==
    ASSUME TradeList!TypeOK, TradeListAssumption, NEW p \in Nat, TradeList!Turn(p)
    PROVE  AsksFor(filter, newest, p)
<1> DEFINE v == TradeList!View(filter, newest, p)
           V == {[k |-> 1, view |-> v]}
<1>0. TradeList!Fetch(V, asked)
  BY DEF TradeList!Turn
<1>1. TradeList!Cardinality(V) = 1
  BY FS_Singleton, SameCardinality
<1>2. /\ filter' = filter /\ newest' = newest /\ page' = p
      /\ loading' = TRUE /\ error' = FALSE
      /\ UNCHANGED <<shown, total, answered, overtaken, misled>>
      /\ asked' = asked + 1 /\ asked + TradeList!Cardinality(V) <= MaxCalls
      /\ calls' = calls \cup {[n |-> asked + w.k, view |-> w.view] : w \in V}
  BY <1>0, Zenon DEF TradeList!Turn, TradeList!Fetch
<1>3. v \in TradeList!Views
  BY ViewTyped DEF TradeList!TypeOK
<1>4. asked \in Nat
  BY DEF TradeList!TypeOK, TradeListAssumption, TradeList!CallBounds
<1> HIDE DEF v
<1>5. calls' = calls \cup {[n |-> asked + 1, view |-> v]}
  BY <1>2
<1>6. [n |-> asked + 1, view |-> v] \in calls'
  BY <1>5
<1>7. \E c \in calls' : c.n = asked'
  BY <1>2, <1>6
<1>8. \A c \in calls' : \/ c \in calls
                        \/ /\ c.n \in asked + 1 .. asked' /\ c.view \in TradeList!Views
                           /\ c.n = asked' => c.view = v
  BY <1>2, <1>3, <1>4, <1>5
<1>9. asked' \in {asked + 1, asked + 2} /\ asked' <= MaxCalls
  BY <1>1, <1>2
<1> USE DEF v
<1> QED
  BY <1>2, <1>7, <1>8, <1>9 DEF AsksFor

\* The page the pager turns to exists, as far as the list knows.
LEMMA MoveAsks ==
    ASSUME TradeList!TypeOK, TradeListAssumption, TradeList!Move
    PROVE  \E p \in 1 .. TradeList!Pages(total) \cup 1 .. page :
              ~ loading /\ AsksFor(filter, newest, p) /\ UNCHANGED TradeList!sum
<1>1. TradeList!Pages(total) \in Nat \ {0} /\ page \in Nat \ {0}
  BY PagesPositive DEF TradeList!TypeOK, TradeListAssumption, TradeList!CountAssumption
<1>2. PICK p \in 1 .. TradeList!Pages(total) \cup 1 .. page : ~ loading /\ TradeList!Turn(p)
  <2>1. CASE TradeList!PagerOffers("previous") /\ (TradeList!Turn(1) \/ TradeList!Turn(page - 1))
    <3>1. page - 1 \in 1 .. page /\ 1 \in 1 .. page /\ ~ loading
      BY <1>1, <2>1 DEF TradeList!PagerOffers
    <3> QED
      BY <2>1, <3>1
  <2>2. CASE TradeList!PagerOffers("next") /\ (TradeList!Turn(TradeList!Pages(total)) \/ TradeList!Turn(page + 1))
    <3>1. /\ page + 1 \in 1 .. TradeList!Pages(total) /\ ~ loading
          /\ TradeList!Pages(total) \in 1 .. TradeList!Pages(total)
      BY <1>1, <2>2 DEF TradeList!PagerOffers
    <3> QED
      BY <2>2, <3>1
  <2>3. CASE \E p \in 1 .. TradeList!Pages(total) : TradeList!PagerOffers("jump") /\ TradeList!Turn(p)
    BY <2>3 DEF TradeList!PagerOffers
  <2> QED
    BY <2>1, <2>2, <2>3 DEF TradeList!Move
<1>3. p \in Nat
  BY <1>1
<1>4. AsksFor(filter, newest, p)
  BY <1>2, <1>3, TurnAsks
<1> QED
  BY <1>2, <1>4, Zenon DEF TradeList!Turn

\* What is asked of the list, of the summary, and what is answered.
AsksForFilter(f, o) ==
    /\ f \in TradeFilters /\ o \in BOOLEAN /\ AsksFor(f, o, 1)
    /\ (f = filter /\ UNCHANGED TradeList!sum) \/ TradeList!FetchSummary(f, asked + 1)
AsksForPage(p) ==
    /\ p \in 1 .. TradeList!Pages(total) \cup 1 .. page
    /\ ~ loading /\ AsksFor(filter, newest, p) /\ UNCHANGED TradeList!sum

LEMMA TradesSteps ==
    ASSUME TradeList!TypeOK, TradeListAssumption, [TradeList!Next]_TradeList!vars
    PROVE  \/ \E f \in TradeFilters, o \in BOOLEAN : AsksForFilter(f, o)
           \/ \E p : AsksForPage(p)
           \/ \E c \in calls : ListArrives(c) /\ UNCHANGED TradeList!sum
           \/ \E c \in sums : TradeList!SummaryAnswered(c) \/ TradeList!SummaryFails(c)
           \/ UNCHANGED TradeList!vars
<1>1. ASSUME NEW f \in TradeFilters, NEW o \in BOOLEAN, TradeList!Refresh(f, o) PROVE AsksForFilter(f, o)
  <2>1. AsksFor(f, o, 1)
    BY <1>1, RefreshAsks, Zenon DEF AsksFor
  <2>2. (f = filter /\ UNCHANGED TradeList!sum) \/ TradeList!FetchSummary(f, asked + 1)
    BY <1>1, Zenon DEF TradeList!Refresh
  <2> QED
    BY <2>1, <2>2 DEF AsksForFilter
<1>2. filter \in TradeFilters /\ newest \in BOOLEAN /\ (~ newest) \in BOOLEAN /\ Everything \in TradeFilters
  BY DEF TradeList!TypeOK, TradeListAssumption, TradeList!FilterAssumption
<1>3. CASE \E f \in TradeFilters : TradeList!SetFilter(f)
  BY <1>1, <1>2, <1>3 DEF TradeList!SetFilter
<1>4. CASE TradeList!SetSort
  BY <1>1, <1>2, <1>4, Zenon DEF TradeList!SetSort
<1>5. CASE TradeList!ResetFilters
  BY <1>1, <1>2, <1>5, Zenon DEF TradeList!ResetFilters
<1>6. CASE TradeList!Move
  BY <1>6, MoveAsks, Zenon DEF AsksForPage
<1>7. CASE \E c \in calls : TradeList!ListAnswered(c) \/ TradeList!ListFails(c)
  <2>1. PICK c \in calls : TradeList!ListAnswered(c) \/ TradeList!ListFails(c)
    BY <1>7
  <2>2. ListArrives(c) /\ UNCHANGED TradeList!sum
    BY <2>1, Zenon DEF TradeList!ListAnswered, TradeList!ListFails, TradeList!Arrived, ListArrives
  <2> QED
    BY <2>2
<1> QED
  BY <1>3, <1>4, <1>5, <1>6, <1>7, Zenon DEF TradeList!Next

LEMMA TradesTypeNext ==
    ASSUME TradeList!TypeOK, TradeListAssumption, [TradeList!Next]_TradeList!vars
    PROVE  TradeList!TypeOK'
<1>0. /\ Everything \in TradeFilters /\ MaxCalls \in Nat \ {0}
      /\ Count \in [TradeFilters -> Nat] /\ PageSize \in Nat \ {0}
  BY DEF TradeListAssumption, TradeList!FilterAssumption, TradeList!CallBounds, TradeList!CountAssumption
<1>1. ASSUME NEW f \in TradeFilters, NEW o \in BOOLEAN, NEW p \in Nat \ {0}, AsksFor(f, o, p)
      PROVE  /\ filter' \in TradeFilters /\ newest' \in BOOLEAN /\ page' \in Nat \ {0}
             /\ \A c \in calls' : c.n \in 1 .. MaxCalls /\ c.view \in TradeList!Views
             /\ shown' \in TradeList!Views /\ total' \in Nat
             /\ loading' \in BOOLEAN /\ error' \in BOOLEAN
             /\ {asked', answered'} \subseteq 0 .. MaxCalls
             /\ overtaken' \in BOOLEAN /\ misled' \in BOOLEAN
  <2>1. \A c \in calls' : c.n \in 1 .. MaxCalls /\ c.view \in TradeList!Views
    BY <1>0, <1>1 DEF TradeList!TypeOK, AsksFor
  <2>2. {asked', answered'} \subseteq 0 .. MaxCalls
    BY <1>0, <1>1 DEF TradeList!TypeOK, AsksFor
  <2>3. /\ filter' \in TradeFilters /\ page' \in Nat \ {0}
        /\ shown' \in TradeList!Views /\ total' \in Nat
    BY <1>1 DEF TradeList!TypeOK, AsksFor
  <2>4. /\ newest' \in BOOLEAN /\ loading' \in BOOLEAN /\ error' \in BOOLEAN
        /\ overtaken' \in BOOLEAN /\ misled' \in BOOLEAN
    BY <1>1, Zenon DEF TradeList!TypeOK, AsksFor
  <2> QED
    BY <2>1, <2>2, <2>3, <2>4
<1>2. ASSUME UNCHANGED TradeList!sum
      PROVE  /\ \A c \in sums' : c.n \in 1 .. MaxCalls /\ c.filter \in TradeFilters
             /\ summary' \in TradeFilters \cup {None} /\ sumAnswered' \in 0 .. MaxCalls
             /\ summaryLoading' \in BOOLEAN /\ summaryError' \in BOOLEAN /\ sumOvertaken' \in BOOLEAN
  BY <1>2, Zenon DEF TradeList!TypeOK, TradeList!sum
<1>3. ASSUME NEW f \in TradeFilters, NEW o \in BOOLEAN, AsksForFilter(f, o) PROVE TradeList!TypeOK'
  <2>1. AsksFor(f, o, 1)
    BY <1>3 DEF AsksForFilter
  <2>2. CASE f = filter /\ UNCHANGED TradeList!sum
    BY <1>1, <1>2, <2>1, <2>2 DEF TradeList!TypeOK
  <2>3. CASE TradeList!FetchSummary(f, asked + 1)
    <3>1. \A c \in sums' : c.n \in 1 .. MaxCalls /\ c.filter \in TradeFilters
      BY <1>0, <2>1, <2>3 DEF TradeList!TypeOK, TradeList!FetchSummary, AsksFor
    <3>2. summaryLoading' \in BOOLEAN /\ summaryError' \in BOOLEAN /\ sumOvertaken' \in BOOLEAN
      BY <2>3, Zenon DEF TradeList!TypeOK, TradeList!FetchSummary
    <3>3. summary' \in TradeFilters \cup {None} /\ sumAnswered' \in 0 .. MaxCalls
      BY <2>3 DEF TradeList!TypeOK, TradeList!FetchSummary
    <3> QED
      BY <1>1, <2>1, <3>1, <3>2, <3>3 DEF TradeList!TypeOK
  <2> QED
    BY <1>3, <2>2, <2>3 DEF AsksForFilter
<1>4. ASSUME NEW p, AsksForPage(p) PROVE TradeList!TypeOK'
  <2>1. p \in Nat \ {0} /\ filter \in TradeFilters /\ newest \in BOOLEAN
    BY <1>0, <1>4, PagesPositive DEF TradeList!TypeOK, AsksForPage
  <2> QED
    BY <1>1, <1>2, <1>4, <2>1 DEF TradeList!TypeOK, AsksForPage
<1>5. ASSUME NEW c \in calls, ListArrives(c), UNCHANGED TradeList!sum PROVE TradeList!TypeOK'
  <2>1. c.n \in 1 .. MaxCalls /\ c.view \in TradeList!Views /\ c.view.filter \in TradeFilters
    BY DEF TradeList!TypeOK, TradeList!Views
  <2>2. {asked', answered'} \subseteq 0 .. MaxCalls
    BY <1>0, <1>5, <2>1 DEF TradeList!TypeOK, ListArrives
  <2>3. shown' \in TradeList!Views /\ total' \in Nat
    BY <1>0, <1>5, <2>1 DEF TradeList!TypeOK, ListArrives
  <2>4. /\ filter' \in TradeFilters /\ page' \in Nat \ {0}
        /\ \A d \in calls' : d.n \in 1 .. MaxCalls /\ d.view \in TradeList!Views
    BY <1>5 DEF TradeList!TypeOK, ListArrives
  <2>5. newest' \in BOOLEAN /\ loading' \in BOOLEAN /\ error' \in BOOLEAN
    BY <1>5, Zenon DEF TradeList!TypeOK, ListArrives
  <2>6. overtaken' \in BOOLEAN /\ misled' \in BOOLEAN
    BY <1>5, Zenon DEF ListArrives
  <2> QED
    BY <1>2, <1>5, <2>2, <2>3, <2>4, <2>5, <2>6 DEF TradeList!TypeOK
<1>6. ASSUME NEW c \in sums, TradeList!SummaryAnswered(c) \/ TradeList!SummaryFails(c)
      PROVE  TradeList!TypeOK'
  <2>1. c.n \in 1 .. MaxCalls /\ c.filter \in TradeFilters
    BY DEF TradeList!TypeOK
  <2>2. TradeList!SummaryArrived(c) /\ summary' \in {c.filter, None}
        /\ (summaryError' = summaryError \/ summaryError' = TRUE)
    BY <1>6, Zenon DEF TradeList!SummaryAnswered, TradeList!SummaryFails
  <2>3. sumAnswered' \in 0 .. MaxCalls
    BY <1>0, <2>1, <2>2 DEF TradeList!TypeOK, TradeList!SummaryArrived
  <2>4. \A d \in sums' : d.n \in 1 .. MaxCalls /\ d.filter \in TradeFilters
    BY <2>2 DEF TradeList!TypeOK, TradeList!SummaryArrived
  <2>5. summaryLoading' \in BOOLEAN /\ summaryError' \in BOOLEAN /\ sumOvertaken' \in BOOLEAN
    BY <2>2, Zenon DEF TradeList!TypeOK, TradeList!SummaryArrived
  <2>6. summary' \in TradeFilters \cup {None}
    BY <2>1, <2>2
  <2>7. UNCHANGED <<filter, newest, page, TradeList!list, asked, answered, overtaken, misled>>
    BY <2>2, Zenon DEF TradeList!SummaryArrived
  <2>8. UNCHANGED <<filter, newest, page, calls, shown, total, loading, error, asked, answered, overtaken, misled>>
    BY <2>7, Zenon DEF TradeList!list
  <2> QED
    BY <2>3, <2>4, <2>5, <2>6, <2>8, Zenon DEF TradeList!TypeOK
<1>7. CASE UNCHANGED TradeList!vars
  BY <1>7, Zenon DEF TradeList!TypeOK, TradeList!vars, TradeList!list, TradeList!sum
<1> QED
  BY <1>3, <1>4, <1>5, <1>6, <1>7, TradesSteps

\* What was asked last, or answered last, is the view on the screen.
LatestView == TradeList!View(filter, newest, page)

LatestList ==
    /\ answered <= asked
    /\ \A c \in calls : c.n <= asked /\ (c.n = asked => c.view = LatestView)
    /\ answered = asked \/ \E c \in calls : c.n = asked
    /\ answered = asked /\ ~ overtaken /\ ~ loading /\ ~ error =>
          shown = LatestView /\ total = Count[filter]

\* An answer for the filter of the screen is the last word on its pages.
TotalIsTrue ==
    /\ ~ loading /\ ~ misled => total = Count[filter]
    /\ TradeList!PageExists

\* The last summary asked for is that of the filter: it is under way, or it was answered.
Awaited(c) ==
    /\ c.filter = filter /\ c.n > sumAnswered
    /\ \A d \in sums : d.n <= c.n /\ (d.n = c.n => d = c)

LatestSummary ==
    /\ sumAnswered <= asked /\ \A d \in sums : d.n <= asked
    /\ \/ \E c \in sums : Awaited(c)
       \/ /\ \A d \in sums : d.n < sumAnswered
          /\ sumOvertaken \/ summaryError \/ summary = filter

TradesInvariant == TradeList!TypeOK /\ LatestList /\ TotalIsTrue /\ LatestSummary

LEMMA TradesInit == TradeListAssumption /\ TradeList!Init => TradesInvariant
<1> SUFFICES ASSUME TradeListAssumption, TradeList!Init PROVE TradesInvariant
  OBVIOUS
<1>1. Everything \in TradeFilters /\ Count[Everything] \in Nat /\ PageSize \in Nat \ {0}
  BY DEF TradeListAssumption, TradeList!FilterAssumption, TradeList!CountAssumption
<1>2. LatestList
  <2>1. PICK v : v = LatestView /\ calls = {[n |-> 1, view |-> v]}
    BY Zenon DEF TradeList!Init, LatestView
  <2>2. asked = 1 /\ answered = 0
    BY DEF TradeList!Init
  <2>3. \E c \in calls : c.n = asked
    BY <2>1, <2>2
  <2> QED
    BY <2>1, <2>2, <2>3 DEF LatestList
<1>3. TotalIsTrue
  <2>1. TradeList!Pages(Count[filter]) >= 1
    BY <1>1, PagesPositive DEF TradeList!Init
  <2> QED
    BY <2>1 DEF TotalIsTrue, TradeList!PageExists, TradeList!Init
<1>4. LatestSummary
  <2>1. Awaited([n |-> 1, filter |-> Everything])
    BY DEF TradeList!Init, Awaited
  <2> QED
    BY <2>1 DEF TradeList!Init, LatestSummary
<1> QED
  BY <1>2, <1>3, <1>4, TradesTypeInit DEF TradesInvariant

LEMMA LatestListKept ==
    ASSUME TradesInvariant, TradeListAssumption, [TradeList!Next]_TradeList!vars
    PROVE  LatestList'
<1>0. /\ asked \in Nat /\ answered \in Nat /\ \A c \in calls : c.n \in Nat
      /\ LatestList /\ TradeList!TypeOK
  BY DEF TradesInvariant, TradeList!TypeOK, TradeListAssumption, TradeList!CallBounds
<1>1. ASSUME NEW f, NEW o, NEW p, AsksFor(f, o, p) PROVE LatestList'
  <2>1. LatestView' = TradeList!View(f, o, p)
    BY <1>1 DEF AsksFor, LatestView
  <2>2. \A c \in calls' : c.n <= asked' /\ (c.n = asked' => c.view = LatestView')
    BY <1>0, <1>1, <2>1 DEF AsksFor, LatestList
  <2>3. /\ answered' < asked' /\ \E c \in calls' : c.n = asked'
    BY <1>0, <1>1 DEF AsksFor, LatestList
  <2> QED
    BY <1>0, <1>1, <2>2, <2>3 DEF AsksFor, LatestList
<1>2. ASSUME NEW c \in calls, ListArrives(c) PROVE LatestList'
  <2>1. LatestView' = LatestView /\ asked' = asked /\ filter' = filter
    BY <1>2 DEF ListArrives, LatestView
  <2>2. /\ answered' <= asked' /\ answered' \in Nat
        /\ \A d \in calls' : d.n <= asked' /\ (d.n = asked' => d.view = LatestView')
    BY <1>0, <1>2, <2>1 DEF ListArrives, LatestList
  <2>3. answered' = asked' \/ \E d \in calls' : d.n = asked'
    BY <1>0, <1>2, <2>1 DEF ListArrives, LatestList
  <2>4. ASSUME answered' = asked', ~ overtaken', ~ loading', ~ error'
        PROVE  shown' = LatestView' /\ total' = Count[filter']
    <3>1. c.n = asked
      BY <1>0, <1>2, <2>1, <2>4 DEF ListArrives, LatestList
    <3>2. c.view = LatestView /\ c.view.filter = filter
      BY <1>0, <3>1 DEF LatestList, LatestView, TradeList!View
    <3> QED
      BY <1>2, <2>1, <2>4, <3>2 DEF ListArrives
  <2> QED
    BY <2>2, <2>3, <2>4 DEF LatestList
<1>3. CASE \E c \in sums : TradeList!SummaryAnswered(c) \/ TradeList!SummaryFails(c)
  <2>1. UNCHANGED <<filter, newest, page, TradeList!list, asked, answered, overtaken>>
    BY <1>3, Zenon DEF TradeList!SummaryAnswered, TradeList!SummaryFails, TradeList!SummaryArrived
  <2>2. UNCHANGED <<filter, newest, page, calls, shown, total, loading, error, asked, answered, overtaken>>
    BY <2>1, Zenon DEF TradeList!list
  <2> QED
    BY <1>0, <2>2, Zenon DEF LatestList, LatestView
<1>4. CASE UNCHANGED TradeList!vars
  BY <1>0, <1>4, Zenon DEF TradeList!vars, TradeList!list, LatestList, LatestView
<1> QED
  BY <1>0, <1>1, <1>2, <1>3, <1>4, TradesSteps DEF AsksForFilter, AsksForPage

LEMMA TotalKept ==
    ASSUME TradesInvariant, TradeListAssumption, [TradeList!Next]_TradeList!vars
    PROVE  TotalIsTrue'
<1>0. TotalIsTrue /\ TradeList!TypeOK /\ PageSize \in Nat \ {0} /\ Count \in [TradeFilters -> Nat]
  BY DEF TradesInvariant, TradeListAssumption, TradeList!CountAssumption
<1>1. ASSUME NEW f \in TradeFilters, NEW o \in BOOLEAN, AsksForFilter(f, o) PROVE TotalIsTrue'
  <2>1. TradeList!Pages(Count[f]) \in Nat \ {0}
    BY <1>0, PagesPositive
  <2>2. page' = 1 /\ filter' = f /\ loading'
    BY <1>1, Zenon DEF AsksForFilter, AsksFor
  <2> QED
    BY <2>1, <2>2 DEF TotalIsTrue, TradeList!PageExists, TradeList!Pages
<1>2. ASSUME NEW p, AsksForPage(p) PROVE TotalIsTrue'
  <2>1. page' = p /\ filter' = filter /\ loading' /\ misled' = misled /\ ~ loading
    BY <1>2, Zenon DEF AsksForPage, AsksFor
  <2>2. CASE misled
    BY <2>1, <2>2 DEF TotalIsTrue, TradeList!PageExists
  <2>3. CASE ~ misled
    <3>1. /\ total = Count[filter] /\ page <= TradeList!Pages(Count[filter])
          /\ TradeList!Pages(Count[filter]) \in Nat /\ page \in Nat /\ p \in Nat
      BY <1>0, <1>2, <2>1, <2>3, PagesPositive
         DEF TotalIsTrue, TradeList!PageExists, TradeList!TypeOK, AsksForPage
    <3>2. p <= TradeList!Pages(Count[filter])
      BY <1>2, <3>1 DEF AsksForPage
    <3> QED
      BY <2>1, <3>2 DEF TotalIsTrue, TradeList!PageExists, TradeList!Pages
  <2> QED
    BY <2>2, <2>3
<1>3. ASSUME NEW c \in calls, ListArrives(c) PROVE TotalIsTrue'
  <2>1. ~ misled' => total' = Count[filter']
    BY <1>3 DEF ListArrives
  <2>2. TradeList!PageExists'
    BY <1>0, <1>3 DEF ListArrives, TotalIsTrue, TradeList!PageExists, TradeList!Pages
  <2> QED
    BY <2>1, <2>2 DEF TotalIsTrue
<1>4. CASE \E c \in sums : TradeList!SummaryAnswered(c) \/ TradeList!SummaryFails(c)
  <2>1. UNCHANGED <<filter, page, TradeList!list, misled>>
    BY <1>4, Zenon DEF TradeList!SummaryAnswered, TradeList!SummaryFails, TradeList!SummaryArrived
  <2>2. UNCHANGED <<filter, page, total, loading, misled>>
    BY <2>1, Zenon DEF TradeList!list
  <2> QED
    BY <1>0, <2>2 DEF TotalIsTrue, TradeList!PageExists, TradeList!Pages
<1>5. CASE UNCHANGED TradeList!vars
  <2>1. UNCHANGED <<filter, page, total, loading, misled>>
    BY <1>5, Zenon DEF TradeList!vars, TradeList!list
  <2> QED
    BY <1>0, <2>1 DEF TotalIsTrue, TradeList!PageExists, TradeList!Pages
<1> QED
  BY <1>0, <1>1, <1>2, <1>3, <1>4, <1>5, TradesSteps

LEMMA LatestSummaryKept ==
    ASSUME TradesInvariant, TradeListAssumption, [TradeList!Next]_TradeList!vars
    PROVE  LatestSummary'
<1>0. /\ asked \in Nat /\ sumAnswered \in Nat /\ \A c \in sums : c.n \in Nat
      /\ LatestSummary
  BY DEF TradesInvariant, TradeList!TypeOK, TradeListAssumption, TradeList!CallBounds
<1>1. ASSUME UNCHANGED <<filter, sums, summary, summaryError, sumAnswered, sumOvertaken>>,
             asked' \in Nat, asked <= asked'
      PROVE  LatestSummary'
  <2>1. sumAnswered' <= asked' /\ \A d \in sums' : d.n <= asked'
    BY <1>0, <1>1 DEF LatestSummary
  <2>2. \A c : Awaited(c)' <=> Awaited(c)
    BY <1>1 DEF Awaited
  <2> QED
    BY <1>0, <1>1, <2>1, <2>2, Zenon DEF LatestSummary
<1>2. ASSUME UNCHANGED TradeList!sum
      PROVE  UNCHANGED <<sums, summary, summaryError, sumAnswered, sumOvertaken>>
  BY <1>2, Zenon DEF TradeList!sum
<1>3. ASSUME NEW f, NEW o, AsksForFilter(f, o) PROVE LatestSummary'
  <2>1. asked' \in Nat /\ asked < asked' /\ filter' = f
    BY <1>0, <1>3 DEF AsksForFilter, AsksFor
  <2>2. CASE f = filter /\ UNCHANGED TradeList!sum
    BY <1>0, <1>1, <1>2, <2>1, <2>2
  <2>3. CASE TradeList!FetchSummary(f, asked + 1)
    <3>0. PICK c : c = [n |-> asked + 1, filter |-> f]
      OBVIOUS
    <3>1. sums' = sums \cup {c} /\ sumAnswered' = sumAnswered
      BY <2>3, <3>0 DEF TradeList!FetchSummary
    <3>2. asked + 1 <= asked'
      BY <1>0, <2>1
    <3>3. Awaited(c)'
      BY <1>0, <2>1, <3>0, <3>1 DEF Awaited, LatestSummary
    <3>4. c \in sums' /\ sumAnswered' <= asked' /\ \A d \in sums' : d.n <= asked'
      BY <1>0, <2>1, <3>0, <3>1, <3>2 DEF LatestSummary
    <3> QED
      BY <3>3, <3>4 DEF LatestSummary
  <2> QED
    BY <1>3, <2>2, <2>3 DEF AsksForFilter
<1>4. ASSUME NEW p, AsksForPage(p) PROVE LatestSummary'
  <2>1. asked' \in Nat /\ asked <= asked' /\ filter' = filter
    BY <1>0, <1>4 DEF AsksForPage, AsksFor
  <2> QED
    BY <1>1, <1>2, <1>4, <2>1 DEF AsksForPage
<1>5. ASSUME NEW c \in calls, ListArrives(c), UNCHANGED TradeList!sum PROVE LatestSummary'
  <2>1. asked' = asked /\ filter' = filter
    BY <1>5 DEF ListArrives
  <2> QED
    BY <1>0, <1>1, <1>2, <1>5, <2>1
<1>6. ASSUME NEW e \in sums, TradeList!SummaryAnswered(e) \/ TradeList!SummaryFails(e)
      PROVE  LatestSummary'
  <2>1. /\ sums' = sums \ {e} /\ UNCHANGED <<filter, asked>>
        /\ sumAnswered' = IF e.n > sumAnswered THEN e.n ELSE sumAnswered
        /\ sumOvertaken' = (sumOvertaken \/ e.n < sumAnswered)
    BY <1>6, Zenon DEF TradeList!SummaryAnswered, TradeList!SummaryFails, TradeList!SummaryArrived
  <2>2. summary' = e.filter \/ summaryError'
    BY <1>6, Zenon DEF TradeList!SummaryAnswered, TradeList!SummaryFails
  <2>3. sumAnswered' <= asked' /\ \A d \in sums' : d.n <= asked'
    BY <1>0, <2>1 DEF LatestSummary
  <2>4. CASE Awaited(e)
    <3>1. \A d \in sums' : d.n < sumAnswered'
      BY <1>0, <2>1, <2>4 DEF Awaited
    <3>2. summaryError' \/ summary' = filter'
      BY <2>1, <2>2, <2>4 DEF Awaited
    <3> QED
      BY <2>3, <3>1, <3>2 DEF LatestSummary
  <2>5. ASSUME NEW c \in sums, Awaited(c), c # e PROVE LatestSummary'
    <3>1. e.n < c.n
      BY <1>0, <2>5 DEF Awaited
    <3>2. c \in sums' /\ c.filter = filter' /\ c.n > sumAnswered'
      BY <1>0, <2>1, <2>5, <3>1 DEF Awaited
    <3>3. \A d \in sums' : d.n <= c.n /\ (d.n = c.n => d = c)
      BY <2>1, <2>5 DEF Awaited
    <3>4. Awaited(c)'
      BY <3>2, <3>3 DEF Awaited
    <3> QED
      BY <2>3, <3>2, <3>4 DEF LatestSummary
  <2>6. CASE \A d \in sums : d.n < sumAnswered
    <3>1. \A d \in sums' : d.n < sumAnswered'
      BY <1>0, <2>1, <2>6
    <3>2. sumOvertaken'
      BY <2>1, <2>6, Zenon
    <3> QED
      BY <2>3, <3>1, <3>2 DEF LatestSummary
  <2> QED
    BY <1>0, <2>4, <2>5, <2>6 DEF LatestSummary
<1>7. CASE UNCHANGED TradeList!vars
  <2>1. UNCHANGED <<filter, sums, summary, summaryError, sumAnswered, sumOvertaken, asked>>
    BY <1>7, Zenon DEF TradeList!vars, TradeList!sum
  <2> QED
    BY <1>0, <1>1, <2>1
<1> QED
  BY <1>3, <1>4, <1>5, <1>6, <1>7, TradesSteps DEF TradesInvariant

LEMMA TradesFit == TradeListAssumption /\ TradesInvariant => TradeList!AnswersFit
<1> SUFFICES ASSUME TradeListAssumption, TradesInvariant PROVE TradeList!AnswersFit
  OBVIOUS
<1>1. TradeList!ListFits
  BY DEF TradesInvariant, LatestList, LatestView, TradeList!ListFits, TradeList!RowsShown
<1>2. TradeList!PageExists
  BY DEF TradesInvariant, TotalIsTrue
<1>3. TradeList!SummaryFits
  <2>1. sums = {} /\ ~ sumOvertaken => summaryError \/ summary = filter
    BY DEF TradesInvariant, LatestSummary
  <2>2. calls = {} /\ ~ overtaken /\ TradeList!RowsShown => total = Count[filter]
    BY <1>1 DEF TradeList!ListFits
  <2>3. summary = filter => TradeList!TotalShown \in {Count[filter], total}
                              /\ (total = Count[filter] => TradeList!TotalShown = Count[filter])
    BY DEF TradeList!TotalShown
  <2> QED
    BY <2>1, <2>2, <2>3 DEF TradeList!SummaryFits
<1> QED
  BY <1>1, <1>2, <1>3 DEF TradeList!AnswersFit

LEMMA TradesMove ==
    [Next]_vars /\ part' = "trades" => part = "trades" /\ [TradeList!Next]_TradeList!vars
<1> SUFFICES ASSUME [Next]_vars, part' = "trades"
             PROVE  part = "trades" /\ [TradeList!Next]_TradeList!vars
  OBVIOUS
<1>1. CASE TradeListStep
  BY <1>1 DEF TradeListStep
<1>2. CASE UNCHANGED vars
  <2>1. UNCHANGED <<common, tradesOwn, part>>
    BY <1>2, Zenon DEF vars
  <2> QED
    BY <2>1, Zenon DEF common, tradesOwn, TradeList!vars, TradeList!list, TradeList!sum
<1> QED
  BY <1>1, <1>2 DEF Next, SessionStep, ListsStep, ImportStep, LibraryStep, EvidenceStep,
                    ComposerStep, NotesStep, SafetyStep

\* The trade history shows the rows, the page and the summary of the filter on the screen,
\* for every set of filters and every number of trades the server has for them (Trades.tsx).
THEOREM HistoryFits == Spec => []AnswersFit
<1> DEFINE Good == part = "trades" => TradesInvariant
<1>1. TradeListAssumption
  BY PartsAssumption
<1>2. Init => Good
  BY <1>1, TradesInit DEF Init
<1>3. Good /\ [Next]_vars => Good'
  <2> SUFFICES ASSUME Good, [Next]_vars, part' = "trades" PROVE TradesInvariant'
    OBVIOUS
  <2>1. part = "trades" /\ [TradeList!Next]_TradeList!vars
    BY TradesMove, Zenon
  <2> QED
    BY <1>1, <2>1, TradesTypeNext, LatestListKept, TotalKept, LatestSummaryKept DEF TradesInvariant
<1>4. Good => AnswersFit
  BY <1>1, TradesFit DEF AnswersFit
<1> HIDE DEF Good
<1> QED
  BY <1>2, <1>3, <1>4, PTL DEF Spec

-----------------------------------------------------------------------------
(* Parts that have proofs of their own *)

SessionProof == INSTANCE BrowserSessionProofs

ListsProof == INSTANCE BubbleStoreProofs WITH
    Writers <- ListsStore.writers, Trades <- ListsStore.trades, Files <- ListsStore.files,
    PageLimit <- ListsStore.limit, PageCap <- ListsStore.cap, MaxBubbles <- ListsStore.bubbles,
    MaxImports <- ListsStore.imports, MaxFaults <- ListsStore.faults

ImportProof == INSTANCE BubbleStoreProofs WITH
    Writers <- ImportStore.writers, Trades <- ImportStore.trades, Files <- ImportStore.files,
    PageLimit <- ImportStore.limit, PageCap <- ImportStore.cap, MaxBubbles <- ImportStore.bubbles,
    MaxImports <- ImportStore.imports, MaxFaults <- ImportStore.faults

LibraryProof == INSTANCE BubbleStoreProofs WITH
    Writers <- LibraryStore.writers, Trades <- LibraryStore.trades, Files <- LibraryStore.files,
    PageLimit <- LibraryStore.limit, PageCap <- LibraryStore.cap, MaxBubbles <- LibraryStore.bubbles,
    MaxImports <- LibraryStore.imports, MaxFaults <- LibraryStore.faults, PageSize <- LibraryStore.page

-----------------------------------------------------------------------------
(* The session *)

LEMMA SessionAssumptions ==
    SessionProof!GuestAssumption /\ SessionProof!SessionBounds /\ SessionProof!TabsAssumption
  BY PartsAssumption
     DEF SessionAssumption, Session!GuestAssumption, Session!SessionBounds,
         Session!TabsAssumption, Session!Gone, SessionProof!GuestAssumption,
         SessionProof!SessionBounds, SessionProof!TabsAssumption, SessionProof!Gone

LEMMA SessionInitSame == Session!Init => SessionProof!Init
  BY DEF Session!Init, Session!Pairs, Session!Idle, SessionProof!Init, SessionProof!Pairs,
         SessionProof!Idle

LEMMA SessionVarsSame == UNCHANGED vars => UNCHANGED SessionProof!vars
<1> SUFFICES ASSUME UNCHANGED vars PROVE UNCHANGED SessionProof!vars
  OBVIOUS
<1>1. UNCHANGED <<common, sessionOwn>>
  BY Zenon DEF vars
<1> QED
  BY <1>1, Zenon DEF common, sessionOwn, SessionProof!vars

LEMMA SessionNextSame == Session!Next => SessionProof!Next
  BY DEF Session!Pairs, Session!Gone, Session!server, Session!Doors, Session!Idle,
         Session!Unissued, Session!Issue, Session!TwoHolders, Session!Mishap,
         Session!AccessExpires, Session!Answered, Session!CheckToken, Session!Rotate,
         Session!RotateFails, Session!Unanswered, Session!Mine, Session!Awaiting,
         Session!Leave, Session!Settle, Session!SetPair, Session!Send, Session!Answer,
         Session!CallLost, Session!Unauthorized, Session!GiveUp, Session!NoRefreshToken,
         Session!JoinRefresh, Session!StartRefresh, Session!RenewedKeepsOld,
         Session!Renewed, Session!RejectStarter, Session!RejectWaiting,
         Session!RefreshFailed, Session!RefreshLost, Session!Denied,
         Session!ResetTokensOnly, Session!Reset, Session!Busy, Session!LoginOffers,
         Session!SignupOffers, Session!Submit, Session!LogIn, Session!SignUp,
         Session!Rejected, Session!ContinueAsGuest, Session!StartGuestSession,
         Session!SocialCallback, Session!LogOut, Session!Load, Session!Server,
         Session!Browser, Session!Arrives, Session!Next, SessionProof!Pairs,
         SessionProof!Gone, SessionProof!server, SessionProof!Doors, SessionProof!Idle,
         SessionProof!Unissued, SessionProof!Issue, SessionProof!TwoHolders,
         SessionProof!Mishap, SessionProof!AccessExpires, SessionProof!Answered,
         SessionProof!CheckToken, SessionProof!Rotate, SessionProof!RotateFails,
         SessionProof!Unanswered, SessionProof!Mine, SessionProof!Awaiting,
         SessionProof!Leave, SessionProof!Settle, SessionProof!SetPair, SessionProof!Send,
         SessionProof!Answer, SessionProof!CallLost, SessionProof!Unauthorized,
         SessionProof!GiveUp, SessionProof!NoRefreshToken, SessionProof!JoinRefresh,
         SessionProof!StartRefresh, SessionProof!RenewedKeepsOld, SessionProof!Renewed,
         SessionProof!RejectStarter, SessionProof!RejectWaiting, SessionProof!RefreshFailed,
         SessionProof!RefreshLost, SessionProof!Denied, SessionProof!ResetTokensOnly,
         SessionProof!Reset, SessionProof!Busy, SessionProof!LoginOffers,
         SessionProof!SignupOffers, SessionProof!Submit, SessionProof!LogIn,
         SessionProof!SignUp, SessionProof!Rejected, SessionProof!ContinueAsGuest,
         SessionProof!StartGuestSession, SessionProof!SocialCallback, SessionProof!LogOut,
         SessionProof!Load, SessionProof!Server, SessionProof!Browser, SessionProof!Arrives,
         SessionProof!Next

LEMMA SessionStepSame ==
    part = "session" /\ [Next]_vars => [SessionProof!Next]_SessionProof!vars
  BY SessionNextSame, SessionVarsSame
     DEF Next, SessionStep, ListsStep, ImportStep, LibraryStep, TradeListStep, EvidenceStep,
         ComposerStep, NotesStep, SafetyStep

LEMMA SessionCounts == \A S : SessionProof!Cardinality(S) = Session!Cardinality(S)
  BY DEF Session!Cardinality, SessionProof!Cardinality

\* However many calls fail at once a tab renews its token once, nobody waits when it does not,
\* and only a mishap signs the user out: for any number of tabs, calls, accounts and pairs.
THEOREM RenewalsHold == Spec => []RenewalsAreSafe
<1> DEFINE F == part = "session"
<1>1. Init /\ F => SessionProof!Init
  BY SessionInitSame DEF Init
<1>2. [Next]_vars => (F' <=> F)
  BY PartStays
<1>3. F /\ [Next]_vars => [SessionProof!Next]_SessionProof!vars
  BY SessionStepSame
<1>4. SessionProof!Spec => []SessionProof!RenewalsAreSafe
  BY SessionAssumptions, SessionProof!RenewalsSafe
<1>5. SessionProof!RenewalsAreSafe => RenewalsAreSafe
  <2>1. SessionProof!SingleFlight => Session!SingleFlight
    BY SessionCounts
       DEF Session!SingleFlight, Session!Mine, Session!Awaiting, SessionProof!SingleFlight,
           SessionProof!Mine, SessionProof!Awaiting
  <2>2. SessionProof!ForcedOutNeedsMishap => Session!ForcedOutNeedsMishap
    BY DEF Session!ForcedOutNeedsMishap, SessionProof!ForcedOutNeedsMishap
  <2> QED
    BY <2>1, <2>2 DEF RenewalsAreSafe, Session!RenewalsAreSafe, SessionProof!RenewalsAreSafe
<1>6. ~ F => RenewalsAreSafe
  BY DEF RenewalsAreSafe
<1>7. SessionProof!Spec <=> SessionProof!Init /\ [][SessionProof!Next]_SessionProof!vars
  BY DEF SessionProof!Spec
<1> HIDE DEF F
<1> QED
  BY <1>1, <1>2, <1>3, <1>4, <1>5, <1>6, <1>7, PTL DEF Spec

\* In a browser with one tab, what the tab keeps of an account is that account's, but for doors
\* that reset nothing and calls under way.
THEOREM AccountsHold == ASSUME NEW t, Tabs = {t} PROVE Spec => []AccountsStayApart
<1> DEFINE F == part = "session"
<1>1. Init /\ F => SessionProof!Init
  BY SessionInitSame DEF Init
<1>2. [Next]_vars => (F' <=> F)
  BY PartStays
<1>3. F /\ [Next]_vars => [SessionProof!Next]_SessionProof!vars
  BY SessionStepSame
<1>4. SessionProof!Spec => []SessionProof!AccountsStayApart
  BY SessionAssumptions, SessionProof!AccountsApart
<1>5. SessionProof!AccountsStayApart => AccountsStayApart
  BY DEF AccountsStayApart, Session!AccountsStayApart, Session!JournalIsOwn,
         Session!GuestMarkIsTrue, SessionProof!AccountsStayApart, SessionProof!JournalIsOwn,
         SessionProof!GuestMarkIsTrue
<1>6. ~ F => AccountsStayApart
  BY DEF AccountsStayApart
<1>7. SessionProof!Spec <=> SessionProof!Init /\ [][SessionProof!Next]_SessionProof!vars
  BY DEF SessionProof!Spec
<1> HIDE DEF F
<1> QED
  BY <1>1, <1>2, <1>3, <1>4, <1>5, <1>6, <1>7, PTL DEF Spec

-----------------------------------------------------------------------------
(* The store of bubbles, loading lists *)

LEMMA ListsAssumptions == ListsProof!StoreAssumptions
  BY PartsAssumption
     DEF ListsAssumption, ListsProof!StoreAssumptions, Lists!TradesAssumption,
         Lists!PagesAssumption, Lists!StoreBounds, Lists!AboutAssumption, Lists!About,
         Lists!Unborn, ListsProof!TradesAssumption, ListsProof!PagesAssumption,
         ListsProof!StoreBounds, ListsProof!AboutAssumption, ListsProof!About,
         ListsProof!Unborn

LEMMA ListsInitSame == Lists!Init => ListsProof!Init
  BY DEF Lists!Init, Lists!Bubbles, Lists!Unborn, Lists!NoFile, Lists!NoFetch, Lists!NoWork,
         Lists!NoBubble, ListsProof!Init, ListsProof!Bubbles, ListsProof!Unborn,
         ListsProof!NoFile, ListsProof!NoFetch, ListsProof!NoWork, ListsProof!NoBubble

LEMMA ListsVarsSame == UNCHANGED vars => UNCHANGED ListsProof!storeVars
<1> SUFFICES ASSUME UNCHANGED vars PROVE UNCHANGED ListsProof!storeVars
  OBVIOUS
<1>1. UNCHANGED <<common, storeOwn>>
  BY Zenon DEF vars
<1> QED
  BY <1>1, Zenon DEF common, storeOwn, ListsProof!storeVars

LEMMA ListsSelectedSame == \A s, S : ListsProof!Selected(s, S) = Lists!Selected(s, S)
  BY DEF Lists!Selected, Lists!Nth, Lists!Cardinality, ListsProof!Selected, ListsProof!Nth,
         ListsProof!Cardinality

LEMMA ListsRepeatsSame == \A s : ListsProof!Repeats(s) <=> Lists!Repeats(s)
  BY DEF Lists!Repeats, Lists!Elements, Lists!Cardinality, ListsProof!Repeats,
         ListsProof!Elements, ListsProof!Cardinality

LEMMA ListsNextSame == Lists!Next => ListsProof!Next
<1>1. \A t : Lists!ServerGains(t) => ListsProof!ServerGains(t)
  BY DEF Lists!ServerGains, Lists!About, Lists!Born, Lists!Elements, Lists!TradesOf,
         Lists!BetweenPages, Lists!Insert, Lists!Unused, Lists!Bubbles, Lists!Unborn,
         ListsProof!ServerGains, ListsProof!About, ListsProof!Born, ListsProof!Elements,
         ListsProof!TradesOf, ListsProof!BetweenPages, ListsProof!Insert, ListsProof!Unused,
         ListsProof!Bubbles, ListsProof!Unborn
<1>2. \A f : Lists!StartFetch(f) => ListsProof!StartFetch(f)
  BY DEF Lists!StartFetch, Lists!NoFetch, ListsProof!StartFetch, ListsProof!NoFetch
<1>3. \A f : Lists!ServePage(f) => ListsProof!ServePage(f)
  BY DEF Lists!ServePage, Lists!Smaller, ListsProof!ServePage, ListsProof!Smaller
<1>4. \A f : Lists!ReceivePage(f) => ListsProof!ReceivePage(f)
  BY DEF Lists!ReceivePage, Lists!Larger, Lists!LastPage, Lists!NoFetch,
         ListsProof!ReceivePage, ListsProof!Larger, ListsProof!LastPage, ListsProof!NoFetch
<1>5. \A f : Lists!FetchFails(f) => ListsProof!FetchFails(f)
  BY DEF Lists!FetchFails, Lists!NoFetch, ListsProof!FetchFails, ListsProof!NoFetch
<1>6. \A w : Lists!Compose(w) => ListsProof!Compose(w)
  BY DEF Lists!Compose, Lists!NoWork, Lists!NoBubble, ListsProof!Compose, ListsProof!NoWork,
         ListsProof!NoBubble
<1>7. \A w : Lists!NextTrade(w) => ListsProof!NextTrade(w)
  BY DEF Lists!NextTrade, Lists!Known, Lists!NoWork, Lists!NoBubble, ListsProof!NextTrade,
         ListsProof!Known, ListsProof!NoWork, ListsProof!NoBubble
<1>8. \A w : Lists!Patched(w) => ListsProof!Patched(w)
  BY DEF Lists!Patched, ListsProof!Patched
<1>9. \A w : Lists!ServeCreate(w) => ListsProof!ServeCreate(w)
  BY DEF Lists!ServeCreate, Lists!Born, Lists!Bubbles, Lists!BetweenPages, Lists!Insert,
         Lists!Unused, Lists!Unborn, ListsProof!ServeCreate, ListsProof!Born,
         ListsProof!Bubbles, ListsProof!BetweenPages, ListsProof!Insert, ListsProof!Unused,
         ListsProof!Unborn
<1>10. \A w : Lists!CreateAnswered(w) => ListsProof!CreateAnswered(w)
  BY DEF Lists!CreateAnswered, Lists!Larger, Lists!NoBubble, ListsProof!CreateAnswered,
         ListsProof!Larger, ListsProof!NoBubble
<1>11. \A w : Lists!CreateFails(w) => ListsProof!CreateFails(w)
  BY DEF Lists!CreateFails, Lists!NoWork, Lists!NoBubble, ListsProof!CreateFails,
         ListsProof!NoWork, ListsProof!NoBubble
<1>12. \A w, csv : Lists!ImportTrades(w, csv) => ListsProof!ImportTrades(w, csv)
  BY ListsRepeatsSame
     DEF Lists!ImportTrades, Lists!Busy, Lists!Elements, Lists!NoWork, Lists!TradesOf,
         Lists!NoBubble, ListsProof!ImportTrades, ListsProof!Busy, ListsProof!Elements,
         ListsProof!NoWork, ListsProof!TradesOf, ListsProof!NoBubble
<1>13. Lists!AddBubble => ListsProof!AddBubble
  BY DEF Lists!AddBubble, Lists!Unused, Lists!Bubbles, Lists!Unborn, ListsProof!AddBubble,
         ListsProof!Unused, ListsProof!Bubbles, ListsProof!Unborn
<1>14. Lists!ClearAll => ListsProof!ClearAll
  BY DEF Lists!ClearAll, Lists!ReplaceAll, ListsProof!ClearAll, ListsProof!ReplaceAll
<1>15. \A b : Lists!DeleteBubble(b) => ListsProof!DeleteBubble(b)
  BY ListsSelectedSame
     DEF Lists!DeleteBubble, Lists!Elements, Lists!Other, ListsProof!DeleteBubble,
         ListsProof!Elements, ListsProof!Other
<1>16. Lists!ExportBubbles => ListsProof!ExportBubbles
  BY DEF Lists!ExportBubbles, ListsProof!ExportBubbles
<1>17. Lists!ImportBubbles => ListsProof!ImportBubbles
  BY DEF Lists!ImportBubbles, Lists!ReplaceAll, ListsProof!ImportBubbles,
         ListsProof!ReplaceAll
<1>18. Lists!ResetAndReload => ListsProof!ResetAndReload
  BY DEF Lists!ResetAndReload, Lists!NoFetch, Lists!NoWork, Lists!NoBubble,
         ListsProof!ResetAndReload, ListsProof!NoFetch, ListsProof!NoWork,
         ListsProof!NoBubble
<1> QED
  BY <1>1, <1>2, <1>3, <1>4, <1>5, <1>6, <1>7, <1>8, <1>9, <1>10, <1>11, <1>12, <1>13,
     <1>14, <1>15, <1>16, <1>17, <1>18, Zenon
     DEF Lists!Next, Lists!About, Lists!Bubbles, ListsProof!Next, ListsProof!About,
         ListsProof!Bubbles

LEMMA ListsStepSame ==
    part = "lists" /\ [Next]_vars => [ListsProof!Next]_ListsProof!storeVars
  BY ListsNextSame, ListsVarsSame
     DEF Next, SessionStep, ListsStep, ImportStep, LibraryStep, TradeListStep, EvidenceStep,
         ComposerStep, NotesStep, SafetyStep

\* The store counts at least what it lists, and lists a bubble once, unless a creation or a change
\* at the server crossed a page: for any number of loads, writers and bubbles.
THEOREM ListHolds == Spec => []ListIsSound
<1> DEFINE F == part = "lists"
<1>1. Init /\ F => ListsProof!Init
  BY ListsInitSame DEF Init
<1>2. [Next]_vars => (F' <=> F)
  BY PartStays
<1>3. F /\ [Next]_vars => [ListsProof!Next]_ListsProof!storeVars
  BY ListsStepSame
<1>4. ListsProof!Spec <=>
         ListsProof!Init /\ [][ListsProof!Next]_ListsProof!storeVars
  BY DEF ListsProof!Spec
<1>5. ListsProof!Spec => []ListsProof!ListIsSound
  BY ListsAssumptions, ListsProof!ListSound
<1>6. ListsProof!ListIsSound => ListIsSound
  <2>1. \A S : ListsProof!Cardinality(S) = Lists!Cardinality(S)
    BY DEF Lists!Cardinality, ListsProof!Cardinality
  <2> QED
    BY <2>1
       DEF ListIsSound, Lists!ListIsSound, Lists!TotalCoversList, Lists!TwiceOnlyIfMixed,
           Lists!Elements, ListsProof!ListIsSound, ListsProof!TotalCoversList,
           ListsProof!TwiceOnlyIfMixed, ListsProof!Elements
<1>7. ~ F => ListIsSound
  BY DEF ListIsSound
<1> HIDE DEF F
<1> QED
  BY <1>1, <1>2, <1>3, <1>4, <1>5, <1>6, <1>7, PTL DEF Spec

\* A load during which the server did not change ends with exactly the bubbles of the server, up
\* to the last page it may ask for, whatever the sizes of pages and lists.
THEOREM LoadHolds == Spec => LoadIsExact
<1> DEFINE F == part = "lists"
<1>1. Init /\ F => ListsProof!Init
  BY ListsInitSame DEF Init
<1>2. [Next]_vars => (F' <=> F)
  BY PartStays
<1>3. F /\ [Next]_vars => [ListsProof!Next]_ListsProof!storeVars
  BY ListsStepSame
<1>4. ListsProof!Spec <=>
         ListsProof!Init /\ [][ListsProof!Next]_ListsProof!storeVars
  BY DEF ListsProof!Spec
<1>5. ListsProof!Spec => [][ListsProof!LoadsExactly]_ListsProof!storeVars
  BY ListsAssumptions, ListsProof!LoadExact DEF ListsProof!LoadIsExact
<1>6. F /\ [ListsProof!LoadsExactly]_ListsProof!storeVars =>
         [part = "lists" => Lists!LoadsExactly]_vars
  <2>1. ListsProof!LoadsExactly => Lists!LoadsExactly
    BY DEF Lists!LoadsExactly, Lists!ReceivePage, Lists!LastPage, Lists!Elements,
           Lists!Larger, Lists!Smaller, Lists!NoFetch, ListsProof!LoadsExactly,
           ListsProof!ReceivePage, ListsProof!LastPage, ListsProof!Elements,
           ListsProof!Larger, ListsProof!Smaller, ListsProof!NoFetch
  <2>2. UNCHANGED ListsProof!storeVars => Lists!LoadsExactly
    <3> SUFFICES ASSUME UNCHANGED ListsProof!storeVars, NEW f \in Fetchers, Lists!ReceivePage(f),
                        fetch'[f].at = "idle"
                 PROVE  FALSE
      BY DEF Lists!LoadsExactly
    <3>1. fetch' = fetch
      BY Zenon DEF ListsProof!storeVars
    <3>2. fetch[f].at = "served"
      BY DEF Lists!ReceivePage
    <3> QED
      BY <3>1, <3>2
  <2> QED
    BY <2>1, <2>2
<1>7. ~ F => [part = "lists" => Lists!LoadsExactly]_vars
  OBVIOUS
<1> HIDE DEF F
<1> QED
  BY <1>1, <1>2, <1>3, <1>4, <1>5, <1>6, <1>7, PTL DEF Spec, LoadIsExact

-----------------------------------------------------------------------------
(* The store of bubbles, importing files *)

LEMMA ImportAssumptions == ImportProof!StoreAssumptions
  BY PartsAssumption
     DEF ImportAssumption, ImportProof!StoreAssumptions, Import!TradesAssumption,
         Import!PagesAssumption, Import!StoreBounds, Import!AboutAssumption, Import!About,
         Import!Unborn, ImportProof!TradesAssumption, ImportProof!PagesAssumption,
         ImportProof!StoreBounds, ImportProof!AboutAssumption, ImportProof!About,
         ImportProof!Unborn

LEMMA ImportInitSame == Import!Init => ImportProof!Init
  BY DEF Import!Init, Import!Bubbles, Import!Unborn, Import!NoFile, Import!NoFetch,
         Import!NoWork, Import!NoBubble, ImportProof!Init, ImportProof!Bubbles,
         ImportProof!Unborn, ImportProof!NoFile, ImportProof!NoFetch, ImportProof!NoWork,
         ImportProof!NoBubble

LEMMA ImportVarsSame == UNCHANGED vars => UNCHANGED ImportProof!storeVars
<1> SUFFICES ASSUME UNCHANGED vars PROVE UNCHANGED ImportProof!storeVars
  OBVIOUS
<1>1. UNCHANGED <<common, storeOwn>>
  BY Zenon DEF vars
<1> QED
  BY <1>1, Zenon DEF common, storeOwn, ImportProof!storeVars

LEMMA ImportSelectedSame == \A s, S : ImportProof!Selected(s, S) = Import!Selected(s, S)
  BY DEF Import!Selected, Import!Nth, Import!Cardinality, ImportProof!Selected,
         ImportProof!Nth, ImportProof!Cardinality

LEMMA ImportRepeatsSame == \A s : ImportProof!Repeats(s) <=> Import!Repeats(s)
  BY DEF Import!Repeats, Import!Elements, Import!Cardinality, ImportProof!Repeats,
         ImportProof!Elements, ImportProof!Cardinality

LEMMA ImportNextSame == Import!Next => ImportProof!Next
<1>1. \A t : Import!ServerGains(t) => ImportProof!ServerGains(t)
  BY DEF Import!ServerGains, Import!About, Import!Born, Import!Elements, Import!TradesOf,
         Import!BetweenPages, Import!Insert, Import!Unused, Import!Bubbles, Import!Unborn,
         ImportProof!ServerGains, ImportProof!About, ImportProof!Born, ImportProof!Elements,
         ImportProof!TradesOf, ImportProof!BetweenPages, ImportProof!Insert,
         ImportProof!Unused, ImportProof!Bubbles, ImportProof!Unborn
<1>2. \A f : Import!StartFetch(f) => ImportProof!StartFetch(f)
  BY DEF Import!StartFetch, Import!NoFetch, ImportProof!StartFetch, ImportProof!NoFetch
<1>3. \A f : Import!ServePage(f) => ImportProof!ServePage(f)
  BY DEF Import!ServePage, Import!Smaller, ImportProof!ServePage, ImportProof!Smaller
<1>4. \A f : Import!ReceivePage(f) => ImportProof!ReceivePage(f)
  BY DEF Import!ReceivePage, Import!Larger, Import!LastPage, Import!NoFetch,
         ImportProof!ReceivePage, ImportProof!Larger, ImportProof!LastPage,
         ImportProof!NoFetch
<1>5. \A f : Import!FetchFails(f) => ImportProof!FetchFails(f)
  BY DEF Import!FetchFails, Import!NoFetch, ImportProof!FetchFails, ImportProof!NoFetch
<1>6. \A w : Import!Compose(w) => ImportProof!Compose(w)
  BY DEF Import!Compose, Import!NoWork, Import!NoBubble, ImportProof!Compose,
         ImportProof!NoWork, ImportProof!NoBubble
<1>7. \A w : Import!NextTrade(w) => ImportProof!NextTrade(w)
  BY DEF Import!NextTrade, Import!Known, Import!NoWork, Import!NoBubble,
         ImportProof!NextTrade, ImportProof!Known, ImportProof!NoWork, ImportProof!NoBubble
<1>8. \A w : Import!Patched(w) => ImportProof!Patched(w)
  BY DEF Import!Patched, ImportProof!Patched
<1>9. \A w : Import!ServeCreate(w) => ImportProof!ServeCreate(w)
  BY DEF Import!ServeCreate, Import!Born, Import!Bubbles, Import!BetweenPages,
         Import!Insert, Import!Unused, Import!Unborn, ImportProof!ServeCreate,
         ImportProof!Born, ImportProof!Bubbles, ImportProof!BetweenPages,
         ImportProof!Insert, ImportProof!Unused, ImportProof!Unborn
<1>10. \A w : Import!CreateAnswered(w) => ImportProof!CreateAnswered(w)
  BY DEF Import!CreateAnswered, Import!Larger, Import!NoBubble, ImportProof!CreateAnswered,
         ImportProof!Larger, ImportProof!NoBubble
<1>11. \A w : Import!CreateFails(w) => ImportProof!CreateFails(w)
  BY DEF Import!CreateFails, Import!NoWork, Import!NoBubble, ImportProof!CreateFails,
         ImportProof!NoWork, ImportProof!NoBubble
<1>12. \A w, csv : Import!ImportTrades(w, csv) => ImportProof!ImportTrades(w, csv)
  BY ImportRepeatsSame
     DEF Import!ImportTrades, Import!Busy, Import!Elements, Import!NoWork, Import!TradesOf,
         Import!NoBubble, ImportProof!ImportTrades, ImportProof!Busy, ImportProof!Elements,
         ImportProof!NoWork, ImportProof!TradesOf, ImportProof!NoBubble
<1>13. Import!AddBubble => ImportProof!AddBubble
  BY DEF Import!AddBubble, Import!Unused, Import!Bubbles, Import!Unborn,
         ImportProof!AddBubble, ImportProof!Unused, ImportProof!Bubbles, ImportProof!Unborn
<1>14. Import!ClearAll => ImportProof!ClearAll
  BY DEF Import!ClearAll, Import!ReplaceAll, ImportProof!ClearAll, ImportProof!ReplaceAll
<1>15. \A b : Import!DeleteBubble(b) => ImportProof!DeleteBubble(b)
  BY ImportSelectedSame
     DEF Import!DeleteBubble, Import!Elements, Import!Other, ImportProof!DeleteBubble,
         ImportProof!Elements, ImportProof!Other
<1>16. Import!ExportBubbles => ImportProof!ExportBubbles
  BY DEF Import!ExportBubbles, ImportProof!ExportBubbles
<1>17. Import!ImportBubbles => ImportProof!ImportBubbles
  BY DEF Import!ImportBubbles, Import!ReplaceAll, ImportProof!ImportBubbles,
         ImportProof!ReplaceAll
<1>18. Import!ResetAndReload => ImportProof!ResetAndReload
  BY DEF Import!ResetAndReload, Import!NoFetch, Import!NoWork, Import!NoBubble,
         ImportProof!ResetAndReload, ImportProof!NoFetch, ImportProof!NoWork,
         ImportProof!NoBubble
<1> QED
  BY <1>1, <1>2, <1>3, <1>4, <1>5, <1>6, <1>7, <1>8, <1>9, <1>10, <1>11, <1>12, <1>13,
     <1>14, <1>15, <1>16, <1>17, <1>18, Zenon
     DEF Import!Next, Import!About, Import!Bubbles, ImportProof!Next, ImportProof!About,
         ImportProof!Bubbles

LEMMA ImportStepSame ==
    part = "import" /\ [Next]_vars => [ImportProof!Next]_ImportProof!storeVars
  BY ImportNextSame, ImportVarsSame
     DEF Next, SessionStep, ListsStep, ImportStep, LibraryStep, TradeListStep, EvidenceStep,
         ComposerStep, NotesStep, SafetyStep

\* An import gives no trade a second bubble at the server, unless the file repeats it, the list
\* was behind the server, or another import was at the same trade: for any files and importers.
THEOREM ImportHolds == Spec => []OneBubblePerTrade
<1> DEFINE F == part = "import"
<1>1. Init /\ F => ImportProof!Init
  BY ImportInitSame DEF Init
<1>2. [Next]_vars => (F' <=> F)
  BY PartStays
<1>3. F /\ [Next]_vars => [ImportProof!Next]_ImportProof!storeVars
  BY ImportStepSame
<1>4. ImportProof!Spec <=>
         ImportProof!Init /\ [][ImportProof!Next]_ImportProof!storeVars
  BY DEF ImportProof!Spec
<1>5. ImportProof!Spec => []ImportProof!OneBubblePerTrade
  BY ImportAssumptions, ImportProof!OneBubble
<1>6. ImportProof!OneBubblePerTrade => OneBubblePerTrade
  BY DEF OneBubblePerTrade, Import!OneBubblePerTrade, ImportProof!OneBubblePerTrade
<1>7. ~ F => OneBubblePerTrade
  BY DEF OneBubblePerTrade
<1> HIDE DEF F
<1> QED
  BY <1>1, <1>2, <1>3, <1>4, <1>5, <1>6, <1>7, PTL DEF Spec

-----------------------------------------------------------------------------
(* The library *)

LEMMA LibraryAssumptionsHold == LibraryProof!LibraryAssumptions
  BY PartsAssumption
     DEF LibraryAssumption, LibraryProof!StoreAssumptions, LibraryProof!LibraryAssumptions,
         Library!TradesAssumption, Library!PagesAssumption, Library!StoreBounds,
         Library!AboutAssumption, Library!About, Library!Unborn, Library!PageAssumption,
         LibraryProof!TradesAssumption, LibraryProof!PagesAssumption,
         LibraryProof!StoreBounds, LibraryProof!AboutAssumption, LibraryProof!About,
         LibraryProof!Unborn, LibraryProof!PageAssumption

LEMMA LibraryInitSame == Library!PageInit => LibraryProof!PageInit
  BY DEF Library!PageInit, Library!Nothing, Library!All, Library!Init, Library!Bubbles,
         Library!Unborn, Library!NoFile, Library!NoFetch, Library!NoWork, Library!NoBubble,
         LibraryProof!PageInit, LibraryProof!Nothing, LibraryProof!All, LibraryProof!Init,
         LibraryProof!Bubbles, LibraryProof!Unborn, LibraryProof!NoFile,
         LibraryProof!NoFetch, LibraryProof!NoWork, LibraryProof!NoBubble

LEMMA LibraryVarsSame ==
    UNCHANGED vars => UNCHANGED <<LibraryProof!storeVars, LibraryProof!pageVars>>
<1> SUFFICES ASSUME UNCHANGED vars PROVE UNCHANGED <<LibraryProof!storeVars, LibraryProof!pageVars>>
  OBVIOUS
<1>1. UNCHANGED <<common, storeOwn, pageOwn>>
  BY Zenon DEF vars
<1> QED
  BY <1>1, Zenon
     DEF common, storeOwn, pageOwn, LibraryProof!storeVars, LibraryProof!pageVars

LEMMA LibrarySelectedSame == \A s, S : LibraryProof!Selected(s, S) = Library!Selected(s, S)
  BY DEF Library!Selected, Library!Nth, Library!Cardinality, LibraryProof!Selected,
         LibraryProof!Nth, LibraryProof!Cardinality

LEMMA LibraryNextSame == Library!PageNext => LibraryProof!PageNext
<1>1. \A t : Library!ServerGains(t) => LibraryProof!ServerGains(t)
  BY DEF Library!ServerGains, Library!About, Library!Born, Library!Elements,
         Library!TradesOf, Library!BetweenPages, Library!Insert, Library!Unused,
         Library!Bubbles, Library!Unborn, LibraryProof!ServerGains, LibraryProof!About,
         LibraryProof!Born, LibraryProof!Elements, LibraryProof!TradesOf,
         LibraryProof!BetweenPages, LibraryProof!Insert, LibraryProof!Unused,
         LibraryProof!Bubbles, LibraryProof!Unborn
<1>2. \A f : Library!LoadStep(f) => LibraryProof!LoadStep(f)
  BY LibrarySelectedSame, ZenonT(40)
     DEF Library!LoadStep, Library!FetchFails, Library!Listed, Library!ReceivePage,
         Library!ServePage, Library!pageVars, Library!NoFetch, Library!Pages,
         Library!Render, Library!Reselect, Library!TotalPages, Library!Larger,
         Library!LastPage, Library!Smaller, Library!Throws, Library!Elements,
         Library!Filtered, Library!Action, Library!Similar, Library!Tallied, Library!Kept,
         Library!All, LibraryProof!LoadStep, LibraryProof!FetchFails, LibraryProof!Listed,
         LibraryProof!ReceivePage, LibraryProof!ServePage, LibraryProof!pageVars,
         LibraryProof!NoFetch, LibraryProof!Pages, LibraryProof!Render,
         LibraryProof!Reselect, LibraryProof!TotalPages, LibraryProof!Larger,
         LibraryProof!LastPage, LibraryProof!Smaller, LibraryProof!Throws,
         LibraryProof!Elements, LibraryProof!Filtered, LibraryProof!Action,
         LibraryProof!Similar, LibraryProof!Tallied, LibraryProof!Kept, LibraryProof!All
<1>3. \A f : Library!Refresh(f) => LibraryProof!Refresh(f)
  BY DEF Library!Refresh, Library!StartFetch, Library!pageVars, Library!NoFetch,
         LibraryProof!Refresh, LibraryProof!StartFetch, LibraryProof!pageVars,
         LibraryProof!NoFetch
<1>4. \A b, f : Library!Open(b, f) => LibraryProof!Open(b, f)
  BY DEF Library!Open, Library!All, Library!Nothing, Library!StartFetch, Library!NoBubble,
         Library!NoFetch, LibraryProof!Open, LibraryProof!All, LibraryProof!Nothing,
         LibraryProof!StartFetch, LibraryProof!NoBubble, LibraryProof!NoFetch
<1>5. \A f : Library!SetFilter(f) => LibraryProof!SetFilter(f)
  BY LibrarySelectedSame
     DEF Library!SetFilter, Library!All, Library!Nothing, Library!Offers, Library!ResetView,
         Library!storeVars, Library!NoBubble, Library!Elements, Library!Paged,
         Library!Filtered, Library!Smaller, Library!Sorted, Library!Kept, Library!Action,
         LibraryProof!SetFilter, LibraryProof!All, LibraryProof!Nothing,
         LibraryProof!Offers, LibraryProof!ResetView, LibraryProof!storeVars,
         LibraryProof!NoBubble, LibraryProof!Elements, LibraryProof!Paged,
         LibraryProof!Filtered, LibraryProof!Smaller, LibraryProof!Sorted,
         LibraryProof!Kept, LibraryProof!Action
<1>6. Library!SetSort => LibraryProof!SetSort
  BY LibrarySelectedSame
     DEF Library!SetSort, Library!Nothing, Library!Offers, Library!ResetView,
         Library!storeVars, Library!NoBubble, Library!Elements, Library!Paged,
         Library!Filtered, Library!Smaller, Library!Sorted, Library!Kept, Library!Action,
         Library!All, LibraryProof!SetSort, LibraryProof!Nothing, LibraryProof!Offers,
         LibraryProof!ResetView, LibraryProof!storeVars, LibraryProof!NoBubble,
         LibraryProof!Elements, LibraryProof!Paged, LibraryProof!Filtered,
         LibraryProof!Smaller, LibraryProof!Sorted, LibraryProof!Kept, LibraryProof!Action,
         LibraryProof!All
<1>7. Library!Move => LibraryProof!Move
  BY LibrarySelectedSame
     DEF Library!Move, Library!JumpTarget, Library!Larger, Library!Nothing, Library!Offers,
         Library!PagerOffers, Library!Pages, Library!Smaller, Library!Turn,
         Library!NoBubble, Library!Elements, Library!Paged, Library!TotalPages,
         Library!storeVars, Library!Filtered, Library!Sorted, Library!Kept, Library!Action,
         Library!All, LibraryProof!Move, LibraryProof!JumpTarget, LibraryProof!Larger,
         LibraryProof!Nothing, LibraryProof!Offers, LibraryProof!PagerOffers,
         LibraryProof!Pages, LibraryProof!Smaller, LibraryProof!Turn, LibraryProof!NoBubble,
         LibraryProof!Elements, LibraryProof!Paged, LibraryProof!TotalPages,
         LibraryProof!storeVars, LibraryProof!Filtered, LibraryProof!Sorted,
         LibraryProof!Kept, LibraryProof!Action, LibraryProof!All
<1>8. \A b : Library!Toggle(b) => LibraryProof!Toggle(b)
  BY LibrarySelectedSame
     DEF Library!Toggle, Library!Nothing, Library!Offers, Library!Render, Library!storeVars,
         Library!NoBubble, Library!Elements, Library!Paged, Library!Throws,
         Library!Filtered, Library!Smaller, Library!Sorted, Library!Action, Library!Similar,
         Library!Tallied, Library!Kept, Library!All, LibraryProof!Toggle,
         LibraryProof!Nothing, LibraryProof!Offers, LibraryProof!Render,
         LibraryProof!storeVars, LibraryProof!NoBubble, LibraryProof!Elements,
         LibraryProof!Paged, LibraryProof!Throws, LibraryProof!Filtered,
         LibraryProof!Smaller, LibraryProof!Sorted, LibraryProof!Action,
         LibraryProof!Similar, LibraryProof!Tallied, LibraryProof!Kept, LibraryProof!All
<1>9. \A b : Library!Delete(b) => LibraryProof!Delete(b)
  BY LibrarySelectedSame, ZenonT(40)
     DEF Library!Delete, Library!DeleteBubble, Library!Nothing, Library!Offers,
         Library!Pages, Library!Render, Library!Reselect, Library!TotalPages,
         Library!Elements, Library!Other, Library!NoBubble, Library!Paged, Library!Throws,
         Library!Filtered, Library!Larger, Library!Smaller, Library!Sorted, Library!Action,
         Library!Similar, Library!Tallied, Library!Kept, Library!All, LibraryProof!Delete,
         LibraryProof!DeleteBubble, LibraryProof!Nothing, LibraryProof!Offers,
         LibraryProof!Pages, LibraryProof!Render, LibraryProof!Reselect,
         LibraryProof!TotalPages, LibraryProof!Elements, LibraryProof!Other,
         LibraryProof!NoBubble, LibraryProof!Paged, LibraryProof!Throws,
         LibraryProof!Filtered, LibraryProof!Larger, LibraryProof!Smaller,
         LibraryProof!Sorted, LibraryProof!Action, LibraryProof!Similar,
         LibraryProof!Tallied, LibraryProof!Kept, LibraryProof!All
<1>10. \A a : Library!ClearEverything(a) => LibraryProof!ClearEverything(a)
  BY LibrarySelectedSame
     DEF Library!ClearEverything, Library!ClearAll, Library!Nothing, Library!Offers,
         Library!Pages, Library!TotalPages, Library!storeVars, Library!ReplaceAll,
         Library!NoBubble, Library!Elements, Library!Paged, Library!Filtered,
         Library!Larger, Library!Smaller, Library!Sorted, Library!Kept, Library!Action,
         Library!All, LibraryProof!ClearEverything, LibraryProof!ClearAll,
         LibraryProof!Nothing, LibraryProof!Offers, LibraryProof!Pages,
         LibraryProof!TotalPages, LibraryProof!storeVars, LibraryProof!ReplaceAll,
         LibraryProof!NoBubble, LibraryProof!Elements, LibraryProof!Paged,
         LibraryProof!Filtered, LibraryProof!Larger, LibraryProof!Smaller,
         LibraryProof!Sorted, LibraryProof!Kept, LibraryProof!Action, LibraryProof!All
<1> QED
  BY <1>1, <1>2, <1>3, <1>4, <1>5, <1>6, <1>7, <1>8, <1>9, <1>10, Zenon
     DEF Library!PageNext, Library!About, Library!Bubbles, Library!Filters, Library!All,
         Library!Nothing, Library!NoBubble, Library!pageVars, LibraryProof!PageNext,
         LibraryProof!About, LibraryProof!Bubbles, LibraryProof!Filters, LibraryProof!All,
         LibraryProof!Nothing, LibraryProof!NoBubble, LibraryProof!pageVars

LEMMA LibraryStepSame ==
    part = "library" /\ [Next]_vars =>
        [LibraryProof!PageNext]_<<LibraryProof!storeVars, LibraryProof!pageVars>>
  BY LibraryNextSame, LibraryVarsSame
     DEF Next, SessionStep, ListsStep, ImportStep, LibraryStep, TradeListStep, EvidenceStep,
         ComposerStep, NotesStep, SafetyStep

\* A link to a bubble is honoured when the list has it, and an empty page is shown in place of
\* results only after the list got shorter, whatever the bubbles, their actions and the page size.
THEOREM ViewHolds == Spec => []ViewIsSound
<1> DEFINE F == part = "library"
<1>1. Init /\ F => LibraryProof!PageInit
  BY LibraryInitSame DEF Init
<1>2. [Next]_vars => (F' <=> F)
  BY PartStays
<1>3. F /\ [Next]_vars => [LibraryProof!PageNext]_<<LibraryProof!storeVars, LibraryProof!pageVars>>
  BY LibraryStepSame
<1>4. LibraryProof!PageSpec <=>
         LibraryProof!PageInit /\ [][LibraryProof!PageNext]_<<LibraryProof!storeVars, LibraryProof!pageVars>>
  BY DEF LibraryProof!PageSpec
<1>5. LibraryProof!PageSpec => []LibraryProof!ViewIsSound
  BY LibraryAssumptionsHold, LibraryProof!ViewSound
<1>6. LibraryProof!ViewIsSound => ViewIsSound
  BY LibrarySelectedSame
     DEF ViewIsSound, Library!ViewIsSound, Library!LinkHonoured,
         Library!BlankOnlyAfterShrinking, Library!Elements, Library!Filtered, Library!Kept,
         Library!Action, Library!All, Library!Paged, Library!Sorted, Library!Smaller,
         LibraryProof!ViewIsSound, LibraryProof!LinkHonoured,
         LibraryProof!BlankOnlyAfterShrinking, LibraryProof!Elements, LibraryProof!Filtered,
         LibraryProof!Kept, LibraryProof!Action, LibraryProof!All, LibraryProof!Paged,
         LibraryProof!Sorted, LibraryProof!Smaller
<1>7. ~ F => ViewIsSound
  BY DEF ViewIsSound
<1> HIDE DEF F
<1> QED
  BY <1>1, <1>2, <1>3, <1>4, <1>5, <1>6, <1>7, PTL DEF Spec
=============================================================================
