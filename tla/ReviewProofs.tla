---------------------------- MODULE ReviewProofs ----------------------------
(***************************************************************************)
(* Proofs about the parts of the browser that look back, for every value   *)
(* of their constants.  Each part has an invariant of its own, which holds *)
(* where the part starts, is kept by each of its steps, and says what is   *)
(* checked of it; the last section puts the parts together.                *)
(***************************************************************************)
EXTENDS ReviewParts, Integers, Sequences, FiniteSetTheorems, FunctionTheorems,
        WellFoundedInduction, NaturalsInduction, TLAPS

-----------------------------------------------------------------------------
(* The candles of the chart *)

\* What the candles assume of their constants.
CandleAssumption ==
    CandleLoads!SymbolAssumption /\ CandleLoads!TagAssumption /\ CandleLoads!TimeAssumption

\* The symbols and timeframes candles are asked for.
Asked == [symbol : CandleSymbols, frame : Frames]

\* What the chart shows.
OnScreen == CandleLoads!Key(selected, frame)

\* The types.
CandleTypes ==
    /\ address \in CandleSymbols \cup {None} /\ focus \in Frames \cup {None}
    /\ selected \in CandleSymbols \cup {None} /\ frame \in Frames
    /\ source \in {"crypto", "stock"} /\ stock \in BOOLEAN
    /\ DOMAIN klines \subseteq CandleLoads!Times
    /\ \A t \in DOMAIN klines : klines[t] \in CandleLoads!Tags
    /\ loading \in BOOLEAN /\ error \in BOOLEAN
    /\ drawn \in CandleLoads!Keys /\ rested \in BOOLEAN
    /\ focused \in BOOLEAN /\ view \in {"recent", "moment"}
    /\ events \in 0 .. MaxCandleEvents /\ crossed \in BOOLEAN /\ abandoned \in BOOLEAN

\* A request of the effect that was not cancelled is for what is on the screen.
CandleRequests ==
    /\ \A l \in loads : l.key \in Asked /\ l.live \in BOOLEAN /\ (l.live => l.key = OnScreen)
    /\ \A m \in more : m.key \in Asked /\ m.edge \in CandleLoads!Times /\
           m.to \in {"history", "future"}
    /\ selected = None => loads = {}

\* The candles from some time to the latest there is, all of what is on the screen.
CandlesUpToNow(k, key) ==
    \E o \in CandleLoads!Times : DOMAIN k = o .. LastTime /\ \A t \in o .. LastTime : k[t] = key

\* What every step keeps: once loaded, the candles reach up to now without a gap.
CandleInvariant ==
    /\ CandleTypes /\ CandleRequests
    /\ CandleLoads!Loaded => CandlesUpToNow(klines, OnScreen)
    /\ CandleLoads!LoadingIsHonest

\* What the assumptions say.
LEMMA CandleConstants ==
    ASSUME CandleAssumption
    PROVE  /\ Supported \subseteq CandleSymbols /\ DayFrame \in Frames
           /\ None \notin CandleSymbols /\ None \notin Frames
           /\ LastTime \in Nat \ {0} /\ Limit \in Nat \ {0} /\ MaxCandleEvents \in Nat
BY DEF CandleAssumption, CandleLoads!SymbolAssumption, CandleLoads!TagAssumption,
       CandleLoads!TimeAssumption

\* Candles have an oldest and a latest.
LEMMA CandlesEnd ==
    ASSUME CandleAssumption, NEW k, DOMAIN k \subseteq CandleLoads!Times, CandleLoads!Has(k)
    PROVE  CandleLoads!Oldest(k) \in DOMAIN k /\ CandleLoads!Latest(k) \in DOMAIN k
<1>1. DOMAIN k \subseteq Nat /\ DOMAIN k # {} /\ \A t \in DOMAIN k : t <= LastTime
  BY CandleConstants DEF CandleLoads!Times, CandleLoads!Has
<1>2. PICK o \in DOMAIN k : \A u \in DOMAIN k : <<u, o>> \notin OpToRel(<, Nat)
  <2> HIDE DEF CandleAssumption
  <2> QED
    BY <1>1, NatLessThanWellFounded, WFMin, Zenon
<1>3. \A u \in DOMAIN k : o <= u
  <2> TAKE u \in DOMAIN k
  <2>1. u \in Nat /\ o \in Nat
    BY <1>1
  <2>2. ~ (u < o)
    BY <1>2, <2>1, Zenon DEF OpToRel
  <2> QED
    BY <2>1, <2>2
<1> DEFINE T == {LastTime - t : t \in DOMAIN k}
<1>4. T \subseteq Nat /\ T # {}
  BY <1>1, CandleConstants
<1>5. PICK d \in T : \A e \in T : <<e, d>> \notin OpToRel(<, Nat)
  <2> HIDE DEF T
  <2> QED
    BY <1>4, NatLessThanWellFounded, WFMin, Zenon
<1>6. PICK l \in DOMAIN k : d = LastTime - l
  BY <1>5
<1>7. ASSUME NEW u \in DOMAIN k PROVE l >= u
  <2>1. LastTime - u \in T
    OBVIOUS
  <2>2. ~ (LastTime - u < d)
    BY <1>4, <1>5, <2>1, Zenon DEF OpToRel
  <2> QED
    BY <1>1, <1>6, <2>2, CandleConstants
<1> QED
  BY <1>3, <1>7 DEF CandleLoads!Oldest, CandleLoads!Latest

\* Where they are all there is up to now, they are these.
LEMMA CandlesEndNow ==
    ASSUME CandleAssumption, NEW k, NEW o \in CandleLoads!Times, DOMAIN k = o .. LastTime
    PROVE  CandleLoads!Oldest(k) = o /\ CandleLoads!Latest(k) = LastTime /\ CandleLoads!Has(k)
<1>1. o \in Nat /\ o <= LastTime /\ LastTime \in Nat
  BY CandleConstants DEF CandleLoads!Times
<1>2. o \in DOMAIN k /\ LastTime \in DOMAIN k /\ \A u \in DOMAIN k :
          o <= u /\ u <= LastTime /\ u \in Nat
  BY <1>1
<1>3. CandleLoads!Oldest(k) = o
  <2>1. \A x \in DOMAIN k : (\A u \in DOMAIN k : x <= u) => x = o
    BY <1>1, <1>2
  <2> QED
    BY <1>2, <2>1 DEF CandleLoads!Oldest
<1>4. CandleLoads!Latest(k) = LastTime
  <2>1. \A x \in DOMAIN k : (\A u \in DOMAIN k : x >= u) => x = LastTime
    BY <1>1, <1>2
  <2>2. \A u \in DOMAIN k : LastTime >= u
    BY <1>1, <1>2
  <2> QED
    BY <1>2, <2>1, <2>2 DEF CandleLoads!Latest
<1> QED
  BY <1>2, <1>3, <1>4 DEF CandleLoads!Has

\* The server sends candles of what was asked for, the latest ones up to now.
LEMMA CandlesSent ==
    ASSUME CandleAssumption, NEW key, NEW upTo
    PROVE  /\ DOMAIN CandleLoads!Sent(key, upTo) \subseteq CandleLoads!Times
           /\ \A t \in DOMAIN CandleLoads!Sent(key, upTo) : CandleLoads!Sent(key, upTo)[t] = key
           /\ DOMAIN CandleLoads!Sent(key, upTo) =
                  {u \in CandleLoads!Times : u <= upTo /\ u + Limit > upTo}
BY DEF CandleLoads!Sent

\* What the latest request brings reaches up to now.
LEMMA CandlesSentNow ==
    ASSUME CandleAssumption, NEW key PROVE CandlesUpToNow(CandleLoads!Sent(key, LastTime), key)
<1>0. LastTime \in Nat \ {0} /\ Limit \in Nat \ {0}
  BY CandleConstants
<1>1. PICK o : o = IF Limit > LastTime THEN 1 ELSE LastTime - Limit + 1
  OBVIOUS
<1>2. o \in CandleLoads!Times
  BY <1>0, <1>1 DEF CandleLoads!Times
<1>3. {u \in CandleLoads!Times : u <= LastTime /\ u + Limit > LastTime} = o .. LastTime
  BY <1>0, <1>1 DEF CandleLoads!Times
<1>4. DOMAIN CandleLoads!Sent(key, LastTime) = o .. LastTime
  BY <1>3, CandlesSent
<1> QED
  BY <1>2, <1>4, CandlesSent DEF CandlesUpToNow

\* The key of a symbol and a timeframe.
LEMMA CandleKeys ==
    /\ \A s, f : CandleLoads!Key(s, f).symbol = s /\ CandleLoads!Key(s, f).frame = f
    /\ \A s \in CandleSymbols, f \in Frames : CandleLoads!Key(s, f) \in Asked
    /\ \A s \in CandleSymbols \cup {None}, f \in Frames : CandleLoads!Key(s, f) \in CandleLoads!Keys
    /\ \A k \in CandleLoads!Keys : k.symbol # None => k \in Asked
    /\ Asked \subseteq CandleLoads!Keys /\ Asked \subseteq CandleLoads!Tags
BY DEF CandleLoads!Key, CandleLoads!Keys, CandleLoads!Tags, Asked

\* What is on the chart before anything is loaded, and of a file.
LEMMA CandlesOfFile ==
    \A k \in {CandleLoads!NoCandles, CandleLoads!Uploaded} :
        DOMAIN k \subseteq CandleLoads!Times /\ \A t \in DOMAIN k : k[t] \in CandleLoads!Tags
BY DEF CandleLoads!NoCandles, CandleLoads!Uploaded, CandleLoads!Tags

\* A chart that is opened satisfies the invariant.
LEMMA CandlesStart == CandleAssumption /\ CandleLoads!Init => CandleInvariant
<1> SUFFICES ASSUME CandleAssumption, CandleLoads!Init PROVE CandleInvariant
  OBVIOUS
<1>1. /\ address \in CandleSymbols \cup {None} /\ focus \in Frames \cup {None}
      /\ selected = None /\ frame = DayFrame /\ source = "crypto" /\ stock = FALSE
      /\ klines = CandleLoads!NoCandles /\ loading = FALSE /\ error = FALSE
      /\ loads = {} /\ more = {}
      /\ drawn = CandleLoads!Key(None, DayFrame) /\ rested = TRUE
      /\ focused = FALSE /\ view = "recent"
      /\ events = 0 /\ crossed = FALSE /\ abandoned = FALSE
  BY Zenon DEF CandleLoads!Init
<1>2. /\ stock \in BOOLEAN /\ loading \in BOOLEAN /\ error \in BOOLEAN /\ rested \in BOOLEAN
      /\ focused \in BOOLEAN /\ crossed \in BOOLEAN /\ abandoned \in BOOLEAN
  BY <1>1
<1>3. /\ selected \in CandleSymbols \cup {None} /\ frame \in Frames /\ drawn \in CandleLoads!Keys
      /\ events \in 0 .. MaxCandleEvents
  BY <1>1, CandleConstants, CandleKeys
<1>4. DOMAIN klines \subseteq CandleLoads!Times /\ \A t \in DOMAIN klines :
          klines[t] \in CandleLoads!Tags
  BY <1>1, CandlesOfFile
<1>5. CandleTypes
  BY <1>1, <1>2, <1>3, <1>4, Zenon DEF CandleTypes
<1>6. ~ CandleLoads!Loaded
  BY <1>1, CandleConstants DEF CandleLoads!Loaded
<1> QED
  BY <1>1, <1>5, <1>6 DEF CandleInvariant, CandleRequests, CandleLoads!LoadingIsHonest

\* The effect does one of three things: nothing, give up the requests under way for a source
\* without any, or ask.
LEMMA CandleEffects ==
    ASSUME NEW s, NEW f, NEW src \in {"crypto", "stock"}, NEW st \in BOOLEAN,
           CandleLoads!LoadEffect(s, f, src, st)
    PROVE  \/ s = None /\ UNCHANGED <<klines, loading, error, loads, abandoned>>
           \/ /\ s # None /\ ~ (src = "crypto" /\ s \in Supported)
              /\ klines' \in {CandleLoads!NoCandles, CandleLoads!Uploaded} /\ error' \in BOOLEAN
              /\ loads' = CandleLoads!Dead(loads)
              /\ abandoned' = (abandoned \/ CandleLoads!Live(loads))
              /\ loading' = loading
           \/ /\ s # None /\ src = "crypto" /\ s \in Supported
              /\ loads' = CandleLoads!Dead(loads) \cup
                     {[key |-> CandleLoads!Key(s, f), live |-> TRUE]}
              /\ loading' = TRUE /\ error' = FALSE /\ abandoned' = FALSE /\ klines' = klines
<1>1. CASE s = None
  BY <1>1, Zenon DEF CandleLoads!LoadEffect
<1>2. CASE s # None /\ src = "crypto" /\ s \notin Supported
  <2>1. /\ klines' = CandleLoads!NoCandles /\ error' = TRUE /\ loads' = CandleLoads!Dead(loads)
        /\ abandoned' = (abandoned \/ CandleLoads!Live(loads)) /\ loading' = loading
    BY <1>2, Zenon DEF CandleLoads!LoadEffect
  <2>2. error' \in BOOLEAN
    BY <2>1
  <2> QED
    BY <1>2, <2>1, <2>2, Zenon
<1>3. CASE s # None /\ src = "stock"
  <2>1. /\ klines' = (IF st THEN CandleLoads!Uploaded ELSE CandleLoads!NoCandles)
        /\ error' = ~ st /\ loads' = CandleLoads!Dead(loads)
        /\ abandoned' = (abandoned \/ CandleLoads!Live(loads)) /\ loading' = loading
    BY <1>3 DEF CandleLoads!LoadEffect
  <2>2. error' \in BOOLEAN
    BY <2>1
  <2>3. ~ (src = "crypto" /\ s \in Supported)
    BY <1>3
  <2> QED
    BY <1>3, <2>1, <2>2, <2>3, Zenon
<1>4. CASE s # None /\ src = "crypto" /\ s \in Supported
  BY <1>4 DEF CandleLoads!LoadEffect
<1> QED
  BY <1>1, <1>2, <1>3, <1>4

\* No request counts once they are given up.
LEMMA CandlesGivenUp ==
    ASSUME CandleInvariant
    PROVE  \A l \in CandleLoads!Dead(loads) : l.key \in Asked /\ l.live = FALSE
<1> TAKE l \in CandleLoads!Dead(loads)
<1>1. PICK h \in loads : l = [h EXCEPT !.live = FALSE]
  BY DEF CandleLoads!Dead
<1>2. h.key \in Asked /\ h = h
  BY DEF CandleInvariant, CandleRequests
<1>3. l.key = h.key /\ l.live = FALSE
  BY <1>1
<1> QED
  BY <1>2, <1>3

\* A step that leaves the requests and what is on the screen leaves what was said of them.
LEMMA CandleFrames ==
    ASSUME CandleInvariant
    PROVE  /\ UNCHANGED <<selected, frame, loads, more>> => CandleRequests'
           /\ UNCHANGED <<selected, frame, source, klines, loads, crossed>>
                => (CandleLoads!Loaded' => CandlesUpToNow(klines', OnScreen'))
           /\ UNCHANGED <<loading, loads, more, abandoned>> => CandleLoads!LoadingIsHonest'
<1>1. UNCHANGED <<selected, frame, loads, more>> => CandleRequests'
  <2> SUFFICES ASSUME UNCHANGED <<selected, frame, loads, more>> PROVE CandleRequests'
    OBVIOUS
  <2>1. OnScreen' = OnScreen
    BY Zenon DEF OnScreen
  <2> QED
    BY <2>1, Zenon DEF CandleInvariant, CandleRequests
<1>2. UNCHANGED <<selected, frame, source, klines, loads, crossed>>
        => (CandleLoads!Loaded' => CandlesUpToNow(klines', OnScreen'))
  <2> SUFFICES ASSUME UNCHANGED <<selected, frame, source, klines, loads, crossed>>
               PROVE  CandleLoads!Loaded' => CandlesUpToNow(klines', OnScreen')
    OBVIOUS
  <2>1. OnScreen' = OnScreen
    BY Zenon DEF OnScreen
  <2>2. CandleLoads!Loaded' => CandleLoads!Loaded
    BY Zenon DEF CandleLoads!Loaded, CandleLoads!Live
  <2> QED
    BY <2>1, <2>2, Zenon DEF CandleInvariant
<1>3. UNCHANGED <<loading, loads, more, abandoned>> => CandleLoads!LoadingIsHonest'
  <2> SUFFICES ASSUME UNCHANGED <<loading, loads, more, abandoned>>, CandleLoads!LoadingIsHonest
               PROVE  CandleLoads!LoadingIsHonest'
    BY DEF CandleInvariant
  <2>1. CandleLoads!Live(loads)' = CandleLoads!Live(loads)
    BY Zenon DEF CandleLoads!Live
  <2> QED
    BY <2>1, Zenon DEF CandleLoads!LoadingIsHonest
<1> QED
  BY <1>1, <1>2, <1>3, Zenon

\* The chart is drawn anew or not.
LEMMA CandlesDrawn ==
    ASSUME CandleInvariant, NEW k, NEW s \in CandleSymbols \cup {None}, NEW f \in Frames,
           NEW moment, CandleLoads!Draw(k, s, f, moment)
    PROVE  drawn' \in CandleLoads!Keys /\ view' \in {"recent", "moment"}
<1>1. \/ drawn' = CandleLoads!Key(s, f) /\ view' = "recent"
      \/ drawn' = drawn /\ view' \in {"moment", view}
  BY DEF CandleLoads!Draw
<1>2. drawn \in CandleLoads!Keys /\ view \in {"recent", "moment"}
  BY Zenon DEF CandleInvariant, CandleTypes
<1>3. CandleLoads!Key(s, f) \in CandleLoads!Keys
  BY CandleKeys
<1> QED
  BY <1>1, <1>2, <1>3

\* A commit of the page keeps the invariant, whatever it shows.
LEMMA CandlesShown ==
    ASSUME CandleAssumption, CandleInvariant, NEW s \in CandleSymbols \cup {None},
           s = None => selected = None, NEW chosen \in Frames,
           NEW src \in {"crypto", "stock"}, NEW st \in BOOLEAN, NEW again \in BOOLEAN,
           CandleLoads!Show(s, chosen, src, st, again),
           UNCHANGED <<focus, more, rested, crossed>>,
           address' \in CandleSymbols \cup {None}, events' \in 0 .. MaxCandleEvents
    PROVE  CandleInvariant'
<1>0. /\ focus \in Frames \cup {None} /\ klines = klines /\ rested \in BOOLEAN
      /\ crossed \in BOOLEAN
      /\ loading \in BOOLEAN /\ error \in BOOLEAN /\ abandoned \in BOOLEAN /\ focused \in BOOLEAN
      /\ DOMAIN klines \subseteq CandleLoads!Times
      /\ \A t \in DOMAIN klines : klines[t] \in CandleLoads!Tags
  BY Zenon DEF CandleInvariant, CandleTypes
<1>1. PICK f \in Frames :
         /\ selected' = s /\ frame' = f /\ source' = src /\ stock' = st
         /\ IF again \/ <<s, f, src, st>> # <<selected, frame, source, stock>>
            THEN CandleLoads!LoadEffect(s, f, src, st)
            ELSE UNCHANGED <<klines, loading, error, loads, abandoned>>
         /\ focused' = (focused \/ CandleLoads!FocusesOn(klines', f))
         /\ CandleLoads!Draw(klines', s, f, focused' /\ ~ focused)
  <2> DEFINE f == IF s = None THEN chosen ELSE CandleLoads!Wants(chosen)
  <2>1. f \in Frames
    BY <1>0 DEF CandleLoads!Wants
  <2>2. /\ selected' = s /\ frame' = f /\ source' = src /\ stock' = st
        /\ IF again \/ <<s, f, src, st>> # <<selected, frame, source, stock>>
           THEN CandleLoads!LoadEffect(s, f, src, st)
           ELSE UNCHANGED <<klines, loading, error, loads, abandoned>>
        /\ focused' = (focused \/ CandleLoads!FocusesOn(klines', f))
        /\ CandleLoads!Draw(klines', s, f, focused' /\ ~ focused)
    BY Zenon DEF CandleLoads!Show
  <2> HIDE DEF f
  <2> QED
    BY <2>1, <2>2
<1>2. focused' \in BOOLEAN
  BY <1>0, <1>1
<1>3. drawn' \in CandleLoads!Keys /\ view' \in {"recent", "moment"}
  BY <1>1, CandlesDrawn
<1>4. OnScreen' = CandleLoads!Key(s, f)
  BY <1>1, Zenon DEF OnScreen
<1>5. ASSUME DOMAIN klines' \subseteq CandleLoads!Times, \A t \in DOMAIN klines' :
                 klines'[t] \in CandleLoads!Tags,
             loading' \in BOOLEAN, error' \in BOOLEAN, abandoned' \in BOOLEAN
      PROVE  CandleTypes'
  <2>1. selected' \in CandleSymbols \cup {None} /\ frame' \in Frames
        /\ source' \in {"crypto", "stock"} /\ stock' \in BOOLEAN
    BY <1>1, Zenon
  <2> QED
    BY <1>0, <1>2, <1>3, <1>5, <2>1, Zenon DEF CandleTypes
<1>6. CASE UNCHANGED <<klines, loading, error, loads, abandoned>> /\ s = None
  <2>1. loads = {} /\ loads' = {}
    BY <1>6 DEF CandleInvariant, CandleRequests
  <2>2. CandleRequests'
    BY <1>1, <2>1 DEF CandleInvariant, CandleRequests
  <2>3. ~ CandleLoads!Loaded'
    BY <1>1, <1>6, CandleConstants DEF CandleLoads!Loaded
  <2>4. CandleLoads!LoadingIsHonest'
    BY <1>6, CandleFrames, Zenon
  <2>5. CandleTypes'
    BY <1>0, <1>5, <1>6, Zenon
  <2> QED
    BY <2>2, <2>3, <2>4, <2>5, Zenon DEF CandleInvariant
<1>7. CASE <<s, f, src, st>> = <<selected, frame, source, stock>> /\
               UNCHANGED <<klines, loading, error, loads, abandoned>>
  <2>1. UNCHANGED <<selected, frame, source>>
    BY <1>1, <1>7
  <2>2. /\ CandleRequests' /\ (CandleLoads!Loaded' => CandlesUpToNow(klines', OnScreen'))
        /\ CandleLoads!LoadingIsHonest'
    BY <1>7, <2>1, CandleFrames, Zenon
  <2>3. CandleTypes'
    BY <1>0, <1>5, <1>7, Zenon
  <2> QED
    BY <2>2, <2>3, Zenon DEF CandleInvariant
<1>8. CASE /\ s # None /\ ~ (src = "crypto" /\ s \in Supported)
           /\ klines' \in {CandleLoads!NoCandles, CandleLoads!Uploaded} /\ error' \in BOOLEAN
           /\ loads' = CandleLoads!Dead(loads)
           /\ abandoned' = (abandoned \/ CandleLoads!Live(loads))
           /\ loading' = loading
  <2>1. DOMAIN klines' \subseteq CandleLoads!Times /\ \A t \in DOMAIN klines' :
            klines'[t] \in CandleLoads!Tags
    BY <1>8, CandlesOfFile
  <2>2. loading' \in BOOLEAN /\ abandoned' \in BOOLEAN
    <3>1. abandoned' \in BOOLEAN
      BY <1>0, <1>8
    <3> QED
      BY <1>0, <1>8, <3>1
  <2>3. CandleTypes'
    BY <1>5, <1>8, <2>1, <2>2
  <2>4. \A l \in loads' : l.key \in Asked /\ l.live = FALSE
    BY <1>8, CandlesGivenUp
  <2>5. CandleRequests'
    BY <1>1, <1>8, <2>4 DEF CandleInvariant, CandleRequests
  <2>6. ~ CandleLoads!Loaded'
    BY <1>1, <1>8, Zenon DEF CandleLoads!Loaded
  <2>7. CandleLoads!LoadingIsHonest'
    BY <1>8 DEF CandleInvariant, CandleLoads!LoadingIsHonest
  <2> QED
    BY <2>3, <2>5, <2>6, <2>7, Zenon DEF CandleInvariant
<1>9. CASE /\ s # None /\ src = "crypto" /\ s \in Supported
           /\ loads' = CandleLoads!Dead(loads) \cup {[key |-> CandleLoads!Key(s, f), live |-> TRUE]}
           /\ loading' = TRUE /\ error' = FALSE /\ abandoned' = FALSE /\ klines' = klines
  <2>1. loading' \in BOOLEAN /\ error' \in BOOLEAN /\ abandoned' \in BOOLEAN
    BY <1>9
  <2>2. CandleTypes'
    BY <1>0, <1>5, <1>9, <2>1, Zenon
  <2>3. CandleLoads!Key(s, f) \in Asked
    BY <1>9, CandleKeys
  <2>4. [key |-> CandleLoads!Key(s, f), live |-> TRUE] \in loads' /\
            [key |-> CandleLoads!Key(s, f), live |-> TRUE].live
    BY <1>9
  <2>5. CandleLoads!Live(loads')
    BY <2>4 DEF CandleLoads!Live
  <2>6. \A l \in loads' : l.key \in Asked /\ l.live \in BOOLEAN /\
            (l.live => l.key = CandleLoads!Key(s, f))
    <3> TAKE l \in loads'
    <3>1. CASE l \in CandleLoads!Dead(loads)
      <4>1. l.key \in Asked /\ l.live = FALSE
        BY <3>1, CandlesGivenUp
      <4> QED
        BY <4>1
    <3>2. CASE l = [key |-> CandleLoads!Key(s, f), live |-> TRUE]
      <4>1. l.key = CandleLoads!Key(s, f) /\ l.live = TRUE
        BY <3>2
      <4> QED
        BY <2>3, <4>1
    <3> QED
      BY <1>9, <3>1, <3>2
  <2>7. CandleRequests'
    BY <1>1, <1>4, <1>9, <2>6 DEF CandleInvariant, CandleRequests
  <2>8. ~ CandleLoads!Loaded' /\ CandleLoads!LoadingIsHonest'
    BY <2>5, Zenon DEF CandleLoads!Loaded, CandleLoads!LoadingIsHonest
  <2> QED
    BY <2>2, <2>7, <2>8, Zenon DEF CandleInvariant
<1>10. CASE again \/ <<s, f, src, st>> # <<selected, frame, source, stock>>
  <2>1. CandleLoads!LoadEffect(s, f, src, st)
    BY <1>1, <1>10
  <2> QED
    BY <1>6, <1>8, <1>9, <2>1, CandleEffects
<1> QED
  BY <1>1, <1>7, <1>10

\* An answer of older or newer candles that continues those on the chart leaves none out.
LEMMA CandlesMerge ==
    ASSUME CandleAssumption, CandleInvariant, CandlesUpToNow(klines, OnScreen), NEW m \in more,
           CandleLoads!Continues(m)
    PROVE  CandlesUpToNow(CandleLoads!Merged(m), OnScreen)
<1>0. LastTime \in Nat \ {0} /\ Limit \in Nat \ {0}
  BY CandleConstants
<1>1. PICK o \in CandleLoads!Times : DOMAIN klines = o .. LastTime /\ \A t \in o .. LastTime :
               klines[t] = OnScreen
  BY DEF CandlesUpToNow
<1>2. m.key = OnScreen /\ m.to \in {"history", "future"}
      /\ m.edge = IF m.to = "history" THEN CandleLoads!Oldest(klines)
                  ELSE CandleLoads!Latest(klines)
  BY DEF CandleLoads!Continues, OnScreen, CandleInvariant, CandleRequests
<1>3. CandleLoads!Oldest(klines) = o
  BY <1>1, CandlesEndNow
<1>4. CASE m.to = "history"
  <2> DEFINE new == CandleLoads!Sent(OnScreen, o - 1)
  <2>1. DOMAIN new = {u \in CandleLoads!Times : u <= o - 1 /\ u + Limit > o - 1} /\
            \A t \in DOMAIN new : new[t] = OnScreen
    BY CandlesSent
  <2>2. CandleLoads!Merged(m) =
          [t \in DOMAIN klines \cup DOMAIN new |->
              IF t \in DOMAIN klines THEN klines[t] ELSE new[t]]
    BY <1>2, <1>3, <1>4 DEF CandleLoads!Merged
  <2> HIDE DEF new
  <2>3. PICK p : p = IF Limit > o - 1 THEN 1 ELSE o - Limit
    OBVIOUS
  <2>4. p \in CandleLoads!Times /\ DOMAIN klines \cup DOMAIN new = p .. LastTime
    BY <1>0, <1>1, <2>1, <2>3 DEF CandleLoads!Times
  <2>5. DOMAIN CandleLoads!Merged(m) = p .. LastTime /\ \A t \in p .. LastTime :
            CandleLoads!Merged(m)[t] = OnScreen
    BY <1>1, <2>1, <2>2, <2>4
  <2> QED
    BY <2>4, <2>5 DEF CandlesUpToNow
<1>5. CASE m.to = "future"
  <2> DEFINE new == CandleLoads!Sent(OnScreen, LastTime)
  <2>1. PICK q \in CandleLoads!Times : DOMAIN new = q .. LastTime /\ \A t \in q .. LastTime :
                 new[t] = OnScreen
    BY CandlesSentNow DEF CandlesUpToNow
  <2>2. CandleLoads!Merged(m) =
          [t \in DOMAIN klines \cup DOMAIN new |->
              IF t \in DOMAIN new THEN new[t] ELSE klines[t]]
    BY <1>2, <1>5 DEF CandleLoads!Merged
  <2> HIDE DEF new
  <2>3. PICK p : p = IF q < o THEN q ELSE o
    OBVIOUS
  <2>4. p \in CandleLoads!Times /\ DOMAIN klines \cup DOMAIN new = p .. LastTime
    BY <1>0, <1>1, <2>1, <2>3 DEF CandleLoads!Times
  <2>5. DOMAIN CandleLoads!Merged(m) = p .. LastTime /\ \A t \in p .. LastTime :
            CandleLoads!Merged(m)[t] = OnScreen
    BY <1>1, <2>1, <2>2, <2>4
  <2> QED
    BY <2>4, <2>5 DEF CandlesUpToNow
<1> QED
  BY <1>2, <1>4, <1>5

\* Whatever an answer of older or newer candles is merged into, it is candles.
LEMMA CandlesMerged ==
    ASSUME CandleAssumption, CandleInvariant, NEW m \in more
    PROVE  /\ DOMAIN CandleLoads!Merged(m) \subseteq CandleLoads!Times
           /\ \A t \in DOMAIN CandleLoads!Merged(m) : CandleLoads!Merged(m)[t] \in CandleLoads!Tags
<1>1. PICK new : /\ DOMAIN new \subseteq CandleLoads!Times
                 /\ \A t \in DOMAIN new : new[t] = m.key
                 /\ new = IF m.to = "history" THEN CandleLoads!Sent(m.key, m.edge - 1)
                          ELSE CandleLoads!Sent(m.key, LastTime)
  <2>1. \A upTo : /\ DOMAIN CandleLoads!Sent(m.key, upTo) \subseteq CandleLoads!Times
                  /\ \A t \in DOMAIN CandleLoads!Sent(m.key, upTo) :
                         CandleLoads!Sent(m.key, upTo)[t] = m.key
    BY CandlesSent
  <2> QED
    BY <2>1
<1>2. m.key \in CandleLoads!Tags
  BY CandleKeys DEF CandleInvariant, CandleRequests
<1>3. CandleLoads!Merged(m) =
        [t \in DOMAIN klines \cup DOMAIN new |->
            IF m.to = "history" THEN (IF t \in DOMAIN klines THEN klines[t] ELSE new[t])
                                ELSE (IF t \in DOMAIN new THEN new[t] ELSE klines[t])]
  BY <1>1, Zenon DEF CandleLoads!Merged
<1>4. DOMAIN klines \subseteq CandleLoads!Times /\ \A t \in DOMAIN klines :
          klines[t] \in CandleLoads!Tags
  BY Zenon DEF CandleInvariant, CandleTypes
<1>5. DOMAIN CandleLoads!Merged(m) = DOMAIN klines \cup DOMAIN new
  BY <1>3
<1>6. \A t \in DOMAIN klines \cup DOMAIN new : CandleLoads!Merged(m)[t] \in CandleLoads!Tags
  BY <1>1, <1>2, <1>3, <1>4
<1> QED
  BY <1>1, <1>4, <1>5, <1>6

\* The user's steps, and the symbols that arrive.
LEMMA CandlesChosen ==
    ASSUME CandleAssumption, CandleInvariant,
           \/ CandleLoads!SymbolsArrive \/ CandleLoads!UploadStock
           \/ \E s \in CandleSymbols : CandleLoads!SelectSymbol(s)
           \/ \E f \in Frames : CandleLoads!PickFrame(f)
           \/ \E src \in {"crypto", "stock"} : CandleLoads!PickSource(src)
    PROVE  CandleInvariant'
<1>0. /\ address \in CandleSymbols \cup {None} /\ selected \in CandleSymbols \cup {None}
      /\ frame \in Frames
      /\ source \in {"crypto", "stock"} /\ stock \in BOOLEAN /\ events \in 0 .. MaxCandleEvents
  BY Zenon DEF CandleInvariant, CandleTypes
<1>1. MaxCandleEvents \in Nat /\ None \notin CandleSymbols /\ DayFrame \in Frames
  BY CandleConstants
<1>2. CandleLoads!Event => events' \in 0 .. MaxCandleEvents
  BY <1>0, <1>1 DEF CandleLoads!Event
<1>3. CASE CandleLoads!SymbolsArrive
  <2>1. PICK start \in CandleSymbols :
           /\ selected = None \/ events < MaxCandleEvents
           /\ events' = IF selected = None THEN events ELSE events + 1
           /\ address' = IF address = None THEN start ELSE address
           /\ CandleLoads!Show(address', DayFrame, source, stock, FALSE)
           /\ UNCHANGED <<focus, more, rested, crossed>>
    BY <1>3, Zenon DEF CandleLoads!SymbolsArrive
  <2>2. events' \in 0 .. MaxCandleEvents
    BY <1>0, <1>1, <2>1
  <2>3. PICK s : s = address'
    OBVIOUS
  <2>4. s \in CandleSymbols \cup {None} /\ s # None /\ FALSE \in BOOLEAN
    BY <1>0, <1>1, <2>1, <2>3
  <2>5. CandleLoads!Show(s, DayFrame, source, stock, FALSE)
    BY <2>1, <2>3
  <2> QED
    BY <1>0, <1>1, <2>1, <2>2, <2>3, <2>4, <2>5, CandlesShown
<1>4. CASE CandleLoads!UploadStock
  <2>1. /\ CandleLoads!Event /\ selected # None
        /\ CandleLoads!Show(selected, frame, source, TRUE, TRUE)
        /\ address' = address /\ UNCHANGED <<focus, more, rested, crossed>>
    BY <1>4, Zenon DEF CandleLoads!UploadStock
  <2>2. address' \in CandleSymbols \cup {None} /\ TRUE \in BOOLEAN
    BY <1>0, <2>1
  <2> QED
    BY <1>0, <1>2, <2>1, <2>2, CandlesShown
<1>5. ASSUME NEW s \in CandleSymbols, CandleLoads!SelectSymbol(s) PROVE CandleInvariant'
  <2>1. /\ CandleLoads!Event /\ address' = s
        /\ CandleLoads!Show(s, DayFrame, source, stock, FALSE)
        /\ UNCHANGED <<focus, more, rested, crossed>>
    BY <1>5, Zenon DEF CandleLoads!SelectSymbol
  <2>2. s \in CandleSymbols \cup {None} /\ address' \in CandleSymbols \cup {None} /\
            FALSE \in BOOLEAN /\ s # None
    BY <1>1, <2>1
  <2> QED
    BY <1>0, <1>1, <1>2, <2>1, <2>2, CandlesShown
<1>6. ASSUME NEW f \in Frames, CandleLoads!PickFrame(f) PROVE CandleInvariant'
  <2>1. /\ CandleLoads!Event /\ address' = address
        /\ CandleLoads!Show(selected, f, source, stock, FALSE)
        /\ UNCHANGED <<focus, more, rested, crossed>>
    BY <1>6, Zenon DEF CandleLoads!PickFrame
  <2>2. address' \in CandleSymbols \cup {None} /\ FALSE \in BOOLEAN
    BY <1>0, <2>1
  <2> QED
    BY <1>0, <1>2, <2>1, <2>2, CandlesShown
<1>7. ASSUME NEW src \in {"crypto", "stock"}, CandleLoads!PickSource(src) PROVE CandleInvariant'
  <2>1. /\ CandleLoads!Event /\ address' = address
        /\ CandleLoads!Show(selected, frame, src, stock, FALSE)
        /\ UNCHANGED <<focus, more, rested, crossed>>
    BY <1>7, Zenon DEF CandleLoads!PickSource
  <2>2. address' \in CandleSymbols \cup {None} /\ FALSE \in BOOLEAN
    BY <1>0, <2>1
  <2> QED
    BY <1>0, <1>2, <2>1, <2>2, CandlesShown
<1> QED
  BY <1>3, <1>4, <1>5, <1>6, <1>7

\* The effect's request is answered or fails.
LEMMA CandlesLoaded ==
    ASSUME CandleAssumption, CandleInvariant, NEW l \in loads,
           CandleLoads!LoadAnswered(l) \/ CandleLoads!LoadFails(l)
    PROVE  CandleInvariant'
<1>0. /\ focused \in BOOLEAN /\ loading \in BOOLEAN
      /\ selected \in CandleSymbols \cup {None} /\ frame \in Frames
      /\ l.key \in Asked /\ l.live \in BOOLEAN /\ (l.live => l.key = OnScreen)
  BY Zenon DEF CandleInvariant, CandleTypes, CandleRequests
<1>1. /\ loads' = loads \ {l}
      /\ UNCHANGED <<address, focus, selected, frame, source, stock, more, rested, events>>
  BY Zenon DEF CandleLoads!LoadAnswered, CandleLoads!LoadFails
<1>2. OnScreen' = OnScreen
  BY <1>1, Zenon DEF OnScreen
<1>3. CandleRequests'
  <2>1. \A g \in loads' : g \in loads
    BY <1>1
  <2> QED
    BY <1>1, <1>2, <2>1 DEF CandleInvariant, CandleRequests
<1>4. CASE CandleLoads!LoadAnswered(l) /\ l.live
  <2>1. /\ klines' = CandleLoads!Sent(OnScreen, LastTime) /\ loading' = FALSE /\ error' = error
        /\ crossed' = FALSE /\ abandoned' = FALSE
        /\ focused' = (focused \/ CandleLoads!FocusesOn(klines', frame))
        /\ CandleLoads!Draw(klines', selected, frame, FALSE)
    BY <1>0, <1>4, Zenon DEF CandleLoads!LoadAnswered
  <2>2. /\ loading' \in BOOLEAN /\ crossed' \in BOOLEAN /\ abandoned' \in BOOLEAN
        /\ focused' \in BOOLEAN
    BY <1>0, <2>1
  <2>3. drawn' \in CandleLoads!Keys /\ view' \in {"recent", "moment"}
    BY <1>0, <2>1, CandlesDrawn
  <2>4. OnScreen \in CandleLoads!Tags
    BY <1>0, <1>4, CandleKeys
  <2>5. DOMAIN klines' \subseteq CandleLoads!Times /\ \A t \in DOMAIN klines' :
            klines'[t] \in CandleLoads!Tags
    <3>1. /\ DOMAIN CandleLoads!Sent(OnScreen, LastTime) \subseteq CandleLoads!Times
          /\ \A t \in DOMAIN CandleLoads!Sent(OnScreen, LastTime) :
                 CandleLoads!Sent(OnScreen, LastTime)[t] = OnScreen
      BY CandlesSent
    <3> QED
      BY <2>1, <2>4, <3>1
  <2>6. CandleTypes'
    BY <1>1, <2>1, <2>2, <2>3, <2>5, Zenon DEF CandleInvariant, CandleTypes
  <2>7. CandlesUpToNow(klines', OnScreen')
    BY <1>2, <2>1, CandlesSentNow
  <2>8. CandleLoads!LoadingIsHonest'
    BY <2>1 DEF CandleLoads!LoadingIsHonest
  <2> QED
    BY <1>3, <2>6, <2>7, <2>8, Zenon DEF CandleInvariant
<1>5. CASE CandleLoads!LoadFails(l) /\ l.live
  <2>1. /\ error' = TRUE /\ loading' = FALSE /\ crossed' = TRUE /\ abandoned' = FALSE
        /\ UNCHANGED <<klines, drawn, focused, view>>
    BY <1>5, Zenon DEF CandleLoads!LoadFails
  <2>2. /\ loading' \in BOOLEAN /\ crossed' \in BOOLEAN /\ abandoned' \in BOOLEAN
        /\ error' \in BOOLEAN
    BY <2>1
  <2>3. CandleTypes'
    BY <1>1, <2>1, <2>2, Zenon DEF CandleInvariant, CandleTypes
  <2>4. ~ CandleLoads!Loaded' /\ CandleLoads!LoadingIsHonest'
    BY <2>1, Zenon DEF CandleLoads!Loaded, CandleLoads!LoadingIsHonest
  <2> QED
    BY <1>3, <2>3, <2>4, Zenon DEF CandleInvariant
<1>6. CASE ~ l.live
  <2>1. UNCHANGED <<klines, loading, error, crossed, abandoned, focused, drawn, view>>
    <3>1. CASE CandleLoads!LoadAnswered(l)
      BY <1>6, <3>1, Zenon DEF CandleLoads!LoadAnswered
    <3>2. CASE CandleLoads!LoadFails(l)
      BY <1>6, <3>2, Zenon DEF CandleLoads!LoadFails
    <3> QED
      BY <3>1, <3>2
  <2>2. CandleTypes'
    BY <1>1, <2>1, ZenonT(30) DEF CandleInvariant, CandleTypes
  <2>3. CandleLoads!Live(loads)' = CandleLoads!Live(loads)
    BY <1>1, <1>6 DEF CandleLoads!Live
  <2>4. CandleLoads!LoadingIsHonest'
    BY <1>1, <2>1, <2>3, Zenon DEF CandleInvariant, CandleLoads!LoadingIsHonest
  <2>5. CandleLoads!Loaded' => CandleLoads!Loaded
    BY <1>1, <2>1, <2>3, Zenon DEF CandleLoads!Loaded
  <2>6. CandleLoads!Loaded' => CandlesUpToNow(klines', OnScreen')
    BY <1>2, <2>1, <2>5, Zenon DEF CandleInvariant
  <2> QED
    BY <1>3, <2>2, <2>4, <2>6, Zenon DEF CandleInvariant
<1> QED
  BY <1>4, <1>5, <1>6

\* Older or newer candles are asked for.
LEMMA CandlesAsked ==
    ASSUME CandleAssumption, CandleInvariant,
           CandleLoads!LoadHistory(drawn) \/ CandleLoads!LoadHistory(OnScreen) \/
               CandleLoads!LoadFuture
    PROVE  CandleInvariant'
<1>0. /\ drawn \in CandleLoads!Keys /\ OnScreen \in CandleLoads!Keys
      /\ events \in 0 .. MaxCandleEvents
      /\ DOMAIN klines \subseteq CandleLoads!Times /\ rested \in BOOLEAN /\ MaxCandleEvents \in Nat
  <2>1. /\ drawn \in CandleLoads!Keys /\ events \in 0 .. MaxCandleEvents /\ rested \in BOOLEAN
        /\ DOMAIN klines \subseteq CandleLoads!Times
        /\ selected \in CandleSymbols \cup {None} /\ frame \in Frames
    BY Zenon DEF CandleInvariant, CandleTypes
  <2> QED
    BY <2>1, CandleKeys, CandleConstants DEF OnScreen
<1>1. PICK key \in Asked, edge \in CandleLoads!Times, to \in {"history", "future"} :
         /\ CandleLoads!Event
         /\ more' = more \cup {[to |-> to, key |-> key, edge |-> edge]}
         /\ loading' = TRUE /\ rested' \in {rested, FALSE}
         /\ UNCHANGED <<address, focus, selected, frame, source, stock, klines, error, loads, drawn,
                        focused, view, crossed, abandoned>>
  <2>1. ASSUME NEW k \in CandleLoads!Keys, CandleLoads!LoadHistory(k)
        PROVE  /\ k \in Asked /\ CandleLoads!Oldest(klines) \in CandleLoads!Times
               /\ CandleLoads!Event
               /\ more' = more \cup
                      {[to |-> "history", key |-> k, edge |-> CandleLoads!Oldest(klines)]}
               /\ loading' = TRUE /\ rested' = FALSE
               /\ UNCHANGED <<address, focus, selected, frame, source, stock, klines, error,
                              loads, drawn,
                              focused, view, crossed, abandoned>>
    <3>1. /\ CandleLoads!Event /\ CandleLoads!Has(klines) /\ k.symbol # None
          /\ more' = more \cup {[to |-> "history", key |-> k, edge |-> CandleLoads!Oldest(klines)]}
          /\ loading' = TRUE /\ rested' = FALSE
          /\ UNCHANGED <<address, focus, selected, frame, source, stock, klines, error, loads,
                         drawn,
                              focused, view, crossed, abandoned>>
      BY <2>1, Zenon DEF CandleLoads!LoadHistory
    <3>2. k \in Asked
      BY <3>1, CandleKeys
    <3>3. CandleLoads!Oldest(klines) \in DOMAIN klines
      BY <1>0, <3>1, CandlesEnd
    <3> QED
      BY <1>0, <3>1, <3>2, <3>3
  <2>2. CASE CandleLoads!LoadFuture
    <3>1. /\ CandleLoads!Event /\ CandleLoads!Has(klines) /\ selected # None
          /\ more' = more \cup
                 {[to |-> "future", key |-> OnScreen, edge |-> CandleLoads!Latest(klines)]}
          /\ loading' = TRUE /\ rested' = rested
          /\ UNCHANGED <<address, focus, selected, frame, source, stock, klines, error, loads,
                         drawn,
                              focused, view, crossed, abandoned>>
      BY <2>2, Zenon DEF CandleLoads!LoadFuture, OnScreen
    <3>2. OnScreen \in Asked
      BY <1>0, <3>1, CandleKeys DEF OnScreen
    <3>3. CandleLoads!Latest(klines) \in DOMAIN klines
      BY <1>0, <3>1, CandlesEnd
    <3> QED
      BY <1>0, <3>1, <3>2, <3>3
  <2> QED
    BY <1>0, <2>1, <2>2
<1>2. rested' \in BOOLEAN /\ loading' \in BOOLEAN
  BY <1>0, <1>1
<1>3. events' \in 0 .. MaxCandleEvents
  BY <1>0, <1>1 DEF CandleLoads!Event
<1>4. CandleTypes'
  BY <1>1, <1>2, <1>3, Zenon DEF CandleInvariant, CandleTypes
<1>5. OnScreen' = OnScreen
  BY <1>1, Zenon DEF OnScreen
<1>6. \A m \in more' : m.key \in Asked /\ m.edge \in CandleLoads!Times /\
          m.to \in {"history", "future"}
  BY <1>1 DEF CandleInvariant, CandleRequests
<1>7. CandleRequests'
  BY <1>1, <1>5, <1>6, Zenon DEF CandleInvariant, CandleRequests
<1>8. CandleLoads!LoadingIsHonest'
  BY <1>1 DEF CandleLoads!LoadingIsHonest
<1>9. CandleLoads!Loaded' => CandlesUpToNow(klines', OnScreen')
  BY <1>1, CandleFrames, Zenon
<1> QED
  BY <1>4, <1>7, <1>8, <1>9, Zenon DEF CandleInvariant

\* Older or newer candles come, or fail to.
LEMMA CandlesAnswered ==
    ASSUME CandleAssumption, CandleInvariant, NEW m \in more,
           CandleLoads!MoreAnswered(m) \/ CandleLoads!MoreFails(m)
    PROVE  CandleInvariant'
<1>0. /\ focused \in BOOLEAN /\ crossed \in BOOLEAN
      /\ selected \in CandleSymbols \cup {None} /\ frame \in Frames
  BY Zenon DEF CandleInvariant, CandleTypes
<1>1. /\ more' = more \ {m} /\ loading' = FALSE /\ abandoned' = FALSE
      /\ UNCHANGED <<address, focus, selected, frame, source, stock, error, loads, rested, events>>
  BY Zenon DEF CandleLoads!MoreAnswered, CandleLoads!MoreFails
<1>2. OnScreen' = OnScreen
  BY <1>1, Zenon DEF OnScreen
<1>3. CandleRequests'
  <2>1. \A g \in more' : g \in more
    BY <1>1
  <2> QED
    BY <1>1, <1>2, <2>1 DEF CandleInvariant, CandleRequests
<1>4. CandleLoads!LoadingIsHonest' /\ loading' \in BOOLEAN /\ abandoned' \in BOOLEAN
  BY <1>1 DEF CandleLoads!LoadingIsHonest
<1>5. CASE CandleLoads!MoreAnswered(m)
  <2>1. /\ klines' = CandleLoads!Merged(m)
        /\ crossed' = (crossed \/ (klines' # klines /\ ~ CandleLoads!Continues(m)))
        /\ focused' = (focused \/ CandleLoads!FocusesOn(klines', frame))
        /\ CandleLoads!Draw(klines', selected, frame, FALSE)
    BY <1>5, Zenon DEF CandleLoads!MoreAnswered
  <2>2. crossed' \in BOOLEAN /\ focused' \in BOOLEAN
    BY <1>0, <2>1
  <2>3. drawn' \in CandleLoads!Keys /\ view' \in {"recent", "moment"}
    BY <1>0, <2>1, CandlesDrawn
  <2>4. DOMAIN klines' \subseteq CandleLoads!Times /\ \A t \in DOMAIN klines' :
            klines'[t] \in CandleLoads!Tags
    BY <2>1, CandlesMerged
  <2>5. CandleTypes'
    BY <1>1, <1>4, <2>2, <2>3, <2>4, Zenon DEF CandleInvariant, CandleTypes
  <2>6. ASSUME CandleLoads!Loaded' PROVE CandlesUpToNow(klines', OnScreen')
    <3>1. CandleLoads!Loaded /\ ~ crossed'
      BY <1>1, <2>1, <2>6, Zenon DEF CandleLoads!Loaded, CandleLoads!Live
    <3>2. CandlesUpToNow(klines, OnScreen)
      BY <3>1, Zenon DEF CandleInvariant
    <3>3. CASE klines' = klines
      BY <1>2, <3>2, <3>3
    <3>4. CASE CandleLoads!Continues(m)
      BY <1>2, <2>1, <3>2, <3>4, CandlesMerge
    <3> QED
      BY <2>1, <3>1, <3>3, <3>4
  <2> QED
    BY <1>3, <1>4, <2>5, <2>6, Zenon DEF CandleInvariant
<1>6. CASE CandleLoads!MoreFails(m)
  <2>1. UNCHANGED <<klines, drawn, focused, view, crossed>>
    BY <1>6, Zenon DEF CandleLoads!MoreFails
  <2>2. CandleTypes'
    BY <1>1, <1>4, <2>1, Zenon DEF CandleInvariant, CandleTypes
  <2>3. CandleLoads!Loaded' => CandlesUpToNow(klines', OnScreen')
    BY <1>1, <2>1, CandleFrames, Zenon
  <2> QED
    BY <1>3, <1>4, <2>2, <2>3, Zenon DEF CandleInvariant
<1> QED
  BY <1>5, <1>6

\* Every step about the candles, or of another part, keeps the invariant.
LEMMA CandlesKept ==
    ASSUME CandleAssumption, CandleInvariant, [CandleLoads!Next]_CandleLoads!vars
    PROVE  CandleInvariant'
<1>1. ASSUME UNCHANGED <<address, focus, selected, frame, source, stock, klines, loading,
                         error, loads,
                       more, drawn, focused, view, events, crossed, abandoned>>, rested' \in BOOLEAN
      PROVE  CandleInvariant'
  <2>1. CandleTypes'
    BY <1>1, Zenon DEF CandleInvariant, CandleTypes
  <2>2. /\ CandleRequests' /\ (CandleLoads!Loaded' => CandlesUpToNow(klines', OnScreen'))
        /\ CandleLoads!LoadingIsHonest'
    BY <1>1, CandleFrames, Zenon
  <2> QED
    BY <2>1, <2>2, Zenon DEF CandleInvariant
<1>2. CASE UNCHANGED CandleLoads!vars
  <2>1. rested' = rested /\ rested \in BOOLEAN
        /\ UNCHANGED <<address, focus, selected, frame, source, stock, klines, loading, error,
                       loads,
                       more, drawn, focused, view, events, crossed, abandoned>>
    BY <1>2, Zenon DEF CandleLoads!vars, CandleInvariant, CandleTypes
  <2> QED
    BY <1>1, <2>1
<1>3. CASE CandleLoads!CooldownEnds
  <2>1. rested' = TRUE
        /\ UNCHANGED <<address, focus, selected, frame, source, stock, klines, loading, error,
                       loads,
                       more, drawn, focused, view, events, crossed, abandoned>>
    BY <1>3, Zenon DEF CandleLoads!CooldownEnds
  <2>2. rested' \in BOOLEAN
    BY <2>1
  <2> QED
    BY <1>1, <2>1, <2>2
<1>4. CASE CandleLoads!LoadHistory(drawn) \/
               CandleLoads!LoadHistory(CandleLoads!Key(selected, frame)) \/ CandleLoads!LoadFuture
  BY <1>4, CandlesAsked, Zenon DEF OnScreen
<1>5. CASE CandleLoads!Next
  BY <1>3, <1>4, <1>5, CandlesChosen, CandlesLoaded, CandlesAnswered, Zenon DEF CandleLoads!Next
<1> QED
  BY <1>2, <1>5

\* The invariant is what the property says, and types the variables.
LEMMA CandlesSound ==
    ASSUME CandleAssumption, CandleInvariant PROVE CandleLoads!CandlesAreWhole /\ CandleLoads!TypeOK
<1>1. ASSUME CandleLoads!Loaded
      PROVE  /\ \A t \in DOMAIN klines : klines[t] = CandleLoads!Key(selected, frame)
             /\ \A t \in CandleLoads!Oldest(klines) .. CandleLoads!Latest(klines) :
                    t \in DOMAIN klines
  <2>1. CandlesUpToNow(klines, OnScreen)
    BY <1>1, Zenon DEF CandleInvariant
  <2>2. PICK o \in CandleLoads!Times : DOMAIN klines = o .. LastTime /\
                 \A t \in o .. LastTime : klines[t] = OnScreen
    BY <2>1 DEF CandlesUpToNow
  <2>3. CandleLoads!Oldest(klines) = o /\ CandleLoads!Latest(klines) = LastTime
    BY <2>2, CandlesEndNow
  <2> QED
    BY <2>2, <2>3 DEF OnScreen
<1>2. CandleLoads!CandlesBelong /\ CandleLoads!NoGap /\ CandleLoads!LoadingIsHonest
  BY <1>1, Zenon DEF CandleLoads!CandlesBelong, CandleLoads!NoGap, CandleInvariant
<1>3. CandleLoads!TypeOK
  <2>1. \A k \in Asked : k \in CandleLoads!Keys
    BY CandleKeys
  <2> QED
    BY <2>1, Zenon DEF CandleLoads!TypeOK, CandleInvariant, CandleTypes, CandleRequests
<1> QED
  BY <1>2, <1>3, Zenon DEF CandleLoads!CandlesAreWhole

-----------------------------------------------------------------------------
(* The replay under the chart *)

\* What the replay assumes of its constants.
ReplayAssumption == Replay!LoadAssumption /\ Replay!StepAssumption

\* The panel's filter holds until other candles come, and then all of them are displayed; the
\* end is that of the candles until they change.
ReplayInvariant ==
    /\ Replay!TypeOK
    /\ crossed => display = Replay!Candles(klines)
    /\ Replay!FutureHidden
    /\ active /\ ~ foreign => Replay!Has(klines) /\ end = klines.to

\* Candles are numbered from one time to another, a replay begins among them.
LEMMA CandleTimes ==
    ASSUME ReplayAssumption, NEW k \in KlineLoads \cup {NoKlines}
    PROVE  /\ k.from \in Nat /\ k.to \in Nat /\ Replay!Candles(k) \subseteq Nat
           /\ \A t \in Replay!Candles(k) : t <= k.to
           /\ Replay!Has(k) => Replay!Begin(k) \in Nat
<1>1. /\ k.from \in Nat /\ k.to \in Nat
      /\ Replay!Has(k) => k.from <= k.to
  BY DEF ReplayAssumption, Replay!LoadAssumption, Replay!Has
<1>2. ASSUME Replay!Has(k) PROVE Replay!Begin(k) \in Nat
  <2>1. PICK d : d = 7 * (k.to - k.from)
    OBVIOUS
  <2>2. d \in Nat
    BY <1>1, <1>2, <2>1
  <2>3. PICK q : q = d \div 10
    OBVIOUS
  <2>4. q \in Nat
    BY <2>2, <2>3
  <2> QED
    BY <1>1, <2>1, <2>3, <2>4 DEF Replay!Begin
<1> QED
  BY <1>1, <1>2 DEF Replay!Candles

\* A step leaves the store and the display in keeping, whichever handler it is.
LEMMA ReplayCommits ==
    ASSUME ReplayAssumption, ReplayInvariant, NEW k \in KlineLoads \cup {NoKlines},
           NEW shown \in BOOLEAN,
           NEW going \in BOOLEAN, NEW at \in Nat, NEW until \in Nat, NEW play \in BOOLEAN,
           Replay!Commit(k, shown, going, at, until, play),
           going => active /\ until = end, ~ going => (shown /\ Replay!Has(k)) \/ ~ active,
           step' \in Steps, events' \in 0 .. MaxReplayEvents
    PROVE  ReplayInvariant'
<1>0. /\ klines \in KlineLoads \cup {NoKlines} /\ display \subseteq Nat /\ panel \in BOOLEAN
      /\ active \in BOOLEAN
      /\ playing \in BOOLEAN /\ now \in Nat /\ end \in Nat /\ crossed \in BOOLEAN
      /\ foreign \in BOOLEAN
      /\ crossed => display = Replay!Candles(klines)
      /\ panel /\ active /\ Replay!Has(klines) /\ ~ crossed =>
             display = Replay!Filtered(klines, now)
      /\ active /\ ~ foreign => Replay!Has(klines) /\ end = klines.to
  BY DEF ReplayInvariant, Replay!TypeOK, Replay!FutureHidden
<1>1. klines' = k /\ panel' = shown
  BY Zenon DEF Replay!Commit
<1>2. /\ k.from \in Nat /\ k.to \in Nat /\ Replay!Candles(k) \subseteq Nat
      /\ Replay!Has(k) => Replay!Begin(k) \in Nat
  BY CandleTimes
<1> DEFINE b == Replay!Begins(k, shown, going)
<1>3. IF b
      THEN active' = TRUE /\ now' = Replay!Begin(k) /\ end' = k.to /\ playing' = FALSE /\
          foreign' = FALSE
      ELSE active' = going /\ now' = at /\ end' = until /\ playing' = play
           /\ foreign' = (foreign \/ k # klines)
  BY Zenon DEF Replay!Commit, Replay!Store
<1>4. b <=> shown /\ Replay!Has(k) /\ ~ going
  BY DEF Replay!Begins
<1> HIDE DEF b
<1>5. /\ active' \in BOOLEAN /\ now' \in Nat /\ end' \in Nat /\ playing' \in BOOLEAN
      /\ foreign' \in BOOLEAN
  BY <1>0, <1>2, <1>3, <1>4
<1>6. active' /\ ~ foreign' => Replay!Has(k) /\ end' = k.to
  BY <1>0, <1>2, <1>3, <1>4
<1>7. IF shown /\ (~ panel \/ b \/ now' # now)
      THEN /\ display' = IF active' /\ Replay!Has(k)
                       THEN Replay!Filtered(k, now') ELSE Replay!Candles(k)
           /\ crossed' = FALSE
      ELSE IF k # klines THEN display' = Replay!Candles(k) /\ crossed' = TRUE
      ELSE display' = display /\ crossed' = crossed
  BY Zenon DEF Replay!Commit, Replay!Display, b
<1>8. Replay!Filtered(k, now') \subseteq Replay!Candles(k)
  BY DEF Replay!Filtered
<1>9. /\ display' \subseteq Nat /\ crossed' \in BOOLEAN
      /\ crossed' => display' = Replay!Candles(k)
      /\ shown /\ active' /\ Replay!Has(k) /\ ~ crossed' => display' = Replay!Filtered(k, now')
  <2>1. CASE shown /\ (~ panel \/ b \/ now' # now)
    BY <1>2, <1>7, <1>8, <2>1
  <2>2. CASE ~ (shown /\ (~ panel \/ b \/ now' # now)) /\ k # klines
    BY <1>2, <1>7, <2>2
  <2>3. CASE ~ (shown /\ (~ panel \/ b \/ now' # now)) /\ k = klines
    <3>1. display' = display /\ crossed' = crossed
      BY <1>7, <2>3
    <3>2. ASSUME shown, active', Replay!Has(k), ~ crossed'
          PROVE  display' = Replay!Filtered(k, now')
      <4>1. panel /\ ~ b /\ now' = now
        BY <2>3, <3>2
      <4>2. active
        BY <1>3, <3>2, <4>1
      <4> QED
        BY <1>0, <2>3, <3>1, <3>2, <4>1, <4>2
    <3> QED
      BY <1>0, <2>3, <3>1, <3>2
  <2> QED
    BY <2>1, <2>2, <2>3
<1>10. Replay!TypeOK'
  BY <1>0, <1>1, <1>5, <1>9, Zenon DEF Replay!TypeOK
<1> QED
  BY <1>1, <1>6, <1>9, <1>10, Zenon
     DEF ReplayInvariant, Replay!FutureHidden, Replay!Candles, Replay!Filtered, Replay!Has

\* Every step of the replay keeps the invariant.
LEMMA ReplayKept ==
    ASSUME ReplayAssumption, ReplayInvariant, [Replay!Next]_Replay!vars
    PROVE  ReplayInvariant'
<1>0. /\ klines \in KlineLoads \cup {NoKlines} /\ step \in Steps /\ panel \in BOOLEAN
      /\ active \in BOOLEAN
      /\ playing \in BOOLEAN /\ now \in Nat /\ end \in Nat /\ events \in 0 .. MaxReplayEvents
      /\ TRUE \in BOOLEAN /\ FALSE \in BOOLEAN /\ 0 \in Nat
  BY DEF ReplayInvariant, Replay!TypeOK
<1>1. MaxReplayEvents \in Nat /\ step \in Nat \ {0} /\ klines.from \in Nat /\ klines.to \in Nat
      /\ Replay!Candles(klines) \subseteq Nat
  BY <1>0, CandleTimes DEF ReplayAssumption, Replay!StepAssumption
<1>2. ASSUME Replay!Event PROVE events' \in 0 .. MaxReplayEvents
  BY <1>0, <1>1, <1>2 DEF Replay!Event
<1>3. ASSUME NEW t \in Nat, Replay!ByHand, Replay!SetReplayTime(t) PROVE ReplayInvariant'
  <2>1. Replay!Commit(klines, panel, active, t, end, playing) /\ step' = step /\ events' = events
    BY <1>3, Zenon DEF Replay!SetReplayTime
  <2>2. /\ step' \in Steps /\ events' \in 0 .. MaxReplayEvents
    BY <1>0, <2>1
  <2> QED
    BY <1>0, <2>1, <2>2, ReplayCommits
<1>4. ASSUME NEW k \in KlineLoads \cup {NoKlines}, Replay!CandlesArrive(k) PROVE ReplayInvariant'
  <2>1. Replay!Commit(k, panel, active, now, end, playing) /\ step' = step /\ Replay!Event
    BY <1>4, Zenon DEF Replay!CandlesArrive
  <2>2. /\ step' \in Steps /\ events' \in 0 .. MaxReplayEvents
    BY <1>0, <1>2, <2>1
  <2> QED
    BY <1>0, <2>1, <2>2, ReplayCommits
<1>5. ASSUME NEW s \in Steps, Replay!PickFrame(s) PROVE ReplayInvariant'
  <2>1. /\ step' = s /\ klines' = klines /\ display' = display /\ panel' = panel /\ active' = active
        /\ now' = now /\ end' = end /\ playing' = playing /\ crossed' = crossed
        /\ foreign' = foreign
        /\ Replay!Event
    BY <1>5, Zenon DEF Replay!PickFrame, Replay!replay
  <2> QED
    BY <1>2, <2>1, Zenon
       DEF ReplayInvariant, Replay!TypeOK, Replay!FutureHidden, Replay!Candles,
       Replay!Filtered, Replay!Has
<1>6. CASE Replay!ShowReplay
  <2>1. Replay!Commit(klines, TRUE, active, now, end, playing) /\ step' = step /\ Replay!Event
    BY <1>6, Zenon DEF Replay!ShowReplay
  <2>2. /\ step' \in Steps /\ events' \in 0 .. MaxReplayEvents
    BY <1>0, <1>2, <2>1
  <2> QED
    BY <1>0, <2>1, <2>2, ReplayCommits
<1>7. CASE Replay!HideReplay
  <2>1. /\ step' = step /\ klines' = klines /\ display' = display /\ panel' = FALSE
        /\ active' = active
        /\ now' = now /\ end' = end /\ playing' = playing /\ crossed' = crossed
        /\ foreign' = foreign
        /\ events' = events
    BY <1>7, Zenon DEF Replay!HideReplay, Replay!replay
  <2> QED
    BY <1>0, <2>1, Zenon
       DEF ReplayInvariant, Replay!TypeOK, Replay!FutureHidden, Replay!Candles,
       Replay!Filtered, Replay!Has
<1>8. ASSUME NEW t \in Replay!Candles(klines), Replay!Slide(t) PROVE ReplayInvariant'
  BY <1>1, <1>3, <1>8 DEF Replay!Slide
<1>9. CASE Replay!StepBack \/ Replay!StepForward
  <2>1. PICK t \in Nat : Replay!ByHand /\ Replay!SetReplayTime(t)
    <3>1. CASE Replay!StepBack
      <4>1. PICK t : t = IF now - step > klines.from THEN now - step ELSE klines.from
        OBVIOUS
      <4>2. t \in Nat
        BY <1>0, <1>1, <4>1
      <4>3. Replay!ByHand /\ Replay!SetReplayTime(t)
        BY <3>1, <4>1, Zenon DEF Replay!StepBack
      <4> QED
        BY <4>2, <4>3
    <3>2. CASE Replay!StepForward
      <4>1. PICK t : t = IF now + step < klines.to THEN now + step ELSE klines.to
        OBVIOUS
      <4>2. t \in Nat
        BY <1>0, <1>1, <4>1
      <4>3. Replay!ByHand /\ Replay!SetReplayTime(t)
        BY <3>2, <4>1, Zenon DEF Replay!StepForward
      <4> QED
        BY <4>2, <4>3
    <3> QED
      BY <1>9, <3>1, <3>2
  <2> QED
    BY <1>3, <2>1
<1>10. CASE Replay!TogglePlay
  <2>1. /\ playing' = ~ playing /\ Replay!Event
        /\ step' = step /\ klines' = klines /\ display' = display /\ panel' = panel
        /\ active' = active
        /\ now' = now /\ end' = end /\ crossed' = crossed /\ foreign' = foreign
    BY <1>10, Zenon DEF Replay!TogglePlay
  <2>2. playing' \in BOOLEAN
    BY <2>1
  <2> QED
    BY <1>2, <2>1, <2>2, Zenon
       DEF ReplayInvariant, Replay!TypeOK, Replay!FutureHidden, Replay!Candles,
       Replay!Filtered, Replay!Has
<1>11. CASE Replay!Stop
  <2>1. /\ panel /\ active /\ Replay!Has(klines) /\ Replay!Commit(klines, panel, FALSE, 0, 0, FALSE)
        /\ step' = step /\ events' = events
    BY <1>11, Zenon DEF Replay!Stop, Replay!Controls
  <2>2. /\ step' \in Steps /\ events' \in 0 .. MaxReplayEvents
    BY <1>0, <2>1
  <2> QED
    BY <1>0, <2>1, <2>2, ReplayCommits
<1>12. CASE Replay!Tick
  <2>1. /\ panel /\ active /\ step' = step /\ events' = events
        /\ IF now + step >= end
           THEN Replay!Commit(klines, panel, active, end, end, FALSE)
           ELSE Replay!Commit(klines, panel, active, now + step, end, TRUE)
    BY <1>12, Zenon DEF Replay!Tick
  <2>2. /\ step' \in Steps /\ events' \in 0 .. MaxReplayEvents /\ now + step \in Nat
    BY <1>0, <1>1, <2>1
  <2> QED
    BY <1>0, <2>1, <2>2, ReplayCommits
<1>13. CASE UNCHANGED Replay!vars
  BY <1>13, Zenon
     DEF Replay!vars, ReplayInvariant, Replay!TypeOK, Replay!FutureHidden, Replay!Candles,
         Replay!Filtered, Replay!Has
<1>14. CASE Replay!Next
  BY <1>4, <1>5, <1>6, <1>7, <1>8, <1>9, <1>10, <1>11, <1>12, <1>14, Zenon DEF Replay!Next
<1> QED
  BY <1>13, <1>14

\* A chart without a replay satisfies it.
LEMMA ReplayStart == ReplayAssumption /\ Replay!Init => ReplayInvariant
<1> SUFFICES ASSUME ReplayAssumption, Replay!Init PROVE ReplayInvariant
  OBVIOUS
<1>1. /\ klines = NoKlines /\ step \in Steps /\ display = {} /\ panel = FALSE
      /\ active = FALSE /\ now = 0 /\ end = 0 /\ playing = FALSE
      /\ events = 0 /\ crossed = FALSE /\ foreign = FALSE /\ MaxReplayEvents \in Nat
  BY DEF Replay!Init, ReplayAssumption, Replay!StepAssumption
<1>2. klines \in KlineLoads \cup {NoKlines} /\ display \subseteq Nat
  BY <1>1
<1>3. now \in Nat /\ end \in Nat /\ events \in 0 .. MaxReplayEvents
  BY <1>1
<1>4. /\ panel \in BOOLEAN /\ active \in BOOLEAN /\ playing \in BOOLEAN
      /\ crossed \in BOOLEAN /\ foreign \in BOOLEAN
  BY <1>1
<1> QED
  BY <1>1, <1>2, <1>3, <1>4, Zenon DEF ReplayInvariant, Replay!TypeOK, Replay!FutureHidden

\* A replay that came to its end has shown everything.
LEMMA ReplayEnds ==
    ASSUME ReplayAssumption, ReplayInvariant PROVE Replay!ShowsAllAtEnd
<1> SUFFICES ASSUME Replay!Tick, ~ playing', ~ foreign PROVE display' = Replay!Candles(klines)
  BY DEF Replay!ShowsAllAtEnd
<1>0. /\ klines \in KlineLoads \cup {NoKlines} /\ now \in Nat /\ end \in Nat
      /\ crossed \in BOOLEAN
      /\ crossed => display = Replay!Candles(klines)
      /\ panel /\ active /\ Replay!Has(klines) /\ ~ crossed =>
             display = Replay!Filtered(klines, now)
      /\ active /\ ~ foreign => Replay!Has(klines) /\ end = klines.to
  BY DEF ReplayInvariant, Replay!TypeOK, Replay!FutureHidden
<1>1. panel /\ active
      /\ IF now + step >= end
         THEN Replay!Commit(klines, panel, active, end, end, FALSE)
         ELSE Replay!Commit(klines, panel, active, now + step, end, TRUE)
  BY Zenon DEF Replay!Tick
<1>2. ~ Replay!Begins(klines, panel, active)
  BY <1>1 DEF Replay!Begins
<1>3. now + step >= end
  BY <1>1, <1>2, Zenon DEF Replay!Commit, Replay!Store
<1>4. Replay!Commit(klines, panel, active, end, end, FALSE)
  BY <1>1, <1>3
<1>5. now' = end /\ active' = active
  BY <1>2, <1>4, Zenon DEF Replay!Commit, Replay!Store
<1>6. IF now' # now
      THEN display' = IF active' /\ Replay!Has(klines) THEN Replay!Filtered(klines, now')
                      ELSE Replay!Candles(klines)
      ELSE display' = display
  BY <1>1, <1>2, <1>4, Zenon DEF Replay!Commit, Replay!Display
<1>7. Replay!Filtered(klines, klines.to) = Replay!Candles(klines)
  BY <1>0, CandleTimes DEF Replay!Filtered
<1> QED
  BY <1>0, <1>1, <1>5, <1>6, <1>7

-----------------------------------------------------------------------------
(* The board under the chart *)

\* What the board assumes of its constants.
BoardAssumption == Board!DataAssumption /\ Board!BoundAssumption

\* The bubbles and trades of the symbol.
BubblesOf == Board!Active(stored, symbol)
TradesOf == Board!Active(trades \cup local, symbol)

\* What is stored, served and open is of the data there are.
BoardData ==
    /\ served \subseteq BoardTrades /\ positions \subseteq BoardPositions
    /\ symbol \in BoardSymbols /\ stored \subseteq Bubbles /\ local \subseteq BoardTrades
    /\ trades \subseteq BoardTrades /\ failed \in BOOLEAN /\ open \subseteq BoardPositions
    /\ events \in 0 .. MaxBoardEvents

\* A request that counts is for the symbol, and what its answer left stands until the next one.
BoardRequests ==
    /\ \A f \in fetches : f.symbol \in BoardSymbols /\ f.live \in BOOLEAN /\
           (f.live => f.symbol = symbol)
    /\ (\A f \in fetches : ~ f.live) /\ ~ failed => trades = Board!Sent(symbol)

\* Unless they are due, the markers are those of the symbol.
BoardMarkers ==
    /\ candles \in BOOLEAN /\ due \in BOOLEAN /\ showBubbles \in BOOLEAN /\ showTrades \in BOOLEAN
    /\ overlay \subseteq Board!Group
    /\ ~ due /\ candles => overlay = Board!Placed(BubblesOf, TradesOf)

\* The page of the summary is one of its filter.
BoardSummary ==
    /\ filter \in Actions \cup {All}
    /\ summaryPage \in 1 .. Board!PagesOf(Board!Filtered(BubblesOf, filter))

\* The pages of the details are pages of the group.
BoardDetails ==
    /\ tab \in {"summary", "detail"}
    /\ group \in Board!Group \cup {None} /\ position \in BoardPositions \cup {None}
    /\ bubblePage \in 1 .. Board!PagesOf(Board!DetailBubbles)
    /\ tradePage \in 1 .. Board!PagesOf(Board!DetailTrades)

\* What every step of the board keeps.
BoardInvariant ==
    BoardData /\ BoardRequests /\ BoardMarkers /\ BoardSummary /\ BoardDetails

\* The instance counts as the library does.
LEMMA BoardCounts == \A S : Board!Cardinality(S) = Cardinality(S) /\
    Board!IsFiniteSet(S) = IsFiniteSet(S)
BY DEF Board!Cardinality, Cardinality, Board!IsFiniteSet, IsFiniteSet

\* A finite list has a page, and as many as another of its length.
LEMMA BoardPages ==
    ASSUME BoardAssumption, NEW A, IsFiniteSet(A)
    PROVE  /\ Board!PagesOf(A) \in Nat \ {0}
           /\ \A B : IsFiniteSet(B) /\ Cardinality(B) = Cardinality(A) =>
                  Board!PagesOf(B) = Board!PagesOf(A)
<1>1. PanelSize \in Nat \ {0}
  BY DEF BoardAssumption, Board!BoundAssumption
<1>2. PICK n : n = Cardinality(A)
  OBVIOUS
<1>3. n \in Nat /\ (A = {} <=> n = 0)
  BY <1>2, FS_CardinalityType, FS_EmptySet
<1>4. PICK d : d = (n + PanelSize - 1) \div PanelSize
  OBVIOUS
<1>5. Board!PagesOf(A) = IF A = {} THEN 1 ELSE d
  BY <1>2, <1>4, BoardCounts DEF Board!PagesOf
<1>6. n # 0 => (n + PanelSize - 1) \div PanelSize >= 1
  BY <1>1, <1>3
<1>7. d \in Int
  BY <1>1, <1>3, <1>4
<1>8. ASSUME NEW B, IsFiniteSet(B), Cardinality(B) = Cardinality(A)
      PROVE  Board!PagesOf(B) = Board!PagesOf(A)
  <2>1. B = {} <=> Cardinality(B) = 0
    BY <1>8, FS_EmptySet
  <2> QED
    BY <1>2, <1>3, <1>4, <1>5, <1>8, <2>1, BoardCounts DEF Board!PagesOf
<1>9. Board!PagesOf(A) \in Nat \ {0}
  BY <1>3, <1>4, <1>5, <1>6, <1>7
<1> QED
  BY <1>8, <1>9

\* What is derived of the bubbles and trades is finite and made of them.
LEMMA BoardDerives ==
    ASSUME BoardAssumption, NEW bs, bs \subseteq Bubbles, NEW ts, ts \subseteq BoardTrades
    PROVE  /\ IsFiniteSet(bs) /\ IsFiniteSet(ts)
           /\ \A s : Board!Active(bs, s) \subseteq Bubbles /\
                  Board!Active(ts, s) \subseteq BoardTrades
           /\ \A f : IsFiniteSet(Board!Filtered(bs, f)) /\ Board!Filtered(bs, f) \subseteq Bubbles
           /\ Board!Placed(bs, ts) \subseteq Board!Group
<1>1. IsFiniteSet(Bubbles) /\ IsFiniteSet(BoardTrades)
  BY BoardCounts DEF BoardAssumption, Board!DataAssumption
<1>2. \A S, T : IsFiniteSet(T) /\ S \subseteq T => IsFiniteSet(S)
  BY FS_Subset
<1>3. \A f : Board!Filtered(bs, f) \subseteq bs
  BY DEF Board!Filtered
<1>4. Board!Placed(bs, ts) \subseteq Board!Group
  <2>1. \A i \in bs \cup ts : i.candle \in BoardCandles
    BY DEF BoardAssumption, Board!DataAssumption
  <2> QED
    BY <2>1 DEF Board!Placed, Board!Group
<1>5. \A s : Board!Active(bs, s) \subseteq Bubbles /\ Board!Active(ts, s) \subseteq BoardTrades
  BY DEF Board!Active
<1> QED
  BY <1>1, <1>2, <1>3, <1>4, <1>5

\* What is active changes: the summary stays on a page there is, and either the timer is set or
\* nothing has changed.
LEMMA BoardRefreshes ==
    ASSUME BoardAssumption, BoardInvariant, NEW bs, bs \subseteq Bubbles, NEW ts, NEW f,
           Board!Refresh(bs, ts, f)
    PROVE  /\ summaryPage' \in 1 .. Board!PagesOf(Board!Filtered(bs, f))
           /\ due' \in BOOLEAN
           /\ ~ due' => ~ due /\ bs = BubblesOf /\ ts = TradesOf
<1>1. /\ summaryPage' =
             IF Cardinality(Board!Filtered(bs, f)) # Cardinality(Board!Filtered(BubblesOf, filter))
                        THEN 1 ELSE summaryPage
      /\ due' = (due \/ <<bs, ts>> # <<BubblesOf, TradesOf>>)
  BY BoardCounts, Zenon DEF Board!Refresh, BubblesOf, TradesOf
<1>2. BubblesOf \subseteq Bubbles
  BY DEF BoardInvariant, BoardData, BubblesOf, Board!Active
<1>3. IsFiniteSet(Board!Filtered(bs, f)) /\ IsFiniteSet(Board!Filtered(BubblesOf, filter))
  BY <1>2, BoardDerives
<1>4. Board!PagesOf(Board!Filtered(bs, f)) \in Nat \ {0}
  BY <1>3, BoardPages
<1>5. Cardinality(Board!Filtered(bs, f)) = Cardinality(Board!Filtered(BubblesOf, filter))
        => Board!PagesOf(Board!Filtered(bs, f)) = Board!PagesOf(Board!Filtered(BubblesOf, filter))
  BY <1>3, BoardPages
<1>6. summaryPage \in 1 .. Board!PagesOf(Board!Filtered(BubblesOf, filter))
  BY DEF BoardInvariant, BoardSummary
<1>7. summaryPage' \in 1 .. Board!PagesOf(Board!Filtered(bs, f))
  BY <1>1, <1>4, <1>5, <1>6
<1>8. due' \in BOOLEAN
  BY <1>1
<1>9. ~ due' => ~ due /\ bs = BubblesOf /\ ts = TradesOf
  BY <1>1
<1> QED
  BY <1>7, <1>8, <1>9

\* What a step leaves alone stays as it was.
LEMMA BoardFrames ==
    ASSUME BoardInvariant
    PROVE  /\ UNCHANGED <<tab, group, position, bubblePage, tradePage>> => BoardDetails'
           /\ UNCHANGED <<stored, symbol, filter, summaryPage>> => BoardSummary'
           /\ UNCHANGED <<stored, symbol, trades, local, candles, due, showBubbles, showTrades,
                          overlay>>
                => BoardMarkers'
           /\ UNCHANGED <<fetches, symbol, served, trades, failed>> => BoardRequests'
           /\ UNCHANGED <<served, positions, symbol, stored, local, trades, failed, open, events>>
                => BoardData'
<1>1. UNCHANGED <<tab, group, position, bubblePage, tradePage>> => BoardDetails'
  BY Zenon DEF BoardInvariant, BoardDetails, Board!DetailBubbles, Board!DetailTrades
<1>2. UNCHANGED <<stored, symbol, filter, summaryPage>> => BoardSummary'
  BY Zenon DEF BoardInvariant, BoardSummary, BubblesOf
<1>3. UNCHANGED <<stored, symbol, trades, local, candles, due, showBubbles, showTrades, overlay>>
                => BoardMarkers'
  <2> SUFFICES ASSUME UNCHANGED <<stored, symbol, trades, local, candles, due, showBubbles,
                                  showTrades, overlay>>
               PROVE  BoardMarkers'
    OBVIOUS
  <2>1. BubblesOf' = BubblesOf /\ TradesOf' = TradesOf
    BY Zenon DEF BubblesOf, TradesOf
  <2> QED
    BY <2>1, Zenon DEF BoardInvariant, BoardMarkers
<1>4. UNCHANGED <<fetches, symbol, served, trades, failed>> => BoardRequests'
  <2> SUFFICES ASSUME UNCHANGED <<fetches, symbol, served, trades, failed>> PROVE BoardRequests'
    OBVIOUS
  <2>1. Board!Sent(symbol)' = Board!Sent(symbol)
    BY Zenon DEF Board!Sent
  <2> QED
    BY <2>1, Zenon DEF BoardInvariant, BoardRequests
<1>5. UNCHANGED <<served, positions, symbol, stored, local, trades, failed, open, events>>
                => BoardData'
  BY Zenon DEF BoardInvariant, BoardData
<1> QED
  BY <1>1, <1>2, <1>3, <1>4, <1>5, Zenon

\* A chart screen that is opened satisfies it.
LEMMA BoardStart == BoardAssumption /\ Board!Init => BoardInvariant
<1> SUFFICES ASSUME BoardAssumption, Board!Init PROVE BoardInvariant
  OBVIOUS
<1>1. /\ served \subseteq BoardTrades /\ positions \subseteq BoardPositions
      /\ symbol \in BoardSymbols /\ stored \subseteq Bubbles /\ local = {}
      /\ trades = {} /\ failed = FALSE /\ open = {}
      /\ fetches = {[symbol |-> symbol, live |-> TRUE]}
  BY Zenon DEF Board!Init
<1>2. /\ candles = FALSE /\ overlay = {} /\ due = TRUE
      /\ showBubbles = TRUE /\ showTrades = TRUE
      /\ tab = "summary" /\ filter = All /\ summaryPage = 1
      /\ group = None /\ position = None /\ bubblePage = 1 /\ tradePage = 1
      /\ events = 0
  BY Zenon DEF Board!Init
<1>3. failed \in BOOLEAN /\ events \in 0 .. MaxBoardEvents
  <2>1. failed \in BOOLEAN
    BY <1>1, Zenon
  <2>2. events \in 0 .. MaxBoardEvents
    BY <1>2 DEF BoardAssumption, Board!BoundAssumption
  <2> QED
    BY <2>1, <2>2
<1>4. BoardData
  BY <1>1, <1>3 DEF BoardData
<1>5. BoardRequests
  BY <1>1 DEF BoardRequests
<1>6. candles \in BOOLEAN /\ due \in BOOLEAN /\ showBubbles \in BOOLEAN /\ showTrades \in BOOLEAN
  BY <1>2
<1>7. BoardMarkers
  BY <1>2, <1>6 DEF BoardMarkers
<1>8. BubblesOf \subseteq Bubbles
  BY <1>1 DEF BubblesOf, Board!Active
<1>9. IsFiniteSet(Board!Filtered(BubblesOf, filter))
  BY <1>8, BoardDerives
<1>10. BoardSummary
  BY <1>2, <1>9, BoardPages DEF BoardSummary
<1>11. Board!DetailBubbles = {} /\ Board!DetailTrades = {} /\ IsFiniteSet({})
  BY <1>2, FS_EmptySet DEF Board!DetailBubbles, Board!DetailTrades
<1>12. BoardDetails
  BY <1>2, <1>11, BoardPages DEF BoardDetails
<1> QED
  BY <1>4, <1>5, <1>7, <1>10, <1>12 DEF BoardInvariant

\* A change of the data is counted, up to the bound.
LEMMA BoardEvents ==
    ASSUME BoardAssumption, BoardInvariant, Board!Event PROVE events' \in 0 .. MaxBoardEvents
<1>1. MaxBoardEvents \in Nat /\ events \in 0 .. MaxBoardEvents
  BY Zenon DEF BoardAssumption, Board!BoundAssumption, BoardInvariant, BoardData
<1>2. events < MaxBoardEvents /\ events' = events + 1
  BY DEF Board!Event
<1> QED
  BY <1>1, <1>2

\* The store's bubbles and uploads are replaced.
LEMMA BoardStored ==
    ASSUME BoardAssumption, BoardInvariant, NEW bs, bs \subseteq Bubbles, NEW ts,
           ts \subseteq BoardTrades,
           Board!StoreChanges(bs, ts)
    PROVE  BoardInvariant'
<1>1. /\ Board!Event /\ stored' = bs /\ local' = ts
      /\ Board!Refresh(Board!Active(bs, symbol), Board!Active(trades \cup ts, symbol), filter)
      /\ UNCHANGED <<served, positions, trades, fetches, failed, open, symbol, candles, overlay,
                     showBubbles, showTrades, tab, filter, group, position, bubblePage, tradePage>>
  BY Zenon DEF Board!StoreChanges
<1>2. Board!Active(bs, symbol) \subseteq Bubbles
  BY DEF Board!Active
<1>3. /\ summaryPage' \in 1 .. Board!PagesOf(Board!Filtered(Board!Active(bs, symbol), filter))
      /\ due' \in BOOLEAN
      /\ ~ due' => ~ due /\ Board!Active(bs, symbol) = BubblesOf /\
             Board!Active(trades \cup ts, symbol) = TradesOf
  BY <1>1, <1>2, BoardRefreshes
<1>4. /\ BubblesOf' = Board!Active(bs, symbol)
      /\ TradesOf' = Board!Active(trades \cup ts, symbol)
  BY <1>1, Zenon DEF BubblesOf, TradesOf
<1>5. BoardSummary'
  BY <1>1, <1>3, <1>4, Zenon DEF BoardInvariant, BoardSummary
<1>6. BoardMarkers'
  BY <1>1, <1>3, <1>4, Zenon DEF BoardInvariant, BoardMarkers
<1>7. BoardData'
  <2>1. events' \in 0 .. MaxBoardEvents
    BY <1>1, BoardEvents
  <2> QED
    BY <1>1, <2>1, Zenon DEF BoardInvariant, BoardData
<1>8. BoardDetails' /\ BoardRequests'
  BY <1>1, BoardFrames, Zenon
<1> QED
  BY <1>5, <1>6, <1>7, <1>8 DEF BoardInvariant

\* Trades are asked for: the request is the only one that counts.
LEMMA BoardFetches ==
    ASSUME BoardInvariant, NEW s \in BoardSymbols, Board!Fetch(s), symbol' = s
    PROVE  BoardRequests'
<1>1. fetches' = {[f EXCEPT !.live = FALSE] : f \in fetches} \cup {[symbol |-> s, live |-> TRUE]}
  BY DEF Board!Fetch
<1>2. [symbol |-> s, live |-> TRUE] \in fetches' /\ [symbol |-> s, live |-> TRUE].live
  BY <1>1
<1>3. \A f \in fetches' : f.symbol \in BoardSymbols /\ f.live \in BOOLEAN /\
          (f.live => f.symbol = symbol')
  <2> TAKE g \in fetches'
  <2>1. CASE g = [symbol |-> s, live |-> TRUE]
    BY <2>1
  <2>2. CASE \E f \in fetches : g = [f EXCEPT !.live = FALSE]
    <3>1. PICK f \in fetches : g = [f EXCEPT !.live = FALSE]
      BY <2>2
    <3>2. f.symbol \in BoardSymbols
      BY DEF BoardInvariant, BoardRequests
    <3>3. g.symbol = f.symbol /\ ~ g.live /\ g.live \in BOOLEAN
      BY <3>1
    <3> QED
      BY <3>2, <3>3
  <2> QED
    BY <1>1, <2>1, <2>2
<1> QED
  BY <1>2, <1>3 DEF BoardRequests

\* The server's trades are taken, or none because the request failed.
LEMMA BoardTakes ==
    ASSUME BoardAssumption, BoardInvariant, NEW ts, ts \subseteq BoardTrades, Board!Take(ts),
           failed' \in BOOLEAN, BoardRequests',
           UNCHANGED <<served, positions, stored, local, open, symbol, candles, overlay,
                       showBubbles,
                       showTrades, tab, filter, group, position, bubblePage, tradePage, events>>
    PROVE  BoardInvariant'
<1>1. /\ trades' = ts
      /\ Board!Refresh(BubblesOf, Board!Active(ts \cup local, symbol), filter)
  BY Zenon DEF Board!Take, BubblesOf
<1>2. BubblesOf \subseteq Bubbles
  BY DEF BoardInvariant, BoardData, BubblesOf, Board!Active
<1>3. /\ summaryPage' \in 1 .. Board!PagesOf(Board!Filtered(BubblesOf, filter))
      /\ due' \in BOOLEAN
      /\ ~ due' => ~ due /\ Board!Active(ts \cup local, symbol) = TradesOf
  BY <1>1, <1>2, BoardRefreshes
<1>4. BubblesOf' = BubblesOf /\ TradesOf' = Board!Active(ts \cup local, symbol)
  BY <1>1, Zenon DEF BubblesOf, TradesOf
<1>5. BoardSummary'
  BY <1>3, <1>4, Zenon DEF BoardInvariant, BoardSummary
<1>6. BoardMarkers'
  BY <1>3, <1>4, Zenon DEF BoardInvariant, BoardMarkers
<1>7. BoardData'
  BY <1>1, Zenon DEF BoardInvariant, BoardData
<1>8. BoardDetails'
  BY BoardFrames, Zenon
<1> QED
  BY <1>5, <1>6, <1>7, <1>8 DEF BoardInvariant

\* What the server sends is of its trades.
LEMMA BoardSends == ASSUME BoardInvariant, NEW s PROVE Board!Sent(s) \subseteq BoardTrades
  BY DEF BoardInvariant, BoardData, Board!Sent

\* A filter or a page is chosen, or a marker or position selected: only the panel changes.
LEMMA BoardPanelSteps ==
    ASSUME BoardInvariant, UNCHANGED <<Board!data, symbol, Board!chart, events>>,
           BoardSummary', BoardDetails'
    PROVE  BoardInvariant'
<1>1. UNCHANGED <<served, positions, stored, local, trades, fetches, failed, open, symbol,
                  candles, overlay, due, showBubbles, showTrades, events>>
  BY Zenon DEF Board!data, Board!chart
<1>2. BoardData' /\ BoardMarkers' /\ BoardRequests'
  BY <1>1, BoardFrames, Zenon
<1> QED
  BY <1>2, Zenon DEF BoardInvariant

\* The details are those of the group, from their first pages.
LEMMA BoardSelects ==
    ASSUME BoardAssumption, BoardInvariant, NEW g \in Board!Group \cup {None}, Board!SelectGroup(g)
    PROVE  BoardInvariant'
<1>1. /\ group' = g /\ tab' = (IF g = None THEN tab ELSE "detail")
      /\ bubblePage' = 1 /\ tradePage' = 1
      /\ UNCHANGED <<Board!data, symbol, Board!chart, filter, summaryPage, position, events>>
  BY Zenon DEF Board!SelectGroup
<1>2. UNCHANGED <<stored, symbol, filter, summaryPage>>
  BY <1>1, Zenon DEF Board!data
<1>3. BoardSummary'
  BY <1>2, BoardFrames, Zenon
<1>4. Board!DetailBubbles' \subseteq Bubbles /\ Board!DetailTrades' \subseteq BoardTrades
  BY <1>1 DEF Board!DetailBubbles, Board!DetailTrades, Board!Group
<1>5. IsFiniteSet(Board!DetailBubbles') /\ IsFiniteSet(Board!DetailTrades')
  BY <1>4, BoardDerives
<1>6. Board!PagesOf(Board!DetailBubbles') \in Nat \ {0} /\
          Board!PagesOf(Board!DetailTrades') \in Nat \ {0}
  BY <1>5, BoardPages
<1>7. /\ bubblePage' \in 1 .. Board!PagesOf(Board!DetailBubbles')
      /\ tradePage' \in 1 .. Board!PagesOf(Board!DetailTrades')
  BY <1>1, <1>6
<1>8. tab' \in {"summary", "detail"} /\ position' \in BoardPositions \cup {None}
  BY <1>1 DEF BoardInvariant, BoardDetails
<1>9. BoardDetails'
  BY <1>1, <1>7, <1>8, Zenon DEF BoardDetails
<1> QED
  BY <1>1, <1>3, <1>9, BoardPanelSteps, Zenon

\* A position is selected beside the details of a group.
LEMMA BoardPositioned ==
    ASSUME BoardInvariant, NEW p \in BoardPositions \cup {None}, Board!SelectPosition(p)
    PROVE  BoardInvariant'
<1>1. /\ position' = p /\ tab' = (IF p = None THEN tab ELSE "detail")
      /\ UNCHANGED <<Board!data, symbol, Board!chart, filter, summaryPage, group, bubblePage,
                     tradePage, events>>
  BY Zenon DEF Board!SelectPosition
<1>2. UNCHANGED <<stored, symbol, filter, summaryPage>>
  BY <1>1, Zenon DEF Board!data
<1>3. BoardSummary'
  BY <1>2, BoardFrames, Zenon
<1>4. tab' \in {"summary", "detail"}
  BY <1>1 DEF BoardInvariant, BoardDetails
<1>5. Board!DetailBubbles' = Board!DetailBubbles /\ Board!DetailTrades' = Board!DetailTrades
  BY <1>1, Zenon DEF Board!DetailBubbles, Board!DetailTrades
<1>6. BoardDetails'
  BY <1>1, <1>4, <1>5, Zenon DEF BoardInvariant, BoardDetails
<1> QED
  BY <1>1, <1>3, <1>6, BoardPanelSteps, Zenon

\* The markers are shown or not; the timer and what is placed stay.
LEMMA BoardToggles ==
    ASSUME BoardInvariant, NEW b \in BOOLEAN, NEW t \in BOOLEAN, Board!ToggleShown(b, t)
    PROVE  BoardInvariant'
<1>1. /\ showBubbles' = b /\ showTrades' = t
      /\ UNCHANGED <<served, positions, stored, local, trades, fetches, failed, open, symbol,
                     candles, overlay, due, tab, filter, summaryPage, group, position, bubblePage,
                     tradePage, events>>
  BY Zenon DEF Board!ToggleShown, Board!data, Board!panel
<1>2. BoardData' /\ BoardRequests' /\ BoardSummary' /\ BoardDetails'
  BY <1>1, BoardFrames, Zenon
<1>3. BubblesOf' = BubblesOf /\ TradesOf' = TradesOf
  BY <1>1, Zenon DEF BubblesOf, TradesOf
<1>4. BoardMarkers'
  BY <1>1, <1>3, Zenon DEF BoardInvariant, BoardMarkers
<1> QED
  BY <1>2, <1>4, Zenon DEF BoardInvariant

\* What changes the data of the board keeps the invariant.
LEMMA BoardDataKept ==
    ASSUME BoardAssumption, BoardInvariant,
           \/ \E s \in BoardSymbols : Board!SelectSymbol(s)
           \/ Board!BubblesChange \/ Board!ImportTrades \/ Board!ResetSessionData
           \/ Board!PortfolioRefresh \/ Board!CandlesChange
           \/ \E f \in fetches : Board!TradesAnswered(f) \/ Board!TradesFail(f)
    PROVE  BoardInvariant'
<1>0. /\ stored \subseteq Bubbles /\ local \subseteq BoardTrades /\ trades \subseteq BoardTrades
      /\ symbol \in BoardSymbols /\ failed \in BOOLEAN
  BY Zenon DEF BoardInvariant, BoardData
<1>1. ASSUME NEW s \in BoardSymbols, Board!SelectSymbol(s) PROVE BoardInvariant'
  <2>1. /\ Board!Event /\ symbol' = s /\ Board!Fetch(s)
        /\ Board!Refresh(Board!Active(stored, s), Board!Active(trades \cup local, s), filter)
        /\ UNCHANGED <<served, positions, stored, local, trades, failed, open, candles, overlay,
                       showBubbles, showTrades, tab, filter, group, position, bubblePage,
                       tradePage>>
    BY <1>1, Zenon DEF Board!SelectSymbol
  <2>2. Board!Active(stored, s) \subseteq Bubbles
    BY <1>0 DEF Board!Active
  <2>3. /\ summaryPage' \in 1 .. Board!PagesOf(Board!Filtered(Board!Active(stored, s), filter))
        /\ due' \in BOOLEAN
        /\ ~ due' => ~ due /\ Board!Active(stored, s) = BubblesOf /\
               Board!Active(trades \cup local, s) = TradesOf
    BY <2>1, <2>2, BoardRefreshes
  <2>4. BubblesOf' = Board!Active(stored, s) /\ TradesOf' = Board!Active(trades \cup local, s)
    BY <2>1, Zenon DEF BubblesOf, TradesOf
  <2>5. BoardSummary'
    BY <2>1, <2>3, <2>4, Zenon DEF BoardInvariant, BoardSummary
  <2>6. BoardMarkers'
    BY <2>1, <2>3, <2>4, Zenon DEF BoardInvariant, BoardMarkers
  <2>7. events' \in 0 .. MaxBoardEvents
    BY <2>1, BoardEvents
  <2>8. BoardData'
    BY <1>1, <2>1, <2>7, Zenon DEF BoardInvariant, BoardData
  <2>9. BoardRequests'
    BY <1>1, <2>1, BoardFetches
  <2>10. BoardDetails'
    BY <2>1, BoardFrames, Zenon
  <2> QED
    BY <2>5, <2>6, <2>8, <2>9, <2>10, Zenon DEF BoardInvariant
<1>2. CASE Board!BubblesChange
  <2>1. PICK bs \in SUBSET Bubbles : Board!StoreChanges(bs, local)
    BY <1>2, Zenon DEF Board!BubblesChange
  <2>2. bs \subseteq Bubbles
    BY <2>1
  <2> QED
    BY <1>0, <2>1, <2>2, BoardStored
<1>3. CASE Board!ImportTrades
  <2>1. PICK t \in BoardTrades \ local : Board!StoreChanges(stored, local \cup {t})
    BY <1>3, Zenon DEF Board!ImportTrades
  <2>2. local \cup {t} \subseteq BoardTrades
    BY <1>0, <2>1
  <2> QED
    BY <1>0, <2>1, <2>2, BoardStored
<1>4. CASE Board!ResetSessionData
  <2>1. Board!StoreChanges({}, {}) /\ {} \subseteq Bubbles /\ {} \subseteq BoardTrades
    BY <1>4 DEF Board!ResetSessionData
  <2> QED
    BY <2>1, BoardStored
<1>5. CASE Board!PortfolioRefresh
  <2>1. /\ Board!Event /\ Board!Fetch(symbol)
        /\ \E ts \in SUBSET BoardTrades : served \subseteq ts /\ served' = ts
        /\ \E ps \in SUBSET BoardPositions : positions' = ps /\ open' \in {ps, {}}
        /\ UNCHANGED <<stored, local, trades, failed, symbol, candles, overlay, due, showBubbles,
                       showTrades, tab, filter, summaryPage, group, position, bubblePage,
                       tradePage>>
    BY <1>5, Zenon DEF Board!PortfolioRefresh, Board!chart, Board!panel
  <2>2. served' \subseteq BoardTrades /\ positions' \subseteq BoardPositions /\
            open' \subseteq BoardPositions
    BY <2>1
  <2>3. events' \in 0 .. MaxBoardEvents
    BY <2>1, BoardEvents
  <2>4. BoardData'
    BY <2>1, <2>2, <2>3, Zenon DEF BoardInvariant, BoardData
  <2>5. BoardRequests'
    BY <1>0, <2>1, BoardFetches
  <2>6. BoardMarkers' /\ BoardSummary' /\ BoardDetails'
    BY <2>1, BoardFrames, Zenon
  <2> QED
    BY <2>4, <2>5, <2>6, Zenon DEF BoardInvariant
<1>6. CASE Board!CandlesChange
  <2>1. /\ Board!Event /\ candles' = ~ candles /\ due' = TRUE
        /\ UNCHANGED <<served, positions, stored, local, trades, fetches, failed, open, symbol,
                       overlay, showBubbles, showTrades, tab, filter, summaryPage, group,
                       position, bubblePage, tradePage>>
    BY <1>6, Zenon DEF Board!CandlesChange, Board!data, Board!panel
  <2>2. candles' \in BOOLEAN /\ due' \in BOOLEAN /\ due'
    BY <2>1
  <2>3. BoardMarkers'
    BY <2>1, <2>2, Zenon DEF BoardInvariant, BoardMarkers
  <2>4. events' \in 0 .. MaxBoardEvents
    BY <2>1, BoardEvents
  <2>5. BoardData'
    BY <2>1, <2>4, Zenon DEF BoardInvariant, BoardData
  <2>6. BoardRequests' /\ BoardSummary' /\ BoardDetails'
    BY <2>1, BoardFrames, Zenon
  <2> QED
    BY <2>3, <2>5, <2>6, Zenon DEF BoardInvariant
<1>7. ASSUME NEW f \in fetches, Board!TradesAnswered(f) PROVE BoardInvariant'
  <2>1. /\ fetches' = fetches \ {f}
        /\ IF f.live THEN Board!Take(Board!Sent(f.symbol)) /\ failed' = FALSE
                     ELSE UNCHANGED <<trades, failed, due, summaryPage>>
        /\ UNCHANGED <<served, positions, stored, local, open, symbol, candles, overlay,
                       showBubbles,
                       showTrades, tab, filter, group, position, bubblePage, tradePage, events>>
    BY <1>7, Zenon DEF Board!TradesAnswered
  <2>2. f.live => f.symbol = symbol
    BY Zenon DEF BoardInvariant, BoardRequests
  <2>3. Board!Sent(symbol)' = Board!Sent(symbol)
    BY <2>1, Zenon DEF Board!Sent
  <2>4. \A g \in fetches' : g.symbol \in BoardSymbols /\ g.live \in BOOLEAN /\
            (g.live => g.symbol = symbol')
    BY <2>1 DEF BoardInvariant, BoardRequests
  <2>5. CASE f.live
    <3>1. Board!Take(Board!Sent(symbol)) /\ failed' = FALSE
      BY <2>1, <2>2, <2>5
    <3>2. Board!Sent(symbol) \subseteq BoardTrades /\ failed' \in BOOLEAN
      BY <3>1, BoardSends
    <3>3. trades' = Board!Sent(symbol)
      BY <3>1 DEF Board!Take
    <3>4. BoardRequests'
      BY <2>3, <2>4, <3>3 DEF BoardRequests
    <3> QED
      BY <2>1, <3>1, <3>2, <3>4, BoardTakes
  <2>6. CASE ~ f.live
    <3>1. /\ UNCHANGED <<trades, failed, due, summaryPage>>
      BY <2>1, <2>6, Zenon
    <3>2. (\A g \in fetches' : ~ g.live) => \A g \in fetches : ~ g.live
      BY <2>1, <2>6
    <3>3. BoardRequests'
      BY <2>1, <2>3, <2>4, <3>1, <3>2 DEF BoardInvariant, BoardRequests
    <3>4. BoardData' /\ BoardMarkers' /\ BoardSummary' /\ BoardDetails'
      BY <2>1, <3>1, BoardFrames, Zenon
    <3> QED
      BY <3>3, <3>4, Zenon DEF BoardInvariant
  <2> QED
    BY <2>5, <2>6
<1>8. ASSUME NEW f \in fetches, Board!TradesFail(f) PROVE BoardInvariant'
  <2>1. /\ fetches' = fetches \ {f}
        /\ IF f.live THEN Board!Take({}) /\ failed' = TRUE
                     ELSE UNCHANGED <<trades, failed, due, summaryPage>>
        /\ UNCHANGED <<served, positions, stored, local, open, symbol, candles, overlay,
                       showBubbles,
                       showTrades, tab, filter, group, position, bubblePage, tradePage, events>>
    BY <1>8, Zenon DEF Board!TradesFail
  <2>3. Board!Sent(symbol)' = Board!Sent(symbol)
    BY <2>1, Zenon DEF Board!Sent
  <2>4. \A g \in fetches' : g.symbol \in BoardSymbols /\ g.live \in BOOLEAN /\
            (g.live => g.symbol = symbol')
    BY <2>1 DEF BoardInvariant, BoardRequests
  <2>5. CASE f.live
    <3>1. Board!Take({}) /\ failed' = TRUE
      BY <2>1, <2>5
    <3>2. {} \subseteq BoardTrades /\ failed' \in BOOLEAN
      BY <3>1
    <3>3. BoardRequests'
      BY <2>4, <3>1 DEF BoardRequests
    <3> QED
      BY <2>1, <3>1, <3>2, <3>3, BoardTakes
  <2>6. CASE ~ f.live
    <3>1. UNCHANGED <<trades, failed, due, summaryPage>>
      BY <2>1, <2>6, Zenon
    <3>2. (\A g \in fetches' : ~ g.live) => \A g \in fetches : ~ g.live
      BY <2>1, <2>6
    <3>3. BoardRequests'
      BY <2>1, <2>3, <2>4, <3>1, <3>2 DEF BoardInvariant, BoardRequests
    <3>4. BoardData' /\ BoardMarkers' /\ BoardSummary' /\ BoardDetails'
      BY <2>1, <3>1, BoardFrames, Zenon
    <3> QED
      BY <3>3, <3>4, Zenon DEF BoardInvariant
  <2> QED
    BY <2>5, <2>6
<1> QED
  BY <1>1, <1>2, <1>3, <1>4, <1>5, <1>6, <1>7, <1>8, Zenon

\* So does what happens on the chart and the panel.
LEMMA BoardViewKept ==
    ASSUME BoardAssumption, BoardInvariant,
           \/ Board!TimerFires
           \/ Board!ToggleBubbles \/ Board!ToggleTrades \/ Board!TradeFocus
           \/ \E g \in Board!Markers : Board!ClickMarker(g)
           \/ \E p \in Board!PositionsShown : Board!SelectPosition(p)
           \/ Board!CloseGroup \/ Board!ClosePosition
           \/ \E t \in {"summary", "detail"} : Board!PickTab(t)
           \/ \E f \in Actions \cup {All} : Board!SetFilter(f)
           \/ Board!TurnSummary \/ Board!TurnBubbles \/ Board!TurnTrades
    PROVE  BoardInvariant'
<1>0. /\ stored \subseteq Bubbles /\ local \subseteq BoardTrades /\ trades \subseteq BoardTrades
      /\ overlay \subseteq Board!Group /\ open \subseteq BoardPositions
      /\ showBubbles \in BOOLEAN /\ showTrades \in BOOLEAN
  BY Zenon DEF BoardInvariant, BoardData, BoardMarkers
<1>1. CASE Board!TimerFires
  <2>1. /\ due' = FALSE /\ overlay' = IF candles THEN Board!Placed(BubblesOf, TradesOf) ELSE overlay
        /\ UNCHANGED <<served, positions, stored, local, trades, fetches, failed, open, symbol,
                       candles, showBubbles, showTrades, tab, filter, summaryPage, group,
                       position, bubblePage, tradePage, events>>
    BY <1>1, Zenon
       DEF Board!TimerFires, Board!UpdatePositions, Board!data, Board!panel, BubblesOf,
           TradesOf
  <2>2. BubblesOf' = BubblesOf /\ TradesOf' = TradesOf
    BY <2>1, Zenon DEF BubblesOf, TradesOf
  <2>3. BubblesOf \subseteq Bubbles /\ TradesOf \subseteq BoardTrades
    BY <1>0 DEF BubblesOf, TradesOf, Board!Active
  <2>4. Board!Placed(BubblesOf, TradesOf) \subseteq Board!Group
    BY <2>3, BoardDerives
  <2>5. overlay' \subseteq Board!Group /\ due' \in BOOLEAN
        /\ (candles => overlay' = Board!Placed(BubblesOf, TradesOf))
    BY <1>0, <2>1, <2>4
  <2>6. BoardMarkers'
    BY <2>1, <2>2, <2>5, Zenon DEF BoardInvariant, BoardMarkers
  <2>7. BoardData' /\ BoardRequests' /\ BoardSummary' /\ BoardDetails'
    BY <2>1, BoardFrames, Zenon
  <2> QED
    BY <2>6, <2>7, Zenon DEF BoardInvariant
<1>2. CASE Board!ToggleBubbles \/ Board!ToggleTrades \/ Board!TradeFocus
  <2>1. PICK b \in BOOLEAN, t \in BOOLEAN : Board!ToggleShown(b, t)
    BY <1>0, <1>2 DEF Board!ToggleBubbles, Board!ToggleTrades, Board!TradeFocus
  <2> QED
    BY <2>1, BoardToggles
<1>3. ASSUME NEW g \in Board!Markers, Board!ClickMarker(g) PROVE BoardInvariant'
  <2>1. g \in Board!Group
    BY <1>0 DEF Board!Markers
  <2>2. [candle |-> g.candle, bubbles |-> Board!VisibleBubbles(g),
         trades |-> Board!VisibleTrades(g)] \in Board!Group
    BY <2>1 DEF Board!VisibleBubbles, Board!VisibleTrades, Board!Group
  <2>3. PICK h \in Board!Group \cup {None} : Board!SelectGroup(h)
    BY <1>3, <2>2 DEF Board!ClickMarker
  <2> QED
    BY <2>3, BoardSelects
<1>4. ASSUME NEW p \in Board!PositionsShown, Board!SelectPosition(p) PROVE BoardInvariant'
  <2>1. p \in BoardPositions \cup {None}
    BY <1>0 DEF Board!PositionsShown
  <2> QED
    BY <1>4, <2>1, BoardPositioned
<1>5. CASE Board!CloseGroup
  <2>1. Board!SelectGroup(None) /\ None \in Board!Group \cup {None}
    BY <1>5 DEF Board!CloseGroup
  <2> QED
    BY <2>1, BoardSelects
<1>6. CASE Board!ClosePosition
  <2>1. Board!SelectPosition(None) /\ None \in BoardPositions \cup {None}
    BY <1>6 DEF Board!ClosePosition
  <2> QED
    BY <2>1, BoardPositioned
<1>7. ASSUME NEW t \in {"summary", "detail"}, Board!PickTab(t) PROVE BoardInvariant'
  <2>1. /\ tab' = t
        /\ UNCHANGED <<Board!data, symbol, Board!chart, filter, summaryPage, group, position,
                       bubblePage,
                       tradePage, events>>
    BY <1>7, Zenon DEF Board!PickTab
  <2>2. UNCHANGED <<stored, symbol, filter, summaryPage>>
    BY <2>1, Zenon DEF Board!data
  <2>3. BoardSummary'
    BY <2>2, BoardFrames, Zenon
  <2>4. Board!DetailBubbles' = Board!DetailBubbles /\ Board!DetailTrades' = Board!DetailTrades
    BY <2>1, Zenon DEF Board!DetailBubbles, Board!DetailTrades
  <2>5. BoardDetails'
    BY <1>7, <2>1, <2>4, Zenon DEF BoardInvariant, BoardDetails
  <2> QED
    BY <2>1, <2>3, <2>5, BoardPanelSteps, Zenon
<1>8. ASSUME NEW f \in Actions \cup {All}, Board!SetFilter(f) PROVE BoardInvariant'
  <2>1. /\ filter' = f /\ Board!Refresh(BubblesOf, TradesOf, f)
        /\ UNCHANGED <<served, positions, stored, local, trades, fetches, failed, open, symbol,
                       candles, overlay, showBubbles, showTrades, tab, group,
                       position, bubblePage, tradePage, events>>
    BY <1>8, Zenon DEF Board!SetFilter, Board!data, BubblesOf, TradesOf
  <2>2. BubblesOf' = BubblesOf /\ TradesOf' = TradesOf
    BY <2>1, Zenon DEF BubblesOf, TradesOf
  <2>3. BubblesOf \subseteq Bubbles
    BY <1>0 DEF BubblesOf, Board!Active
  <2>4. /\ summaryPage' \in 1 .. Board!PagesOf(Board!Filtered(BubblesOf, f))
        /\ due' \in BOOLEAN /\ (~ due' => ~ due)
    BY <2>1, <2>3, BoardRefreshes
  <2>5. BoardSummary'
    BY <1>8, <2>1, <2>2, <2>4, Zenon DEF BoardSummary
  <2>6. BoardMarkers'
    BY <2>1, <2>2, <2>4, Zenon DEF BoardInvariant, BoardMarkers
  <2>7. BoardData' /\ BoardRequests' /\ BoardDetails'
    BY <2>1, BoardFrames, Zenon
  <2> QED
    BY <2>5, <2>6, <2>7, Zenon DEF BoardInvariant
<1>9. CASE Board!TurnSummary
  <2>1. /\ summaryPage' \in 1 .. Board!PagesOf(Board!Filtered(BubblesOf, filter))
        /\ UNCHANGED <<Board!data, symbol, Board!chart, tab, filter, group, position,
                       bubblePage, tradePage, events>>
    BY <1>9, Zenon DEF Board!TurnSummary, BubblesOf
  <2>2. BubblesOf' = BubblesOf
    BY <2>1, Zenon DEF BubblesOf, Board!data
  <2>3. BoardSummary'
    BY <2>1, <2>2, Zenon DEF BoardInvariant, BoardSummary
  <2>4. BoardDetails'
    BY <2>1, BoardFrames, Zenon
  <2> QED
    BY <2>1, <2>3, <2>4, BoardPanelSteps, Zenon
<1>10. CASE Board!TurnBubbles \/ Board!TurnTrades
  <2>1. /\ UNCHANGED <<Board!data, symbol, Board!chart, tab, filter, summaryPage, group,
                       position, events>>
        /\ \/ bubblePage' \in 1 .. Board!PagesOf(Board!DetailBubbles) /\ tradePage' = tradePage
           \/ tradePage' \in 1 .. Board!PagesOf(Board!DetailTrades) /\ bubblePage' = bubblePage
    BY <1>10, Zenon DEF Board!TurnBubbles, Board!TurnTrades
  <2>2. UNCHANGED <<stored, symbol, filter, summaryPage>>
    BY <2>1, Zenon DEF Board!data
  <2>3. BoardSummary'
    BY <2>2, BoardFrames, Zenon
  <2>4. Board!DetailBubbles' = Board!DetailBubbles /\ Board!DetailTrades' = Board!DetailTrades
    BY <2>1, Zenon DEF Board!DetailBubbles, Board!DetailTrades
  <2>5. BoardDetails'
    BY <2>1, <2>4, Zenon DEF BoardInvariant, BoardDetails
  <2> QED
    BY <2>1, <2>3, <2>5, BoardPanelSteps, Zenon
<1> QED
  BY <1>1, <1>2, <1>3, <1>4, <1>5, <1>6, <1>7, <1>8, <1>9, <1>10, Zenon

\* Every step of the board, or of another part, keeps the invariant.
LEMMA BoardKept ==
    ASSUME BoardAssumption, BoardInvariant, [Board!Next]_Board!vars
    PROVE  BoardInvariant'
<1>1. CASE UNCHANGED Board!vars
  <2>1. UNCHANGED <<served, positions, stored, local, trades, fetches, failed, open, symbol,
                    candles, overlay, due, showBubbles, showTrades, tab, filter, summaryPage,
                    group, position, bubblePage, tradePage, events>>
    BY <1>1, Zenon DEF Board!vars, Board!data, Board!chart, Board!panel
  <2>2. BoardData' /\ BoardRequests' /\ BoardMarkers' /\ BoardSummary' /\ BoardDetails'
    BY <2>1, BoardFrames, Zenon
  <2> QED
    BY <2>2, Zenon DEF BoardInvariant
<1>2. CASE Board!Next
  BY <1>2, BoardDataKept, BoardViewKept, Zenon DEF Board!Next
<1> QED
  BY <1>1, <1>2

\* The invariant is what the property says, and types the variables.
LEMMA BoardSound ==
    ASSUME BoardAssumption, BoardInvariant PROVE Board!BoardIsSound /\ Board!TypeOK
<1>1. Board!PagesExist
  BY Zenon DEF Board!PagesExist, BoardInvariant, BoardSummary, BoardDetails, BubblesOf
<1>2. Board!MarkersFit
  BY Zenon DEF Board!MarkersFit, BoardInvariant, BoardMarkers, BubblesOf, TradesOf
<1>3. Board!TradesComplete
  <2> SUFFICES ASSUME \A f \in fetches : ~ f.live, ~ failed, NEW t \in Board!Active(served, symbol)
               PROVE  t \in trades \/ (t.spelling # symbol /\ \E u \in served : u.spelling = symbol)
    BY Zenon DEF Board!TradesComplete
  <2>1. trades = Board!Sent(symbol)
    BY Zenon DEF BoardInvariant, BoardRequests
  <2>2. t \in served
    BY DEF Board!Active
  <2>3. CASE {u \in served : u.spelling = symbol} = {}
    <3>1. trades = served
      BY <2>1, <2>3 DEF Board!Sent
    <3> QED
      BY <2>2, <3>1
  <2>4. CASE {u \in served : u.spelling = symbol} # {}
    <3>1. trades = {u \in served : u.spelling = symbol}
      BY <2>1, <2>4, Zenon DEF Board!Sent
    <3> QED
      BY <2>2, <2>4, <3>1
  <2> QED
    BY <2>3, <2>4
<1>4. {summaryPage, bubblePage, tradePage} \subseteq Nat \ {0}
  <2>1. \A n \in Nat : \A i \in 1 .. n : i \in Nat \ {0}
    OBVIOUS
  <2>2. BubblesOf \subseteq Bubbles
    BY DEF BoardInvariant, BoardData, BubblesOf, Board!Active
  <2>3. Board!DetailBubbles \subseteq Bubbles /\ Board!DetailTrades \subseteq BoardTrades
    <3>1. group \in Board!Group \cup {None}
      BY DEF BoardInvariant, BoardDetails
    <3> QED
      BY <3>1 DEF Board!DetailBubbles, Board!DetailTrades, Board!Group
  <2>4. IsFiniteSet(Board!Filtered(BubblesOf, filter)) /\ IsFiniteSet(Board!DetailBubbles) /\
            IsFiniteSet(Board!DetailTrades)
    BY <2>2, <2>3, BoardDerives
  <2>5. /\ Board!PagesOf(Board!Filtered(BubblesOf, filter)) \in Nat
        /\ Board!PagesOf(Board!DetailBubbles) \in Nat /\ Board!PagesOf(Board!DetailTrades) \in Nat
    BY <2>4, BoardPages
  <2> QED
    BY <2>1, <2>5 DEF BoardInvariant, BoardSummary, BoardDetails
<1>5. Board!TypeOK
  BY <1>4, Zenon
     DEF Board!TypeOK, BoardInvariant, BoardData, BoardRequests, BoardMarkers, BoardSummary,
         BoardDetails
<1> QED
  BY <1>1, <1>2, <1>3, <1>5 DEF Board!BoardIsSound

-----------------------------------------------------------------------------
(* The page of AI summaries *)

\* Notes, each by its symbol.
Noted == Seq(NoteSymbols \cup {None})

\* The types, and that nothing is younger than the notes of the server.
SummaryTypes ==
    /\ server \in Noted /\ notes \in Noted
    /\ on \in BOOLEAN /\ loading \in BOOLEAN /\ error \in BOOLEAN
    /\ filter \in Summaries!Filters /\ url \in Summaries!Filters
    /\ replacing \in Summaries!Filters \cup {None}
    /\ page \in Nat \ {0} /\ gen \in 0 .. MaxGens /\ turns \in 0 .. MaxTurns
    /\ version \in 0 .. MaxChanges /\ of \in 0 .. MaxChanges /\ since \in 0 .. version

\* A load is one of those asked for, and what the youngest one brings is not older than it.
LoadIs(l, g, s) ==
    /\ l \in [n : 1 .. g, at : {"sent", "done", "lost"}, notes : Noted, of : 0 .. MaxChanges]
    /\ l.n = g /\ l.at = "done" => l.of >= s

\* What every step keeps.
SummaryInvariant ==
    /\ SummaryTypes
    /\ \A l \in loads : LoadIs(l, gen, since)
    /\ Summaries!NotesAreOfRefresh

\* What the assumptions say.
LEMMA SummaryConstants ==
    ASSUME Summaries!BoundAssumption
    PROVE  /\ CardsPerPage \in Nat \ {0} /\ Slice \in Nat \ {0}
           /\ MaxGens \in Nat /\ MaxTurns \in Nat /\ MaxChanges \in Nat /\ MaxNotes \in Nat
           /\ None \notin NoteSymbols /\ All \notin NoteSymbols
BY DEF Summaries!BoundAssumption

\* The instance counts as the library does.
LEMMA SummariesCount == \A S : Summaries!Cardinality(S) = Cardinality(S)
BY DEF Summaries!Cardinality, Cardinality

\* What passes a filter is a sequence, and no longer than what there was.
LEMMA SummariesPass ==
    ASSUME NEW ns \in Noted, NEW f
    PROVE  /\ \E T : Summaries!Passing(ns, f) \in Seq(T)
           /\ Len(Summaries!Passing(ns, f)) \in Nat
           /\ Summaries!Passing(ns, f) = <<>> <=> Len(Summaries!Passing(ns, f)) = 0
<1>1. PICK S : S = {k \in DOMAIN ns : f \in {All, ns[k]}}
  OBVIOUS
<1>2. IsFiniteSet(S)
  <2>1. IsFiniteSet(1 .. Len(ns)) /\ DOMAIN ns = 1 .. Len(ns)
    BY FS_Interval DEF Noted
  <2> QED
    BY <1>1, <2>1, FS_Subset
<1>3. PICK n : n = Cardinality(S) /\ n \in Nat
  BY <1>2, FS_CardinalityType
<1>4. Summaries!Passing(ns, f) = [k \in 1 .. n |-> ns[Summaries!Nth(S, k)]]
  BY <1>1, <1>3, SummariesCount DEF Summaries!Passing, Summaries!Selected
<1>5. PICK r : r = Summaries!Passing(ns, f)
  OBVIOUS
<1>6. DOMAIN r = 1 .. n /\ Len(r) = n
  BY <1>3, <1>4, <1>5
<1>7. r = <<>> <=> n = 0
  BY <1>3, <1>4, <1>5
<1>8. PICK T : r \in [1 .. n -> T]
  <2>1. r \in [1 .. n -> {r[k] : k \in 1 .. n}]
    BY <1>4, <1>5
  <2> QED
    BY <2>1
<1>9. r \in Seq(T)
  BY <1>3, <1>8
<1> QED
  BY <1>3, <1>5, <1>6, <1>7, <1>9

\* A page of those there are has cards.
LEMMA PagesHaveCards ==
    ASSUME Summaries!BoundAssumption, NEW ns \in Noted, NEW f, NEW p \in Nat \ {0},
           p <= IF Summaries!Passing(ns, f) = <<>> THEN 1
                ELSE (Len(Summaries!Passing(ns, f)) + CardsPerPage - 1) \div CardsPerPage
    PROVE  ~ Summaries!Stranded(ns, f, p)
<1> SUFFICES ASSUME Summaries!Passing(ns, f) # <<>> PROVE Summaries!Cards(ns, f, p) # <<>>
  BY DEF Summaries!Stranded
<1>1. PICK all : all = Summaries!Passing(ns, f)
  OBVIOUS
<1>2. PICK n : n = Len(all)
  OBVIOUS
<1>3. n \in Nat \ {0}
  BY <1>1, <1>2, SummariesPass
<1>4. CardsPerPage \in Nat \ {0}
  BY SummaryConstants
<1>5. PICK q : q = (n + CardsPerPage - 1) \div CardsPerPage
  OBVIOUS
<1>6. q \in Nat /\ q * CardsPerPage <= n + CardsPerPage - 1 /\ p <= q
  BY <1>1, <1>2, <1>3, <1>4, <1>5
<1>7. (p - 1) * CardsPerPage + 1 <= n
  <2>1. PICK r \in Nat : r = q - p
    BY <1>6
  <2>2. r * CardsPerPage >= 0
    BY <1>4, <2>1
  <2>3. q * CardsPerPage = (p - 1) * CardsPerPage + CardsPerPage + r * CardsPerPage
    BY <1>4, <1>6, <2>1
  <2>4. (p - 1) * CardsPerPage \in Int /\ r * CardsPerPage \in Int /\ q * CardsPerPage \in Int
    BY <1>4, <1>6, <2>1
  <2> QED
    BY <1>3, <1>4, <1>6, <2>2, <2>3, <2>4
<1>8. PICK a : a = (p - 1) * CardsPerPage + 1
  OBVIOUS
<1>9. PICK b : b = IF p * CardsPerPage < n THEN p * CardsPerPage ELSE n
  OBVIOUS
<1>10. p * CardsPerPage = (p - 1) * CardsPerPage + CardsPerPage /\ (p - 1) * CardsPerPage \in Nat
  BY <1>4
<1>11. a \in Nat /\ b \in Nat /\ a <= b
  BY <1>3, <1>4, <1>7, <1>8, <1>9, <1>10
<1>12. Summaries!Cards(ns, f, p) = SubSeq(all, a, b)
  BY <1>1, <1>2, <1>8, <1>9 DEF Summaries!Cards
<1>13. PICK T : all \in Seq(T)
  BY <1>1, SummariesPass
<1>14. Len(SubSeq(all, a, b)) = 1 + b - a
  <2>1. b <= n /\ a \in Nat \ {0}
    BY <1>3, <1>4, <1>8, <1>9, <1>10
  <2> QED
    BY <1>2, <1>11, <1>13, <2>1
<1>15. Len(<<>>) = 0 /\ 1 + b - a # 0
  BY <1>11
<1> QED
  BY <1>12, <1>14, <1>15, Zenon

\* A page that is opened satisfies the invariant.
LEMMA SummariesStart == Summaries!BoundAssumption /\ Summaries!Init => SummaryInvariant
<1> SUFFICES ASSUME Summaries!BoundAssumption, Summaries!Init PROVE SummaryInvariant
  OBVIOUS
<1>1. /\ server = <<>> /\ version = 0 /\ on = FALSE
      /\ notes = <<>> /\ of = 0 /\ loading = FALSE /\ error = FALSE
      /\ filter = All /\ page = 1 /\ gen = 0 /\ since = 0
      /\ url = All /\ replacing = None /\ loads = {} /\ turns = 0
  BY Zenon DEF Summaries!Init
<1>2. on \in BOOLEAN /\ loading \in BOOLEAN /\ error \in BOOLEAN
  BY <1>1
<1>3. server \in Noted /\ notes \in Noted
  BY <1>1 DEF Noted
<1>4. /\ filter \in Summaries!Filters /\ url \in Summaries!Filters
      /\ replacing \in Summaries!Filters \cup {None}
      /\ page \in Nat \ {0} /\ gen \in 0 .. MaxGens /\ turns \in 0 .. MaxTurns
      /\ version \in 0 .. MaxChanges /\ of \in 0 .. MaxChanges /\ since \in 0 .. version
  BY <1>1, SummaryConstants DEF Summaries!Filters
<1>5. SummaryTypes
  BY <1>2, <1>3, <1>4, Zenon DEF SummaryTypes
<1> QED
  BY <1>1, <1>5 DEF SummaryInvariant, Summaries!NotesAreOfRefresh

\* Numbers of the invariant, for arithmetic.
LEMMA SummaryNumbers ==
    ASSUME Summaries!BoundAssumption, SummaryInvariant
    PROVE  /\ gen \in Nat /\ gen <= MaxGens /\ version \in Nat /\ version <= MaxChanges
           /\ of \in Nat /\ of <= MaxChanges /\ since \in Nat /\ since <= version
           /\ turns \in Nat /\ turns <= MaxTurns /\ page \in Nat \ {0}
           /\ MaxGens \in Nat /\ MaxTurns \in Nat /\ MaxChanges \in Nat
BY SummaryConstants DEF SummaryInvariant, SummaryTypes

\* A load is asked for: it is the youngest now, and on its way.
LEMMA SummariesAsk ==
    ASSUME Summaries!BoundAssumption, SummaryInvariant, Summaries!LoadNotes
    PROVE  /\ gen' \in 0 .. MaxGens /\ since' = version /\ loading' = TRUE /\ error' = FALSE
           /\ loading' \in BOOLEAN /\ error' \in BOOLEAN /\ since' \in 0 .. version
           /\ \A l \in loads' : LoadIs(l, gen', since')
<1>1. /\ gen < MaxGens /\ gen' = gen + 1
      /\ loads' = loads \cup {Summaries!Load(gen + 1)}
      /\ loading' = TRUE /\ error' = FALSE /\ since' = version
  BY Zenon DEF Summaries!LoadNotes
<1>2. /\ gen \in Nat /\ gen <= MaxGens /\ version \in Nat /\ MaxGens \in Nat /\ MaxChanges \in Nat
  BY SummaryNumbers
<1>3. ASSUME NEW l \in loads PROVE LoadIs(l, gen', since')
  <2>1. LoadIs(l, gen, since)
    BY DEF SummaryInvariant
  <2> QED
    BY <1>1, <1>2, <2>1 DEF LoadIs
<1>4. LoadIs(Summaries!Load(gen + 1), gen', since')
  <2>1. PICK l : l = Summaries!Load(gen + 1)
    OBVIOUS
  <2>2. l = [n |-> gen + 1, at |-> "sent", notes |-> <<>>, of |-> 0]
    BY <2>1 DEF Summaries!Load
  <2>3. <<>> \in Noted
    BY DEF Noted
  <2>4. LoadIs(l, gen', since')
    BY <1>1, <1>2, <2>2, <2>3 DEF LoadIs
  <2> QED
    BY <2>1, <2>4
<1>5. \A l \in loads' : LoadIs(l, gen', since')
  BY <1>1, <1>3, <1>4
<1>6. loading' \in BOOLEAN /\ error' \in BOOLEAN
  BY <1>1
<1>7. gen' \in 0 .. MaxGens /\ since' \in 0 .. version
  BY <1>1, <1>2
<1> QED
  BY <1>1, <1>5, <1>6, <1>7

\* A load with another state, and what it brings.
LEMMA SummariesBring ==
    ASSUME NEW g, NEW s, NEW l, LoadIs(l, g, s), NEW a, NEW ns, NEW v
    PROVE  [l EXCEPT !.at = a, !.notes = ns, !.of = v] =
               [n |-> l.n, at |-> a, notes |-> ns, of |-> v]
<1> DEFINE x == [l EXCEPT !.at = a]
           y == [x EXCEPT !.notes = ns]
<1>1. PICK n, b, ms, w : n = l.n /\ l = [n |-> n, at |-> b, notes |-> ms, of |-> w]
  BY DEF LoadIs
<1>2. x = [n |-> n, at |-> a, notes |-> ms, of |-> w]
  BY <1>1
<1>3. [l EXCEPT !.at = a, !.notes = ns, !.of = v] = [y EXCEPT !.of = v]
  OBVIOUS
<1> HIDE DEF x
<1>4. y = [n |-> n, at |-> a, notes |-> ns, of |-> w]
  BY <1>2
<1> HIDE DEF y
<1>5. [y EXCEPT !.of = v] = [n |-> n, at |-> a, notes |-> ns, of |-> v]
  BY <1>4
<1> QED
  BY <1>1, <1>3, <1>5

\* A load is handled or lost on its way.
LEMMA SummariesCarried ==
    ASSUME Summaries!BoundAssumption, SummaryInvariant, NEW l \in loads,
           Summaries!Handled(l) \/ Summaries!Lost(l)
    PROVE  SummaryInvariant'
<1>1. LoadIs(l, gen, since) /\ version \in 0 .. MaxChanges /\ since \in 0 .. version /\
          server \in Noted
  BY Zenon DEF SummaryInvariant, SummaryTypes
<1>2. UNCHANGED <<server, version, on, notes, of, loading, error, filter, page, gen, since,
                  url, replacing, turns>>
  BY Zenon DEF Summaries!Handled, Summaries!Lost, Summaries!list, Summaries!address
<1>3. PICK h : /\ loads' = (loads \ {l}) \cup {h}
               /\ \/ h = [n |-> l.n, at |-> "done", notes |-> server, of |-> version]
                  \/ h = [n |-> l.n, at |-> "lost", notes |-> <<>>, of |-> 0]
  <2>1. CASE Summaries!Handled(l)
    <3>1. loads' = (loads \ {l}) \cup {[l EXCEPT !.at = "done", !.notes = server, !.of = version]}
      BY <2>1, Zenon DEF Summaries!Handled
    <3>2. loads' = (loads \ {l}) \cup {[n |-> l.n, at |-> "done", notes |-> server, of |-> version]}
      BY <1>1, <3>1, SummariesBring, Zenon
    <3> QED
      BY <3>2
  <2>2. CASE Summaries!Lost(l)
    <3>1. loads' = (loads \ {l}) \cup {[l EXCEPT !.at = "lost", !.notes = <<>>, !.of = 0]}
      BY <2>2, Zenon DEF Summaries!Lost
    <3>2. loads' = (loads \ {l}) \cup {[n |-> l.n, at |-> "lost", notes |-> <<>>, of |-> 0]}
      BY <1>1, <3>1, SummariesBring, Zenon
    <3> QED
      BY <3>2
  <2> QED
    BY <2>1, <2>2
<1>4. LoadIs(h, gen, since)
  <2>1. l.n \in 1 .. gen /\ <<>> \in Noted /\ 0 \in 0 .. MaxChanges /\ version >= since
    BY <1>1, SummaryNumbers DEF LoadIs, Noted
  <2>2. h.n = l.n /\ h \in
            [n : 1 .. gen, at : {"sent", "done", "lost"}, notes : Noted, of : 0 .. MaxChanges]
    BY <1>1, <1>3, <2>1
  <2>3. h.at = "done" => h.of = version
    BY <1>3
  <2> QED
    BY <2>1, <2>2, <2>3 DEF LoadIs
<1>5. \A k \in loads' : LoadIs(k, gen', since')
  BY <1>2, <1>3, <1>4 DEF SummaryInvariant
<1> QED
  BY <1>2, <1>5, Zenon DEF SummaryInvariant, SummaryTypes, Summaries!NotesAreOfRefresh

\* A load arrives: if it is the youngest one, what it brings is no older than the refresh.
LEMMA SummariesArrive ==
    ASSUME Summaries!BoundAssumption, SummaryInvariant, NEW l \in loads, Summaries!Arrives(l)
    PROVE  SummaryInvariant'
<1>1. /\ Summaries!Failed(l) \/ Summaries!Loaded(l) \/ Summaries!Ignored(l)
      /\ loads' = loads \ {l}
      /\ UNCHANGED <<server, version, on, filter, page, gen, since, url, replacing, turns>>
  BY Zenon DEF Summaries!Arrives, Summaries!address
<1>2. LoadIs(l, gen, since) /\ notes \in Noted /\ loading \in BOOLEAN /\ error \in BOOLEAN /\
          of \in 0 .. MaxChanges
  BY Zenon DEF SummaryInvariant, SummaryTypes
<1>3. \A k \in loads' : LoadIs(k, gen', since')
  BY <1>1 DEF SummaryInvariant
<1>4. ASSUME notes' \in Noted, of' \in 0 .. MaxChanges, loading' \in BOOLEAN, error' \in BOOLEAN,
             Summaries!NotesAreOfRefresh'
      PROVE  SummaryInvariant'
  BY <1>1, <1>3, <1>4, Zenon DEF SummaryInvariant, SummaryTypes
<1>5. CASE Summaries!Failed(l)
  <2>1. error' = TRUE /\ loading' = FALSE /\ notes' = notes /\ of' = of
    BY <1>5, Zenon DEF Summaries!Failed
  <2>2. error' \in BOOLEAN /\ loading' \in BOOLEAN
    BY <2>1
  <2> QED
    BY <1>2, <1>4, <2>1, <2>2, Zenon DEF Summaries!NotesAreOfRefresh
<1>6. CASE Summaries!Loaded(l)
  <2>1. /\ l.at = "done" /\ l.n = gen /\ of' = l.of /\ loading' = FALSE /\ error' = error
        /\ notes' = SubSeq(l.notes, 1, IF Len(l.notes) < Slice THEN Len(l.notes) ELSE Slice)
    BY <1>6, Zenon DEF Summaries!Loaded, Summaries!Counts
  <2>2. l.notes \in Noted /\ l.of \in 0 .. MaxChanges /\ l.of >= since
    BY <1>2, <2>1 DEF LoadIs
  <2>3. notes' \in Noted
    <3>1. Slice \in Nat
      BY SummaryConstants
    <3>2. PICK n : n = IF Len(l.notes) < Slice THEN Len(l.notes) ELSE Slice
      OBVIOUS
    <3>3. n \in 0 .. Len(l.notes)
      BY <2>2, <3>1, <3>2 DEF Noted
    <3> QED
      BY <2>1, <2>2, <3>2, <3>3 DEF Noted
  <2>4. loading' \in BOOLEAN
    BY <2>1
  <2>5. Summaries!NotesAreOfRefresh'
    BY <1>1, <2>1, <2>2 DEF Summaries!NotesAreOfRefresh
  <2> QED
    BY <1>2, <1>4, <2>1, <2>2, <2>3, <2>4, <2>5, Zenon
<1>7. CASE Summaries!Ignored(l)
  <2>1. UNCHANGED <<notes, of, loading, error>>
    BY <1>7, Zenon DEF Summaries!Ignored, Summaries!list
  <2>2. Summaries!NotesAreOfRefresh'
    BY <1>1, <2>1, Zenon DEF SummaryInvariant, Summaries!NotesAreOfRefresh
  <2> QED
    BY <1>2, <1>4, <2>1, <2>2, Zenon
<1> QED
  BY <1>1, <1>5, <1>6, <1>7

\* The server, and the screen that opens, is left or refreshed.
LEMMA SummariesTurn ==
    ASSUME Summaries!BoundAssumption, SummaryInvariant,
           Summaries!Changes \/ Summaries!Leave \/ Summaries!Refresh \/
               \E u \in Summaries!Filters : Summaries!Open(u)
    PROVE  SummaryInvariant'
<1>0. /\ server \in Noted /\ notes \in Noted /\ version \in 0 .. MaxChanges
      /\ since \in 0 .. version
      /\ of \in 0 .. MaxChanges /\ on \in BOOLEAN
      /\ version \in Nat /\ MaxChanges \in Nat
  BY SummaryNumbers, Zenon DEF SummaryInvariant, SummaryTypes
<1>1. CASE Summaries!Changes
  <2>1. /\ version < MaxChanges /\ version' = version + 1
        /\ \/ \E s \in NoteSymbols \cup {None} : server' = <<s>> \o server
           \/ \E k \in DOMAIN server : server' = Summaries!RemoveAt(server, k)
        /\ UNCHANGED <<on, notes, of, loading, error, filter, page, gen, since, url, replacing,
                       loads, turns>>
    BY <1>1, Zenon DEF Summaries!Changes, Summaries!list, Summaries!address
  <2>2. server' \in Noted
    <3>1. ASSUME NEW s \in NoteSymbols \cup {None} PROVE <<s>> \o server \in Noted
      BY <1>0 DEF Noted
    <3>2. ASSUME NEW k \in DOMAIN server PROVE Summaries!RemoveAt(server, k) \in Noted
      <4>1. k \in 1 .. Len(server) /\ Len(server) \in Nat
        BY <1>0 DEF Noted
      <4>2. SubSeq(server, 1, k - 1) \in Noted /\ SubSeq(server, k + 1, Len(server)) \in Noted
        BY <1>0, <4>1 DEF Noted
      <4> QED
        BY <4>2 DEF Summaries!RemoveAt, Noted
    <3> QED
      BY <2>1, <3>1, <3>2
  <2>3. version' \in 0 .. MaxChanges /\ since \in 0 .. version'
    BY <1>0, <2>1
  <2>4. SummaryTypes'
    BY <2>1, <2>2, <2>3, Zenon DEF SummaryInvariant, SummaryTypes
  <2> QED
    BY <2>1, <2>4, Zenon DEF SummaryInvariant, Summaries!NotesAreOfRefresh
<1>2. CASE Summaries!Leave
  <2>1. /\ on' = FALSE /\ replacing' = None
        /\ UNCHANGED <<server, version, notes, of, loading, error, filter, page, gen, since,
                       url, loads, turns>>
    BY <1>2, Zenon DEF Summaries!Leave, Summaries!list
  <2>2. on' \in BOOLEAN /\ replacing' \in Summaries!Filters \cup {None}
    BY <2>1
  <2>3. SummaryTypes'
    BY <2>1, <2>2, Zenon DEF SummaryInvariant, SummaryTypes
  <2> QED
    BY <2>1, <2>3, Zenon DEF SummaryInvariant, Summaries!NotesAreOfRefresh
<1>3. CASE Summaries!Refresh
  <2>1. /\ Summaries!LoadNotes
        /\ UNCHANGED <<server, version, on, notes, of, filter, page, url, replacing, turns>>
    BY <1>3, Zenon DEF Summaries!Refresh, Summaries!address
  <2>2. /\ gen' \in 0 .. MaxGens /\ loading' = TRUE
        /\ loading' \in BOOLEAN /\ error' \in BOOLEAN /\ since' \in 0 .. version
        /\ \A l \in loads' : LoadIs(l, gen', since')
    BY <2>1, SummariesAsk
  <2>3. SummaryTypes'
    BY <2>1, <2>2, Zenon DEF SummaryInvariant, SummaryTypes
  <2> QED
    BY <2>2, <2>3, Zenon DEF SummaryInvariant, Summaries!NotesAreOfRefresh
<1>4. ASSUME NEW u \in Summaries!Filters, Summaries!Open(u) PROVE SummaryInvariant'
  <2>1. /\ on' = TRUE /\ Summaries!LoadNotes
        /\ notes' = <<>> /\ of' = 0 /\ page' = 1
        /\ url' = u /\ filter' = u /\ replacing' = None
        /\ UNCHANGED <<server, version, turns>>
    BY <1>4, Zenon DEF Summaries!Open
  <2>2. /\ gen' \in 0 .. MaxGens /\ loading' = TRUE
        /\ loading' \in BOOLEAN /\ error' \in BOOLEAN /\ since' \in 0 .. version
        /\ \A l \in loads' : LoadIs(l, gen', since')
    BY <2>1, SummariesAsk
  <2>3. on' \in BOOLEAN /\ notes' \in Noted /\ of' \in 0 .. MaxChanges /\ page' \in Nat \ {0}
    <3>1. on' \in BOOLEAN
      BY <2>1
    <3> QED
      BY <1>0, <2>1, <3>1 DEF Noted
  <2>4. url' \in Summaries!Filters /\ filter' \in Summaries!Filters /\
            replacing' \in Summaries!Filters \cup {None}
    BY <1>4, <2>1
  <2>5. SummaryTypes'
    BY <2>1, <2>2, <2>3, <2>4, Zenon DEF SummaryInvariant, SummaryTypes
  <2> QED
    BY <2>2, <2>5, Zenon DEF SummaryInvariant, Summaries!NotesAreOfRefresh
<1> QED
  BY <1>1, <1>2, <1>3, <1>4

\* The page the reader goes to is one there is.
LEMMA SummariesGo ==
    ASSUME Summaries!BoundAssumption, SummaryInvariant, NEW p \in 0 .. MaxNotes + 1,
           Summaries!GoTo(p)
    PROVE  /\ UNCHANGED <<server, version, on, notes, of, loading, error, filter, gen, since, url,
                          replacing, loads, turns>>
           /\ page' \in Nat \ {0} /\ page' <= Summaries!TotalPages
<1>1. /\ Summaries!TotalPages > 1
      /\ page' = (IF p > Summaries!TotalPages THEN Summaries!TotalPages ELSE IF p < 1 THEN 1 ELSE p)
      /\ UNCHANGED <<server, version, on, notes, of, loading, error, filter, gen, since, url,
                     replacing, loads, turns>>
  BY Zenon DEF Summaries!GoTo, Summaries!Pager, Summaries!list, Summaries!address
<1>2. Summaries!TotalPages \in Int
  <2>1. Len(Summaries!Filtered) \in Nat
    BY SummariesPass, Zenon DEF Summaries!Filtered, SummaryInvariant, SummaryTypes
  <2>2. PICK n : n = Len(Summaries!Filtered)
    OBVIOUS
  <2>3. Summaries!TotalPages = IF Summaries!Filtered = <<>> THEN 1
                               ELSE (n + CardsPerPage - 1) \div CardsPerPage
    BY <2>2, Zenon DEF Summaries!TotalPages
  <2>4. (n + CardsPerPage - 1) \div CardsPerPage \in Int
    BY <2>1, <2>2, SummaryConstants
  <2> QED
    BY <2>3, <2>4
<1>3. p \in Nat
  BY SummaryConstants
<1>4. PICK t : t = Summaries!TotalPages
  OBVIOUS
<1>5. page' \in Nat \ {0} /\ page' <= t
  BY <1>1, <1>2, <1>3, <1>4
<1> QED
  BY <1>1, <1>4, <1>5

\* The filter, the address and the page change; summaries and loads stay.
LEMMA SummariesSteer ==
    ASSUME Summaries!BoundAssumption, SummaryInvariant,
           \/ \E u \in Summaries!Filters : Summaries!Choose(u) \/ Summaries!Follow(u)
           \/ Summaries!Replaced
           \/ \E p \in 0 .. MaxNotes + 1 : Summaries!GoTo(p)
    PROVE  SummaryInvariant'
<1>0. /\ filter \in Summaries!Filters /\ url \in Summaries!Filters
      /\ replacing \in Summaries!Filters \cup {None} /\ turns \in 0 .. MaxTurns
      /\ page \in Nat \ {0}
  BY Zenon DEF SummaryInvariant, SummaryTypes
<1>1. ASSUME UNCHANGED <<server, version, on, notes, of, loading, error, gen, since, loads>>,
             filter' \in Summaries!Filters, url' \in Summaries!Filters,
             replacing' \in Summaries!Filters \cup {None}, turns' \in 0 .. MaxTurns,
             page' \in Nat \ {0}
      PROVE  SummaryInvariant'
  <2>1. SummaryTypes'
    BY <1>1, Zenon DEF SummaryInvariant, SummaryTypes
  <2> QED
    BY <1>1, <2>1, Zenon DEF SummaryInvariant, Summaries!NotesAreOfRefresh
<1>2. Summaries!Turn => turns' \in 0 .. MaxTurns
  BY SummaryNumbers DEF Summaries!Turn
<1>3. \A f, u \in Summaries!Filters : Summaries!Synced(f, u) \in Summaries!Filters \cup {None}
  BY DEF Summaries!Synced
<1>4. ASSUME NEW u \in Summaries!Filters, Summaries!Choose(u) PROVE SummaryInvariant'
  <2>1. /\ Summaries!Turn /\ filter' = u /\ page' = 1
        /\ replacing' = (IF url = u THEN replacing ELSE Summaries!Synced(u, url))
        /\ UNCHANGED <<server, version, on, notes, of, loading, error, gen, since, url, loads>>
    BY <1>4, Zenon DEF Summaries!Choose, Summaries!list
  <2>2. /\ filter' \in Summaries!Filters /\ url' \in Summaries!Filters /\ page' \in Nat \ {0}
        /\ replacing' \in Summaries!Filters \cup {None}
    BY <1>0, <1>3, <2>1
  <2> QED
    BY <1>1, <1>2, <2>1, <2>2
<1>5. ASSUME NEW u \in Summaries!Filters, Summaries!Follow(u) PROVE SummaryInvariant'
  <2>1. /\ Summaries!Turn /\ url' = u /\ replacing' = Summaries!Synced(filter, u)
        /\ UNCHANGED <<server, version, on, notes, of, loading, error, filter, page, gen,
                       since, loads>>
    BY <1>5, Zenon DEF Summaries!Follow, Summaries!list
  <2>2. /\ filter' \in Summaries!Filters /\ url' \in Summaries!Filters /\ page' \in Nat \ {0}
        /\ replacing' \in Summaries!Filters \cup {None}
    BY <1>0, <1>3, <2>1
  <2> QED
    BY <1>1, <1>2, <2>1, <2>2
<1>6. CASE Summaries!Replaced
  <2>1. /\ replacing # None /\ url' = replacing /\ replacing' = Summaries!Synced(filter, replacing)
        /\ UNCHANGED <<server, version, on, notes, of, loading, error, filter, page, gen,
                       since, loads, turns>>
    BY <1>6, Zenon DEF Summaries!Replaced, Summaries!list
  <2>2. replacing \in Summaries!Filters
    BY <1>0, <2>1
  <2>3. /\ filter' \in Summaries!Filters /\ url' \in Summaries!Filters /\ page' \in Nat \ {0}
        /\ replacing' \in Summaries!Filters \cup {None} /\ turns' \in 0 .. MaxTurns
    BY <1>0, <1>3, <2>1, <2>2
  <2> QED
    BY <1>1, <2>1, <2>3
<1>7. ASSUME NEW p \in 0 .. MaxNotes + 1, Summaries!GoTo(p) PROVE SummaryInvariant'
  <2>1. /\ UNCHANGED <<server, version, on, notes, of, loading, error, filter, gen, since, url,
                       replacing, loads, turns>>
        /\ page' \in Nat \ {0}
    BY <1>7, SummariesGo
  <2>2. /\ filter' \in Summaries!Filters /\ url' \in Summaries!Filters
        /\ replacing' \in Summaries!Filters \cup {None} /\ turns' \in 0 .. MaxTurns
    BY <1>0, <2>1
  <2> QED
    BY <1>1, <2>1, <2>2
<1> QED
  BY <1>4, <1>5, <1>6, <1>7

\* Every step of the page, or of another part, keeps the invariant.
LEMMA SummariesKept ==
    ASSUME Summaries!BoundAssumption, SummaryInvariant, [Summaries!Next]_Summaries!vars
    PROVE  SummaryInvariant'
<1>1. CASE UNCHANGED Summaries!vars
  <2>1. UNCHANGED <<server, version, on, notes, of, loading, error, filter, page, gen, since, url,
                    replacing, loads, turns>>
    BY <1>1, Zenon DEF Summaries!vars, Summaries!list, Summaries!address
  <2>2. SummaryTypes'
    BY <2>1, Zenon DEF SummaryInvariant, SummaryTypes
  <2> QED
    BY <2>1, <2>2, Zenon DEF SummaryInvariant, Summaries!NotesAreOfRefresh
<1>2. CASE Summaries!Next
  BY <1>2, SummariesCarried, SummariesArrive, SummariesTurn, SummariesSteer, Zenon
     DEF Summaries!Next
<1> QED
  BY <1>1, <1>2

\* Only a load leaves the reader on a page without cards.
LEMMA SummariesKeepCards ==
    ASSUME Summaries!BoundAssumption, SummaryInvariant, [Summaries!Next]_Summaries!vars
    PROVE  Summaries!KeepsCards
<1> SUFFICES ASSUME on, on', ~ Summaries!Stranded(notes, filter, page),
                    Summaries!Stranded(notes', filter', page')
             PROVE  \E l \in loads : Summaries!Loaded(l)
  BY DEF Summaries!KeepsCards
<1>0. notes \in Noted /\ page \in Nat \ {0} /\ CardsPerPage \in Nat \ {0}
  BY SummaryConstants DEF SummaryInvariant, SummaryTypes
<1>1. ~ UNCHANGED <<notes, filter, page>>
  OBVIOUS
<1>2. CASE UNCHANGED Summaries!vars
  BY <1>1, <1>2, Zenon DEF Summaries!vars, Summaries!list
<1>3. CASE Summaries!Changes \/ Summaries!Leave \/ Summaries!Refresh \/ Summaries!Replaced
  BY <1>1, <1>3, Zenon
     DEF Summaries!Changes, Summaries!Leave, Summaries!Refresh, Summaries!Replaced,
         Summaries!list
<1>4. ASSUME NEW l \in loads, Summaries!Handled(l) \/ Summaries!Lost(l) PROVE FALSE
  BY <1>1, <1>4, Zenon DEF Summaries!Handled, Summaries!Lost, Summaries!list
<1>5. ASSUME NEW l \in loads, Summaries!Arrives(l) PROVE Summaries!Loaded(l)
  BY <1>1, <1>5, Zenon
     DEF Summaries!Arrives, Summaries!Failed, Summaries!Ignored, Summaries!list
<1>6. ASSUME NEW u \in Summaries!Filters, Summaries!Open(u) \/ Summaries!Follow(u) PROVE FALSE
  BY <1>1, <1>6, Zenon DEF Summaries!Open, Summaries!Follow, Summaries!list
<1>7. ASSUME NEW u \in Summaries!Filters, Summaries!Choose(u) PROVE FALSE
  <2>1. notes' = notes /\ filter' = u /\ page' = 1
    BY <1>7, Zenon DEF Summaries!Choose, Summaries!list
  <2>2. PICK n : n = Len(Summaries!Passing(notes, u))
    OBVIOUS
  <2>3. n \in Nat /\ (Summaries!Passing(notes, u) # <<>> => n # 0)
    BY <1>0, <2>2, SummariesPass
  <2>4. Summaries!Passing(notes, u) # <<>> => (n + CardsPerPage - 1) \div CardsPerPage >= 1
    BY <1>0, <2>3
  <2>5. 1 <= IF Summaries!Passing(notes, u) = <<>> THEN 1
             ELSE (Len(Summaries!Passing(notes, u)) + CardsPerPage - 1) \div CardsPerPage
    BY <2>2, <2>4
  <2>6. ~ Summaries!Stranded(notes, u, 1)
    BY <1>0, <2>5, PagesHaveCards
  <2> QED
    BY <2>1, <2>6
<1>8. ASSUME NEW p \in 0 .. MaxNotes + 1, Summaries!GoTo(p) PROVE FALSE
  <2>1. notes' = notes /\ filter' = filter /\ page' \in Nat \ {0} /\ page' <= Summaries!TotalPages
    BY <1>8, SummariesGo
  <2>2. PICK q : q = page'
    OBVIOUS
  <2>3. q <= IF Summaries!Passing(notes, filter) = <<>> THEN 1
             ELSE (Len(Summaries!Passing(notes, filter)) + CardsPerPage - 1) \div CardsPerPage
    BY <2>1, <2>2, Zenon DEF Summaries!TotalPages, Summaries!Filtered
  <2>4. ~ Summaries!Stranded(notes, filter, q)
    BY <1>0, <2>1, <2>2, <2>3, PagesHaveCards
  <2> QED
    BY <2>1, <2>2, <2>4
<1> QED
  BY <1>2, <1>3, <1>4, <1>5, <1>6, <1>7, <1>8, Zenon DEF Summaries!Next

\* The invariant types the variables.
LEMMA SummariesSound ==
    ASSUME Summaries!BoundAssumption, SummaryInvariant
    PROVE  Summaries!NotesAreOfRefresh /\ Summaries!TypeOK
<1>1. {on, loading, error} \subseteq BOOLEAN
  BY DEF SummaryInvariant, SummaryTypes
<1>2. {version, of, since} \subseteq 0 .. MaxChanges
  BY SummaryNumbers
<1>3. \A l \in loads : l \in
          [n : 1 .. gen, at : {"sent", "done", "lost"}, notes : Noted, of : 0 .. MaxChanges]
  BY DEF SummaryInvariant, LoadIs
<1> QED
  BY <1>1, <1>2, <1>3, Zenon DEF SummaryInvariant, SummaryTypes, Summaries!TypeOK, Noted

-----------------------------------------------------------------------------
(* The store of the review *)

\* What the store of the review assumes of its constants.
FetchAssumption == Fetches!BoundAssumption /\ Fetches!NoneAssumption

\* The types, and what is known of requests and of the screens.
FetchTypes ==
    /\ screen \in {"home", "review", "away"} /\ filters \in Fetches!Filters
    /\ data \in [Fetches!Kinds -> Fetches!Answers \cup {None}]
    /\ \A k \in Fetches!Kinds : data[k] # None => 1 <= data[k].n /\ data[k].n <= last[k]
    /\ busy \in [Fetches!Flags -> BOOLEAN] /\ trend \in BOOLEAN /\ updated \in BOOLEAN
    /\ wire \subseteq [k : Fetches!Kinds, of : Fetches!Filters, n : Nat]
    /\ \A r \in wire : 1 <= r.n /\ r.n <= last[r.k]
    /\ gate \subseteq wire /\ failed \subseteq Fetches!Kinds
    /\ asks \in 0 .. MaxAsks + 1 /\ fails \in 0 .. MaxFails
    /\ last \in [Fetches!Kinds -> 0 .. asks]
    /\ screen # "home" => gate = {}
    /\ trend => screen = "review"

\* The last request of a kind, and its answer, are of the filters that are set.
LastIsOfFilters ==
    screen # "away" =>
        \A k \in Fetches!Kept :
            /\ \A r \in wire : r.k = k /\ r.n = last[k] => r.of = Fetches!Params(k, filters)
            /\ data[k] # None /\ data[k].n = last[k] => data[k].of = Fetches!Params(k, filters)

\* Accuracy and trend are not awaited any more where they are called missing.
NoneIsAwaited ==
    \A k \in {"accuracy", "trend"} :
        ~ busy[k] /\ data[k] = None /\ k \notin failed => \A r \in wire : r.k # k

\* What the home screen waits for is there, has failed, or is among the requests it waits for.
GateHasRest ==
    screen = "home" =>
        \A k \in Fetches!OnHome :
            /\ data[k] # None \/ k \in failed \/ \E r \in gate : r.k = k
            /\ updated => data[k] # None \/ k \in failed

\* What every step of the store keeps.
FetchInvariant == FetchTypes /\ LastIsOfFilters /\ NoneIsAwaited /\ GateHasRest

\* What a request is for is a choice of filters.
LEMMA ParamsAreFilters ==
    ASSUME NEW k, NEW f \in Fetches!Filters PROVE Fetches!Params(k, f) \in Fetches!Filters
BY DEF Fetches!Params, Fetches!Filters, Fetches!Periods, Fetches!Texts, Fetches!Venue

\* What a request that is made is.
LEMMA RequestsAre ==
    ASSUME FetchTypes, NEW ks, ks \subseteq Fetches!Kinds, NEW times \in {1, 2},
           NEW f \in Fetches!Filters
    PROVE  /\ \A r \in Fetches!Requests(ks, times, f) :
                /\ r \in [k : Fetches!Kinds, of : Fetches!Filters, n : Nat]
                /\ r.k \in ks /\ r.of = Fetches!Params(r.k, f)
                /\ asks + 1 <= r.n /\ r.n <= asks + times
           /\ \A k \in ks : \E r \in Fetches!Requests(ks, times, f) : r.k = k
<1>1. asks \in Int /\ asks >= 0
  BY DEF FetchTypes
<1>2. ASSUME NEW r \in Fetches!Requests(ks, times, f)
      PROVE  /\ r \in [k : Fetches!Kinds, of : Fetches!Filters, n : Nat]
             /\ r.k \in ks /\ r.of = Fetches!Params(r.k, f)
             /\ asks + 1 <= r.n /\ r.n <= asks + times
  <2>1. PICK k \in ks, n \in asks + 1 .. asks + times :
                 r = [k |-> k, of |-> Fetches!Params(k, f), n |-> n]
    BY <1>2 DEF Fetches!Requests
  <2>2. n \in Nat /\ asks + 1 <= n /\ n <= asks + times
    BY <1>1
  <2>3. k \in Fetches!Kinds /\ Fetches!Params(k, f) \in Fetches!Filters
    BY ParamsAreFilters
  <2> QED
    BY <2>1, <2>2, <2>3
<1>3. ASSUME NEW k \in ks PROVE \E r \in Fetches!Requests(ks, times, f) : r.k = k
  <2>1. asks + 1 \in asks + 1 .. asks + times
    BY <1>1
  <2>2. [k |-> k, of |-> Fetches!Params(k, f), n |-> asks + 1] \in Fetches!Requests(ks, times, f)
    BY <2>1 DEF Fetches!Requests
  <2> QED
    BY <2>2
<1> QED
  BY <1>2, <1>3

\* What asking does to the requests, their numbers and the flags.
AskedFor(ks, times, f, w) ==
    /\ asks' \in 0 .. MaxAsks + 1
    /\ last' \in [Fetches!Kinds -> 0 .. asks']
    /\ \A k \in Fetches!Kinds : last[k] <= last'[k] /\ (k \notin ks => last'[k] = last[k])
    /\ \A k \in ks : last'[k] > last[k] /\ last'[k] > asks
    /\ wire' = w \cup Fetches!Requests(ks, times, f)
    /\ wire' \subseteq [k : Fetches!Kinds, of : Fetches!Filters, n : Nat]
    /\ \A r \in wire' : 1 <= r.n /\ r.n <= last'[r.k]
    /\ \A r \in wire' : r.k \in ks /\ r.n = last'[r.k] => r.of = Fetches!Params(r.k, f)
    /\ \A r \in wire' : r.k \notin ks => r \in w
    /\ busy' \in [Fetches!Flags -> BOOLEAN]
    /\ \A b \in Fetches!Flags : busy[b] => busy'[b]
    /\ \A k \in {"accuracy", "trend"} : k \in ks => busy'[k]

\* Requests of different kinds are made, each as the last one of its kind.
LEMMA Asking ==
    ASSUME FetchAssumption, FetchTypes, NEW ks, ks \subseteq Fetches!Kinds, NEW times \in {1, 2},
           NEW f \in Fetches!Filters, NEW w, w \subseteq wire, Fetches!Ask(ks, times, f, w)
    PROVE  AskedFor(ks, times, f, w)
<1>1. /\ asks < MaxAsks /\ asks' = asks + times
      /\ wire' = w \cup Fetches!Requests(ks, times, f)
      /\ last' = [k \in Fetches!Kinds |-> IF k \in ks THEN asks + times ELSE last[k]]
      /\ busy' = [b \in Fetches!Flags |-> busy[b] \/ \E k \in ks : Fetches!Flag(k) = b]
  BY Zenon DEF Fetches!Ask
<1>2. /\ asks \in 0 .. MaxAsks + 1 /\ MaxAsks \in Nat /\ last \in [Fetches!Kinds -> 0 .. asks]
      /\ wire \subseteq [k : Fetches!Kinds, of : Fetches!Filters, n : Nat]
      /\ \A r \in wire : 1 <= r.n /\ r.n <= last[r.k]
  BY DEF FetchTypes, FetchAssumption, Fetches!BoundAssumption
<1>3. asks' \in 0 .. MaxAsks + 1 /\ asks' > asks
  BY <1>1, <1>2
<1>4. last' \in [Fetches!Kinds -> 0 .. asks']
  BY <1>1, <1>2, <1>3
<1>5. /\ \A k \in Fetches!Kinds : last[k] <= last'[k] /\ (k \notin ks => last'[k] = last[k])
      /\ \A k \in ks : last'[k] > last[k] /\ last'[k] > asks /\ last'[k] = asks + times
  BY <1>1, <1>2
<1>6. /\ \A r \in Fetches!Requests(ks, times, f) :
            /\ r \in [k : Fetches!Kinds, of : Fetches!Filters, n : Nat]
            /\ r.k \in ks /\ r.of = Fetches!Params(r.k, f)
            /\ asks + 1 <= r.n /\ r.n <= asks + times
  <2>1. FetchTypes /\ ks \subseteq Fetches!Kinds /\ times \in {1, 2} /\ f \in Fetches!Filters
    OBVIOUS
  <2> QED
    BY <2>1, RequestsAre
<1>7. wire' \subseteq [k : Fetches!Kinds, of : Fetches!Filters, n : Nat]
  BY <1>1, <1>2, <1>6, Zenon
<1>8. ASSUME NEW r \in wire'
      PROVE  /\ 1 <= r.n /\ r.n <= last'[r.k]
             /\ r.k \in ks /\ r.n = last'[r.k] => r.of = Fetches!Params(r.k, f)
             /\ r.k \notin ks => r \in w
  <2>1. r.k \in Fetches!Kinds /\ r.n \in Nat
    BY <1>7
  <2>2. CASE r \in Fetches!Requests(ks, times, f)
    BY <1>2, <1>5, <1>6, <2>2
  <2>3. CASE r \in w
    <3>1. 1 <= r.n /\ r.n <= last[r.k]
      BY <1>2, <2>3
    <3>2. last[r.k] \in Int /\ last'[r.k] \in Int
      BY <1>2, <1>3, <1>4, <2>1
    <3> QED
      BY <1>5, <2>1, <2>3, <3>1, <3>2
  <2> QED
    BY <1>1, <1>8, <2>2, <2>3
<1>9. /\ busy' \in [Fetches!Flags -> BOOLEAN]
      /\ \A b \in Fetches!Flags : busy[b] => busy'[b]
      /\ \A k \in {"accuracy", "trend"} : k \in ks => busy'[k]
  <2>1. \A b \in Fetches!Flags : busy'[b] = (busy[b] \/ \E k \in ks : Fetches!Flag(k) = b)
    BY <1>1, Zenon
  <2>2. \A k \in {"accuracy", "trend"} : k \in Fetches!Flags /\ Fetches!Flag(k) = k
    BY DEF Fetches!Flags, Fetches!Flag
  <2>3. busy' \in [Fetches!Flags -> BOOLEAN]
    BY <1>1, Zenon
  <2> QED
    BY <2>1, <2>2, <2>3, Zenon
<1> QED
  BY <1>1, <1>3, <1>4, <1>5, <1>7, <1>8, <1>9, Zenon DEF AskedFor

\* The kinds a screen asks for.
LEMMA OnScreens ==
    /\ Fetches!OnHome \subseteq Fetches!Kinds /\ Fetches!OnReview \subseteq Fetches!Kinds
    /\ "trend" \notin Fetches!OnHome
BY DEF Fetches!OnHome, Fetches!OnReview, Fetches!Kinds

\* The rest of what the asks of a screen keep.
LEMMA AskKeeps ==
    ASSUME FetchAssumption, FetchInvariant, NEW ks, ks \subseteq Fetches!Kinds,
           NEW times \in {1, 2},
           NEW f \in Fetches!Filters, NEW w, w \subseteq wire, Fetches!Ask(ks, times, f, w),
           NEW d, data' = [data EXCEPT !["trend"] = d], d = data["trend"] \/
               (d = None /\ "trend" \in ks),
           failed' \subseteq Fetches!Kinds,
           \A k \in Fetches!Kinds : k \notin ks => (k \in failed' <=> k \in failed)
    PROVE  /\ data' \in [Fetches!Kinds -> Fetches!Answers \cup {None}]
           /\ \A k \in Fetches!Kinds : k # "trend" => data'[k] = data[k]
           /\ \A k \in Fetches!Kinds : data'[k] # None => data'[k] = data[k]
           /\ \A k \in Fetches!Kinds : data'[k] # None => 1 <= data'[k].n /\ data'[k].n <= last'[k]
           /\ \A k \in ks : data'[k] # None => data'[k].n # last'[k]
           /\ NoneIsAwaited'
<1>0. /\ data \in [Fetches!Kinds -> Fetches!Answers \cup {None}]
      /\ \A k \in Fetches!Kinds : data[k] # None => 1 <= data[k].n /\ data[k].n <= last[k]
      /\ last \in [Fetches!Kinds -> 0 .. asks] /\ asks \in 0 .. MaxAsks + 1
      /\ busy \in [Fetches!Flags -> BOOLEAN]
  BY DEF FetchInvariant, FetchTypes
<1>1. /\ asks' \in 0 .. MaxAsks + 1
      /\ last' \in [Fetches!Kinds -> 0 .. asks']
      /\ \A k \in Fetches!Kinds : last[k] <= last'[k] /\ (k \notin ks => last'[k] = last[k])
      /\ \A k \in ks : last'[k] > last[k]
      /\ \A r \in wire' : r.k \notin ks => r \in w
      /\ \A b \in Fetches!Flags : busy[b] => busy'[b]
      /\ \A k \in {"accuracy", "trend"} : k \in ks => busy'[k]
  <2>1. /\ FetchAssumption /\ FetchTypes /\ ks \subseteq Fetches!Kinds /\ times \in {1, 2}
        /\ f \in Fetches!Filters /\ w \subseteq wire /\ Fetches!Ask(ks, times, f, w)
    BY DEF FetchInvariant
  <2>2. AskedFor(ks, times, f, w)
    BY <2>1, Asking
  <2> QED
    BY <2>2 DEF AskedFor
<1>2. "trend" \in Fetches!Kinds /\ "accuracy" \in Fetches!Kinds
  BY DEF Fetches!Kinds
<1>3. /\ data' \in [Fetches!Kinds -> Fetches!Answers \cup {None}]
      /\ \A k \in Fetches!Kinds : k # "trend" => data'[k] = data[k]
      /\ \A k \in Fetches!Kinds : data'[k] # None => data'[k] = data[k]
  BY <1>0, <1>2
<1>4. ASSUME NEW k \in Fetches!Kinds, data'[k] # None
      PROVE  /\ 1 <= data'[k].n /\ data'[k].n <= last'[k]
             /\ k \in ks => data'[k].n # last'[k]
  <2>1. data'[k] = data[k] /\ 1 <= data[k].n /\ data[k].n <= last[k]
    BY <1>0, <1>3, <1>4
  <2>2. data[k].n \in Nat
    BY <1>0, <1>4, <2>1 DEF Fetches!Answers
  <2>3. last[k] \in Int /\ last'[k] \in Int /\ last[k] <= last'[k]
    BY <1>0, <1>1
  <2>4. k \in ks => last'[k] > last[k]
    BY <1>1
  <2> QED
    BY <2>1, <2>2, <2>3, <2>4
<1>5. NoneIsAwaited'
  <2> SUFFICES ASSUME NEW k \in {"accuracy", "trend"}, ~ busy'[k], data'[k] = None, k \notin failed'
               PROVE  \A r \in wire' : r.k # k
    BY DEF NoneIsAwaited
  <2>1. k \in Fetches!Kinds /\ k \in Fetches!Flags
    BY DEF Fetches!Kinds, Fetches!Flags
  <2>2. k \notin ks /\ ~ busy[k]
    BY <1>1, <2>1
  <2>3. data[k] = None /\ k \notin failed
    BY <1>2, <1>3, <2>1, <2>2, <1>0
  <2>4. \A r \in wire : r.k # k
    BY <2>2, <2>3 DEF FetchInvariant, NoneIsAwaited
  <2> QED
    BY <1>1, <2>2, <2>4
<1> QED
  BY <1>1, <1>3, <1>4, <1>5

\* A screen opens, or asks again.
LEMMA FetchesAsked ==
    ASSUME FetchAssumption, FetchInvariant,
           \/ Fetches!GoHome \/ Fetches!GoReview \/ Fetches!Refresh \/ Fetches!ShowTrend
           \/ \E p \in Fetches!Periods : Fetches!ChoosePeriod(p)
           \/ \E f \in Fetches!Filters : Fetches!Filter(f)
    PROVE  FetchInvariant'
<1> USE DEF FetchInvariant
<1>0. /\ screen \in {"home", "review", "away"} /\ filters \in Fetches!Filters
      /\ data \in [Fetches!Kinds -> Fetches!Answers \cup {None}]
      /\ trend \in BOOLEAN /\ updated \in BOOLEAN
      /\ wire \subseteq [k : Fetches!Kinds, of : Fetches!Filters, n : Nat]
      /\ gate \subseteq wire /\ failed \subseteq Fetches!Kinds /\ fails \in 0 .. MaxFails
      /\ screen # "home" => gate = {}
      /\ trend => screen = "review"
  BY DEF FetchTypes
<1>1. PICK ks, times, f, w :
        /\ ks \subseteq Fetches!Kinds /\ times \in {1, 2} /\ f \in Fetches!Filters
        /\ w \subseteq wire
        /\ Fetches!Ask(ks, times, f, w)
        /\ filters' = f /\ screen' \in {"home", "review"}
        /\ trend' \in BOOLEAN /\ updated' \in BOOLEAN /\ fails' = fails
        /\ trend' => screen' = "review"
        /\ \/ /\ data' = data /\ failed' = failed /\ trend' = trend /\ w = wire
              /\ Fetches!Kept' \subseteq ks
                 \/ /\ screen' = "review" /\ screen = "review" /\ f.period = filters.period
                    /\ ks = Fetches!OnReview \ {"trend"}
              /\ \/ screen' = "review" /\ gate' = gate /\ screen # "home"
                 \/ /\ gate' = gate /\ updated' = updated /\ screen' = "home" /\ screen = "home"
                 \/ /\ screen' = "home" /\ times = 1 /\ ks = Fetches!OnHome
                    /\ updated' = FALSE \/ (screen = "home" /\ updated' = updated)
                    /\ gate' = Fetches!Requests(ks, 1, f)
           \/ /\ data' = [data EXCEPT !["trend"] = None] /\ failed' = failed \ {"trend"}
              /\ f = filters /\ ks = {"trend"} /\ w = Fetches!NoTrend /\ gate' = gate
              /\ screen' = "review" /\ screen = "review"
  <2>1. CASE Fetches!GoHome
    <3>1. /\ screen' = "home" /\ Fetches!Ask(Fetches!OnHome, 1, filters, wire)
          /\ updated' = FALSE /\ gate' = Fetches!Requests(Fetches!OnHome, 1, filters)
          /\ screen = "away"
          /\ filters' = filters /\ data' = data /\ trend' = trend /\ fails' = fails
          /\ failed' = failed
      BY <2>1, Zenon DEF Fetches!GoHome
    <3>2. Fetches!Kept' = Fetches!OnHome
      BY <3>1 DEF Fetches!Kept, Fetches!OnHome
    <3> QED
      BY <1>0, <3>1, <3>2, OnScreens
  <2>2. CASE Fetches!GoReview
    <3>1. /\ screen' = "review" /\ Fetches!Ask(Fetches!OnReview, 2, filters, wire)
          /\ screen = "away"
          /\ filters' = filters /\ data' = data /\ trend' = trend /\ updated' = updated
          /\ gate' = gate
          /\ fails' = fails /\ failed' = failed
      BY <2>2, Zenon DEF Fetches!GoReview
    <3>2. Fetches!Kept' = Fetches!OnReview
      BY <3>1 DEF Fetches!Kept, Fetches!OnReview
    <3> QED
      BY <1>0, <3>1, <3>2, OnScreens
  <2>3. CASE Fetches!Refresh
    <3>1. /\ screen # "away" /\ screen' = screen
          /\ Fetches!Ask(IF screen = "home" THEN Fetches!OnHome
                         ELSE Fetches!OnReview \ {"trend"}, 1, filters, wire)
          /\ filters' = filters /\ data' = data /\ trend' = trend /\ updated' = updated
          /\ gate' = gate
          /\ fails' = fails /\ failed' = failed
      BY <2>3, Zenon DEF Fetches!Refresh
    <3>2. CASE screen = "home"
      <4>1. Fetches!Kept' = Fetches!OnHome
        BY <3>1, <3>2 DEF Fetches!Kept, Fetches!OnHome
      <4> QED
        BY <1>0, <3>1, <3>2, <4>1, OnScreens
    <3>3. CASE screen # "home"
      BY <1>0, <3>1, <3>3, OnScreens
    <3> QED
      BY <3>2, <3>3
  <2>4. CASE Fetches!ShowTrend
    <3>1. /\ screen = "review" /\ ~ trend /\ trend' = TRUE
          /\ Fetches!Ask({"trend"}, 1, filters, Fetches!NoTrend)
          /\ data' = [data EXCEPT !["trend"] = None] /\ failed' = failed \ {"trend"}
          /\ screen' = screen /\ filters' = filters /\ updated' = updated /\ gate' = gate
          /\ fails' = fails
      BY <2>4, Zenon DEF Fetches!ShowTrend
    <3>2. {"trend"} \subseteq Fetches!Kinds /\ Fetches!NoTrend \subseteq wire
      BY DEF Fetches!Kinds, Fetches!NoTrend
    <3> QED
      BY <1>0, <3>1, <3>2
  <2>5. ASSUME NEW p \in Fetches!Periods, Fetches!ChoosePeriod(p)
        PROVE  /\ filters' \in Fetches!Filters /\ Fetches!Ask(Fetches!OnHome, 1, filters', wire)
               /\ screen = "home" /\ gate' = Fetches!Requests(Fetches!OnHome, 1, filters')
               /\ screen' = screen /\ data' = data /\ trend' = trend /\ updated' = updated
               /\ fails' = fails /\ failed' = failed
    <3>1. /\ screen = "home" /\ filters' = [filters EXCEPT !.period = p]
          /\ Fetches!Ask(Fetches!OnHome, 1, filters', wire)
          /\ gate' = Fetches!Requests(Fetches!OnHome, 1, filters')
          /\ screen' = screen /\ data' = data /\ trend' = trend /\ updated' = updated
          /\ fails' = fails /\ failed' = failed
      BY <2>5, Zenon DEF Fetches!ChoosePeriod
    <3> QED
      BY <1>0, <3>1 DEF Fetches!Filters
  <2>6. CASE \E p \in Fetches!Periods : Fetches!ChoosePeriod(p)
    <3>1. Fetches!Kept' = Fetches!OnHome
      BY <2>5, <2>6 DEF Fetches!Kept, Fetches!OnHome
    <3> QED
      BY <1>0, <2>5, <2>6, <3>1, OnScreens
  <2>7. ASSUME NEW f \in Fetches!Filters, Fetches!Filter(f)
        PROVE  /\ screen = "review" /\ filters' = f
               /\ Fetches!Ask(IF f.period = filters.period THEN Fetches!OnReview \ {"trend"}
                              ELSE Fetches!OnReview, 1, f, wire)
               /\ screen' = screen /\ data' = data /\ trend' = trend /\ updated' = updated
               /\ gate' = gate /\ fails' = fails /\ failed' = failed
    BY <2>7, Zenon DEF Fetches!Filter
  <2>8. CASE \E f \in Fetches!Filters : Fetches!Filter(f)
    <3>1. PICK f \in Fetches!Filters : Fetches!Filter(f)
      BY <2>8
    <3>2. Fetches!Kept' = Fetches!OnReview
      BY <2>7, <3>1 DEF Fetches!Kept, Fetches!OnReview
    <3>3. CASE f.period = filters.period
      BY <1>0, <2>7, <3>1, <3>3, OnScreens
    <3>4. CASE f.period # filters.period
      BY <1>0, <2>7, <3>1, <3>2, <3>4, OnScreens
    <3> QED
      BY <3>3, <3>4
  <2> QED
    BY <2>1, <2>2, <2>3, <2>4, <2>6, <2>8
<1>2. PICK d : /\ data' = [data EXCEPT !["trend"] = d]
               /\ d = data["trend"] \/ (d = None /\ "trend" \in ks)
               /\ failed' \subseteq Fetches!Kinds
               /\ \A k \in Fetches!Kinds : k \notin ks => (k \in failed' <=> k \in failed)
  <2>1. CASE data' = data /\ failed' = failed
    <3>1. data' = [data EXCEPT !["trend"] = data["trend"]]
      BY <1>0, <2>1
    <3> QED
      BY <1>0, <2>1, <3>1
  <2>2. CASE data' = [data EXCEPT !["trend"] = None] /\ failed' = failed \ {"trend"} /\
                 ks = {"trend"}
    BY <1>0, <2>2
  <2> QED
    BY <1>1, <2>1, <2>2
<1>3. /\ asks' \in 0 .. MaxAsks + 1
      /\ last' \in [Fetches!Kinds -> 0 .. asks']
      /\ \A k \in Fetches!Kinds : last[k] <= last'[k] /\ (k \notin ks => last'[k] = last[k])
      /\ wire' = w \cup Fetches!Requests(ks, times, f)
      /\ wire' \subseteq [k : Fetches!Kinds, of : Fetches!Filters, n : Nat]
      /\ \A r \in wire' : 1 <= r.n /\ r.n <= last'[r.k]
      /\ \A r \in wire' : r.k \in ks /\ r.n = last'[r.k] => r.of = Fetches!Params(r.k, f)
      /\ \A r \in wire' : r.k \notin ks => r \in w
      /\ busy' \in [Fetches!Flags -> BOOLEAN]
  <2>1. AskedFor(ks, times, f, w)
    <3>1. /\ FetchAssumption /\ FetchTypes /\ ks \subseteq Fetches!Kinds /\ times \in {1, 2}
          /\ f \in Fetches!Filters /\ w \subseteq wire /\ Fetches!Ask(ks, times, f, w)
      BY <1>1
    <3> QED
      BY <3>1, Asking
  <2> QED
    BY <2>1 DEF AskedFor
<1>4. /\ data' \in [Fetches!Kinds -> Fetches!Answers \cup {None}]
      /\ \A k \in Fetches!Kinds : k # "trend" => data'[k] = data[k]
      /\ \A k \in Fetches!Kinds : data'[k] # None => data'[k] = data[k]
      /\ \A k \in Fetches!Kinds : data'[k] # None => 1 <= data'[k].n /\ data'[k].n <= last'[k]
      /\ \A k \in ks : data'[k] # None => data'[k].n # last'[k]
      /\ NoneIsAwaited'
  BY <1>1, <1>2, AskKeeps
<1>5. FetchTypes'
  <2>1. gate' \subseteq wire' /\ (screen' # "home" => gate' = {})
    BY <1>0, <1>1, <1>3
  <2> QED
    BY <1>0, <1>1, <1>2, <1>3, <1>4, <2>1 DEF FetchTypes
<1>6. LastIsOfFilters'
  <2> SUFFICES ASSUME NEW k \in Fetches!Kept'
               PROVE  /\ \A r \in wire' : r.k = k /\ r.n = last'[k] =>
                             r.of = Fetches!Params(k, filters')
                      /\ data'[k] # None /\ data'[k].n = last'[k] =>
                            data'[k].of = Fetches!Params(k, filters')
    BY DEF LastIsOfFilters, Fetches!Params
  <2>1. CASE k \in ks
    BY <1>1, <1>3, <1>4, <2>1
  <2>2. CASE k \notin ks
    <3>1. screen' = "review" /\ screen = "review" /\ k \in Fetches!Kinds /\ k \in Fetches!Kept
      <4>1. screen' = "review" /\ screen = "review"
        BY <1>1, <2>2
      <4>2. k \in Fetches!OnReview'
        BY <4>1 DEF Fetches!Kept
      <4>3. trend' = trend \/ k # "trend"
        BY <1>1, <2>2
      <4>4. k \in Fetches!OnReview
        BY <4>2, <4>3 DEF Fetches!OnReview
      <4> QED
        BY <4>1, <4>4, OnScreens DEF Fetches!Kept
    <3>2. /\ last'[k] = last[k] /\ \A r \in wire' : r.k = k => r \in wire
      BY <1>1, <1>3, <2>2, <3>1
    <3>3. /\ \A r \in wire : r.k = k /\ r.n = last[k] => r.of = Fetches!Params(k, filters)
          /\ data[k] # None /\ data[k].n = last[k] => data[k].of = Fetches!Params(k, filters)
      BY <3>1 DEF LastIsOfFilters
    <3>4. Fetches!Params(k, filters') = Fetches!Params(k, filters)
      <4>1. CASE f = filters
        BY <1>1, <4>1
      <4>2. CASE f # filters
        <5>1. f.period = filters.period /\ ks = Fetches!OnReview \ {"trend"} /\ data' = data
          BY <1>1, <2>2, <4>2
        <5>2. k = "trend"
          BY <2>2, <3>1, <5>1 DEF Fetches!Kept
        <5> QED
          BY <1>1, <5>1, <5>2 DEF Fetches!Params
      <4> QED
        BY <4>1, <4>2
    <3> QED
      BY <1>4, <3>1, <3>2, <3>3, <3>4
  <2> QED
    BY <2>1, <2>2
<1>7. GateHasRest'
  <2> SUFFICES ASSUME screen' = "home", NEW k \in Fetches!OnHome
               PROVE  /\ data'[k] # None \/ k \in failed' \/ \E r \in gate' : r.k = k
                      /\ updated' => data'[k] # None \/ k \in failed'
    BY DEF GateHasRest, Fetches!OnHome
  <2>1. k \in Fetches!Kinds /\ data' = data /\ failed' = failed
    BY <1>1, OnScreens
  <2>2. CASE gate' = gate /\ updated' = updated /\ screen = "home"
    BY <2>1, <2>2 DEF GateHasRest
  <2>3. CASE /\ times = 1 /\ ks = Fetches!OnHome /\ gate' = Fetches!Requests(ks, 1, f)
             /\ updated' = FALSE \/ (screen = "home" /\ updated' = updated)
    <3>1. \E r \in gate' : r.k = k
      <4>1. FetchTypes /\ ks \subseteq Fetches!Kinds /\ 1 \in {1, 2} /\ f \in Fetches!Filters
        BY <1>1
      <4>2. \A j \in ks : \E r \in Fetches!Requests(ks, 1, f) : r.k = j
        BY <4>1, RequestsAre, SMTT(60)
      <4> QED
        BY <2>3, <4>2
    <3>2. updated' => data[k] # None \/ k \in failed
      BY <2>3 DEF GateHasRest
    <3> QED
      BY <2>1, <3>1, <3>2
  <2> QED
    BY <1>1, <2>2, <2>3
<1> QED
  BY <1>4, <1>5, <1>6, <1>7

\* The screens are left, the chart of the trend is hidden.
LEMMA FetchesLeft ==
    ASSUME FetchInvariant, Fetches!GoAway \/ Fetches!HideTrend
    PROVE  FetchInvariant'
<1> USE DEF FetchInvariant
<1>1. /\ (screen' = "away" /\ gate' = {}) \/ (screen' = screen /\ gate' = gate /\ trend)
      /\ trend' = FALSE /\ wire' = Fetches!NoTrend
      /\ filters' = filters /\ data' = data /\ busy' = busy /\ asks' = asks /\ last' = last
      /\ updated' = updated /\ fails' = fails /\ failed' = failed
  <2>1. CASE Fetches!GoAway
    BY <2>1, Zenon DEF Fetches!GoAway
  <2>2. CASE Fetches!HideTrend
    BY <2>2, Zenon DEF Fetches!HideTrend
  <2> QED
    BY <2>1, <2>2
<1>2. wire' \subseteq wire
  BY <1>1 DEF Fetches!NoTrend
<1>3. FetchTypes'
  BY <1>1, <1>2 DEF FetchTypes
<1>4. NoneIsAwaited'
  BY <1>1, <1>2, Zenon DEF NoneIsAwaited
<1>5. GateHasRest'
  <2>1. screen' # "home"
    BY <1>1 DEF FetchTypes
  <2> QED
    BY <2>1 DEF GateHasRest
<1>6. LastIsOfFilters'
  <2>1. CASE screen' = "away"
    BY <2>1 DEF LastIsOfFilters
  <2>2. CASE screen' # "away"
    <3>1. screen = "review" /\ screen' = "review"
      BY <1>1, <2>2 DEF FetchTypes
    <3>2. Fetches!Kept' \subseteq Fetches!Kept
      BY <1>1, <3>1 DEF Fetches!Kept, Fetches!OnReview
    <3>3. \A k \in Fetches!Kept :
            /\ \A r \in wire : r.k = k /\ r.n = last[k] => r.of = Fetches!Params(k, filters)
            /\ data[k] # None /\ data[k].n = last[k] => data[k].of = Fetches!Params(k, filters)
      BY <3>1 DEF LastIsOfFilters
    <3>4. \A k : Fetches!Params(k, filters') = Fetches!Params(k, filters)
      BY <1>1
    <3> QED
      BY <1>1, <1>2, <3>2, <3>3, <3>4 DEF LastIsOfFilters, Fetches!Params
  <2> QED
    BY <2>1, <2>2
<1> QED
  BY <1>3, <1>4, <1>5, <1>6

\* A request ends.
LEMMA FetchesAnswered ==
    ASSUME FetchAssumption, FetchInvariant, NEW r \in wire, Fetches!Answered(r) \/ Fetches!Failed(r)
    PROVE  FetchInvariant'
<1> USE DEF FetchInvariant
<1>0. /\ data \in [Fetches!Kinds -> Fetches!Answers \cup {None}]
      /\ \A k \in Fetches!Kinds : data[k] # None => 1 <= data[k].n /\ data[k].n <= last[k]
      /\ busy \in [Fetches!Flags -> BOOLEAN] /\ updated \in BOOLEAN
      /\ wire \subseteq [k : Fetches!Kinds, of : Fetches!Filters, n : Nat]
      /\ \A q \in wire : 1 <= q.n /\ q.n <= last[q.k]
      /\ gate \subseteq wire /\ failed \subseteq Fetches!Kinds /\ fails \in 0 .. MaxFails
      /\ MaxFails \in Nat
      /\ r.k \in Fetches!Kinds /\ r.of \in Fetches!Filters /\ r.n \in Nat
  BY DEF FetchTypes, FetchAssumption, Fetches!BoundAssumption
<1>1. Fetches!Settled(r)
  BY Zenon DEF Fetches!Answered, Fetches!Failed
<1>2. /\ wire' = wire \ {r} /\ busy' = Fetches!Ended(r.k)
      /\ gate' = gate \ {r}
      /\ screen' = screen /\ filters' = filters /\ trend' = trend /\ asks' = asks /\ last' = last
  BY <1>1, Zenon DEF Fetches!Settled
<1>3. updated' = (updated \/ gate = {r})
  BY <1>1, Zenon DEF Fetches!Settled
<1>4. \/ /\ data' = [data EXCEPT ![r.k] = [of |-> r.of, n |-> r.n]] /\ fails' = fails
         /\ failed' = failed
      \/ /\ fails < MaxFails /\ fails' = fails + 1 /\ failed' = failed \cup {r.k} /\ data' = data
  BY Zenon DEF Fetches!Answered, Fetches!Failed
<1>5. busy' = [busy EXCEPT ![Fetches!Flag(r.k)] = FALSE]
  BY <1>2, Zenon DEF Fetches!Ended
<1>6. [of |-> r.of, n |-> r.n] \in Fetches!Answers /\ [of |-> r.of, n |-> r.n] # None
  BY <1>0 DEF Fetches!Answers, FetchAssumption, Fetches!NoneAssumption
<1>7. /\ data' \in [Fetches!Kinds -> Fetches!Answers \cup {None}]
      /\ \A k \in Fetches!Kinds : k # r.k => data'[k] = data[k]
      /\ data'[r.k] = data[r.k] \/ (data'[r.k] # None /\ data'[r.k].n = r.n /\ data'[r.k].of = r.of)
      /\ data'[r.k] # None \/ r.k \in failed'
      /\ \A k \in Fetches!Kinds : data[k] # None => data'[k] # None
      /\ failed \subseteq failed' /\ failed' \subseteq Fetches!Kinds
  BY <1>0, <1>4, <1>6
<1>8. FetchTypes'
  <2>1. busy' \in [Fetches!Flags -> BOOLEAN] /\ updated' \in BOOLEAN
    BY <1>0, <1>3, <1>5
  <2>2. \A k \in Fetches!Kinds : data'[k] # None => 1 <= data'[k].n /\ data'[k].n <= last'[k]
    BY <1>0, <1>2, <1>7
  <2>3. fails' \in 0 .. MaxFails
    BY <1>0, <1>4
  <2> QED
    BY <1>2, <1>7, <2>1, <2>2, <2>3 DEF FetchTypes
<1>9. LastIsOfFilters'
  <2> SUFFICES ASSUME screen # "away", NEW k \in Fetches!Kept'
               PROVE  /\ \A q \in wire' : q.k = k /\ q.n = last'[k] =>
                             q.of = Fetches!Params(k, filters)
                      /\ data'[k] # None /\ data'[k].n = last'[k] =>
                            data'[k].of = Fetches!Params(k, filters)
    BY <1>2 DEF LastIsOfFilters, Fetches!Params
  <2>1. k \in Fetches!Kept /\ k \in Fetches!Kinds
    BY <1>2, OnScreens DEF Fetches!Kept, Fetches!OnReview
  <2>2. /\ \A q \in wire : q.k = k /\ q.n = last[k] => q.of = Fetches!Params(k, filters)
        /\ data[k] # None /\ data[k].n = last[k] => data[k].of = Fetches!Params(k, filters)
    BY <2>1 DEF LastIsOfFilters
  <2> QED
    BY <1>2, <1>7, <2>1, <2>2
<1>10. NoneIsAwaited'
  <2> SUFFICES ASSUME NEW k \in {"accuracy", "trend"}, ~ busy'[k], data'[k] = None, k \notin failed'
               PROVE  \A q \in wire' : q.k # k
    BY DEF NoneIsAwaited
  <2>1. k \in Fetches!Kinds /\ k \in Fetches!Flags
    BY DEF Fetches!Kinds, Fetches!Flags
  <2>2. k # r.k
    BY <1>7
  <2>3. Fetches!Flag(r.k) # k
    BY <2>2 DEF Fetches!Flag
  <2>4. ~ busy[k] /\ data[k] = None /\ k \notin failed
    BY <1>0, <1>5, <1>7, <2>1, <2>2, <2>3
  <2> QED
    BY <1>2, <2>4 DEF NoneIsAwaited
<1>11. GateHasRest'
  <2> SUFFICES ASSUME screen = "home", NEW k \in Fetches!OnHome
               PROVE  /\ data'[k] # None \/ k \in failed' \/ \E q \in gate' : q.k = k
                      /\ updated' => data'[k] # None \/ k \in failed'
    BY <1>2 DEF GateHasRest, Fetches!OnHome
  <2>1. /\ data[k] # None \/ k \in failed \/ \E q \in gate : q.k = k
        /\ updated => data[k] # None \/ k \in failed
        /\ k \in Fetches!Kinds
    BY OnScreens DEF GateHasRest
  <2>2. CASE k = r.k
    BY <1>7, <2>2
  <2>3. CASE k # r.k
    BY <1>2, <1>3, <1>7, <2>1, <2>3
  <2> QED
    BY <2>2, <2>3
<1> QED
  BY <1>8, <1>9, <1>10, <1>11

\* Every step of the store keeps the invariant.
LEMMA FetchesKept ==
    ASSUME FetchAssumption, FetchInvariant, [Fetches!Next]_Fetches!vars
    PROVE  FetchInvariant'
<1>1. CASE UNCHANGED Fetches!vars
  BY <1>1
     DEF Fetches!vars, FetchInvariant, FetchTypes, LastIsOfFilters, NoneIsAwaited,
         GateHasRest, Fetches!Kept, Fetches!OnHome, Fetches!OnReview
<1>2. CASE Fetches!Next
  BY <1>2, FetchesAsked, FetchesLeft, FetchesAnswered DEF Fetches!Next
<1> QED
  BY <1>1, <1>2

\* A review that is opened satisfies it.
LEMMA FetchesStart == FetchAssumption /\ Fetches!Init => FetchInvariant
<1> SUFFICES ASSUME FetchAssumption, Fetches!Init PROVE FetchInvariant
  OBVIOUS
<1>1. /\ screen = "away" /\ filters \in Fetches!Filters
      /\ data = [k \in Fetches!Kinds |-> None] /\ busy = [b \in Fetches!Flags |-> FALSE]
      /\ trend = FALSE
      /\ wire = {} /\ asks = 0 /\ last = [k \in Fetches!Kinds |-> 0]
      /\ updated = FALSE /\ gate = {} /\ fails = 0 /\ failed = {}
      /\ MaxAsks \in Nat /\ MaxFails \in Nat
  BY DEF Fetches!Init, FetchAssumption, Fetches!BoundAssumption
<1>2. FetchTypes
  <2>1. /\ data \in [Fetches!Kinds -> Fetches!Answers \cup {None}]
        /\ \A k \in Fetches!Kinds : data[k] = None
    BY <1>1
  <2>2. busy \in [Fetches!Flags -> BOOLEAN] /\ last \in [Fetches!Kinds -> 0 .. asks]
    BY <1>1
  <2>3. asks \in 0 .. MaxAsks + 1 /\ fails \in 0 .. MaxFails
    BY <1>1
  <2> QED
    BY <1>1, <2>1, <2>2, <2>3 DEF FetchTypes
<1>3. LastIsOfFilters /\ NoneIsAwaited /\ GateHasRest
  BY <1>1 DEF LastIsOfFilters, NoneIsAwaited, GateHasRest
<1> QED
  BY <1>2, <1>3 DEF FetchInvariant

\* The invariant says that the figures are those of the filters.
LEMMA FetchesSound == FetchInvariant => Fetches!FiguresFit /\ Fetches!TypeOK
<1> SUFFICES ASSUME FetchInvariant PROVE Fetches!FiguresFit /\ Fetches!TypeOK
  OBVIOUS
<1> USE DEF FetchInvariant
<1>1. Fetches!DataOfFilters
  BY DEF Fetches!DataOfFilters, LastIsOfFilters
<1>2. Fetches!MissingIsFinal
  BY DEF Fetches!MissingIsFinal, NoneIsAwaited, Fetches!Card, Fetches!Flag
<1>3. Fetches!UpdatedHasData
  BY DEF Fetches!UpdatedHasData, GateHasRest
<1>4. Fetches!TypeOK
  BY DEF Fetches!TypeOK, FetchTypes, Fetches!Answers
<1> QED
  BY <1>1, <1>2, <1>3, <1>4 DEF Fetches!FiguresFit

-----------------------------------------------------------------------------
(* The summary of trades *)

\* What the summary of trades assumes of its constants.
TotalAssumption == Totals!BoundAssumption /\ Totals!NoneAssumption

\* Totals of as many trades as there may be.
Sums == - MaxTotalTrades .. MaxTotalTrades

\* What a load asks for in turn, as far as it gets, and what a summary says.
Stages == {"first", "wider", "whole"}
Chains == [n : Nat, home : BOOLEAN, stage : Stages, of : Totals!Filters]
Summed == [of : Totals!Filters, stage : Stages, count : 0 .. MaxTotalTrades, total : Sums]

\* The types, and that no load is younger than the last.
TotalTypes ==
    /\ trades \subseteq Totals!Trades /\ IsFiniteSet(trades)
    /\ Cardinality(trades) <= MaxTotalTrades
    /\ screen \in {"home", "review", "away"} /\ filters \in Totals!Filters
    /\ gen \in 0 .. MaxLoads /\ fails \in 0 .. MaxFails
    /\ chains \subseteq Chains /\ \A c \in chains : 1 <= c.n /\ c.n <= gen
    /\ summary \in {None} \cup Summed
    /\ drawn \in Sums /\ frame \in {None} \cup Sums

\* The period that is chosen, at every venue.
InPeriod == [period |-> filters.period, venue |-> All]

\* A load that counts asks for the filters of its screen, or for more where they find nothing.
ChainFits(c) ==
    /\ c.home <=> screen = "home"
    /\ c.stage # "whole" => c.of.period = filters.period
    /\ c.stage = "wider" => c.home /\ c.of.venue = All
    /\ c.stage = "whole" => c.home
    /\ screen = "review" => c.of.venue = filters.venue

\* All loads that count fit.
ChainsFit == screen # "away" => \A c \in chains : c.n = gen => ChainFits(c)

\* What was found for them is so.
SummaryFits ==
    Totals!Loaded /\ summary # None =>
        /\ summary.stage # "whole" => summary.of.period = filters.period
        /\ screen = "review" => summary.of.venue = filters.venue
        /\ screen = "home" /\ summary.stage # "whole" =>
              (summary.count = 0 <=> Totals!Found(InPeriod) = {})

\* A movement goes to the total of the summary.
MovesToTotal ==
    /\ screen = "home" => (IF frame = None THEN drawn ELSE frame) = Totals!Pnl(summary)
    /\ screen # "home" => frame = None

\* What every step keeps.
TotalInvariant == TotalTypes /\ ChainsFit /\ SummaryFits /\ MovesToTotal

\* The cardinality of the instance is that of the library.
LEMMA TotalsCount == \A S : Totals!Cardinality(S) = Cardinality(S) /\
    Totals!IsFiniteSet(S) = IsFiniteSet(S)
BY DEF Totals!Cardinality, Cardinality, Totals!IsFiniteSet, IsFiniteSet

\* What is found are trades, as many as there may be, and no more than in the period.
LEMMA FoundIs ==
    ASSUME TotalAssumption, TotalTypes, NEW f \in Totals!Filters
    PROVE  /\ IsFiniteSet(Totals!Found(f)) /\ Cardinality(Totals!Found(f)) \in 0 .. MaxTotalTrades
           /\ Cardinality(Totals!Found(f)) = 0 <=> Totals!Found(f) = {}
           /\ Totals!Total(Totals!Found(f)) \in Sums
<1>1. Totals!Found(f) \subseteq trades /\ IsFiniteSet(trades)
  BY DEF Totals!Found, TotalTypes
<1> DEFINE ts == Totals!Found(f)
           up == {t \in ts : t[3] = 1}
           down == {t \in ts : t[3] = -1}
<1>2. IsFiniteSet(ts) /\ Cardinality(ts) <= Cardinality(trades)
  BY <1>1, FS_Subset
<1>3. up \subseteq trades /\ down \subseteq trades
  BY <1>1
<1>4. /\ IsFiniteSet(up) /\ Cardinality(up) <= Cardinality(trades)
      /\ IsFiniteSet(down) /\ Cardinality(down) <= Cardinality(trades)
  BY <1>1, <1>3, FS_Subset
<1>5. /\ Cardinality(ts) \in Nat /\ Cardinality(up) \in Nat /\ Cardinality(down) \in Nat
      /\ Cardinality(trades) \in Nat
  BY <1>1, <1>2, <1>4, FS_CardinalityType
<1>6. MaxTotalTrades \in Nat /\ Cardinality(trades) <= MaxTotalTrades
  BY DEF TotalAssumption, Totals!BoundAssumption, TotalTypes
<1>7. Cardinality(ts) = 0 <=> ts = {}
  BY <1>2, FS_EmptySet
<1>8. Totals!Total(ts) = Cardinality(up) - Cardinality(down)
  BY TotalsCount, Zenon DEF Totals!Total
<1>9. Totals!Total(ts) \in Sums
  <2> HIDE DEF ts, up, down
  <2> QED
    BY <1>4, <1>5, <1>6, <1>8 DEF Sums
<1> QED
  <2> HIDE DEF ts
  <2>1. Cardinality(ts) \in 0 .. MaxTotalTrades
    BY <1>2, <1>5, <1>6
  <2> QED
    BY <1>2, <1>7, <1>9, <2>1 DEF ts

\* A filter finds nothing that its period does not.
LEMMA FoundInPeriod ==
    ASSUME NEW f \in Totals!Filters, f.period = filters.period
    PROVE  /\ Totals!Found(f) \subseteq Totals!Found(InPeriod)
           /\ f.venue = All => Totals!Found(f) = Totals!Found(InPeriod)
BY DEF Totals!Found, InPeriod

\* A load begins.
LEMMA LoadBegins ==
    ASSUME TotalAssumption, TotalTypes, NEW s \in {"home", "review"}, NEW f \in Totals!Filters,
           Totals!Load(s, f)
    PROVE  /\ gen' \in 0 .. MaxLoads /\ gen' = gen + 1
           /\ chains' \subseteq Chains /\ \A c \in chains' : 1 <= c.n /\ c.n <= gen'
           /\ \E c \in chains' : c.n = gen'
           /\ \A c \in chains' : c.n = gen' =>
                /\ c.home <=> s = "home"
                /\ c.stage = "first" /\ c.of.period = f.period
                /\ s = "review" => c.of.venue = f.venue
<1> DEFINE b == [n |-> gen + 1, home |-> s = "home", stage |-> "first",
                 of |-> [f EXCEPT !.venue = IF s = "home" THEN Totals!Venue(@) ELSE @]]
<1>1. gen < MaxLoads /\ gen' = gen + 1 /\ chains' = chains \cup {b}
  BY Zenon DEF Totals!Load
<1>2. gen \in 0 .. MaxLoads /\ MaxLoads \in Nat
  BY DEF TotalTypes, TotalAssumption, Totals!BoundAssumption
<1>3. PICK v : v = IF s = "home" THEN Totals!Venue(f.venue) ELSE f.venue
  OBVIOUS
<1>4. v \in TotalVenues \cup {Partial, All}
  BY <1>3 DEF Totals!Venue, Totals!Filters
<1>5. [f EXCEPT !.venue = v] \in Totals!Filters /\ [f EXCEPT !.venue = v].period = f.period
      /\ [f EXCEPT !.venue = v].venue = v
  BY <1>4 DEF Totals!Filters
<1>6. b = [n |-> gen + 1, home |-> s = "home", stage |-> "first", of |-> [f EXCEPT !.venue = v]]
  BY <1>3 DEF Totals!Filters
<1>7. /\ b.n = gen + 1 /\ b.home = (s = "home") /\ b.stage = "first" /\ b.of.period = f.period
      /\ s = "review" => b.of.venue = f.venue
      /\ b \in Chains
  <2>1. [n |-> gen + 1, home |-> s = "home", stage |-> "first",
         of |-> [f EXCEPT !.venue = v]] \in Chains
    BY <1>2, <1>5 DEF Chains, Stages
  <2> QED
    BY <1>3, <1>5, <1>6, <2>1
<1> HIDE DEF b
<1>8. \A c \in chains : c \in Chains /\ 1 <= c.n /\ c.n <= gen
  BY DEF TotalTypes
<1>9. \A c \in chains : c.n \in Nat
  BY <1>8 DEF Chains
<1>10. gen' \in 0 .. MaxLoads /\ gen' = gen + 1 /\ b \in chains' /\ b.n = gen'
  BY <1>1, <1>2, <1>7
<1>11. ASSUME NEW c \in chains'
       PROVE  c \in Chains /\ 1 <= c.n /\ c.n <= gen' /\ (c.n = gen' => c = b)
  BY <1>1, <1>2, <1>7, <1>8, <1>9
<1>12. chains' \subseteq Chains /\ \A c \in chains' : 1 <= c.n /\ c.n <= gen'
  BY <1>11
<1>13. \A c \in chains' : c.n = gen' =>
          /\ c.home <=> s = "home"
          /\ c.stage = "first" /\ c.of.period = f.period
          /\ s = "review" => c.of.venue = f.venue
  BY <1>7, <1>11, Zenon
<1> QED
  BY <1>10, <1>12, <1>13

\* The filters are chosen, the trades refreshed, a screen visited.
LEMMA TotalsAsked ==
    ASSUME TotalAssumption, TotalInvariant,
           \/ \E s \in {"home", "review"} : Totals!Visit(s)
           \/ \E f \in Totals!Filters : Totals!Choose(f)
           \/ \E t \in Totals!Trades : Totals!Refresh(t)
    PROVE  TotalInvariant'
<1> USE DEF TotalInvariant
<1>0. /\ trades \subseteq Totals!Trades /\ IsFiniteSet(trades)
      /\ Cardinality(trades) <= MaxTotalTrades
      /\ screen \in {"home", "review", "away"} /\ filters \in Totals!Filters
      /\ gen \in 0 .. MaxLoads /\ fails \in 0 .. MaxFails
      /\ chains \subseteq Chains /\ \A c \in chains : 1 <= c.n /\ c.n <= gen
      /\ summary \in {None} \cup Summed
      /\ drawn \in Sums /\ frame \in {None} \cup Sums
      /\ 0 \in Sums /\ MaxTotalTrades \in Nat
  BY DEF TotalTypes, Sums, TotalAssumption, Totals!BoundAssumption
<1>1. /\ trades' \subseteq Totals!Trades /\ IsFiniteSet(trades')
      /\ Cardinality(trades') <= MaxTotalTrades
      /\ screen' \in {"home", "review", "away"} /\ filters' \in Totals!Filters /\ fails' = fails
      /\ \/ screen' # "away" /\ Totals!Load(screen', filters')
         \/ screen' = "away" /\ screen = "away" /\ gen' = gen /\ chains' = chains
      /\ \/ summary' = summary /\ drawn' = drawn /\ frame' = frame /\ screen' = screen
         \/ screen = "away" /\ summary' = None /\ drawn' = 0 /\ frame' = None
  <2>1. ASSUME NEW s \in {"home", "review"}, Totals!Visit(s)
        PROVE  /\ screen = "away" /\ screen' = s /\ Totals!Load(s, filters)
               /\ summary' = None /\ drawn' = 0 /\ frame' = None
               /\ trades' = trades /\ filters' = filters /\ fails' = fails
    BY <2>1, Zenon DEF Totals!Visit
  <2>2. CASE \E s \in {"home", "review"} : Totals!Visit(s)
    BY <1>0, <2>1, <2>2
  <2>3. ASSUME NEW f \in Totals!Filters, Totals!Choose(f)
        PROVE  /\ screen # "away" /\ filters' = f /\ Totals!Load(screen, f)
               /\ trades' = trades /\ screen' = screen /\ summary' = summary /\ drawn' = drawn
               /\ frame' = frame /\ fails' = fails
    BY <2>3, Zenon DEF Totals!Choose
  <2>4. CASE \E f \in Totals!Filters : Totals!Choose(f)
    BY <1>0, <2>3, <2>4
  <2>5. ASSUME NEW t \in Totals!Trades, Totals!Refresh(t)
        PROVE  /\ IsFiniteSet(trades') /\ Cardinality(trades') <= MaxTotalTrades
               /\ trades' = trades \cup {t}
               /\ IF screen = "away" THEN gen' = gen /\ chains' = chains
                  ELSE Totals!Load(screen, filters)
               /\ screen' = screen /\ filters' = filters /\ summary' = summary /\ drawn' = drawn
               /\ frame' = frame /\ fails' = fails
    <3>1. /\ Cardinality(trades) < MaxTotalTrades /\ t \notin trades /\ trades' = trades \cup {t}
          /\ IF screen = "away" THEN gen' = gen /\ chains' = chains
             ELSE Totals!Load(screen, filters)
          /\ screen' = screen /\ filters' = filters /\ summary' = summary /\ drawn' = drawn
          /\ frame' = frame /\ fails' = fails
      BY <2>5, TotalsCount, Zenon DEF Totals!Refresh
    <3>2. IsFiniteSet(trades') /\ Cardinality(trades') = Cardinality(trades) + 1
      BY <1>0, <3>1, FS_AddElement
    <3>3. Cardinality(trades) \in Nat
      BY <1>0, FS_CardinalityType
    <3> QED
      BY <1>0, <3>1, <3>2, <3>3
  <2>6. CASE \E t \in Totals!Trades : Totals!Refresh(t)
    BY <1>0, <2>5, <2>6
  <2> QED
    BY <2>2, <2>4, <2>6
<1>2. CASE screen' # "away"
  <2>1. screen' \in {"home", "review"} /\ Totals!Load(screen', filters') /\
            filters' \in Totals!Filters
    BY <1>1, <1>2
  <2>2. PICK s, f : s = screen' /\ f = filters' /\ s \in {"home", "review"} /\
                 f \in Totals!Filters /\ Totals!Load(s, f)
    BY <2>1
  <2>3. /\ gen' \in 0 .. MaxLoads /\ gen' = gen + 1
        /\ chains' \subseteq Chains /\ \A c \in chains' : 1 <= c.n /\ c.n <= gen'
        /\ \E c \in chains' : c.n = gen'
        /\ \A c \in chains' : c.n = gen' =>
             /\ c.home <=> s = "home"
             /\ c.stage = "first" /\ c.of.period = f.period
             /\ s = "review" => c.of.venue = f.venue
    <3>1. TotalAssumption /\ TotalTypes /\ s \in {"home", "review"} /\ f \in Totals!Filters /\
              Totals!Load(s, f)
      BY <2>2
    <3> QED
      BY <3>1, LoadBegins
  <2>4. TotalTypes'
    BY <1>0, <1>1, <2>3 DEF TotalTypes
  <2>5. ChainsFit'
    BY <2>2, <2>3 DEF ChainsFit, ChainFits
  <2>6. SummaryFits'
    BY <2>3 DEF SummaryFits, Totals!Loaded
  <2>7. MovesToTotal'
    BY <1>1 DEF MovesToTotal, Totals!Pnl
  <2> QED
    BY <2>4, <2>5, <2>6, <2>7
<1>3. CASE screen' = "away"
  <2>1. TotalTypes'
    BY <1>0, <1>1, <1>3 DEF TotalTypes
  <2>2. ChainsFit' /\ SummaryFits'
    BY <1>3 DEF ChainsFit, SummaryFits, Totals!Loaded
  <2>3. MovesToTotal'
    BY <1>1, <1>3 DEF MovesToTotal
  <2> QED
    BY <2>1, <2>2, <2>3
<1> QED
  BY <1>2, <1>3

\* The screen is left, a movement ends.
LEMMA TotalsMoved ==
    ASSUME TotalInvariant, Totals!Leave \/ Totals!Arrive
    PROVE  TotalInvariant'
<1> USE DEF TotalInvariant
<1>1. CASE Totals!Leave
  <2>1. /\ screen' = "away" /\ frame' = None
        /\ trades' = trades /\ filters' = filters /\ gen' = gen /\ chains' = chains
        /\ summary' = summary
        /\ drawn' = drawn /\ fails' = fails
    BY <1>1, Zenon DEF Totals!Leave
  <2> QED
    BY <2>1 DEF TotalTypes, ChainsFit, SummaryFits, MovesToTotal, Totals!Loaded
<1>2. CASE Totals!Arrive
  <2>1. /\ frame # None /\ frame' = None /\ drawn' = frame
        /\ trades' = trades /\ screen' = screen /\ filters' = filters /\ gen' = gen
        /\ chains' = chains
        /\ summary' = summary /\ fails' = fails
    BY <1>2, Zenon DEF Totals!Arrive
  <2>2. TotalTypes'
    BY <2>1 DEF TotalTypes
  <2>3. ChainsFit' /\ SummaryFits'
    BY <2>1, Zenon DEF ChainsFit, ChainFits, SummaryFits, Totals!Loaded, Totals!Found, InPeriod
  <2>4. MovesToTotal'
    BY <2>1 DEF MovesToTotal, Totals!Pnl
  <2> QED
    BY <2>2, <2>3, <2>4
<1> QED
  BY <1>1, <1>2

\* What a load that ends shows, if it counts.
LEMMA TotalsShown ==
    ASSUME TotalAssumption, TotalInvariant, NEW c \in chains, NEW s \in {None} \cup Summed,
           Totals!Shows(c, s)
    PROVE  /\ summary' \in {None} \cup Summed /\ frame' \in {None} \cup Sums
           /\ summary' = IF screen # "away" /\ c.n = gen THEN s ELSE summary
           /\ screen = "home" => (IF frame' = None THEN drawn ELSE frame') = Totals!Pnl(summary')
           /\ screen # "home" => frame' = None
<1> USE DEF TotalInvariant
<1>1. MaxTotalTrades \in Nat /\ None \notin Sums
  BY DEF TotalAssumption, Totals!BoundAssumption, Totals!NoneAssumption, Sums
<1>2. Totals!Pnl(s) \in Sums
  BY <1>1 DEF Totals!Pnl, Summed, Sums
<1>3. /\ summary \in {None} \cup Summed /\ frame \in {None} \cup Sums
      /\ screen = "home" => (IF frame = None THEN drawn ELSE frame) = Totals!Pnl(summary)
      /\ screen # "home" => frame = None
  BY DEF TotalTypes, MovesToTotal
<1>4. CASE screen # "away" /\ c.n = gen
  <2>1. summary' = s /\ frame' = IF Totals!Pnl(s) = Totals!Pnl(summary) \/ screen # "home"
                                 THEN frame ELSE Totals!Pnl(s)
    BY <1>4, Zenon DEF Totals!Shows, Totals!Counts, Totals!Moves
  <2>2. Totals!Pnl(summary') = Totals!Pnl(s)
    BY <2>1
  <2> QED
    BY <1>1, <1>2, <1>3, <1>4, <2>1, <2>2
<1>5. CASE ~ (screen # "away" /\ c.n = gen)
  <2>1. summary' = summary /\ frame' = frame
    BY <1>5, Zenon DEF Totals!Shows, Totals!Counts
  <2> QED
    BY <1>3, <1>5, <2>1
<1> QED
  BY <1>4, <1>5

\* A load goes on to its next request.
LEMMA TotalsGoOn ==
    ASSUME TotalAssumption, TotalInvariant, NEW c \in chains, NEW d \in Chains, d.n = c.n,
           screen # "away" /\ c.n = gen => ChainFits(d),
           Totals!Goes(c, {d}), fails' \in 0 .. MaxFails,
           UNCHANGED <<trades, screen, filters, gen, summary, drawn, frame>>
    PROVE  TotalInvariant'
<1> USE DEF TotalInvariant
<1>1. /\ chains' = (chains \ {c}) \cup {d}
      /\ trades' = trades /\ screen' = screen /\ filters' = filters /\ gen' = gen
      /\ summary' = summary
      /\ drawn' = drawn /\ frame' = frame
  BY Zenon DEF Totals!Goes
<1>2. TotalTypes'
  BY <1>1 DEF TotalTypes
<1>3. \A e : ChainFits(e)' <=> ChainFits(e)
  BY <1>1 DEF ChainFits
<1>4. ChainsFit'
  BY <1>1, <1>3 DEF ChainsFit
<1>5. Totals!Loaded' => Totals!Loaded
  BY <1>1 DEF Totals!Loaded
<1>6. \A f : Totals!Found(f)' = Totals!Found(f)
  BY <1>1, Zenon DEF Totals!Found
<1>7. SummaryFits'
  BY <1>1, <1>5, <1>6 DEF SummaryFits, InPeriod
<1>8. MovesToTotal'
  BY <1>1 DEF MovesToTotal, Totals!Pnl
<1> QED
  BY <1>2, <1>4, <1>7, <1>8

\* A load ends: if it counts, what it shows fits.
LEMMA TotalsEnd ==
    ASSUME TotalAssumption, TotalInvariant, NEW c \in chains, NEW s \in {None} \cup Summed,
           Totals!Goes(c, {}), Totals!Shows(c, s), fails' \in 0 .. MaxFails,
           screen # "away" /\ c.n = gen /\ s # None =>
                /\ s.stage # "whole" => s.of.period = filters.period
                /\ screen = "review" => s.of.venue = filters.venue
                /\ screen = "home" /\ s.stage # "whole" =>
                       (s.count = 0 <=> Totals!Found(InPeriod) = {}),
           UNCHANGED <<trades, screen, filters, gen, drawn>>
    PROVE  TotalInvariant'
<1> USE DEF TotalInvariant
<1>1. /\ chains' = chains \ {c}
      /\ trades' = trades /\ screen' = screen /\ filters' = filters /\ gen' = gen /\ drawn' = drawn
  BY DEF Totals!Goes
<1>2. /\ summary' \in {None} \cup Summed /\ frame' \in {None} \cup Sums
      /\ summary' = IF screen # "away" /\ c.n = gen THEN s ELSE summary
      /\ screen = "home" => (IF frame' = None THEN drawn ELSE frame') = Totals!Pnl(summary')
      /\ screen # "home" => frame' = None
  BY TotalsShown
<1>3. TotalTypes'
  BY <1>1, <1>2 DEF TotalTypes
<1>4. ChainsFit'
  BY <1>1, Zenon DEF ChainsFit, ChainFits
<1>5. Totals!Found(InPeriod)' = Totals!Found(InPeriod)
  BY <1>1, Zenon DEF Totals!Found, InPeriod
<1>6. SummaryFits'
  <2>1. CASE screen # "away" /\ c.n = gen
    BY <1>1, <1>2, <1>5, <2>1 DEF SummaryFits
  <2>2. CASE ~ (screen # "away" /\ c.n = gen)
    <3>1. Totals!Loaded' => Totals!Loaded
      BY <1>1, <2>2 DEF Totals!Loaded
    <3> QED
      BY <1>1, <1>2, <1>5, <2>2, <3>1 DEF SummaryFits
  <2> QED
    BY <2>1, <2>2
<1>7. MovesToTotal'
  BY <1>1, <1>2 DEF MovesToTotal, Totals!Pnl
<1> QED
  BY <1>3, <1>4, <1>6, <1>7

\* A load at its next request.
LEMMA NextRequest ==
    ASSUME NEW c \in Chains, NEW s, NEW f
    PROVE  [c EXCEPT !.stage = s, !.of = f] = [n |-> c.n, home |-> c.home, stage |-> s, of |-> f]
<1> DEFINE x == [c EXCEPT !.stage = s]
<1>1. PICK n, h, g, o : /\ n = c.n /\ h = c.home /\ g = c.stage /\ o = c.of
                        /\ c = [n |-> n, home |-> h, stage |-> g, of |-> o]
  BY DEF Chains
<1>2. x = [n |-> n, home |-> h, stage |-> s, of |-> o]
  BY <1>1
<1>3. [c EXCEPT !.stage = s, !.of = f] = [x EXCEPT !.of = f]
  OBVIOUS
<1> HIDE DEF x
<1>4. [x EXCEPT !.of = f] = [n |-> n, home |-> h, stage |-> s, of |-> f]
  BY <1>2
<1> QED
  BY <1>1, <1>3, <1>4

\* A load finds nothing and is widened, is answered, or fails.
LEMMA TotalsAnswered ==
    ASSUME TotalAssumption, TotalInvariant, NEW c \in chains,
           Totals!Widened(c) \/ Totals!Answered(c) \/ Totals!Fails(c)
    PROVE  TotalInvariant'
<1> USE DEF TotalInvariant
<1>1. /\ c \in Chains /\ c.of \in Totals!Filters /\ c.stage \in Stages /\ c.n \in Nat
      /\ c.home \in BOOLEAN
      /\ screen # "away" /\ c.n = gen => ChainFits(c)
      /\ fails \in 0 .. MaxFails /\ MaxFails \in Nat
  BY DEF TotalTypes, Chains, ChainsFit, TotalAssumption, Totals!BoundAssumption
<1>2. CASE Totals!Widened(c)
  <2> DEFINE d == [c EXCEPT !.stage = "wider", !.of.venue = All]
  <2>1. /\ c.home /\ c.stage = "first"
        /\ Totals!Goes(c, {d})
        /\ UNCHANGED <<trades, screen, filters, gen, summary, drawn, frame, fails>>
    BY <1>2, Zenon DEF Totals!Widened, Totals!Empty
  <2>2. d =
            [n |-> c.n, home |-> c.home, stage |-> "wider",
             of |-> [period |-> c.of.period, venue |-> All]]
    <3>1. d = [c EXCEPT !.stage = "wider", !.of = [c.of EXCEPT !.venue = All]]
      BY <1>1 DEF Chains
    <3>2. [c.of EXCEPT !.venue = All] = [period |-> c.of.period, venue |-> All]
      BY <1>1 DEF Totals!Filters
    <3>3. d = [n |-> c.n, home |-> c.home, stage |-> "wider", of |-> [c.of EXCEPT !.venue = All]]
      BY <1>1, <3>1, NextRequest, Zenon
    <3> QED
      BY <3>2, <3>3
  <2>3. [period |-> c.of.period, venue |-> All] \in Totals!Filters
    BY <1>1 DEF Totals!Filters
  <2>4. d \in Chains /\ d.n = c.n
    BY <1>1, <2>2, <2>3 DEF Chains, Stages
  <2>5. screen # "away" /\ c.n = gen => ChainFits(d)
    <3> HIDE DEF d
    <3>1. /\ d.home = c.home /\ d.stage = "wider" /\ d.of.period = c.of.period /\ d.of.venue = All
      BY <2>2
    <3> QED
      BY <1>1, <2>1, <3>1 DEF ChainFits
  <2>6. fails' \in 0 .. MaxFails
    BY <1>1, <2>1
  <2> HIDE DEF d
  <2>7. UNCHANGED <<trades, screen, filters, gen, summary, drawn, frame>>
    BY <2>1
  <2> QED
    BY <2>1, <2>4, <2>5, <2>6, <2>7, TotalsGoOn
<1>3. CASE Totals!Answered(c)
  <2> DEFINE ts == Totals!Found(c.of)
             s == [of |-> c.of, stage |-> c.stage, count |-> Cardinality(ts),
                   total |-> Totals!Total(ts)]
  <2>1. /\ ~ Totals!Empty(c) /\ Totals!Goes(c, {})
        /\ Totals!Shows(c, s)
        /\ UNCHANGED <<trades, screen, filters, gen, drawn, fails>>
    BY <1>3, TotalsCount, Zenon DEF Totals!Answered
  <2>2. /\ Cardinality(ts) \in 0 .. MaxTotalTrades
        /\ Cardinality(ts) = 0 <=> ts = {}
        /\ Totals!Total(ts) \in Sums
    BY <1>1, FoundIs
  <2>3. s \in Summed
    BY <1>1, <2>2 DEF Summed
  <2>4. ASSUME screen = "home", c.n = gen, c.stage # "whole"
        PROVE  ts = {} <=> Totals!Found(InPeriod) = {}
    <3>1. c.home /\ c.of.period = filters.period /\ (c.stage = "wider" => c.of.venue = All)
      BY <1>1, <2>4 DEF ChainFits
    <3>2. ts \subseteq Totals!Found(InPeriod) /\ (c.of.venue = All => ts = Totals!Found(InPeriod))
      BY <1>1, <3>1, FoundInPeriod
    <3>3. CASE c.stage = "wider"
      BY <3>1, <3>2, <3>3
    <3>4. CASE c.stage = "first"
      <4>1. ts # {} \/ c.of = Totals!Whole
        BY <2>1, <3>1, <3>4, Zenon DEF Totals!Empty
      <4>2. c.of = Totals!Whole => c.of.venue = All
        BY DEF Totals!Whole
      <4> QED
        BY <3>2, <4>1, <4>2
    <3> QED
      BY <1>1, <2>4, <3>3, <3>4 DEF Stages
  <2>5. screen # "away" /\ c.n = gen /\ s # None =>
                /\ s.stage # "whole" => s.of.period = filters.period
                /\ screen = "review" => s.of.venue = filters.venue
                /\ screen = "home" /\ s.stage # "whole" =>
                       (s.count = 0 <=> Totals!Found(InPeriod) = {})
    <3>1. s.of = c.of /\ s.stage = c.stage /\ (s.count = 0 <=> ts = {})
      BY <2>2
    <3> HIDE DEF s, ts
    <3> QED
      BY <1>1, <2>4, <3>1 DEF ChainFits
  <2>6. fails' \in 0 .. MaxFails
    BY <1>1, <2>1
  <2> HIDE DEF s
  <2>7. UNCHANGED <<trades, screen, filters, gen, drawn>>
    BY <2>1
  <2> QED
    BY <2>1, <2>3, <2>5, <2>6, <2>7, TotalsEnd
<1>4. CASE Totals!Fails(c)
  <2>1. /\ fails < MaxFails /\ fails' = fails + 1
        /\ UNCHANGED <<trades, screen, filters, gen, drawn>>
        /\ IF c.home /\ c.stage # "whole"
           THEN Totals!Goes(c, {[c EXCEPT !.stage = "whole", !.of = Totals!Whole]}) /\
               UNCHANGED <<summary, frame>>
           ELSE Totals!Goes(c, {}) /\ Totals!Shows(c, None)
    BY <1>4, Zenon DEF Totals!Fails
  <2>2. fails' \in 0 .. MaxFails
    BY <1>1, <2>1
  <2>3. CASE c.home /\ c.stage # "whole"
    <3> DEFINE d == [c EXCEPT !.stage = "whole", !.of = Totals!Whole]
    <3>1. d = [n |-> c.n, home |-> c.home, stage |-> "whole", of |-> Totals!Whole]
      BY <1>1, NextRequest, Zenon
    <3>2. Totals!Whole \in Totals!Filters
      BY DEF Totals!Whole, Totals!Filters, Totals!Periods
    <3>3. d \in Chains /\ d.n = c.n
      BY <1>1, <3>1, <3>2 DEF Chains, Stages
    <3>4. screen # "away" /\ c.n = gen => ChainFits(d)
      BY <1>1, <2>3, <3>1 DEF ChainFits
    <3> HIDE DEF d
    <3>5. Totals!Goes(c, {d}) /\ UNCHANGED <<trades, screen, filters, gen, summary, drawn, frame>>
      BY <2>1, <2>3 DEF d
    <3> QED
      BY <2>2, <3>3, <3>4, <3>5, TotalsGoOn
  <2>4. CASE ~ (c.home /\ c.stage # "whole")
    <3>1. Totals!Goes(c, {}) /\ Totals!Shows(c, None)
      BY <2>1, <2>4
    <3>2. UNCHANGED <<trades, screen, filters, gen, drawn>>
      BY <2>1
    <3> QED
      BY <2>2, <3>1, <3>2, TotalsEnd
  <2> QED
    BY <2>3, <2>4
<1> QED
  BY <1>2, <1>3, <1>4

\* Every step of the summary keeps the invariant.
LEMMA TotalsKept ==
    ASSUME TotalAssumption, TotalInvariant, [Totals!Next]_Totals!vars
    PROVE  TotalInvariant'
<1>1. CASE UNCHANGED Totals!vars
  <2>1. /\ trades' = trades /\ screen' = screen /\ filters' = filters /\ gen' = gen
        /\ chains' = chains
        /\ summary' = summary /\ drawn' = drawn /\ frame' = frame /\ fails' = fails
    BY <1>1 DEF Totals!vars
  <2> QED
    BY <2>1, Zenon
       DEF TotalInvariant, TotalTypes, ChainsFit, ChainFits, SummaryFits, MovesToTotal,
           Totals!Loaded, Totals!Found, InPeriod, Totals!Pnl
<1>2. CASE Totals!Next
  BY <1>2, TotalsAsked, TotalsMoved, TotalsAnswered, Zenon DEF Totals!Next
<1> QED
  BY <1>1, <1>2

\* A home screen that is opened satisfies it.
LEMMA TotalsStart == TotalAssumption /\ Totals!Init => TotalInvariant
<1> SUFFICES ASSUME TotalAssumption, Totals!Init PROVE TotalInvariant
  OBVIOUS
<1>1. /\ trades \in SUBSET Totals!Trades /\ Cardinality(trades) <= MaxTotalTrades
      /\ screen = "away" /\ filters \in Totals!Filters
      /\ gen = 0 /\ chains = {} /\ summary = None
      /\ drawn = 0 /\ frame = None /\ fails = 0
  BY TotalsCount, Zenon DEF Totals!Init
<1>2. IsFiniteSet(trades)
  <2>1. IsFiniteSet(TotalVenues)
    BY TotalsCount DEF TotalAssumption, Totals!BoundAssumption
  <2>2. IsFiniteSet(Totals!Ages) /\ IsFiniteSet({1, -1})
    <3>1. IsFiniteSet({"recent"}) /\ IsFiniteSet({1})
      BY FS_Singleton
    <3>2. IsFiniteSet({"recent"} \cup {"old"}) /\ IsFiniteSet({1} \cup {-1})
      BY <3>1, FS_AddElement
    <3>3. Totals!Ages = {"recent"} \cup {"old"} /\ {1, -1} = {1} \cup {-1}
      BY DEF Totals!Ages
    <3> QED
      BY <3>2, <3>3
  <2>3. IsFiniteSet(Totals!Ages \X {1, -1})
    BY <2>2, FS_Product
  <2>4. IsFiniteSet(TotalVenues \X (Totals!Ages \X {1, -1}))
    BY <2>1, <2>3, FS_Product
  <2> DEFINE g == [t \in Totals!Trades |-> <<t[1], <<t[2], t[3]>>>>]
             ps == TotalVenues \X (Totals!Ages \X {1, -1})
  <2>5. ASSUME NEW t \in Totals!Trades
        PROVE  t = <<t[1], t[2], t[3]>> /\ g[t] = <<t[1], <<t[2], t[3]>>>> /\ g[t] \in ps
    BY DEF Totals!Trades
  <2>6. g \in [Totals!Trades -> ps]
    BY <2>5
  <2>7. ASSUME NEW t \in Totals!Trades, NEW u \in Totals!Trades, g[t] = g[u] PROVE t = u
    <3>1. t[1] = u[1] /\ t[2] = u[2] /\ t[3] = u[3]
      BY <2>5, <2>7
    <3> QED
      BY <2>5, <3>1
  <2> HIDE DEF g, ps
  <2>8. g \in Injection(Totals!Trades, ps)
    BY <2>6, <2>7 DEF Injection, IsInjective
  <2>9. IsFiniteSet(Totals!Trades)
    BY <2>4, <2>8, FS_Injection DEF ps
  <2> QED
    BY <1>1, <2>9, FS_Subset
<1>3. {MaxLoads, MaxFails, MaxTotalTrades} \subseteq Nat
  BY DEF TotalAssumption, Totals!BoundAssumption
<1>4. TotalTypes
  BY <1>1, <1>2, <1>3 DEF TotalTypes, Sums
<1>5. ChainsFit /\ SummaryFits /\ MovesToTotal
  BY <1>1 DEF ChainsFit, SummaryFits, Totals!Loaded, MovesToTotal
<1> QED
  BY <1>4, <1>5 DEF TotalInvariant

\* The invariant says that the totals are those of the filters.
LEMMA TotalsSound == TotalAssumption /\ TotalInvariant => Totals!TotalsFit /\ Totals!TypeOK
<1> SUFFICES ASSUME TotalAssumption, TotalInvariant PROVE Totals!TotalsFit /\ Totals!TypeOK
  OBVIOUS
<1>1. summary = None \/ summary.count \in Nat
  BY DEF TotalInvariant, TotalTypes, Summed
<1>2. Totals!SummaryOfFilters
  BY DEF TotalInvariant, SummaryFits, Totals!SummaryOfFilters
<1>3. Totals!IdleIsNothing
  <2> SUFFICES ASSUME Totals!Loaded, screen = "home", summary # None, summary.stage # "whole"
               PROVE  /\ Totals!Mood = "idle" <=> ~ (Totals!Found(InPeriod) # {})
                      /\ Totals!PositionDone <=> Totals!Found(InPeriod) # {}
    BY DEF Totals!IdleIsNothing, InPeriod
  <2>1. summary.count = 0 <=> Totals!Found(InPeriod) = {}
    BY DEF TotalInvariant, SummaryFits
  <2>2. Totals!Mood = "idle" <=> summary.count = 0
    BY DEF Totals!Mood
  <2>3. Totals!PositionDone <=> summary.count # 0
    BY <1>1 DEF Totals!PositionDone
  <2> QED
    BY <2>1, <2>2, <2>3
<1>4. Totals!DrawnIsTotal
  BY DEF TotalInvariant, MovesToTotal, Totals!DrawnIsTotal
<1>5. Totals!TypeOK
  BY DEF TotalInvariant, TotalTypes, Totals!TypeOK, Chains, Stages, Summed, Sums
<1> QED
  BY <1>2, <1>3, <1>4, <1>5 DEF Totals!TotalsFit

-----------------------------------------------------------------------------
(* The portfolio *)

\* What the portfolio assumes of its constants.
PortfolioAssumption == Portfolio!BoundAssumption /\ Portfolio!DataAssumption

\* What is listed, from what and for which filters, and what is asked for.
PositionLists == [from : {"start", "events", "trades"}, of : Portfolio!Filters, n : Nat]
Timelines == [from : {"start", "events", "trades", "mixed"}, of : Portfolio!Filters, n : Nat]
Asks ==
    [k : {"positions", "timeline", "more", "trades", "make", "remade"}, of : Portfolio!Filters,
     made : BOOLEAN, n : Nat, page : Nat]

\* The types, and that no request is younger than the last.
PortfolioTypes ==
    /\ made \in BOOLEAN /\ filters \in Portfolio!Filters
    /\ positions \in PositionLists /\ timeline \in Timelines /\ next \in Nat
    /\ loadingPositions \in BOOLEAN /\ loadingTimeline \in BOOLEAN /\ error \in BOOLEAN
    /\ usingTradeFallback \in BOOLEAN /\ backfillLoading \in BOOLEAN
    /\ positionPage \in Nat \ {0}
    /\ wire \subseteq Asks /\ \A r \in wire : 1 <= r.n /\ r.n <= asks
    /\ asks \in 1 .. MaxAsks /\ fails \in 0 .. MaxFails
    /\ overtaken \in BOOLEAN /\ joined \in BOOLEAN

\* No answer has been overtaken yet, none failed.
Clean == ~ overtaken /\ fails = 0

\* Whether a request of a kind is under way.
On(k) == \E r \in wire : r.k = k

\* The screen shows as loading what was asked for.
LoadsAreOn ==
    /\ loadingPositions <=> On("positions")
    /\ loadingTimeline <=> On("timeline") \/ On("more")
    /\ ~ (On("timeline") /\ On("more"))

\* Trades are asked for when both lists are there and the one of positions is empty.
TradesAreAsked ==
    \A r \in wire : r.k = "trades" =>
        /\ r.of = filters /\ filters.trades
        /\ ~ loadingPositions /\ ~ loadingTimeline /\ positions.n = 0

\* Not asked for, the positions are those of the filters, or of their trades.
PositionsAre ==
    ~ On("positions") =>
        /\ positions.of = filters /\ positions.from # "start"
        /\ positions.from = "trades" =>
              filters.trades /\ ~ On("timeline") /\ positions.n = HeldFills[filters]

\* Neither asked for nor made anew, they are as many as the events have, trades where that is none.
PositionsCount ==
    ~ On("positions") /\ ~ On("remade") =>
        /\ positions.from = "events" => positions.n = Portfolio!PositionsOf(filters, made)
        /\ positions.from = "trades" => Portfolio!PositionsOf(filters, made) = 0

\* Not asked for, the timeline is that of the filters, of one source unless pages were joined.
TimelineIs ==
    /\ ~ On("timeline") => timeline.of = filters /\ timeline.from # "start"
    /\ ~ joined => timeline.from # "mixed" /\ (On("more") => timeline.from = "events")

\* Where the positions are none though trades make some, the trades are asked for.
TradesStand ==
    ~ loadingPositions /\ ~ loadingTimeline /\ filters.trades /\ positions.n = 0 /\
        HeldFills[filters] > 0 =>
        positions.from = "trades" \/ On("trades")

\* The banner stands over trades, trades asked for, or a venue without.
BannerStands ==
    ~ loadingPositions /\ ~ loadingTimeline /\ usingTradeFallback =>
        positions.from = "trades" \/ On("trades") \/ HeldTrades[filters.venue] = 0

\* The page of positions is one of theirs.
PageIs == positionPage <= Portfolio!PagesOf(positions.n)

\* What every step keeps: the types always, the rest until an answer is overtaken or fails.
PortfolioInvariant ==
    /\ PortfolioTypes /\ PageIs
    /\ Clean => /\ LoadsAreOn /\ TradesAreAsked /\ PositionsAre /\ PositionsCount /\ TimelineIs
                /\ TradesStand /\ BannerStands

\* A list has a page, whatever its length.
LEMMA PagesExist == ASSUME PortfolioAssumption, NEW n \in Nat
                    PROVE  Portfolio!PagesOf(n) \in Nat \ {0}
<1>1. PageSize \in Nat \ {0}
  BY DEF PortfolioAssumption, Portfolio!BoundAssumption
<1>2. PICK d : d = (n + PageSize - 1) \div PageSize
  OBVIOUS
<1>3. d \in Int
  BY <1>1, <1>2
<1> QED
  BY <1>2, <1>3 DEF Portfolio!PagesOf, Portfolio!Larger

\* What the effect makes of the requests and of the banner.
SameLists ==
    /\ loadingPositions' = loadingPositions /\ loadingTimeline' = loadingTimeline
    /\ positions'.n = positions.n /\ timeline'.n = timeline.n

\* The requests but those for trades, and the request for trades that the effect makes.
NotTrades(w) == {r \in w : r.k # "trades"}
TradesRequest == [k |-> "trades", of |-> filters', made |-> made',
                  n |-> Portfolio!Larger(asks', 1), page |-> 1]

\* The effect does nothing, cancels, lowers the banner, or asks for the trades.
LEMMA FallbackIs ==
    ASSUME NEW w, NEW u, Portfolio!Fallback(w, u)
    PROVE  \/ SameLists /\ wire' = w /\ usingTradeFallback' = u
           \/ /\ ~ SameLists /\ (loadingPositions' \/ loadingTimeline')
              /\ wire' = NotTrades(w) /\ usingTradeFallback' = u
           \/ /\ ~ SameLists /\ ~ loadingPositions' /\ ~ loadingTimeline'
              /\ positions'.n > 0 \/ ~ filters'.trades
              /\ wire' = NotTrades(w) /\ usingTradeFallback' = FALSE
           \/ /\ ~ SameLists /\ ~ loadingPositions' /\ ~ loadingTimeline'
              /\ ~ (positions'.n > 0 \/ ~ filters'.trades)
              /\ wire' = NotTrades(w) \cup {TradesRequest} /\ usingTradeFallback' = u
<1>1. <<loadingPositions, loadingTimeline, positions.n, timeline.n>>' #
      <<loadingPositions, loadingTimeline, positions.n, timeline.n>> <=> ~ SameLists
  BY Zenon DEF SameLists
<1>2. IF SameLists
      THEN wire' = w /\ usingTradeFallback' = u
      ELSE IF loadingPositions' \/ loadingTimeline'
      THEN wire' = NotTrades(w) /\ usingTradeFallback' = u
      ELSE IF positions'.n > 0 \/ ~ filters'.trades
      THEN wire' = NotTrades(w) /\ usingTradeFallback' = FALSE
      ELSE wire' = NotTrades(w) \cup {TradesRequest} /\ usingTradeFallback' = u
  BY <1>1, Zenon DEF Portfolio!Fallback, NotTrades, TradesRequest
<1> QED
  BY <1>2, Zenon

\* The requests the effect leaves: those there were, but for the trades.
LEMMA FallbackRequests ==
    ASSUME PortfolioAssumption, NEW w, NEW u, u \in BOOLEAN, Portfolio!Fallback(w, u),
           w \subseteq Asks,
           \A r \in w : 1 <= r.n /\ r.n <= asks',
           filters' \in Portfolio!Filters, made' \in BOOLEAN, asks' \in 1 .. MaxAsks
    PROVE  /\ wire' \subseteq Asks /\ \A r \in wire' : 1 <= r.n /\ r.n <= asks'
           /\ usingTradeFallback' \in BOOLEAN
           /\ \A k : k # "trades" => (On(k)' <=> \E r \in w : r.k = k)
<1>1. MaxAsks \in Nat
  BY DEF PortfolioAssumption, Portfolio!BoundAssumption
<1>2. Portfolio!Larger(asks', 1) = asks'
  BY <1>1 DEF Portfolio!Larger
<1>3. TradesRequest \in Asks /\ TradesRequest.n = asks' /\ TradesRequest.k = "trades"
  BY <1>1, <1>2 DEF TradesRequest, Asks
<1>4. wire' = w \/ wire' = NotTrades(w) \/ wire' = NotTrades(w) \cup {TradesRequest}
  BY FallbackIs, Zenon
<1>5. usingTradeFallback' \in BOOLEAN
  BY FallbackIs, Zenon
<1>6. \A r \in wire' : r \in w \/ r = TradesRequest
  BY <1>4 DEF NotTrades
<1>7. \A r \in w : r.k # "trades" => r \in wire'
  BY <1>4 DEF NotTrades
<1>8. asks' \in Nat /\ 1 <= asks'
  BY <1>1
<1>9. \A r \in wire' : r \in Asks /\ 1 <= r.n /\ r.n <= asks'
  BY <1>3, <1>6, <1>8
<1>10. \A k : k # "trades" => (On(k)' <=> \E r \in w : r.k = k)
  BY <1>3, <1>6, <1>7, Zenon DEF On
<1> QED
  BY <1>5, <1>9, <1>10

\* What the effect keeps of trades and of the banner.
LEMMA FallbackKeeps ==
    ASSUME PortfolioTypes, Clean, TradesAreAsked, TradesStand, BannerStands, NEW w, NEW u,
           Portfolio!Fallback(w, u),
           u \in BOOLEAN, filters' = filters, positions' \in PositionLists,
           loadingPositions' \in BOOLEAN, loadingTimeline' \in BOOLEAN,
           \A r \in w : r.k = "trades" => r \in wire,
           positions'.from = "trades" \/ \A r \in wire : r.k = "trades" => r \in w,
           SameLists /\ ~ loadingPositions' /\ positions.from = "trades" =>
                positions'.from = "trades" \/
                    (positions'.n = 0 /\ HeldFills[filters] > 0 => On("trades")),
           u => positions'.from = "trades" \/
               (usingTradeFallback /\ positions'.from = positions.from)
                \/ (usingTradeFallback /\ ~ SameLists)
    PROVE  TradesAreAsked' /\ TradesStand' /\ BannerStands'
<1>1. CASE SameLists /\ wire' = w /\ usingTradeFallback' = u
  <2>1. TradesAreAsked'
    BY <1>1, Zenon DEF TradesAreAsked, SameLists
  <2>2. On("trades") => On("trades")' \/ positions'.from = "trades"
    BY <1>1, Zenon DEF On
  <2>3. TradesStand'
    BY <1>1, <2>2, Zenon DEF TradesStand, SameLists
  <2>4. BannerStands'
    BY <1>1, <2>2, Zenon DEF BannerStands, SameLists
  <2> QED
    BY <2>1, <2>3, <2>4
<1>2. CASE wire' = NotTrades(w) /\ (loadingPositions' \/ loadingTimeline')
  BY <1>2 DEF TradesAreAsked, TradesStand, BannerStands, NotTrades
<1>3. CASE /\ positions'.n > 0 \/ ~ filters'.trades
           /\ wire' = NotTrades(w) /\ usingTradeFallback' = FALSE
  BY <1>3 DEF TradesAreAsked, TradesStand, BannerStands, NotTrades
<1>4. CASE /\ ~ loadingPositions' /\ ~ loadingTimeline'
           /\ ~ (positions'.n > 0 \/ ~ filters'.trades)
           /\ wire' = NotTrades(w) \cup {TradesRequest}
  <2>1. positions'.n = 0 /\ filters'.trades
    BY <1>4 DEF PositionLists
  <2>2. TradesRequest \in wire' /\ TradesRequest.k = "trades" /\ TradesRequest.of = filters'
    BY <1>4 DEF TradesRequest
  <2>3. \A r \in wire' : r.k = "trades" => r = TradesRequest
    BY <1>4 DEF NotTrades
  <2> QED
    BY <1>4, <2>1, <2>2, <2>3, Zenon DEF TradesAreAsked, TradesStand, BannerStands, On
<1> QED
  BY <1>1, <1>2, <1>3, <1>4, FallbackIs, Zenon

\* An answer that overtakes nothing is of the filters and of the events there are, and the only one.
LEMMA NotCrossed ==
    ASSUME NEW r, NEW m, Portfolio!Crossed(r, m), ~ overtaken'
    PROVE  ~ overtaken /\ r.of = filters /\ m = made /\ \A q \in wire \ {r} : q.k # r.k
BY Zenon DEF Portfolio!Crossed

\* What the server has.
LEMMA ServerHas ==
    ASSUME PortfolioAssumption, NEW f \in Portfolio!Filters, NEW m \in BOOLEAN
    PROVE  /\ Portfolio!PositionsOf(f, m) \in Nat /\ Portfolio!EventPages(f, m) \in Nat
           /\ HeldTrades[f.venue] \in Nat /\ HeldFills[f] \in Nat
           /\ HeldFills[f] > 0 => HeldTrades[f.venue] > 0
BY DEF PortfolioAssumption, Portfolio!DataAssumption, Portfolio!PositionsOf,
       Portfolio!EventPages, Portfolio!Filters

\* A first page is one of events.
LEMMA FirstPages ==
    ASSUME PortfolioAssumption, NEW f \in Portfolio!Filters, NEW m \in BOOLEAN,
           Portfolio!FirstPage(f, m)
    PROVE  timeline' \in Timelines /\ next' \in Nat /\ timeline'.from = "events" /\ timeline'.of = f
<1>1. PICK n : n = Portfolio!Smaller(1, Portfolio!EventPages(f, m))
  OBVIOUS
<1>2. n \in Nat
  BY <1>1, ServerHas DEF Portfolio!Smaller
<1>3. timeline' = [from |-> "events", of |-> f, n |-> n]
  BY <1>1, Zenon DEF Portfolio!FirstPage, Portfolio!List
<1>4. next' \in Nat
  BY DEF Portfolio!FirstPage
<1> QED
  BY <1>2, <1>3, <1>4 DEF Timelines

\* The page follows the list.
LEMMA PageFollows ==
    ASSUME PortfolioAssumption, positionPage \in Nat \ {0}, positions'.n \in Nat, Portfolio!Clamp
    PROVE  positionPage' \in Nat \ {0} /\ PageIs'
<1>1. PICK p : p = Portfolio!PagesOf(positions'.n)
  OBVIOUS
<1>2. p \in Nat \ {0}
  BY <1>1, PagesExist
<1>3. positionPage' = Portfolio!Smaller(positionPage, p)
  BY <1>1, Zenon DEF Portfolio!Clamp
<1>4. positionPage' \in Nat \ {0} /\ positionPage' <= p
  BY <1>2, <1>3 DEF Portfolio!Smaller
<1> QED
  BY <1>1, <1>4 DEF PageIs, Portfolio!PagesOf, Portfolio!Larger

\* The user chooses other filters.
LEMMA PortfolioFiltered ==
    ASSUME PortfolioAssumption, PortfolioInvariant, NEW f \in Portfolio!Filters,
           Portfolio!SetFilter(f)
    PROVE  PortfolioInvariant'
<1>0. PortfolioTypes /\ PageIs /\ MaxAsks \in Nat
  BY DEF PortfolioInvariant, PortfolioAssumption, Portfolio!BoundAssumption
<1>1. /\ asks < MaxAsks /\ asks' = asks + 1 /\ filters' = f /\ positionPage' = 1
      /\ loadingPositions' = TRUE /\ loadingTimeline' = TRUE /\ error' = FALSE
      /\ usingTradeFallback' = FALSE \/ usingTradeFallback' = usingTradeFallback
      /\ made' = made /\ positions' = positions /\ timeline' = timeline /\ next' = next
      /\ backfillLoading' = backfillLoading /\ fails' = fails /\ joined' = joined
  BY Zenon DEF Portfolio!SetFilter, Portfolio!May, Portfolio!data
<1>2. /\ wire' = NotTrades(wire) \cup Portfolio!Both(f)
      /\ overtaken' = (overtaken \/ On("more"))
  BY Zenon DEF Portfolio!SetFilter, Portfolio!Replaces, NotTrades, On
<1>3. Portfolio!Both(f) = {[k |-> "positions", of |-> f, made |-> made, n |-> asks', page |-> 1],
                           [k |-> "timeline", of |-> f, made |-> made, n |-> asks', page |-> 1]}
  BY Zenon DEF Portfolio!Both, Portfolio!Request
<1>4. asks \in Nat /\ 1 <= asks /\ asks' \in 1 .. MaxAsks /\ asks' = asks + 1
  BY <1>0, <1>1 DEF PortfolioTypes
<1>5. \A r \in Portfolio!Both(f) : /\ r \in Asks /\ r.n = asks'
                                   /\ r.k = "positions" \/ r.k = "timeline"
  <2>1. made \in BOOLEAN /\ asks' \in Nat
    BY <1>0, <1>4 DEF PortfolioTypes
  <2> QED
    BY <1>3, <2>1 DEF Asks
<1>6. \A r \in wire' : r \in Asks /\ 1 <= r.n /\ r.n <= asks'
  <2>1. \A r \in wire : r \in Asks /\ 1 <= r.n /\ r.n <= asks /\ r.n \in Nat
    BY <1>0 DEF PortfolioTypes, Asks
  <2> QED
    BY <1>2, <1>4, <1>5, <2>1 DEF NotTrades
<1>7. PortfolioTypes'
  <2>1. overtaken' \in BOOLEAN
    <3>1. overtaken \in BOOLEAN
      BY <1>0 DEF PortfolioTypes
    <3>2. On("more") \in BOOLEAN
      BY Zenon DEF On
    <3> QED
      BY <1>2, <3>1, <3>2
  <2>2. wire' \subseteq Asks /\ \A r \in wire' : 1 <= r.n /\ r.n <= asks'
    BY <1>6
  <2>3. loadingPositions' \in BOOLEAN /\ loadingTimeline' \in BOOLEAN /\ error' \in BOOLEAN
    BY <1>1
  <2>4. usingTradeFallback' \in BOOLEAN /\ joined' \in BOOLEAN /\ backfillLoading' \in BOOLEAN
        /\ made' \in BOOLEAN
    BY <1>0, <1>1, Zenon DEF PortfolioTypes
  <2>5. /\ filters' \in Portfolio!Filters /\ positions' \in PositionLists /\ timeline' \in Timelines
        /\ next' \in Nat /\ positionPage' \in Nat \ {0} /\ fails' \in 0 .. MaxFails
    BY <1>0, <1>1 DEF PortfolioTypes
  <2> QED
    BY <1>4, <2>1, <2>2, <2>3, <2>4, <2>5, Zenon DEF PortfolioTypes
<1>8. PageIs'
  <2>1. positions.n \in Nat
    BY <1>0 DEF PortfolioTypes, PositionLists
  <2>2. PICK p : p = Portfolio!PagesOf(positions.n) /\ p \in Nat \ {0}
    BY <2>1, PagesExist
  <2>3. Portfolio!PagesOf(positions'.n) = p
    BY <1>1, <2>2
  <2>4. positionPage' <= p
    BY <1>1, <2>2
  <2> QED
    BY <2>3, <2>4, Zenon DEF PageIs, Portfolio!PagesOf, Portfolio!Larger
<1>9. ASSUME Clean'
      PROVE  LoadsAreOn' /\ TradesAreAsked' /\ PositionsAre' /\ PositionsCount' /\ TimelineIs'
             /\ TradesStand' /\ BannerStands'
  <2>1. Clean /\ ~ On("more")
    BY <1>1, <1>2, <1>9 DEF Clean
  <2>2. On("positions")' /\ On("timeline")'
    <3>1. /\ [k |-> "positions", of |-> f, made |-> made, n |-> asks', page |-> 1] \in wire'
          /\ [k |-> "timeline", of |-> f, made |-> made, n |-> asks', page |-> 1] \in wire'
      BY <1>2, <1>3
    <3>2. /\ [k |-> "positions", of |-> f, made |-> made, n |-> asks', page |-> 1].k = "positions"
          /\ [k |-> "timeline", of |-> f, made |-> made, n |-> asks', page |-> 1].k = "timeline"
      OBVIOUS
    <3> QED
      BY <3>1, <3>2, Zenon DEF On
  <2>3. ~ On("more")'
    BY <1>2, <1>5, <2>1 DEF On, NotTrades
  <2>4. LoadsAreOn' /\ PositionsAre' /\ PositionsCount'
    BY <1>1, <2>2, <2>3 DEF LoadsAreOn, PositionsAre, PositionsCount
  <2>5. TimelineIs'
    BY <1>1, <2>1, <2>2, <2>3 DEF TimelineIs, PortfolioInvariant
  <2>6. TradesAreAsked' /\ TradesStand' /\ BannerStands'
    BY <1>1, <1>2, <1>5 DEF TradesAreAsked, TradesStand, BannerStands, NotTrades
  <2> QED
    BY <2>4, <2>5, <2>6
<1> QED
  BY <1>7, <1>8, <1>9 DEF PortfolioInvariant

\* The two requests of a load.
LEMMA BothAre ==
    ASSUME made \in BOOLEAN, asks' \in Nat, NEW f \in Portfolio!Filters
    PROVE  /\ \A r \in Portfolio!Both(f) :
                r \in Asks /\ r.n = asks' /\ (r.k = "positions" \/ r.k = "timeline")
           /\ \E r \in Portfolio!Both(f) : r.k = "positions"
           /\ \E r \in Portfolio!Both(f) : r.k = "timeline"
<1>1. Portfolio!Both(f) = {[k |-> "positions", of |-> f, made |-> made, n |-> asks', page |-> 1],
                           [k |-> "timeline", of |-> f, made |-> made, n |-> asks', page |-> 1]}
  BY Zenon DEF Portfolio!Both, Portfolio!Request
<1> QED
  BY <1>1 DEF Asks

\* The portfolio changed elsewhere: both lists are asked for again.
LEMMA PortfolioRefreshed ==
    ASSUME PortfolioAssumption, PortfolioInvariant, Portfolio!Refresh
    PROVE  PortfolioInvariant'
<1>0. PortfolioTypes /\ PageIs /\ MaxAsks \in Nat
  BY DEF PortfolioInvariant, PortfolioAssumption, Portfolio!BoundAssumption
<1> DEFINE w == wire \cup Portfolio!Both(filters)
<1>1. /\ asks < MaxAsks /\ asks' = asks + 1 /\ filters' = filters /\ positionPage' = positionPage
      /\ loadingPositions' = TRUE /\ loadingTimeline' = TRUE /\ error' = FALSE
      /\ made' = made /\ positions' = positions /\ timeline' = timeline /\ next' = next
      /\ backfillLoading' = backfillLoading /\ fails' = fails /\ joined' = joined
  BY Zenon DEF Portfolio!Refresh, Portfolio!May, Portfolio!data
<1>2. /\ Portfolio!Fallback(w, usingTradeFallback)
      /\ overtaken' = (overtaken \/ On("more"))
  BY Zenon DEF Portfolio!Refresh, Portfolio!Replaces, On
<1>3. asks \in Nat /\ 1 <= asks /\ asks' \in 1 .. MaxAsks /\ asks' = asks + 1
  BY <1>0, <1>1 DEF PortfolioTypes
<1>4. /\ made \in BOOLEAN /\ asks' \in Nat /\ filters \in Portfolio!Filters
      /\ usingTradeFallback \in BOOLEAN
  BY <1>0, <1>3 DEF PortfolioTypes
<1>5. /\ \A r \in Portfolio!Both(filters) :
           r \in Asks /\ r.n = asks' /\ (r.k = "positions" \/ r.k = "timeline")
      /\ \E r \in Portfolio!Both(filters) : r.k = "positions"
      /\ \E r \in Portfolio!Both(filters) : r.k = "timeline"
  BY <1>4, BothAre
<1>6. w \subseteq Asks /\ \A r \in w : 1 <= r.n /\ r.n <= asks'
  <2>1. \A r \in wire : r \in Asks /\ 1 <= r.n /\ r.n <= asks /\ r.n \in Nat
    BY <1>0 DEF PortfolioTypes, Asks
  <2> QED
    BY <1>3, <1>5, <2>1
<1>7. /\ wire' \subseteq Asks /\ \A r \in wire' : 1 <= r.n /\ r.n <= asks'
      /\ usingTradeFallback' \in BOOLEAN
      /\ \A k : k # "trades" => (On(k)' <=> \E r \in w : r.k = k)
  <2> HIDE DEF w
  <2>1. filters' \in Portfolio!Filters /\ made' \in BOOLEAN
    BY <1>1, <1>4
  <2> QED
    BY <1>2, <1>3, <1>4, <1>6, <2>1, FallbackRequests
<1>8. PortfolioTypes'
  <2>1. overtaken' \in BOOLEAN
    <3>1. overtaken \in BOOLEAN
      BY <1>0 DEF PortfolioTypes
    <3>2. On("more") \in BOOLEAN
      BY Zenon DEF On
    <3> QED
      BY <1>2, <3>1, <3>2
  <2>2. loadingPositions' \in BOOLEAN /\ loadingTimeline' \in BOOLEAN /\ error' \in BOOLEAN
    BY <1>1
  <2>3. joined' \in BOOLEAN /\ backfillLoading' \in BOOLEAN /\ made' \in BOOLEAN
    BY <1>0, <1>1, Zenon DEF PortfolioTypes
  <2>4. /\ filters' \in Portfolio!Filters /\ positions' \in PositionLists /\ timeline' \in Timelines
        /\ next' \in Nat /\ positionPage' \in Nat \ {0} /\ fails' \in 0 .. MaxFails
    BY <1>0, <1>1 DEF PortfolioTypes
  <2> QED
    BY <1>3, <1>7, <2>1, <2>2, <2>3, <2>4, Zenon DEF PortfolioTypes
<1>9. PageIs'
  BY <1>0, <1>1, Zenon DEF PageIs, Portfolio!PagesOf, Portfolio!Larger
<1>10. ASSUME Clean'
       PROVE  LoadsAreOn' /\ TradesAreAsked' /\ PositionsAre' /\ PositionsCount' /\ TimelineIs'
              /\ TradesStand' /\ BannerStands'
  <2>1. Clean /\ ~ On("more")
    BY <1>1, <1>2, <1>10 DEF Clean
  <2>2. On("positions")' /\ On("timeline")' /\ ~ On("more")'
    <3>1. ~ \E r \in w : r.k = "more"
      BY <1>5, <2>1 DEF On
    <3> QED
      BY <1>5, <1>7, <3>1
  <2>3. LoadsAreOn' /\ PositionsAre' /\ PositionsCount'
    BY <1>1, <2>2 DEF LoadsAreOn, PositionsAre, PositionsCount
  <2>4. TimelineIs'
    BY <1>1, <2>1, <2>2 DEF TimelineIs, PortfolioInvariant
  <2>5. TradesAreAsked' /\ TradesStand' /\ BannerStands'
    <3>1. /\ TradesAreAsked /\ TradesStand /\ BannerStands /\ Clean /\ PortfolioTypes
          /\ Portfolio!Fallback(w, usingTradeFallback)
          /\ usingTradeFallback \in BOOLEAN /\ filters' = filters /\ positions' \in PositionLists
          /\ loadingPositions' \in BOOLEAN /\ loadingTimeline' \in BOOLEAN
      BY <1>0, <1>1, <1>2, <1>8, <2>1, Zenon DEF PortfolioInvariant, PortfolioTypes
    <3>2. /\ \A r \in w : r.k = "trades" => r \in wire
          /\ \A r \in wire : r.k = "trades" => r \in w
      BY <1>5
    <3> HIDE DEF w
    <3> QED
      BY <1>1, <3>1, <3>2, FallbackKeeps
  <2> QED
    BY <2>3, <2>4, <2>5
<1> QED
  BY <1>8, <1>9, <1>10 DEF PortfolioInvariant

\* The user asks for more of the timeline.
LEMMA PortfolioMore ==
    ASSUME PortfolioAssumption, PortfolioInvariant, Portfolio!LoadMore
    PROVE  PortfolioInvariant'
<1>0. PortfolioTypes /\ PageIs /\ MaxAsks \in Nat
  BY DEF PortfolioInvariant, PortfolioAssumption, Portfolio!BoundAssumption
<1> DEFINE q == [k |-> "more", of |-> filters, made |-> made, n |-> asks', page |-> next]
           w == wire \cup {q}
<1>1. /\ ~ loadingTimeline /\ asks < MaxAsks /\ asks' = asks + 1 /\ loadingTimeline' = TRUE
      /\ filters' = filters /\ positionPage' = positionPage
      /\ loadingPositions' = loadingPositions /\ error' = error
      /\ made' = made /\ positions' = positions /\ timeline' = timeline /\ next' = next
      /\ backfillLoading' = backfillLoading /\ fails' = fails /\ overtaken' = overtaken
  BY Zenon DEF Portfolio!LoadMore, Portfolio!May, Portfolio!data
<1>2. joined' = (joined \/ timeline.from = "trades")
  BY Zenon DEF Portfolio!LoadMore
<1>3. Portfolio!Fallback(w, usingTradeFallback)
  BY Zenon DEF Portfolio!LoadMore, Portfolio!Request
<1>4. asks \in Nat /\ 1 <= asks /\ asks' \in 1 .. MaxAsks /\ asks' = asks + 1
  BY <1>0, <1>1 DEF PortfolioTypes
<1>5. /\ made \in BOOLEAN /\ asks' \in Nat /\ filters \in Portfolio!Filters /\ next \in Nat
      /\ usingTradeFallback \in BOOLEAN
  BY <1>0, <1>4 DEF PortfolioTypes
<1>6. q \in Asks /\ q.n = asks' /\ q.k = "more"
  BY <1>5 DEF Asks
<1>7. w \subseteq Asks /\ \A r \in w : 1 <= r.n /\ r.n <= asks'
  <2> HIDE DEF q
  <2>1. \A r \in wire : r \in Asks /\ 1 <= r.n /\ r.n <= asks /\ r.n \in Nat
    BY <1>0 DEF PortfolioTypes, Asks
  <2> QED
    BY <1>4, <1>6, <2>1
<1>8. /\ wire' \subseteq Asks /\ \A r \in wire' : 1 <= r.n /\ r.n <= asks'
      /\ usingTradeFallback' \in BOOLEAN
      /\ \A k : k # "trades" => (On(k)' <=> \E r \in w : r.k = k)
  <2> HIDE DEF w
  <2>1. filters' \in Portfolio!Filters /\ made' \in BOOLEAN
    BY <1>1, <1>5
  <2> QED
    BY <1>3, <1>4, <1>5, <1>7, <2>1, FallbackRequests
<1>9. PortfolioTypes'
  <2>1. loadingTimeline' \in BOOLEAN
    BY <1>1
  <2>2. loadingPositions' \in BOOLEAN /\ error' \in BOOLEAN /\ backfillLoading' \in BOOLEAN
        /\ made' \in BOOLEAN /\ overtaken' \in BOOLEAN
    BY <1>0, <1>1, Zenon DEF PortfolioTypes
  <2>3. /\ filters' \in Portfolio!Filters /\ positions' \in PositionLists /\ timeline' \in Timelines
        /\ next' \in Nat /\ positionPage' \in Nat \ {0} /\ fails' \in 0 .. MaxFails
    BY <1>0, <1>1 DEF PortfolioTypes
  <2>4. joined' \in BOOLEAN
    <3>1. joined \in BOOLEAN
      BY <1>0 DEF PortfolioTypes
    <3> QED
      BY <1>2, <3>1
  <2> QED
    BY <1>4, <1>8, <2>1, <2>2, <2>3, <2>4, Zenon DEF PortfolioTypes
<1>10. PageIs'
  BY <1>0, <1>1, Zenon DEF PageIs, Portfolio!PagesOf, Portfolio!Larger
<1>11. ASSUME Clean'
       PROVE  LoadsAreOn' /\ TradesAreAsked' /\ PositionsAre' /\ PositionsCount' /\ TimelineIs'
              /\ TradesStand' /\ BannerStands'
  <2>1. Clean /\ LoadsAreOn /\ PositionsAre /\ PositionsCount /\ TimelineIs
    BY <1>1, <1>11 DEF Clean, PortfolioInvariant
  <2>2. ~ On("timeline") /\ ~ On("more")
    BY <1>1, <2>1, Zenon DEF LoadsAreOn
  <2>3. /\ On("more")' /\ ~ On("timeline")'
        /\ On("positions")' <=> On("positions")
        /\ On("remade")' <=> On("remade")
    <3>1. /\ \E r \in w : r.k = "more"
          /\ ~ \E r \in w : r.k = "timeline"
          /\ (\E r \in w : r.k = "positions") <=> On("positions")
          /\ (\E r \in w : r.k = "remade") <=> On("remade")
      <4> HIDE DEF q
      <4> QED
        BY <1>6, <2>2 DEF On
    <3> HIDE DEF w
    <3> QED
      BY <1>8, <3>1
  <2>4. LoadsAreOn'
    BY <1>1, <2>1, <2>3 DEF LoadsAreOn
  <2>5. PositionsAre' /\ PositionsCount'
    BY <1>1, <2>1, <2>3, Zenon DEF PositionsAre, PositionsCount, Portfolio!PositionsOf
  <2>6. TimelineIs'
    <3>1. timeline.of = filters /\ timeline.from # "start"
      BY <2>1, <2>2, Zenon DEF TimelineIs
    <3>2. timeline.from \in {"start", "events", "trades", "mixed"}
      BY <1>0 DEF PortfolioTypes, Timelines
    <3>3. ~ joined' => timeline.from # "trades" /\ timeline.from # "mixed"
      BY <1>2, <2>1 DEF TimelineIs
    <3> QED
      BY <1>1, <3>1, <3>2, <3>3 DEF TimelineIs
  <2>7. TradesAreAsked' /\ TradesStand' /\ BannerStands'
    <3>1. /\ TradesAreAsked /\ TradesStand /\ BannerStands /\ Clean /\ PortfolioTypes
          /\ Portfolio!Fallback(w, usingTradeFallback)
          /\ usingTradeFallback \in BOOLEAN /\ filters' = filters /\ positions' \in PositionLists
          /\ loadingPositions' \in BOOLEAN /\ loadingTimeline' \in BOOLEAN
      BY <1>0, <1>1, <1>3, <1>9, <2>1, Zenon DEF PortfolioInvariant, PortfolioTypes
    <3>2. /\ \A r \in w : r.k = "trades" => r \in wire
          /\ \A r \in wire : r.k = "trades" => r \in w
      <4> HIDE DEF q
      <4> QED
        BY <1>6
    <3> HIDE DEF w
    <3> QED
      BY <1>1, <3>1, <3>2, FallbackKeeps
  <2> QED
    BY <2>4, <2>5, <2>6, <2>7
<1> QED
  BY <1>9, <1>10, <1>11 DEF PortfolioInvariant

\* The user turns a page, or has the events made.
LEMMA PortfolioTurned ==
    ASSUME PortfolioAssumption, PortfolioInvariant,
           Portfolio!BackfillEvents \/ \E p \in 0 .. Portfolio!PagesOf(positions.n) + 1 :
               Portfolio!GoToPage(p)
    PROVE  PortfolioInvariant'
<1>0. PortfolioTypes /\ PageIs /\ MaxAsks \in Nat
  BY DEF PortfolioInvariant, PortfolioAssumption, Portfolio!BoundAssumption
<1>1. PICK l : l = Portfolio!PagesOf(positions.n) /\ l \in Nat \ {0}
  <2>1. positions.n \in Nat
    BY <1>0 DEF PortfolioTypes, PositionLists
  <2> QED
    BY <2>1, PagesExist
<1>2. CASE Portfolio!BackfillEvents
  <2> DEFINE q == [k |-> "make", of |-> filters, made |-> made, n |-> asks', page |-> 1]
  <2>1. /\ asks < MaxAsks /\ asks' = asks + 1 /\ backfillLoading' = TRUE
        /\ wire' = wire \cup {q}
    BY <1>2, Zenon DEF Portfolio!BackfillEvents, Portfolio!May, Portfolio!Request
  <2>2. /\ loadingTimeline' = loadingTimeline /\ filters' = filters /\ positionPage' = positionPage
        /\ loadingPositions' = loadingPositions /\ error' = error
        /\ made' = made /\ positions' = positions /\ timeline' = timeline /\ next' = next
        /\ usingTradeFallback' = usingTradeFallback
        /\ fails' = fails /\ overtaken' = overtaken /\ joined' = joined
    BY <1>2, Zenon DEF Portfolio!BackfillEvents, Portfolio!data
  <2>3. asks \in Nat /\ 1 <= asks /\ asks' \in 1 .. MaxAsks /\ asks' = asks + 1
    BY <1>0, <2>1 DEF PortfolioTypes
  <2>4. q \in Asks /\ q.n = asks' /\ q.k = "make"
    BY <1>0, <2>3 DEF Asks, PortfolioTypes
  <2> HIDE DEF q
  <2>5. wire' \subseteq Asks /\ \A r \in wire' : 1 <= r.n /\ r.n <= asks'
    <3>1. \A r \in wire : r \in Asks /\ 1 <= r.n /\ r.n <= asks /\ r.n \in Nat
      BY <1>0 DEF PortfolioTypes, Asks
    <3> QED
      BY <2>1, <2>3, <2>4, <3>1
  <2>6. PortfolioTypes'
    <3>1. backfillLoading' \in BOOLEAN
      BY <2>1
    <3> QED
      BY <1>0, <2>2, <2>3, <2>5, <3>1, Zenon DEF PortfolioTypes
  <2>7. \A k : k # "make" => (On(k)' <=> On(k))
    BY <2>1, <2>4 DEF On
  <2>8. \A r \in wire' : r.k # "make" => r \in wire
    BY <2>1, <2>4
  <2>9. ASSUME Clean'
        PROVE  LoadsAreOn' /\ TradesAreAsked' /\ PositionsAre' /\ PositionsCount' /\ TimelineIs'
               /\ TradesStand' /\ BannerStands'
    <3>1. /\ LoadsAreOn /\ TradesAreAsked /\ PositionsAre /\ PositionsCount /\ TimelineIs
          /\ TradesStand /\ BannerStands
      BY <2>2, <2>9 DEF Clean, PortfolioInvariant
    <3>2. /\ On("positions")' <=> On("positions")
          /\ On("timeline")' <=> On("timeline")
          /\ On("more")' <=> On("more")
          /\ On("remade")' <=> On("remade")
          /\ On("trades")' <=> On("trades")
      BY <2>7
    <3>3. LoadsAreOn' /\ PositionsAre' /\ PositionsCount' /\ TimelineIs' /\ TradesStand' /\
              BannerStands'
      BY <2>2, <3>1, <3>2, Zenon
         DEF LoadsAreOn, PositionsAre, PositionsCount, TimelineIs, TradesStand, BannerStands,
         Portfolio!PositionsOf
    <3>4. TradesAreAsked'
      BY <2>2, <2>8, <3>1 DEF TradesAreAsked
    <3> QED
      BY <3>3, <3>4
  <2>10. PageIs'
    BY <1>0, <2>2, Zenon DEF PageIs, Portfolio!PagesOf, Portfolio!Larger
  <2> QED
    BY <2>6, <2>9, <2>10 DEF PortfolioInvariant
<1>3. ASSUME NEW p \in 0 .. Portfolio!PagesOf(positions.n) + 1, Portfolio!GoToPage(p)
      PROVE  PortfolioInvariant'
  <2>1. /\ positionPage' = Portfolio!Larger(1, Portfolio!Smaller(l, p))
        /\ loadingTimeline' = loadingTimeline /\ filters' = filters
        /\ loadingPositions' = loadingPositions /\ error' = error
        /\ made' = made /\ positions' = positions /\ timeline' = timeline /\ next' = next
        /\ usingTradeFallback' = usingTradeFallback /\ backfillLoading' = backfillLoading
        /\ wire' = wire /\ asks' = asks
        /\ fails' = fails /\ overtaken' = overtaken /\ joined' = joined
    BY <1>1, <1>3, Zenon DEF Portfolio!GoToPage, Portfolio!data, Portfolio!flags
  <2>2. p \in Int
    BY <1>1, <1>3
  <2>3. positionPage' \in Nat \ {0} /\ positionPage' <= l
    BY <1>1, <2>1, <2>2 DEF Portfolio!Larger, Portfolio!Smaller
  <2>4. PortfolioTypes'
    BY <1>0, <2>1, <2>3, Zenon DEF PortfolioTypes
  <2>5. PageIs'
    BY <1>1, <2>1, <2>3, Zenon DEF PageIs, Portfolio!PagesOf, Portfolio!Larger
  <2>6. ASSUME Clean'
        PROVE  LoadsAreOn' /\ TradesAreAsked' /\ PositionsAre' /\ PositionsCount' /\ TimelineIs'
               /\ TradesStand' /\ BannerStands'
    <3>1. /\ LoadsAreOn /\ TradesAreAsked /\ PositionsAre /\ PositionsCount /\ TimelineIs
          /\ TradesStand /\ BannerStands
      BY <2>1, <2>6 DEF Clean, PortfolioInvariant
    <3> QED
      BY <2>1, <3>1, Zenon
         DEF LoadsAreOn, TradesAreAsked, PositionsAre, PositionsCount, TimelineIs, TradesStand,
             BannerStands, Portfolio!PositionsOf, On
  <2> QED
    BY <2>4, <2>5, <2>6 DEF PortfolioInvariant
<1> QED
  BY <1>2, <1>3

\* An answer with the effect it sets off: the requests that are left, and what is known of them
\* when nothing was overtaken.
LEMMA AnswerLeaves ==
    ASSUME PortfolioAssumption, PortfolioInvariant, NEW r \in wire, NEW u, u \in BOOLEAN,
           Portfolio!Fallback(wire \ {r}, u), filters' = filters, asks' = asks, made' = made
    PROVE  /\ wire' \subseteq Asks /\ \A q \in wire' : 1 <= q.n /\ q.n <= asks'
           /\ usingTradeFallback' \in BOOLEAN
           /\ \A k : k # "trades" => (On(k)' <=> \E q \in wire \ {r} : q.k = k)
<1>1. /\ wire \ {r} \subseteq Asks /\ \A q \in wire \ {r} : 1 <= q.n /\ q.n <= asks'
      /\ filters' \in Portfolio!Filters /\ made' \in BOOLEAN /\ asks' \in 1 .. MaxAsks
  BY DEF PortfolioInvariant, PortfolioTypes
<1> DEFINE w == wire \ {r}
<1>2. /\ PortfolioAssumption /\ u \in BOOLEAN /\ Portfolio!Fallback(w, u) /\ w \subseteq Asks
      /\ \A q \in w : 1 <= q.n /\ q.n <= asks'
      /\ filters' \in Portfolio!Filters /\ made' \in BOOLEAN /\ asks' \in 1 .. MaxAsks
  BY <1>1
<1> HIDE DEF w
<1>3. /\ wire' \subseteq Asks /\ \A q \in wire' : 1 <= q.n /\ q.n <= asks'
      /\ usingTradeFallback' \in BOOLEAN
      /\ \A k : k # "trades" => (On(k)' <=> \E q \in w : q.k = k)
  BY <1>2, FallbackRequests
<1> QED
  BY <1>3 DEF w

\* The positions are answered.
LEMMA PositionsCome ==
    ASSUME PortfolioAssumption, PortfolioInvariant, NEW r \in wire, NEW m \in BOOLEAN,
           Portfolio!PositionsAnswered(r, m)
    PROVE  PortfolioInvariant'
<1>0. PortfolioTypes /\ PageIs
  BY DEF PortfolioInvariant
<1>1. /\ r.k = "positions"
      /\ positions' = Portfolio!List("events", r.of, Portfolio!PositionsOf(r.of, m))
      /\ loadingPositions' = FALSE
      /\ made' = made /\ filters' = filters /\ timeline' = timeline /\ next' = next
      /\ loadingTimeline' = loadingTimeline /\ error' = error /\ backfillLoading' = backfillLoading
      /\ asks' = asks /\ fails' = fails /\ joined' = joined
      /\ Portfolio!Crossed(r, m) /\ Portfolio!Clamp
      /\ Portfolio!Fallback(wire \ {r}, usingTradeFallback)
  BY Zenon DEF Portfolio!PositionsAnswered
<1>2. r.of \in Portfolio!Filters /\ usingTradeFallback \in BOOLEAN
  BY <1>0 DEF PortfolioTypes, Asks
<1>3. PICK n \in Nat : n = Portfolio!PositionsOf(r.of, m)
  BY <1>2, ServerHas
<1>4. positions' = [from |-> "events", of |-> r.of, n |-> n]
  BY <1>1, <1>3, Zenon DEF Portfolio!List
<1>5. positions' \in PositionLists /\ positions'.from = "events" /\ positions'.of = r.of /\
          positions'.n = n
  BY <1>2, <1>4 DEF PositionLists
<1>6. /\ wire' \subseteq Asks /\ \A q \in wire' : 1 <= q.n /\ q.n <= asks'
      /\ usingTradeFallback' \in BOOLEAN
      /\ \A k : k # "trades" => (On(k)' <=> \E q \in wire \ {r} : q.k = k)
  <2>1. /\ usingTradeFallback \in BOOLEAN /\ Portfolio!Fallback(wire \ {r}, usingTradeFallback)
        /\ filters' = filters /\ asks' = asks /\ made' = made
    BY <1>1, <1>2, Zenon
  <2> QED
    BY <2>1, AnswerLeaves
<1>7. positionPage' \in Nat \ {0} /\ PageIs'
  <2>1. positionPage \in Nat \ {0} /\ positions'.n \in Nat /\ Portfolio!Clamp
    BY <1>0, <1>1, <1>3, <1>5 DEF PortfolioTypes
  <2> QED
    BY <2>1, PageFollows
<1>8. PortfolioTypes'
  <2>1. overtaken' \in BOOLEAN
    <3>1. overtaken \in BOOLEAN
      BY <1>0 DEF PortfolioTypes
    <3> QED
      BY <1>1, <3>1 DEF Portfolio!Crossed
  <2>2. loadingPositions' \in BOOLEAN
    BY <1>1
  <2> QED
    BY <1>0, <1>1, <1>5, <1>6, <1>7, <2>1, <2>2, Zenon DEF PortfolioTypes
<1>9. ASSUME Clean'
      PROVE  LoadsAreOn' /\ TradesAreAsked' /\ PositionsAre' /\ PositionsCount' /\ TimelineIs'
             /\ TradesStand' /\ BannerStands'
  <2>1. /\ ~ overtaken /\ r.of = filters /\ m = made /\ \A q \in wire \ {r} : q.k # r.k
    BY <1>1, <1>9, NotCrossed DEF Clean
  <2>2. /\ Clean /\ LoadsAreOn /\ TradesAreAsked /\ PositionsAre /\ PositionsCount /\ TimelineIs
        /\ TradesStand /\ BannerStands
    BY <1>1, <1>9, <2>1 DEF Clean, PortfolioInvariant
  <2>3. On("positions") /\ loadingPositions
    BY <1>1, <2>2 DEF On, LoadsAreOn
  <2>4. /\ ~ On("positions")'
        /\ On("timeline")' <=> On("timeline")
        /\ On("more")' <=> On("more")
    BY <1>1, <1>6, <2>1 DEF On
  <2>5. LoadsAreOn' /\ TimelineIs'
    BY <1>1, <2>2, <2>4, Zenon DEF LoadsAreOn, TimelineIs
  <2>6. PositionsAre' /\ PositionsCount'
    BY <1>1, <1>3, <1>5, <2>1 DEF PositionsAre, PositionsCount, Portfolio!PositionsOf
  <2>7. TradesAreAsked' /\ TradesStand' /\ BannerStands'
    <3>1. \A q \in wire : q.k = "trades" => q \in wire \ {r}
      BY <1>1
    <3>2. ~ SameLists
      BY <1>1, <2>3 DEF SameLists
    <3>3. /\ PortfolioTypes /\ Clean /\ loadingPositions' \in BOOLEAN
          /\ loadingTimeline' \in BOOLEAN
      BY <1>8, <1>0, <2>2, Zenon DEF PortfolioTypes
    <3> DEFINE w == wire \ {r}
    <3>4. /\ Portfolio!Fallback(w, usingTradeFallback) /\ \A q \in w : q.k = "trades" => q \in wire
          /\ \A q \in wire : q.k = "trades" => q \in w
      BY <1>1, <3>1
    <3> HIDE DEF w
    <3> QED
      BY <1>1, <1>2, <1>5, <2>2, <3>2, <3>3, <3>4, FallbackKeeps
  <2> QED
    BY <2>5, <2>6, <2>7
<1> QED
  BY <1>7, <1>8, <1>9 DEF PortfolioInvariant

\* The first page of the timeline is answered.
LEMMA TimelineComes ==
    ASSUME PortfolioAssumption, PortfolioInvariant, NEW r \in wire, NEW m \in BOOLEAN,
           Portfolio!TimelineAnswered(r, m)
    PROVE  PortfolioInvariant'
<1>0. PortfolioTypes /\ PageIs
  BY DEF PortfolioInvariant
<1>1. /\ r.k = "timeline" /\ Portfolio!FirstPage(r.of, m)
      /\ loadingTimeline' = FALSE
      /\ made' = made /\ filters' = filters /\ positions' = positions
      /\ positionPage' = positionPage
      /\ loadingPositions' = loadingPositions /\ error' = error
      /\ backfillLoading' = backfillLoading
      /\ asks' = asks /\ fails' = fails /\ joined' = joined
      /\ Portfolio!Crossed(r, m) /\ Portfolio!Fallback(wire \ {r}, usingTradeFallback)
  BY Zenon DEF Portfolio!TimelineAnswered
<1>2. r.of \in Portfolio!Filters /\ usingTradeFallback \in BOOLEAN
  BY <1>0 DEF PortfolioTypes, Asks
<1>5. timeline' \in Timelines /\ next' \in Nat /\ timeline'.from = "events" /\ timeline'.of = r.of
  BY <1>1, <1>2, FirstPages
<1>6. /\ wire' \subseteq Asks /\ \A q \in wire' : 1 <= q.n /\ q.n <= asks'
      /\ usingTradeFallback' \in BOOLEAN
      /\ \A k : k # "trades" => (On(k)' <=> \E q \in wire \ {r} : q.k = k)
  <2>1. /\ usingTradeFallback \in BOOLEAN /\ Portfolio!Fallback(wire \ {r}, usingTradeFallback)
        /\ filters' = filters /\ asks' = asks /\ made' = made
    BY <1>1, <1>2, Zenon
  <2> QED
    BY <2>1, AnswerLeaves
<1>7. PageIs'
  BY <1>0, <1>1, Zenon DEF PageIs, Portfolio!PagesOf, Portfolio!Larger
<1>8. PortfolioTypes'
  <2>1. overtaken' \in BOOLEAN
    <3>1. overtaken \in BOOLEAN
      BY <1>0 DEF PortfolioTypes
    <3> QED
      BY <1>1, <3>1 DEF Portfolio!Crossed
  <2>2. loadingTimeline' \in BOOLEAN
    BY <1>1
  <2> QED
    BY <1>0, <1>1, <1>5, <1>6, <2>1, <2>2, Zenon DEF PortfolioTypes
<1>9. ASSUME Clean'
      PROVE  LoadsAreOn' /\ TradesAreAsked' /\ PositionsAre' /\ PositionsCount' /\ TimelineIs'
             /\ TradesStand' /\ BannerStands'
  <2>1. /\ ~ overtaken /\ r.of = filters /\ m = made /\ \A q \in wire \ {r} : q.k # r.k
    BY <1>1, <1>9, NotCrossed DEF Clean
  <2>2. /\ Clean /\ LoadsAreOn /\ TradesAreAsked /\ PositionsAre /\ PositionsCount /\ TimelineIs
        /\ TradesStand /\ BannerStands
    BY <1>1, <1>9, <2>1 DEF Clean, PortfolioInvariant
  <2>3. On("timeline") /\ loadingTimeline /\ ~ On("more")
    BY <1>1, <2>2 DEF On, LoadsAreOn
  <2>4. /\ ~ On("timeline")' /\ ~ On("more")'
        /\ On("positions")' <=> On("positions")
        /\ On("remade")' <=> On("remade")
    BY <1>1, <1>6, <2>1, <2>3 DEF On
  <2>5. LoadsAreOn' /\ TimelineIs'
    BY <1>1, <1>5, <2>1, <2>2, <2>4 DEF LoadsAreOn, TimelineIs
  <2>6. PositionsAre' /\ PositionsCount'
    BY <1>1, <2>2, <2>3, <2>4, Zenon DEF PositionsAre, PositionsCount, Portfolio!PositionsOf
  <2>7. TradesAreAsked' /\ TradesStand' /\ BannerStands'
    <3>1. \A q \in wire : q.k = "trades" => q \in wire \ {r}
      BY <1>1
    <3>2. ~ SameLists
      BY <1>1, <2>3 DEF SameLists
    <3>3. /\ PortfolioTypes /\ Clean /\ loadingPositions' \in BOOLEAN
          /\ loadingTimeline' \in BOOLEAN
          /\ positions' \in PositionLists
      BY <1>8, <1>0, <2>2, Zenon DEF PortfolioTypes
    <3> DEFINE w == wire \ {r}
    <3>4. /\ Portfolio!Fallback(w, usingTradeFallback) /\ \A q \in w : q.k = "trades" => q \in wire
          /\ \A q \in wire : q.k = "trades" => q \in w
      BY <1>1, <3>1
    <3> HIDE DEF w
    <3> QED
      BY <1>1, <1>2, <2>2, <3>2, <3>3, <3>4, FallbackKeeps
  <2> QED
    BY <2>5, <2>6, <2>7
<1> QED
  BY <1>7, <1>8, <1>9 DEF PortfolioInvariant

\* The next page of the timeline is answered.
LEMMA MoreComes ==
    ASSUME PortfolioAssumption, PortfolioInvariant, NEW r \in wire, NEW m \in BOOLEAN,
           Portfolio!MoreAnswered(r, m)
    PROVE  PortfolioInvariant'
<1>0. PortfolioTypes /\ PageIs
  BY DEF PortfolioInvariant
<1>1. /\ r.k = "more"
      /\ loadingTimeline' = FALSE
      /\ made' = made /\ filters' = filters /\ positions' = positions
      /\ positionPage' = positionPage
      /\ loadingPositions' = loadingPositions /\ error' = error
      /\ backfillLoading' = backfillLoading
      /\ asks' = asks /\ fails' = fails /\ joined' = joined
      /\ Portfolio!Crossed(r, m) /\ Portfolio!Fallback(wire \ {r}, usingTradeFallback)
  BY Zenon DEF Portfolio!MoreAnswered
<1>2. r.of \in Portfolio!Filters /\ usingTradeFallback \in BOOLEAN /\ r.page \in Nat
  BY <1>0 DEF PortfolioTypes, Asks
<1>3. next' \in Nat
  BY <1>2 DEF Portfolio!MoreAnswered
<1>10. PICK found :
        /\ found = IF r.page <= Portfolio!EventPages(r.of, m) THEN 1 ELSE 0
        /\ timeline' = [timeline EXCEPT !.n = timeline.n + found,
             !.from = IF found = 0 \/ (timeline.from = "events" /\ timeline.of = r.of)
                      THEN timeline.from ELSE "mixed"]
  BY Zenon DEF Portfolio!MoreAnswered
<1>11. found \in {0, 1}
  BY <1>10, Zenon
<1>12. PICK g : g = (IF found = 0 \/ (timeline.from = "events" /\ timeline.of = r.of)
                     THEN timeline.from ELSE "mixed")
  OBVIOUS
<1>13. timeline' = [timeline EXCEPT !.n = timeline.n + found, !.from = g]
  BY <1>10, <1>12, Zenon
<1>4. /\ found \in {0, 1}
      /\ g = (IF found = 0 \/ (timeline.from = "events" /\ timeline.of = r.of)
              THEN timeline.from ELSE "mixed")
      /\ timeline' = [timeline EXCEPT !.n = timeline.n + found, !.from = g]
  BY <1>11, <1>12, <1>13, Zenon
<1>5. timeline' \in Timelines /\ timeline'.of = timeline.of /\ timeline'.from = g
  <2>1. timeline \in Timelines
    BY <1>0 DEF PortfolioTypes
  <2>2. g \in {"start", "events", "trades", "mixed"} /\ timeline.n + found \in Nat
    BY <1>4, <2>1 DEF Timelines
  <2> QED
    BY <1>4, <2>1, <2>2 DEF Timelines
<1>6. /\ wire' \subseteq Asks /\ \A q \in wire' : 1 <= q.n /\ q.n <= asks'
      /\ usingTradeFallback' \in BOOLEAN
      /\ \A k : k # "trades" => (On(k)' <=> \E q \in wire \ {r} : q.k = k)
  <2>1. /\ usingTradeFallback \in BOOLEAN /\ Portfolio!Fallback(wire \ {r}, usingTradeFallback)
        /\ filters' = filters /\ asks' = asks /\ made' = made
    BY <1>1, <1>2, Zenon
  <2> QED
    BY <2>1, AnswerLeaves
<1>7. PageIs'
  BY <1>0, <1>1, Zenon DEF PageIs, Portfolio!PagesOf, Portfolio!Larger
<1>8. PortfolioTypes'
  <2>1. overtaken' \in BOOLEAN
    <3>1. overtaken \in BOOLEAN
      BY <1>0 DEF PortfolioTypes
    <3> QED
      BY <1>1, <3>1 DEF Portfolio!Crossed
  <2>2. loadingTimeline' \in BOOLEAN
    BY <1>1
  <2> QED
    BY <1>0, <1>1, <1>3, <1>5, <1>6, <2>1, <2>2, Zenon DEF PortfolioTypes
<1>9. ASSUME Clean'
      PROVE  LoadsAreOn' /\ TradesAreAsked' /\ PositionsAre' /\ PositionsCount' /\ TimelineIs'
             /\ TradesStand' /\ BannerStands'
  <2>1. /\ ~ overtaken /\ r.of = filters /\ m = made /\ \A q \in wire \ {r} : q.k # r.k
    BY <1>1, <1>9, NotCrossed DEF Clean
  <2>2. /\ Clean /\ LoadsAreOn /\ TradesAreAsked /\ PositionsAre /\ PositionsCount /\ TimelineIs
        /\ TradesStand /\ BannerStands
    BY <1>1, <1>9, <2>1 DEF Clean, PortfolioInvariant
  <2>3. On("more") /\ loadingTimeline /\ ~ On("timeline")
    BY <1>1, <2>2 DEF On, LoadsAreOn
  <2>4. /\ ~ On("timeline")' /\ ~ On("more")'
        /\ On("positions")' <=> On("positions")
        /\ On("remade")' <=> On("remade")
    BY <1>1, <1>6, <2>1, <2>3 DEF On
  <2>5. LoadsAreOn' /\ TimelineIs'
    <3>1. LoadsAreOn'
      BY <1>1, <2>2, <2>4 DEF LoadsAreOn
    <3>2. timeline.of = filters /\ timeline.from # "start" /\ (~ joined => timeline.from = "events")
      BY <2>2, <2>3 DEF TimelineIs
    <3>3. timeline'.of = filters' /\ timeline'.from # "start" /\
              (~ joined' => timeline'.from = "events")
      BY <1>1, <1>4, <1>5, <2>1, <3>2
    <3>4. TimelineIs'
      BY <2>4, <3>3 DEF TimelineIs
    <3> QED
      BY <3>1, <3>4
  <2>6. PositionsAre' /\ PositionsCount'
    BY <1>1, <2>2, <2>3, <2>4, Zenon DEF PositionsAre, PositionsCount, Portfolio!PositionsOf
  <2>7. TradesAreAsked' /\ TradesStand' /\ BannerStands'
    <3>1. \A q \in wire : q.k = "trades" => q \in wire \ {r}
      BY <1>1
    <3>2. ~ SameLists
      BY <1>1, <2>3 DEF SameLists
    <3>3. /\ PortfolioTypes /\ Clean /\ loadingPositions' \in BOOLEAN
          /\ loadingTimeline' \in BOOLEAN
          /\ positions' \in PositionLists
      BY <1>8, <1>0, <2>2, Zenon DEF PortfolioTypes
    <3> DEFINE w == wire \ {r}
    <3>4. /\ Portfolio!Fallback(w, usingTradeFallback) /\ \A q \in w : q.k = "trades" => q \in wire
          /\ \A q \in wire : q.k = "trades" => q \in w
      BY <1>1, <3>1
    <3> HIDE DEF w
    <3> QED
      BY <1>1, <1>2, <2>2, <3>2, <3>3, <3>4, FallbackKeeps
  <2> QED
    BY <2>5, <2>6, <2>7
<1> QED
  BY <1>7, <1>8, <1>9 DEF PortfolioInvariant

\* Trades are answered, and stand in for positions if there are any.
LEMMA TradesCome ==
    ASSUME PortfolioAssumption, PortfolioInvariant, NEW r \in wire, Portfolio!TradesAnswered(r)
    PROVE  PortfolioInvariant'
<1>0. PortfolioTypes /\ PageIs
  BY DEF PortfolioInvariant
<1>1. /\ r.k = "trades"
      /\ made' = made /\ filters' = filters /\ next' = next /\ loadingPositions' = loadingPositions
      /\ loadingTimeline' = loadingTimeline /\ error' = error /\ backfillLoading' = backfillLoading
      /\ asks' = asks /\ fails' = fails /\ overtaken' = overtaken /\ joined' = joined
  BY Zenon DEF Portfolio!TradesAnswered
<1>2. r.of \in Portfolio!Filters /\ usingTradeFallback \in BOOLEAN
  BY <1>0 DEF PortfolioTypes, Asks
<1>3. CASE HeldTrades[r.of.venue] = 0
  <2>1. /\ wire' = wire \ {r} /\ positions' = positions /\ timeline' = timeline
        /\ usingTradeFallback' = usingTradeFallback /\ positionPage' = positionPage
    BY <1>3, Zenon DEF Portfolio!TradesAnswered
  <2>2. wire' \subseteq Asks /\ \A q \in wire' : 1 <= q.n /\ q.n <= asks'
    BY <1>0, <1>1, <2>1 DEF PortfolioTypes
  <2>3. PortfolioTypes'
    BY <1>0, <1>1, <2>1, <2>2, Zenon DEF PortfolioTypes
  <2>4. PageIs'
    BY <1>0, <2>1, Zenon DEF PageIs, Portfolio!PagesOf, Portfolio!Larger
  <2>5. ASSUME Clean'
        PROVE  LoadsAreOn' /\ TradesAreAsked' /\ PositionsAre' /\ PositionsCount' /\ TimelineIs'
               /\ TradesStand' /\ BannerStands'
    <3>1. /\ Clean /\ LoadsAreOn /\ TradesAreAsked /\ PositionsAre /\ PositionsCount /\ TimelineIs
          /\ TradesStand /\ BannerStands
      BY <1>1, <2>5 DEF Clean, PortfolioInvariant
    <3>2. r.of = filters
      BY <1>1, <3>1 DEF TradesAreAsked
    <3>3. /\ On("positions")' <=> On("positions")
          /\ On("timeline")' <=> On("timeline")
          /\ On("more")' <=> On("more")
          /\ On("remade")' <=> On("remade")
      BY <1>1, <2>1 DEF On
    <3>4. LoadsAreOn' /\ PositionsAre' /\ PositionsCount' /\ TimelineIs'
      BY <1>1, <2>1, <3>1, <3>3, Zenon
         DEF LoadsAreOn, PositionsAre, PositionsCount, TimelineIs, Portfolio!PositionsOf
    <3>5. TradesAreAsked'
      BY <1>1, <2>1, <3>1 DEF TradesAreAsked
    <3>6. ~ (HeldFills[filters] > 0)
      BY <1>2, <1>3, <3>2, ServerHas
    <3>7. TradesStand' /\ BannerStands'
      BY <1>1, <1>3, <3>2, <3>6 DEF TradesStand, BannerStands
    <3> QED
      BY <3>4, <3>5, <3>7
  <2> QED
    BY <2>3, <2>4, <2>5 DEF PortfolioInvariant
<1>4. CASE HeldTrades[r.of.venue] # 0
  <2>1. /\ positions' = Portfolio!List("trades", r.of, HeldFills[r.of]) /\ Portfolio!Clamp
        /\ timeline' = Portfolio!List("trades", r.of, HeldTrades[r.of.venue])
        /\ Portfolio!Fallback(wire \ {r}, TRUE)
    BY <1>4, Zenon DEF Portfolio!TradesAnswered
  <2>2. HeldFills[r.of] \in Nat /\ HeldTrades[r.of.venue] \in Nat
    BY <1>2, ServerHas
  <2>3. PICK n, t : n = HeldFills[r.of] /\ t = HeldTrades[r.of.venue] /\ n \in Nat /\ t \in Nat
    BY <2>2
  <2>4. /\ positions' = [from |-> "trades", of |-> r.of, n |-> n]
        /\ timeline' = [from |-> "trades", of |-> r.of, n |-> t]
    BY <2>1, <2>3, Zenon DEF Portfolio!List
  <2>5. /\ positions' \in PositionLists /\ positions'.from = "trades" /\ positions'.of = r.of
        /\ positions'.n = n
        /\ timeline' \in Timelines /\ timeline'.from = "trades" /\ timeline'.of = r.of
    BY <1>2, <2>3, <2>4 DEF PositionLists, Timelines
  <2>6. /\ wire' \subseteq Asks /\ \A q \in wire' : 1 <= q.n /\ q.n <= asks'
        /\ usingTradeFallback' \in BOOLEAN
        /\ \A k : k # "trades" => (On(k)' <=> \E q \in wire \ {r} : q.k = k)
    <3>1. TRUE \in BOOLEAN
      OBVIOUS
    <3> QED
      BY <1>1, <2>1, <3>1, AnswerLeaves
  <2>7. positionPage' \in Nat \ {0} /\ PageIs'
    <3>1. positionPage \in Nat \ {0} /\ positions'.n \in Nat /\ Portfolio!Clamp
      BY <1>0, <2>1, <2>5 DEF PortfolioTypes, PositionLists
    <3> QED
      BY <3>1, PageFollows
  <2>8. PortfolioTypes'
    <3>1. next' \in Nat
      BY <1>0, <1>1 DEF PortfolioTypes
    <3> QED
      BY <1>0, <1>1, <2>5, <2>6, <2>7, <3>1, Zenon DEF PortfolioTypes
  <2>9. ASSUME Clean'
        PROVE  LoadsAreOn' /\ TradesAreAsked' /\ PositionsAre' /\ PositionsCount' /\ TimelineIs'
               /\ TradesStand' /\ BannerStands'
    <3>1. /\ Clean /\ LoadsAreOn /\ TradesAreAsked /\ PositionsAre /\ PositionsCount /\ TimelineIs
          /\ TradesStand /\ BannerStands
      BY <1>1, <2>9 DEF Clean, PortfolioInvariant
    <3>2. /\ r.of = filters /\ filters.trades /\ ~ loadingPositions /\ ~ loadingTimeline
          /\ positions.n = 0
      BY <1>1, <3>1 DEF TradesAreAsked
    <3>3. ~ On("positions") /\ ~ On("timeline") /\ ~ On("more")
      BY <3>1, <3>2, Zenon DEF LoadsAreOn
    <3>4. /\ ~ On("positions")' /\ ~ On("timeline")' /\ ~ On("more")'
          /\ On("remade")' <=> On("remade")
      BY <1>1, <2>6, <3>3 DEF On
    <3>5. LoadsAreOn'
      BY <1>1, <3>2, <3>4 DEF LoadsAreOn
    <3>6. PositionsAre'
      BY <1>1, <2>3, <2>5, <3>2, <3>4 DEF PositionsAre
    <3>7. PositionsCount'
      <4>1. ASSUME ~ On("remade") PROVE Portfolio!PositionsOf(filters, made) = 0
        <5>1. positions.from = "events" \/ positions.from = "trades"
          <6>1. positions.from \in {"start", "events", "trades"}
            BY <1>0 DEF PortfolioTypes, PositionLists
          <6> QED
            BY <3>1, <3>3, <6>1 DEF PositionsAre
        <5> QED
          BY <3>1, <3>2, <3>3, <4>1, <5>1, Zenon DEF PositionsCount
      <4>2. Portfolio!PositionsOf(filters', made') = Portfolio!PositionsOf(filters, made)
        BY <1>1
      <4> QED
        BY <2>5, <3>4, <4>1, <4>2 DEF PositionsCount, Portfolio!PositionsOf
    <3>8. TimelineIs'
      <4>1. ~ joined => timeline.from # "mixed"
        BY <3>1 DEF TimelineIs
      <4> QED
        BY <1>1, <2>5, <3>2, <3>4, <4>1 DEF TimelineIs
    <3>9. TradesAreAsked' /\ TradesStand' /\ BannerStands'
      <4>1. /\ PortfolioTypes /\ loadingPositions' \in BOOLEAN /\ loadingTimeline' \in BOOLEAN
            /\ TRUE \in BOOLEAN
        BY <2>8, <1>0, Zenon DEF PortfolioTypes
      <4> DEFINE w == wire \ {r}
      <4>2. Portfolio!Fallback(w, TRUE) /\ \A q \in w : q.k = "trades" => q \in wire
        BY <2>1
      <4> HIDE DEF w
      <4> QED
        BY <1>1, <2>5, <3>1, <4>1, <4>2, FallbackKeeps
    <3> QED
      BY <3>5, <3>6, <3>7, <3>8, <3>9
  <2> QED
    BY <2>7, <2>8, <2>9 DEF PortfolioInvariant
<1> QED
  BY <1>3, <1>4

\* The events are made; both lists are asked for once more.
LEMMA EventsAreMade ==
    ASSUME PortfolioAssumption, PortfolioInvariant, NEW r \in wire, Portfolio!EventsMade(r)
    PROVE  PortfolioInvariant'
<1>0. PortfolioTypes /\ PageIs
  BY DEF PortfolioInvariant
<1> DEFINE q == [r EXCEPT !.k = "remade", !.made = TRUE]
<1>1. /\ r.k = "make" /\ made' = TRUE /\ wire' = (wire \ {r}) \cup {q}
      /\ filters' = filters /\ positions' = positions /\ timeline' = timeline /\ next' = next
      /\ loadingPositions' = loadingPositions /\ loadingTimeline' = loadingTimeline
      /\ error' = error /\ usingTradeFallback' = usingTradeFallback
      /\ backfillLoading' = backfillLoading
      /\ positionPage' = positionPage /\ asks' = asks /\ fails' = fails /\ overtaken' = overtaken
      /\ joined' = joined
  BY Zenon DEF Portfolio!EventsMade, Portfolio!data, Portfolio!flags
<1>2. r \in Asks /\ 1 <= r.n /\ r.n <= asks
  BY <1>0 DEF PortfolioTypes
<1>3. q \in Asks /\ q.k = "remade" /\ q.n = r.n
  <2>1. [r EXCEPT !.k = "remade"] \in Asks /\ [r EXCEPT !.k = "remade"].k = "remade"
        /\ [r EXCEPT !.k = "remade"].n = r.n
    BY <1>2 DEF Asks
  <2>2. PICK s : s = [r EXCEPT !.k = "remade"]
    OBVIOUS
  <2>3. [s EXCEPT !.made = TRUE] \in Asks /\ [s EXCEPT !.made = TRUE].k = "remade"
        /\ [s EXCEPT !.made = TRUE].n = r.n
    BY <2>1, <2>2 DEF Asks
  <2>4. q = [s EXCEPT !.made = TRUE]
    BY <2>2
  <2> QED
    BY <2>3, <2>4
<1> HIDE DEF q
<1>4. wire' \subseteq Asks /\ \A s \in wire' : 1 <= s.n /\ s.n <= asks'
  <2>1. \A s \in wire : s \in Asks /\ 1 <= s.n /\ s.n <= asks
    BY <1>0 DEF PortfolioTypes
  <2> QED
    BY <1>1, <1>2, <1>3, <2>1
<1>5. PortfolioTypes'
  <2>1. made' \in BOOLEAN
    BY <1>1
  <2> QED
    BY <1>0, <1>1, <1>4, <2>1, Zenon DEF PortfolioTypes
<1>6. PageIs'
  BY <1>0, <1>1, Zenon DEF PageIs, Portfolio!PagesOf, Portfolio!Larger
<1>7. ASSUME Clean'
      PROVE  LoadsAreOn' /\ TradesAreAsked' /\ PositionsAre' /\ PositionsCount' /\ TimelineIs'
             /\ TradesStand' /\ BannerStands'
  <2>1. /\ LoadsAreOn /\ TradesAreAsked /\ PositionsAre /\ TimelineIs /\ TradesStand /\ BannerStands
    BY <1>1, <1>7 DEF Clean, PortfolioInvariant
  <2>2. /\ On("positions")' <=> On("positions")
        /\ On("timeline")' <=> On("timeline")
        /\ On("more")' <=> On("more")
        /\ On("trades")' <=> On("trades")
        /\ On("remade")'
    BY <1>1, <1>3 DEF On
  <2>3. PositionsCount'
    BY <2>2 DEF PositionsCount
  <2>4. LoadsAreOn' /\ PositionsAre' /\ TimelineIs' /\ TradesStand' /\ BannerStands'
    BY <1>1, <2>1, <2>2, Zenon
       DEF LoadsAreOn, PositionsAre, TimelineIs, TradesStand, BannerStands
  <2>5. TradesAreAsked'
    BY <1>1, <1>3, <2>1 DEF TradesAreAsked
  <2> QED
    BY <2>3, <2>4, <2>5
<1> QED
  BY <1>5, <1>6, <1>7 DEF PortfolioInvariant

\* The lists of the events made are answered.
LEMMA RemadeCome ==
    ASSUME PortfolioAssumption, PortfolioInvariant, NEW r \in wire, Portfolio!Remade(r)
    PROVE  PortfolioInvariant'
<1>0. PortfolioTypes /\ PageIs
  BY DEF PortfolioInvariant
<1>1. /\ r.k = "remade"
      /\ positions' = Portfolio!List("events", r.of, Portfolio!PositionsOf(r.of, TRUE))
      /\ Portfolio!FirstPage(r.of, TRUE) /\ backfillLoading' = FALSE
      /\ made' = made /\ filters' = filters /\ loadingPositions' = loadingPositions
      /\ loadingTimeline' = loadingTimeline /\ error' = error
      /\ asks' = asks /\ fails' = fails /\ joined' = joined
      /\ Portfolio!Crossed(r, TRUE) /\ Portfolio!Clamp /\ Portfolio!Fallback(wire \ {r}, FALSE)
  BY Zenon DEF Portfolio!Remade
<1>2. r.of \in Portfolio!Filters /\ FALSE \in BOOLEAN /\ TRUE \in BOOLEAN
  BY <1>0 DEF PortfolioTypes, Asks
<1>3. PICK n \in Nat : n = Portfolio!PositionsOf(r.of, TRUE)
  BY <1>2, ServerHas
<1>4. positions' = [from |-> "events", of |-> r.of, n |-> n]
  BY <1>1, <1>3, Zenon DEF Portfolio!List
<1>5. positions' \in PositionLists /\ positions'.from = "events" /\ positions'.of = r.of /\
          positions'.n = n
  BY <1>2, <1>4 DEF PositionLists
<1>6. timeline' \in Timelines /\ next' \in Nat /\ timeline'.from = "events" /\ timeline'.of = r.of
  BY <1>1, <1>2, FirstPages
<1>7. /\ wire' \subseteq Asks /\ \A q \in wire' : 1 <= q.n /\ q.n <= asks'
      /\ usingTradeFallback' \in BOOLEAN
      /\ \A k : k # "trades" => (On(k)' <=> \E q \in wire \ {r} : q.k = k)
  <2>1. /\ FALSE \in BOOLEAN /\ Portfolio!Fallback(wire \ {r}, FALSE)
        /\ filters' = filters /\ asks' = asks /\ made' = made
    BY <1>1, <1>2, Zenon
  <2> QED
    BY <2>1, AnswerLeaves
<1>8. positionPage' \in Nat \ {0} /\ PageIs'
  <2>1. positionPage \in Nat \ {0} /\ positions'.n \in Nat /\ Portfolio!Clamp
    BY <1>0, <1>1, <1>3, <1>5 DEF PortfolioTypes
  <2> QED
    BY <2>1, PageFollows
<1>9. PortfolioTypes'
  <2>1. overtaken' \in BOOLEAN
    <3>1. overtaken \in BOOLEAN
      BY <1>0 DEF PortfolioTypes
    <3> QED
      BY <1>1, <3>1 DEF Portfolio!Crossed
  <2>2. backfillLoading' \in BOOLEAN
    BY <1>1
  <2> QED
    BY <1>0, <1>1, <1>5, <1>6, <1>7, <1>8, <2>1, <2>2, Zenon DEF PortfolioTypes
<1>10. ASSUME Clean'
       PROVE  LoadsAreOn' /\ TradesAreAsked' /\ PositionsAre' /\ PositionsCount' /\ TimelineIs'
              /\ TradesStand' /\ BannerStands'
  <2>1. /\ ~ overtaken /\ r.of = filters /\ TRUE = made /\ \A q \in wire \ {r} : q.k # r.k
    BY <1>1, <1>10, NotCrossed DEF Clean
  <2>2. /\ Clean /\ LoadsAreOn /\ TradesAreAsked /\ PositionsAre /\ PositionsCount /\ TimelineIs
        /\ TradesStand /\ BannerStands
    BY <1>1, <1>10, <2>1 DEF Clean, PortfolioInvariant
  <2>3. /\ On("positions")' <=> On("positions")
        /\ On("timeline")' <=> On("timeline")
        /\ On("more")' <=> On("more")
    BY <1>1, <1>7 DEF On
  <2>4. LoadsAreOn'
    BY <1>1, <2>2, <2>3, Zenon DEF LoadsAreOn
  <2>5. TimelineIs'
    BY <1>1, <1>6, <2>1 DEF TimelineIs
  <2>6. PositionsAre' /\ PositionsCount'
    BY <1>1, <1>3, <1>5, <2>1 DEF PositionsAre, PositionsCount, Portfolio!PositionsOf
  <2>7. TradesAreAsked' /\ TradesStand' /\ BannerStands'
    <3>1. \A q \in wire : q.k = "trades" => q \in wire \ {r}
      BY <1>1
    <3>2. /\ PortfolioTypes /\ loadingPositions' \in BOOLEAN /\ loadingTimeline' \in BOOLEAN
      BY <1>9, <1>0, Zenon DEF PortfolioTypes
    <3>3. ~ (SameLists /\ ~ loadingPositions' /\ positions.from = "trades"
               /\ positions'.n = 0 /\ HeldFills[filters] > 0)
      <4> SUFFICES ASSUME SameLists, ~ loadingPositions', positions.from = "trades",
                          positions'.n = 0,
                          HeldFills[filters] > 0
                   PROVE  FALSE
        OBVIOUS
      <4>1. ~ On("positions")
        BY <1>1, <2>2, Zenon DEF LoadsAreOn
      <4>2. positions.n = HeldFills[filters]
        BY <2>2, <4>1, Zenon DEF PositionsAre
      <4>3. positions.n = 0
        BY Zenon DEF SameLists
      <4> QED
        BY <4>2, <4>3
    <3> DEFINE w == wire \ {r}
    <3>4. /\ Portfolio!Fallback(w, FALSE) /\ \A q \in w : q.k = "trades" => q \in wire
          /\ \A q \in wire : q.k = "trades" => q \in w
      BY <1>1, <3>1
    <3> HIDE DEF w
    <3> QED
      BY <1>1, <1>2, <1>5, <2>2, <3>2, <3>3, <3>4, FallbackKeeps
  <2> QED
    BY <2>4, <2>5, <2>6, <2>7
<1> QED
  BY <1>8, <1>9, <1>10 DEF PortfolioInvariant

\* A request fails: nothing is promised any more but that the page exists.
LEMMA PortfolioFails ==
    ASSUME PortfolioAssumption, PortfolioInvariant, NEW r \in wire, Portfolio!Fails(r)
    PROVE  PortfolioInvariant'
<1>0. PortfolioTypes /\ PageIs /\ MaxFails \in Nat
  BY DEF PortfolioInvariant, PortfolioAssumption, Portfolio!BoundAssumption
<1>1. /\ fails < MaxFails /\ fails' = fails + 1
      /\ made' = made /\ filters' = filters /\ positions' = positions
      /\ timeline' = timeline /\ next' = next
      /\ positionPage' = positionPage /\ asks' = asks /\ overtaken' = overtaken /\ joined' = joined
      /\ Portfolio!Fallback(wire \ {r}, usingTradeFallback)
  BY Zenon DEF Portfolio!Fails, Portfolio!data
<1>2. /\ loadingPositions' \in BOOLEAN /\ loadingTimeline' \in BOOLEAN /\ error' \in BOOLEAN
      /\ backfillLoading' \in BOOLEAN
  <2>1. loadingPositions \in BOOLEAN /\ loadingTimeline \in BOOLEAN /\ error \in BOOLEAN /\
            backfillLoading \in BOOLEAN
    BY <1>0 DEF PortfolioTypes
  <2>2. /\ loadingPositions' = (loadingPositions /\ r.k # "positions")
        /\ loadingTimeline' = (loadingTimeline /\ r.k \notin {"timeline", "more"})
        /\ error' = (error \/ r.k \in {"positions", "timeline", "more"})
        /\ backfillLoading' = (backfillLoading /\ r.k \notin {"make", "remade"})
    BY Zenon DEF Portfolio!Fails
  <2> QED
    BY <2>1, <2>2
<1>3. usingTradeFallback \in BOOLEAN
  BY <1>0 DEF PortfolioTypes
<1>4. /\ wire' \subseteq Asks /\ \A q \in wire' : 1 <= q.n /\ q.n <= asks'
      /\ usingTradeFallback' \in BOOLEAN
  BY <1>1, <1>3, AnswerLeaves
<1>5. fails' \in 0 .. MaxFails /\ fails' # 0
  BY <1>0, <1>1 DEF PortfolioTypes
<1>6. PortfolioTypes'
  BY <1>0, <1>1, <1>2, <1>4, <1>5, Zenon DEF PortfolioTypes
<1>7. PageIs'
  BY <1>0, <1>1, Zenon DEF PageIs, Portfolio!PagesOf, Portfolio!Larger
<1> QED
  BY <1>5, <1>6, <1>7 DEF PortfolioInvariant, Clean

\* Every step of the portfolio keeps the invariant.
LEMMA PortfolioKept ==
    ASSUME PortfolioAssumption, PortfolioInvariant, [Portfolio!Next]_Portfolio!vars
    PROVE  PortfolioInvariant'
<1>1. CASE UNCHANGED Portfolio!vars
  <2>1. /\ made' = made /\ filters' = filters /\ positions' = positions
        /\ timeline' = timeline /\ next' = next
        /\ loadingPositions' = loadingPositions /\ loadingTimeline' = loadingTimeline
        /\ error' = error /\ usingTradeFallback' = usingTradeFallback
        /\ backfillLoading' = backfillLoading
        /\ positionPage' = positionPage /\ wire' = wire /\ asks' = asks /\ fails' = fails
        /\ overtaken' = overtaken /\ joined' = joined
    BY <1>1, Zenon DEF Portfolio!vars, Portfolio!data, Portfolio!flags
  <2>2. PortfolioTypes' <=> PortfolioTypes
    BY <2>1, Zenon DEF PortfolioTypes
  <2>3. /\ PageIs' <=> PageIs
        /\ Clean' <=> Clean
    BY <2>1, Zenon DEF PageIs, Clean, Portfolio!PagesOf, Portfolio!Larger
  <2>4. \A k : On(k)' <=> On(k)
    BY <2>1, Zenon DEF On
  <2>5. /\ LoadsAreOn' <=> LoadsAreOn
        /\ TradesAreAsked' <=> TradesAreAsked
        /\ PositionsAre' <=> PositionsAre
    BY <2>1, <2>4, Zenon DEF LoadsAreOn, TradesAreAsked, PositionsAre
  <2>6. /\ PositionsCount' <=> PositionsCount
        /\ TimelineIs' <=> TimelineIs
    BY <2>1, <2>4, Zenon DEF PositionsCount, TimelineIs, Portfolio!PositionsOf
  <2>7. /\ TradesStand' <=> TradesStand
        /\ BannerStands' <=> BannerStands
    BY <2>1, <2>4, Zenon DEF TradesStand, BannerStands
  <2> QED
    BY <2>2, <2>3, <2>5, <2>6, <2>7, Zenon DEF PortfolioInvariant
<1>2. CASE Portfolio!Next
  <2>1. \/ \E f \in Portfolio!Filters : Portfolio!SetFilter(f)
        \/ Portfolio!Refresh \/ Portfolio!LoadMore
        \/ Portfolio!BackfillEvents \/ \E p \in 0 .. Portfolio!PagesOf(positions.n) + 1 :
               Portfolio!GoToPage(p)
        \/ \E r \in wire, m \in BOOLEAN :
              Portfolio!PositionsAnswered(r, m) \/ Portfolio!TimelineAnswered(r, m) \/
                  Portfolio!MoreAnswered(r, m)
        \/ \E r \in wire :
              Portfolio!TradesAnswered(r) \/ Portfolio!EventsMade(r) \/ Portfolio!Remade(r) \/
                  Portfolio!Fails(r)
    BY <1>2, Zenon DEF Portfolio!Next
  <2> QED
    BY <2>1, PortfolioFiltered, PortfolioRefreshed, PortfolioMore, PortfolioTurned,
       PositionsCome, TimelineComes, MoreComes, TradesCome, EventsAreMade, RemadeCome,
       PortfolioFails, Zenon
<1> QED
  BY <1>1, <1>2

\* A portfolio that is opened satisfies it.
LEMMA PortfolioStart == PortfolioAssumption /\ Portfolio!Init => PortfolioInvariant
<1> SUFFICES ASSUME PortfolioAssumption, Portfolio!Init PROVE PortfolioInvariant
  OBVIOUS
<1>1. /\ made \in BOOLEAN /\ filters \in Portfolio!Filters
      /\ positions = [from |-> "start", of |-> filters, n |-> 0]
      /\ timeline = [from |-> "start", of |-> filters, n |-> 0] /\ next = 0
      /\ loadingPositions = TRUE /\ loadingTimeline = TRUE /\ error = FALSE
      /\ usingTradeFallback = FALSE /\ backfillLoading = FALSE
      /\ positionPage = 1
      /\ asks = 1 /\ fails = 0 /\ overtaken = FALSE /\ joined = FALSE
  BY DEF Portfolio!Init, Portfolio!List
<1>2. wire =
          {[k |-> k, of |-> filters, made |-> made, n |-> 1, page |-> 1] :
              k \in {"positions", "timeline"}}
  BY Zenon DEF Portfolio!Init
<1>3. MaxAsks \in Nat \ {0} /\ MaxFails \in Nat
  BY DEF PortfolioAssumption, Portfolio!BoundAssumption
<1>4. /\ wire \subseteq Asks /\ \A r \in wire : 1 <= r.n /\ r.n <= asks
      /\ \A r \in wire : r.k = "positions" \/ r.k = "timeline"
      /\ \E r \in wire : r.k = "positions"
      /\ \E r \in wire : r.k = "timeline"
  <2>1. \A k \in {"positions", "timeline"} :
            [k |-> k, of |-> filters, made |-> made, n |-> 1, page |-> 1] \in Asks
    BY <1>1 DEF Asks
  <2> QED
    BY <1>1, <1>2, <2>1
<1>5. PortfolioTypes
  <2>1. /\ loadingPositions \in BOOLEAN /\ loadingTimeline \in BOOLEAN /\ error \in BOOLEAN
        /\ usingTradeFallback \in BOOLEAN /\ backfillLoading \in BOOLEAN
        /\ overtaken \in BOOLEAN /\ joined \in BOOLEAN
    BY <1>1
  <2>3. /\ positions \in PositionLists /\ timeline \in Timelines /\ next \in Nat
        /\ positionPage \in Nat \ {0}
    <3>1. [from |-> "start", of |-> filters, n |-> 0] \in PositionLists
      BY <1>1 DEF PositionLists
    <3>2. [from |-> "start", of |-> filters, n |-> 0] \in Timelines
      BY <1>1 DEF Timelines
    <3> QED
      BY <1>1, <3>1, <3>2
  <2>2. asks \in 1 .. MaxAsks /\ fails \in 0 .. MaxFails
    BY <1>1, <1>3
  <2> QED
    BY <1>1, <1>4, <2>1, <2>2, <2>3, Zenon DEF PortfolioTypes
<1>6. PageIs
  <2>1. PICK p : p = Portfolio!PagesOf(0) /\ p \in Nat \ {0}
    BY PagesExist
  <2> QED
    BY <1>1, <2>1 DEF PageIs
<1>7. On("positions") /\ On("timeline") /\ ~ On("more") /\ ~ On("trades") /\ ~ On("remade")
  BY <1>4 DEF On
<1>8. LoadsAreOn /\ TradesAreAsked /\ PositionsAre /\ PositionsCount /\ TimelineIs /\
          TradesStand /\ BannerStands
  BY <1>1, <1>4, <1>7
     DEF LoadsAreOn, TradesAreAsked, PositionsAre, PositionsCount, TimelineIs, TradesStand,
         BannerStands
<1> QED
  BY <1>5, <1>6, <1>8 DEF PortfolioInvariant

\* The invariant says that what is listed is that of the filters.
LEMMA PortfolioSound == PortfolioAssumption /\ PortfolioInvariant =>
    Portfolio!PortfolioFits /\ Portfolio!TypeOK
<1> SUFFICES ASSUME PortfolioAssumption, PortfolioInvariant
             PROVE  Portfolio!PortfolioFits /\ Portfolio!TypeOK
  OBVIOUS
<1>1. PortfolioTypes /\ PageIs
  BY DEF PortfolioInvariant
<1>2. ASSUME Portfolio!AtRest
      PROVE  /\ positions.of = filters /\ timeline.of = filters
             /\ positions.from = "trades" =>
                    filters.trades /\ Portfolio!PositionsOf(filters, made) = 0
             /\ filters.trades /\ Portfolio!PositionsOf(filters, made) = 0 /\
                    HeldFills[filters] > 0 =>
                    positions.from = "trades"
             /\ usingTradeFallback => positions.from = "trades" \/ HeldTrades[filters.venue] = 0
  <2>1. wire = {} /\ Clean
    BY <1>2 DEF Portfolio!AtRest, Clean
  <2>2. /\ LoadsAreOn /\ PositionsAre /\ PositionsCount /\ TimelineIs /\ TradesStand /\ BannerStands
    BY <2>1 DEF PortfolioInvariant
  <2>3. \A k : ~ On(k)
    BY <2>1 DEF On
  <2>4. ~ loadingPositions /\ ~ loadingTimeline
    BY <2>2, <2>3, Zenon DEF LoadsAreOn
  <2>5. positions.of = filters /\ timeline.of = filters
    BY <2>2, <2>3, Zenon DEF PositionsAre, TimelineIs
  <2>6. positions.from = "trades" => filters.trades /\ Portfolio!PositionsOf(filters, made) = 0
    BY <2>2, <2>3, Zenon DEF PositionsAre, PositionsCount
  <2>7. ASSUME filters.trades, Portfolio!PositionsOf(filters, made) = 0, HeldFills[filters] > 0
        PROVE  positions.from = "trades"
    <3>1. positions.from \in {"events", "trades"}
      <4>1. positions.from \in {"start", "events", "trades"}
        BY <1>1 DEF PortfolioTypes, PositionLists
      <4> QED
        BY <2>2, <2>3, <4>1 DEF PositionsAre
    <3>2. positions.from = "events" => positions.n = 0
      BY <2>2, <2>3, <2>7, Zenon DEF PositionsCount
    <3> QED
      BY <2>2, <2>3, <2>4, <2>7, <3>1, <3>2 DEF TradesStand
  <2>8. usingTradeFallback => positions.from = "trades" \/ HeldTrades[filters.venue] = 0
    BY <2>2, <2>3, <2>4, Zenon DEF BannerStands
  <2> QED
    BY <2>5, <2>6, <2>7, <2>8
<1>3. /\ Portfolio!ListsFit /\ Portfolio!TradesOnlyInPlace /\ Portfolio!TradesInPlace
      /\ Portfolio!BannerIsTrue
  BY <1>2, Zenon
     DEF Portfolio!ListsFit, Portfolio!TradesOnlyInPlace, Portfolio!TradesInPlace,
         Portfolio!BannerIsTrue
<1>4. Portfolio!OneKind
  <2> SUFFICES ASSUME timeline.from = "mixed", ~ joined, ~ overtaken, ~ (fails > 0) PROVE FALSE
    BY DEF Portfolio!OneKind
  <2>1. Clean
    BY <1>1 DEF Clean, PortfolioTypes
  <2> QED
    BY <2>1 DEF PortfolioInvariant, TimelineIs
<1>5. Portfolio!PageExists
  BY <1>1, Zenon DEF PageIs, Portfolio!PageExists
<1>6. Portfolio!TypeOK
  BY <1>1 DEF PortfolioTypes, Portfolio!TypeOK, PositionLists, Timelines, Asks
<1> QED
  BY <1>3, <1>4, <1>5, <1>6, Zenon DEF Portfolio!PortfolioFits

-----------------------------------------------------------------------------
(* The labels of futures fills *)

\* A set of numbers that is not empty has a least one.
LEMMA LeastOf ==
    ASSUME NEW T, T \subseteq Nat, T # {}
    PROVE  \E t \in T : \A u \in T : t <= u
<1>1. PICK t \in T : \A u \in T : <<u, t>> \notin OpToRel(<, Nat)
  BY NatLessThanWellFounded, WFMin, Zenon
<1>2. \A u \in T : t <= u
  <2> TAKE u \in T
  <2>1. u \in Nat /\ t \in Nat
    OBVIOUS
  <2>2. ~ (u < t)
    BY <1>1, <2>1, Zenon DEF OpToRel
  <2> QED
    BY <2>1, <2>2
<1> QED
  BY <1>2

\* Sums of the first terms of d, up to m.
IsSums(d, m, g) == g[0] = 0 /\ \A k \in 1 .. m : g[k] = g[k - 1] + d[k]

\* Sums are there up to every number.
LEMMA SumsExist ==
    ASSUME NEW d, NEW m \in Nat
    PROVE  \E g : IsSums(d, m, g)
<1> DEFINE T == {n \in Nat : ~ \E g : IsSums(d, n, g)}
<1>1. SUFFICES ASSUME T # {} PROVE FALSE
  OBVIOUS
<1>2. PICK n \in T : \A u \in T : n <= u
  <2>1. T \subseteq Nat
    OBVIOUS
  <2> HIDE DEF T
  <2> QED
    BY <1>1, <2>1, LeastOf
<1>3. CASE n = 0
  <2>1. IsSums(d, n, [k \in {0} |-> 0])
    BY <1>3 DEF IsSums
  <2> QED
    BY <2>1
<1>4. CASE n # 0
  <2>1. n - 1 \in Nat /\ n - 1 \notin T
    BY <1>2, <1>4
  <2>2. PICK g : IsSums(d, n - 1, g)
    BY <2>1
  <2> DEFINE h == [k \in 0 .. n |-> IF k = n THEN g[n - 1] + d[n] ELSE g[k]]
  <2>3. h[0] = 0
    BY <1>4, <2>2 DEF IsSums
  <2>4. \A k \in 1 .. n : h[k] = h[k - 1] + d[k]
    <3> TAKE k \in 1 .. n
    <3>1. CASE k = n
      BY <1>4, <3>1
    <3>2. CASE k # n
      <4>1. k \in 1 .. n - 1
        BY <3>2
      <4> QED
        BY <2>2, <4>1 DEF IsSums
    <3> QED
      BY <3>1, <3>2
  <2>5. IsSums(d, n, h)
    <3> HIDE DEF h
    <3> QED
      BY <2>3, <2>4 DEF IsSums
  <2> QED
    BY <2>5
<1> QED
  BY <1>3, <1>4

\* Two sums agree as far as both go.
LEMMA SumsAgree ==
    ASSUME NEW d, NEW m \in Nat, NEW n \in Nat, m <= n, NEW g, NEW h, IsSums(d, m, g),
           IsSums(d, n, h)
    PROVE  g[m] = h[m]
<1> DEFINE T == {k \in 0 .. m : g[k] # h[k]}
<1>1. SUFFICES ASSUME T # {} PROVE FALSE
  OBVIOUS
<1>2. PICK k \in T : \A u \in T : k <= u
  <2>1. T \subseteq Nat
    OBVIOUS
  <2> HIDE DEF T
  <2> QED
    BY <1>1, <2>1, LeastOf
<1>3. k # 0
  BY <1>2 DEF IsSums
<1>4. k - 1 \in 0 .. m /\ k - 1 \notin T
  BY <1>2, <1>3
<1>5. g[k - 1] = h[k - 1]
  BY <1>4
<1>6. k \in 1 .. m /\ k \in 1 .. n
  BY <1>2, <1>3
<1> QED
  BY <1>2, <1>5, <1>6 DEF IsSums

\* What a fill adds to the position in a symbol.
Adds(f, s) == IF f.symbol = s THEN Labels!Delta(f) ELSE 0

\* The position in a symbol is the sum of the fills.
LEMMA HeldIs ==
    ASSUME NEW s
    PROVE  /\ Labels!Held(s)[0] = 0
           /\ \A n \in Nat \ {0} : Labels!Held(s)[n] = Labels!Held(s)[n - 1] + Adds(fills[n], s)
<1> DEFINE d == [n \in Nat |-> Adds(fills[n], s)]
           F == [n \in Nat |-> (CHOOSE g : IsSums(d, n, g))[n]]
           Body(f) == [n \in Nat |->
                         IF n = 0 THEN 0
                         ELSE f[n - 1] + (IF fills[n].symbol = s THEN Labels!Delta(fills[n])
                                          ELSE 0)]
<1>1. ASSUME NEW n \in Nat
      PROVE  F[n] = IF n = 0 THEN 0 ELSE F[n - 1] + Adds(fills[n], s)
  <2> DEFINE g == CHOOSE x : IsSums(d, n, x)
  <2>1. IsSums(d, n, g)
    <3> HIDE DEF d
    <3> QED
      BY SumsExist
  <2>2. F[n] = g[n]
    OBVIOUS
  <2>3. CASE n = 0
    <3> HIDE DEF F, g, d
    <3> QED
      BY <2>1, <2>2, <2>3 DEF IsSums
  <2>4. CASE n # 0
    <3> DEFINE h == CHOOSE x : IsSums(d, n - 1, x)
    <3>1. n - 1 \in Nat /\ n - 1 <= n /\ n \in 1 .. n
      BY <2>4
    <3>2. IsSums(d, n - 1, h)
      <4> HIDE DEF d
      <4> QED
        BY <3>1, SumsExist
    <3>3. F[n - 1] = h[n - 1]
      BY <3>1
    <3>4. d[n] = Adds(fills[n], s)
      OBVIOUS
    <3> HIDE DEF F, g, h, d
    <3>5. h[n - 1] = g[n - 1]
      BY <2>1, <3>1, <3>2, SumsAgree
    <3>6. g[n] = g[n - 1] + d[n]
      BY <2>1, <3>1 DEF IsSums
    <3> QED
      BY <2>2, <2>4, <3>3, <3>4, <3>5, <3>6
  <2> QED
    BY <2>3, <2>4
<1>2. F = Body(F)
  <2>1. \A n \in Nat : F[n] = IF n = 0 THEN 0 ELSE F[n - 1] + Adds(fills[n], s)
    <3> HIDE DEF F
    <3> QED
      BY <1>1
  <2>2. F = [n \in Nat |-> F[n]]
    OBVIOUS
  <2> HIDE DEF F
  <2> QED
    BY <2>1, <2>2 DEF Adds
<1>3. Labels!Held(s) = Body(Labels!Held(s))
  <2>1. Labels!Held(s) = CHOOSE f : f = Body(f)
    BY DEF Labels!Held
  <2> HIDE DEF F, Body
  <2> QED
    BY <1>2, <2>1
<1> QED
  <2> DEFINE H == Labels!Held(s)
  <2>1. H = Body(H)
    BY <1>3
  <2> HIDE DEF H
  <2>2. H[0] = 0 /\ \A n \in Nat \ {0} : H[n] = H[n - 1] + Adds(fills[n], s)
    BY <2>1 DEF Adds
  <2> QED
    BY <2>2 DEF H

\* The position in every symbol, and in the state after a step.
LEMMA HeldSums ==
    \A s : /\ Labels!Held(s)[0] = 0
           /\ \A n \in Nat \ {0} : Labels!Held(s)[n] = Labels!Held(s)[n - 1] + Adds(fills[n], s)
<1> TAKE s
<1> QED
  BY HeldIs

LEMMA HeldSumsNext ==
    (\A s : /\ Labels!Held(s)[0] = 0
            /\ \A n \in Nat \ {0} : Labels!Held(s)[n] = Labels!Held(s)[n - 1] + Adds(fills[n], s))'
BY HeldSums, PTL

\* Positions are whole numbers.
LEMMA HeldWhole ==
    ASSUME Labels!TypeOK, NEW s, NEW n \in 0 .. Len(fills)
    PROVE  Labels!Held(s)[n] \in Int
<1> DEFINE h == Labels!Held(s)
           T == {k \in 0 .. Len(fills) : h[k] \notin Int}
<1>1. SUFFICES ASSUME T # {} PROVE FALSE
  OBVIOUS
<1>0. fills \in Seq(Labels!Fills) /\ Len(fills) \in Nat
  BY DEF Labels!TypeOK
<1>2. PICK k \in T : \A u \in T : k <= u
  <2>1. T \subseteq Nat
    BY <1>0
  <2> HIDE DEF T
  <2> QED
    BY <1>1, <2>1, LeastOf
<1>3. k # 0
  BY <1>2, HeldSums
<1>4. k - 1 \in 0 .. Len(fills) /\ k - 1 \notin T /\ k \in 1 .. Len(fills) /\ k \in Nat \ {0}
  BY <1>0, <1>2, <1>3
<1>5. h[k - 1] \in Int
  BY <1>4
<1>6. fills[k] \in Labels!Fills
  BY <1>0, <1>4
<1>7. Adds(fills[k], s) \in Int
  BY <1>6 DEF Adds, Labels!Delta, Labels!Fills
<1>8. h[k] = h[k - 1] + Adds(fills[k], s)
  BY <1>4, HeldSums
<1> HIDE DEF h
<1> QED
  BY <1>2, <1>5, <1>7, <1>8

\* A fill adds to the position, and changes none before it.
LEMMA HeldGrows ==
    ASSUME Labels!TypeOK, NEW f \in Labels!Fills, fills' = Append(fills, f), NEW s
    PROVE  /\ \A n \in 0 .. Len(fills) : Labels!Held(s)'[n] = Labels!Held(s)[n]
           /\ Labels!Held(s)'[Len(fills) + 1] = Labels!Held(s)[Len(fills)] + Adds(f, s)
<1> DEFINE h == Labels!Held(s)
           g == Labels!Held(s)'
           T == {k \in 0 .. Len(fills) : g[k] # h[k]}
<1>0. fills \in Seq(Labels!Fills) /\ Len(fills) \in Nat
  BY DEF Labels!TypeOK
<1>1. h[0] = 0 /\ \A n \in Nat \ {0} : h[n] = h[n - 1] + Adds(fills[n], s)
  BY HeldSums
<1>2. g[0] = 0 /\ \A n \in Nat \ {0} : g[n] = g[n - 1] + Adds(fills'[n], s)
  BY HeldSumsNext DEF Adds, Labels!Delta
<1>3. /\ \A n \in 1 .. Len(fills) : fills'[n] = fills[n]
      /\ fills'[Len(fills) + 1] = f
  BY <1>0
<1> HIDE DEF g, h
<1>4. ASSUME T # {} PROVE FALSE
  <2>1. PICK k \in T : \A u \in T : k <= u
    <3>1. T \subseteq Nat
      BY <1>0
    <3> HIDE DEF T
    <3> QED
      BY <1>4, <3>1, LeastOf
  <2>2. k # 0
    BY <2>1, <1>1, <1>2
  <2>3. k - 1 \in 0 .. Len(fills) /\ k - 1 \notin T /\ k \in 1 .. Len(fills) /\ k \in Nat \ {0}
    BY <1>0, <2>1, <2>2
  <2>4. g[k - 1] = h[k - 1] /\ fills'[k] = fills[k]
    BY <1>3, <2>3
  <2>5. g[k] = h[k]
    BY <1>1, <1>2, <2>3, <2>4
  <2> QED
    BY <2>1, <2>5
<1>5. \A n \in 0 .. Len(fills) : g[n] = h[n]
  BY <1>4
<1>6. g[Len(fills) + 1] = h[Len(fills)] + Adds(f, s)
  <2>1. Len(fills) + 1 \in Nat \ {0} /\ Len(fills) + 1 - 1 = Len(fills) /\
            Len(fills) \in 0 .. Len(fills)
    BY <1>0
  <2>2. g[Len(fills) + 1] = g[Len(fills) + 1 - 1] + Adds(fills'[Len(fills) + 1], s)
    BY <1>2, <2>1
  <2> QED
    BY <1>3, <1>5, <2>1, <2>2
<1> QED
  BY <1>5, <1>6 DEF g, h

-----------------------------------------------------------------------------

\* The page counts what was added to each position since it begins.
LabelInvariant ==
    /\ Labels!TypeOK
    /\ \A s \in FillSymbols : position[s] = Labels!Held(s)[Len(fills)] - Labels!Held(s)[first - 1]
    /\ Labels!LabelsAreTrue

\* What a fill did to a position, and what the page calls it.
LEMMA LabelIs ==
    ASSUME NEW f \in Labels!Fills, NEW before \in Int, NEW after \in Int,
           after = before + Labels!Delta(f), f.word = Labels!NoWord
    PROVE  Labels!LabelFor(f, before) =
             IF Labels!Greatest(after, 0) > Labels!Greatest(before, 0) THEN "long open"
             ELSE IF Labels!Greatest(-after, 0) > Labels!Greatest(-before, 0) THEN "short open"
             ELSE IF Labels!Greatest(after, 0) < Labels!Greatest(before, 0) THEN "long close"
             ELSE "short close"
<1>1. f.qty \in Nat \ {0} /\ f.side \in {"BUY", "SELL"}
  BY PartsAssumption DEF Labels!LabelBounds, Labels!Fills, Labels!Sides
<1>2. PICK q \in Nat \ {0} : q = f.qty
  BY <1>1
<1>3. CASE f.side = "BUY"
  <2> DEFINE closes == Labels!Least(Labels!Size(Labels!Least(before, 0)), q)
             opens == Labels!Greatest(0, q - closes)
  <2>1. after = before + q
    BY <1>2, <1>3 DEF Labels!Delta
  <2>2. Labels!LabelFor(f, before) = IF before < 0 /\ opens = 0 THEN "short close" ELSE "long open"
    BY <1>2, <1>3, Zenon DEF Labels!LabelFor
  <2>3. (before < 0 /\ opens = 0) <=> after <= 0
    BY <2>1 DEF Labels!Least, Labels!Greatest, Labels!Size
  <2>4. Labels!LabelFor(f, before) = IF after <= 0 THEN "short close" ELSE "long open"
    BY <2>2, <2>3, Zenon
  <2> HIDE DEF opens, closes
  <2>5. /\ Labels!Greatest(after, 0) > Labels!Greatest(before, 0) <=> ~ (after <= 0)
        /\ ~ (Labels!Greatest(-after, 0) > Labels!Greatest(-before, 0))
        /\ ~ (Labels!Greatest(after, 0) < Labels!Greatest(before, 0))
    BY <2>1 DEF Labels!Greatest
  <2> QED
    BY <2>4, <2>5, Zenon
<1>4. CASE f.side = "SELL"
  <2> DEFINE closes == Labels!Least(Labels!Greatest(before, 0), q)
             opens == Labels!Greatest(0, q - closes)
  <2>1. after = before - q
    BY <1>2, <1>4 DEF Labels!Delta
  <2>2. Labels!LabelFor(f, before) = IF before > 0 /\ opens = 0 THEN "long close" ELSE "short open"
    <3>1. f.side # "BUY"
      BY <1>4
    <3> QED
      BY <1>2, <3>1, Zenon DEF Labels!LabelFor
  <2>3. (before > 0 /\ opens = 0) <=> after >= 0
    BY <2>1 DEF Labels!Least, Labels!Greatest
  <2>4. Labels!LabelFor(f, before) = IF after >= 0 THEN "long close" ELSE "short open"
    BY <2>2, <2>3, Zenon
  <2> HIDE DEF opens, closes
  <2>5. /\ ~ (Labels!Greatest(after, 0) > Labels!Greatest(before, 0))
        /\ Labels!Greatest(-after, 0) > Labels!Greatest(-before, 0) <=> ~ (after >= 0)
        /\ after >= 0 => Labels!Greatest(after, 0) < Labels!Greatest(before, 0)
    BY <2>1 DEF Labels!Greatest
  <2> QED
    BY <2>4, <2>5, Zenon
<1> QED
  BY <1>1, <1>3, <1>4

\* A page without fills satisfies the invariant.
LEMMA LabelsBegin ==
    ASSUME Labels!Init
    PROVE  LabelInvariant
<1>1. fills = <<>> /\ first = 1 /\ position = [s \in FillSymbols |-> 0] /\ Len(fills) = 0
      /\ label = [i \in 1 .. 0 |-> Labels!NoWord]
  BY DEF Labels!Init
<1>2. Labels!TypeOK
  <2>1. fills \in Seq(Labels!Fills) /\ first \in 1 .. Len(fills) + 1
    BY <1>1
  <2>2. label \in [first .. Len(fills) -> Labels!Labels]
    BY <1>1
  <2> QED
    BY <1>1, <2>1, <2>2 DEF Labels!TypeOK
<1>3. ASSUME NEW s \in FillSymbols
      PROVE  position[s] = Labels!Held(s)[Len(fills)] - Labels!Held(s)[first - 1]
  BY <1>1, HeldSums
<1>4. Labels!LabelsAreTrue
  BY <1>1 DEF Labels!LabelsAreTrue
<1> QED
  BY <1>2, <1>3, <1>4 DEF LabelInvariant

\* A fill is labelled by the position it finds, which it changes.
LEMMA FillLabelled ==
    ASSUME LabelInvariant, NEW f \in Labels!Fills, Labels!LabelFill(f)
    PROVE  LabelInvariant'
<1> DEFINE n == Len(fills)
<1>0. /\ fills \in Seq(Labels!Fills) /\ first \in 1 .. n + 1 /\ n \in Nat
      /\ position \in [FillSymbols -> Int] /\ label \in [first .. n -> Labels!Labels]
  BY DEF LabelInvariant, Labels!TypeOK
<1>1. /\ fills' = Append(fills, f) /\ first' = first
      /\ label' = [i \in first .. n + 1 |->
                      IF i \in DOMAIN label THEN label[i]
                      ELSE Labels!LabelFor(f, position[f.symbol])]
      /\ position' = [position EXCEPT ![f.symbol] = position[f.symbol] + Labels!Delta(f)]
  BY Zenon DEF Labels!LabelFill
<1>2. /\ Len(fills') = n + 1 /\ fills' \in Seq(Labels!Fills)
      /\ fills'[n + 1] = f /\ \A i \in 1 .. n : fills'[i] = fills[i]
  BY <1>0, <1>1
<1>3. f.symbol \in FillSymbols /\ Labels!Delta(f) \in Int /\
          f.word \in Labels!Labels \cup {Labels!NoWord}
  BY PartsAssumption DEF Labels!Fills, Labels!Delta, Labels!LabelBounds
<1>4. Labels!TypeOK'
  <2>1. Labels!LabelFor(f, position[f.symbol]) \in Labels!Labels
    BY <1>3 DEF Labels!LabelFor, Labels!Labels
  <2>2. label' \in [first' .. Len(fills') -> Labels!Labels]
    <3> HIDE DEF n
    <3> QED
      BY <1>0, <1>1, <1>2, <2>1
  <2>3. position' \in [FillSymbols -> Int]
    BY <1>0, <1>1, <1>3
  <2>4. first' \in 1 .. Len(fills') + 1
    BY <1>0, <1>1, <1>2
  <2> QED
    BY <1>2, <2>2, <2>3, <2>4 DEF Labels!TypeOK
<1>5. Labels!TypeOK
  BY DEF LabelInvariant
<1>6. \A s : /\ \A k \in 0 .. n : Labels!Held(s)'[k] = Labels!Held(s)[k]
             /\ Labels!Held(s)'[n + 1] = Labels!Held(s)[n] + Adds(f, s)
             /\ \A k \in 0 .. n : Labels!Held(s)[k] \in Int
  <2> TAKE s
  <2>1. /\ \A k \in 0 .. n : Labels!Held(s)'[k] = Labels!Held(s)[k]
        /\ Labels!Held(s)'[n + 1] = Labels!Held(s)[n] + Adds(f, s)
    BY <1>1, <1>5, HeldGrows
  <2>2. \A k \in 0 .. n : Labels!Held(s)[k] \in Int
    BY <1>5, HeldWhole
  <2> QED
    BY <2>1, <2>2
<1>7. ASSUME NEW s \in FillSymbols
      PROVE  position'[s] = Labels!Held(s)'[Len(fills')] - Labels!Held(s)'[first' - 1]
  <2>1. position[s] = Labels!Held(s)[n] - Labels!Held(s)[first - 1]
    BY DEF LabelInvariant
  <2>2. first - 1 \in 0 .. n /\ n \in 0 .. n
    BY <1>0
  <2>3. position'[s] = position[s] + Adds(f, s)
    <3>1. CASE s = f.symbol
      BY <1>0, <1>1, <3>1 DEF Adds
    <3>2. CASE s # f.symbol
      BY <1>0, <1>1, <3>2 DEF Adds
    <3> QED
      BY <3>1, <3>2
  <2>4. Adds(f, s) \in Int
    BY <1>3 DEF Adds
  <2>5. /\ Labels!Held(s)'[first - 1] = Labels!Held(s)[first - 1]
        /\ Labels!Held(s)'[n + 1] = Labels!Held(s)[n] + Adds(f, s)
        /\ Labels!Held(s)[first - 1] \in Int /\ Labels!Held(s)[n] \in Int
    BY <1>6, <2>2
  <2> DEFINE h == Labels!Held(s)
             g == Labels!Held(s)'
  <2>6. /\ position[s] = h[n] - h[first - 1] /\ g[first - 1] = h[first - 1]
        /\ g[n + 1] = h[n] + Adds(f, s) /\ h[first - 1] \in Int /\ h[n] \in Int
    BY <2>1, <2>5
  <2> HIDE DEF h, g, n
  <2>7. position'[s] = g[n + 1] - g[first - 1]
    BY <2>3, <2>4, <2>6
  <2> QED
    BY <1>1, <1>2, <2>7 DEF g
<1>8. ASSUME NEW i \in first .. n + 1, NEW s, s = fills'[i].symbol, Labels!Held(s)'[first - 1] = 0
      PROVE  label'[i] = Labels!True(i)'
  <2> DEFINE h == Labels!Held(s)
             g == Labels!Held(s)'
  <2>1. first - 1 \in 0 .. n /\ n \in 0 .. n /\ i \in Nat
    BY <1>0
  <2>2. CASE i \in first .. n
    <3>1. /\ label'[i] = label[i] /\ fills'[i] = fills[i] /\ i \in DOMAIN label
      BY <1>0, <1>1, <1>2, <2>2
    <3>2. h[first - 1] = 0
      BY <1>6, <1>8, <2>1
    <3>3. g[i] = h[i] /\ g[i - 1] = h[i - 1]
      <4>1. i \in 0 .. n /\ i - 1 \in 0 .. n
        BY <1>0, <2>2
      <4> QED
        BY <1>6, <4>1
    <3>4. label[i] = Labels!True(i)
      BY <1>8, <3>1, <3>2 DEF LabelInvariant, Labels!LabelsAreTrue
    <3>5. Labels!True(i)' = Labels!True(i)
      BY <1>8, <3>1, <3>3, Zenon DEF Labels!True
    <3> QED
      BY <3>1, <3>4, <3>5
  <2>3. CASE i = n + 1
    <3>1. fills'[i] = f /\ label'[i] = Labels!LabelFor(f, position[f.symbol])
      <4>1. i \notin DOMAIN label
        BY <1>0, <2>3
      <4> QED
        BY <1>1, <1>2, <2>3, <4>1
    <3>2. CASE f.word # Labels!NoWord
      <4>1. Labels!True(i)' = f.word
        BY <3>1, <3>2, Zenon DEF Labels!True
      <4>2. Labels!LabelFor(f, position[f.symbol]) = f.word
        BY <3>2, Zenon DEF Labels!LabelFor
      <4> QED
        BY <3>1, <4>1, <4>2
    <3>3. CASE f.word = Labels!NoWord
      <4> DEFINE before == h[n]
                 after == g[n + 1]
      <4>1. s = f.symbol
        BY <1>8, <3>1
      <4>2. position[f.symbol] = before /\ before \in Int
        <5>1. position[f.symbol] = h[n] - h[first - 1]
          BY <1>3, <4>1 DEF LabelInvariant
        <5>2. h[first - 1] = 0 /\ h[n] \in Int
          BY <1>6, <1>8, <2>1
        <5> HIDE DEF h
        <5> QED
          BY <5>1, <5>2
      <4>3. g[i] = after /\ g[i - 1] = before
        <5>1. i - 1 = n
          BY <1>0, <2>3
        <5> QED
          BY <1>6, <2>1, <2>3, <5>1
      <4>4. after = before + Labels!Delta(f) /\ after \in Int
        <5>1. after = h[n] + Adds(f, s)
          BY <1>6
        <5> HIDE DEF h, after
        <5> QED
          BY <1>3, <4>1, <4>2, <5>1 DEF Adds
      <4>5. Labels!True(i)' =
             IF Labels!Greatest(after, 0) > Labels!Greatest(before, 0) THEN "long open"
             ELSE IF Labels!Greatest(-after, 0) > Labels!Greatest(-before, 0) THEN "short open"
             ELSE IF Labels!Greatest(after, 0) < Labels!Greatest(before, 0) THEN "long close"
             ELSE "short close"
        BY <1>8, <3>1, <3>3, <4>3, Zenon DEF Labels!True, Labels!Greatest
      <4> HIDE DEF before, after
      <4> QED
        BY <3>1, <3>3, <4>2, <4>4, <4>5, LabelIs
    <3> QED
      BY <3>2, <3>3
  <2> QED
    BY <1>0, <2>2, <2>3
<1>9. Labels!LabelsAreTrue'
  <2>1. DOMAIN label' = first .. n + 1
    BY <1>1
  <2> QED
    BY <1>1, <1>8, <2>1, Zenon DEF Labels!LabelsAreTrue
<1> QED
  BY <1>4, <1>7, <1>9, Zenon DEF LabelInvariant

\* Where a page begins nothing is held, as far as the page knows.
LEMMA PageBegins ==
    ASSUME LabelInvariant, Labels!BeginPage
    PROVE  LabelInvariant'
<1>0. /\ fills \in Seq(Labels!Fills) /\ Len(fills) \in Nat
  BY DEF LabelInvariant, Labels!TypeOK
<1>1. /\ fills' = fills /\ first' = Len(fills) + 1
      /\ label' = [i \in 1 .. 0 |-> Labels!NoWord] /\ position' = [s \in FillSymbols |-> 0]
  BY Zenon DEF Labels!BeginPage
<1>2. Labels!TypeOK'
  <2>1. first' .. Len(fills') = {} /\ first' \in 1 .. Len(fills') + 1
    BY <1>0, <1>1
  <2>2. label' \in [{} -> Labels!Labels]
    BY <1>1
  <2> QED
    BY <1>0, <1>1, <2>1, <2>2 DEF Labels!TypeOK
<1>3. ASSUME NEW s \in FillSymbols
      PROVE  position'[s] = Labels!Held(s)'[Len(fills')] - Labels!Held(s)'[first' - 1]
  <2>1. Labels!Held(s)' = Labels!Held(s)
    BY <1>1 DEF Labels!Held, Labels!Delta
  <2>2. Labels!TypeOK /\ Len(fills) \in 0 .. Len(fills)
    BY <1>0 DEF LabelInvariant
  <2>3. Labels!Held(s)[Len(fills)] \in Int
    BY <2>2, HeldWhole
  <2>4. first' - 1 = Len(fills) /\ position'[s] = 0 /\ Len(fills') = Len(fills)
    BY <1>0, <1>1
  <2> DEFINE h == Labels!Held(s)
  <2>5. h[Len(fills)] - h[Len(fills)] = 0
    <3> HIDE DEF h
    <3>1. h[Len(fills)] \in Int
      BY <2>3 DEF h
    <3> QED
      BY <3>1
  <2> QED
    BY <2>1, <2>4, <2>5
<1>4. Labels!LabelsAreTrue'
  <2>1. DOMAIN label' = {}
    BY <1>1
  <2> QED
    BY <2>1, Zenon DEF Labels!LabelsAreTrue
<1> QED
  BY <1>2, <1>3, <1>4, Zenon DEF LabelInvariant

\* Every step of the page leaves every label true.
LEMMA LabelsStay ==
    ASSUME LabelInvariant, [Labels!Next]_Labels!vars
    PROVE  LabelInvariant'
<1>1. CASE Labels!BeginPage
  BY <1>1, PageBegins
<1>2. ASSUME NEW f \in Labels!Fills, Labels!LabelFill(f) PROVE LabelInvariant'
  BY <1>2, FillLabelled
<1>3. CASE UNCHANGED Labels!vars
  <2>1. fills' = fills /\ first' = first /\ position' = position /\ label' = label
    BY <1>3, Zenon DEF Labels!vars
  <2>2. \A s : Labels!Held(s)' = Labels!Held(s)
    BY <2>1 DEF Labels!Held, Labels!Delta
  <2>3. Labels!TypeOK'
    BY <2>1 DEF LabelInvariant, Labels!TypeOK
  <2>4. \A s \in FillSymbols : position'[s] =
            Labels!Held(s)'[Len(fills')] - Labels!Held(s)'[first' - 1]
    BY <2>1, <2>2, Zenon DEF LabelInvariant
  <2>5. Labels!LabelsAreTrue'
    BY <2>1, <2>2, Zenon DEF LabelInvariant, Labels!LabelsAreTrue, Labels!True
  <2> QED
    BY <2>3, <2>4, <2>5, Zenon DEF LabelInvariant
<1> QED
  BY <1>1, <1>2, <1>3, Zenon DEF Labels!Next

-----------------------------------------------------------------------------
(* The markers of the chart *)

\* What the markers assume of their constants.
MarkerAssumption ==
    Markers!SpanAssumption /\ Markers!LimitAssumption /\ Markers!SpacingAssumption

\* A set of times that is not empty has a latest.
LEMMA LatestOf ==
    ASSUME NEW n \in Nat, NEW T, T \subseteq 1 .. n, T # {}
    PROVE  Markers!Max(T) \in T /\ \A u \in T : u <= Markers!Max(T)
<1> DEFINE R == {r \in Nat : \E t \in T : r = n - t}
<1>1. R \subseteq Nat /\ R # {}
  <2>1. PICK t \in T : TRUE
    OBVIOUS
  <2>2. n - t \in R
    BY <2>1
  <2> QED
    BY <2>2
<1>2. PICK r \in R : \A u \in R : <<u, r>> \notin OpToRel(<, Nat)
  <2> HIDE DEF R
  <2> QED
    BY <1>1, NatLessThanWellFounded, WFMin, Zenon
<1>3. \A u \in R : r <= u
  <2> TAKE u \in R
  <2>1. u \in Nat /\ r \in Nat
    BY <1>1
  <2>2. ~ (u < r)
    BY <1>2, <2>1, Zenon DEF OpToRel
  <2> QED
    BY <2>1, <2>2
<1>4. PICK t \in T : r = n - t
  OBVIOUS
<1>5. \A u \in T : u <= t /\ t >= u
  BY <1>3, <1>4
<1>6. Markers!Max(T) \in T /\ \A u \in T : Markers!Max(T) >= u
  BY <1>5 DEF Markers!Max
<1> QED
  BY <1>6

\* The parts count as this module does.
LEMMA MarkersCount == \A S : Markers!Cardinality(S) = Cardinality(S)
BY DEF Markers!Cardinality, Cardinality

\* Division with remainder.
LEMMA Divided ==
    ASSUME NEW a \in Nat, NEW b \in Nat \ {0}
    PROVE  /\ a \div b \in Nat /\ a % b \in 0 .. b - 1
           /\ a = b * (a \div b) + (a % b)
OBVIOUS

\* Every marker stands at the time of an entry it holds, and no two hold the same entry.
Proper(ms) ==
    /\ \A m \in ms : m.holds \subseteq Markers!Times /\ m.time \in m.holds
    /\ \A m, n \in ms : m # n => m.holds \cap n.holds = {}

Holding(ms) == UNION {m.holds : m \in ms}

\* Markers stand at different times.
LEMMA ProperTimes ==
    ASSUME NEW ms, Proper(ms)
    PROVE  /\ \A m \in ms : m.time \in Markers!Times
           /\ \A m, n \in ms : m.time = n.time => m = n
BY DEF Proper

\* Entries gathered by a span of time are in one marker each.
LEMMA GatheredProper ==
    ASSUME Now \in Nat, NEW times, times \subseteq Markers!Times, NEW span
    PROVE  /\ Proper(Markers!Gathered(times, span))
           /\ Holding(Markers!Gathered(times, span)) = times
<1> DEFINE Class(t) == {u \in times : u \div span = t \div span}
           G == Markers!Gathered(times, span)
<1>1. G = {Markers!Marker(Class(t)) : t \in times}
  BY Zenon DEF Markers!Gathered
<1>2. \A t \in times : t \in Class(t) /\ Class(t) \subseteq times
  OBVIOUS
<1>3. \A s, t \in times : Class(s) \cap Class(t) # {} => Class(s) = Class(t)
  <2> SUFFICES ASSUME NEW s \in times, NEW t \in times, NEW u \in Class(s) \cap Class(t)
               PROVE  Class(s) = Class(t)
    OBVIOUS
  <2>1. u \div span = s \div span /\ u \div span = t \div span
    OBVIOUS
  <2> QED
    BY <2>1, Zenon
<1> HIDE DEF Class, G
<1>4. \A t \in times : /\ Markers!Marker(Class(t)).holds = Class(t)
                       /\ Markers!Marker(Class(t)).time \in Class(t)
  <2> TAKE t \in times
  <2>1. Class(t) \subseteq 1 .. Now /\ Class(t) # {}
    BY <1>2 DEF Markers!Times
  <2>2. Markers!Max(Class(t)) \in Class(t)
    BY <2>1, LatestOf
  <2> QED
    BY <2>2, Zenon DEF Markers!Marker
<1>5. Proper(G)
  <2>1. ASSUME NEW m \in G PROVE m.holds \subseteq Markers!Times /\ m.time \in m.holds
    <3>1. PICK t \in times : m = Markers!Marker(Class(t))
      BY <1>1
    <3> QED
      BY <1>2, <1>4, <3>1
  <2>2. ASSUME NEW m \in G, NEW n \in G, m # n PROVE m.holds \cap n.holds = {}
    <3>1. PICK s \in times : m = Markers!Marker(Class(s))
      BY <1>1
    <3>2. PICK t \in times : n = Markers!Marker(Class(t))
      BY <1>1
    <3>3. Class(s) # Class(t)
      BY <2>2, <3>1, <3>2, Zenon
    <3> QED
      BY <1>3, <1>4, <3>1, <3>2, <3>3
  <2> QED
    BY <2>1, <2>2 DEF Proper
<1>6. Holding(G) = times
  <2>1. ASSUME NEW u \in Holding(G) PROVE u \in times
    <3>1. PICK m \in G : u \in m.holds
      BY DEF Holding
    <3>2. PICK t \in times : m = Markers!Marker(Class(t))
      BY <1>1
    <3> QED
      BY <1>2, <1>4, <3>1, <3>2
  <2>2. ASSUME NEW u \in times PROVE u \in Holding(G)
    <3>1. Markers!Marker(Class(u)) \in G
      BY <1>1
    <3>2. u \in Markers!Marker(Class(u)).holds
      BY <1>2, <1>4
    <3> QED
      BY <3>1, <3>2 DEF Holding
  <2> QED
    BY <2>1, <2>2
<1> QED
  BY <1>5, <1>6 DEF G

\* Entries left alone are in one marker each.
LEMMA AloneProper ==
    ASSUME Now \in Nat, NEW times, times \subseteq Markers!Times
    PROVE  /\ Proper({Markers!Marker({t}) : t \in times})
           /\ Holding({Markers!Marker({t}) : t \in times}) = times
<1> DEFINE G == {Markers!Marker({t}) : t \in times}
<1>1. \A t \in times : /\ Markers!Marker({t}).holds = {t}
                       /\ Markers!Marker({t}).time = t
  <2> TAKE t \in times
  <2>1. {t} \subseteq 1 .. Now /\ {t} # {}
    BY DEF Markers!Times
  <2>2. Markers!Max({t}) \in {t}
    BY <2>1, LatestOf
  <2> QED
    BY <2>2, Zenon DEF Markers!Marker
<1>0. \A m \in G : \E t \in times : m = Markers!Marker({t})
  OBVIOUS
<1>2. Proper(G)
  <2> HIDE DEF G
  <2>1. \A m \in G : \E t \in times : m.holds = {t} /\ m.time = t /\ m = Markers!Marker({t})
    BY <1>0, <1>1
  <2>2. \A m \in G : m.holds \subseteq Markers!Times /\ m.time \in m.holds
    BY <2>1
  <2>3. ASSUME NEW m \in G, NEW n \in G, m # n PROVE m.holds \cap n.holds = {}
    <3>1. PICK t \in times : m.holds = {t} /\ m = Markers!Marker({t})
      BY <2>1
    <3>2. PICK u \in times : n.holds = {u} /\ n = Markers!Marker({u})
      BY <2>1
    <3>3. t # u
      BY <2>3, <3>1, <3>2, Zenon
    <3> QED
      BY <3>1, <3>2, <3>3
  <2> QED
    BY <2>2, <2>3 DEF Proper
<1>3. Holding(G) = times
  <2>1. ASSUME NEW u \in Holding(G) PROVE u \in times
    <3>1. PICK m \in G : u \in m.holds
      BY DEF Holding
    <3>2. PICK t \in times : m = Markers!Marker({t})
      BY <1>0
    <3> HIDE DEF G
    <3> QED
      BY <1>1, <3>1, <3>2
  <2>2. ASSUME NEW u \in times PROVE u \in Holding(G)
    <3>1. Markers!Marker({u}) \in G
      OBVIOUS
    <3>2. u \in Markers!Marker({u}).holds
      BY <1>1
    <3> HIDE DEF G
    <3> QED
      BY <3>1, <3>2 DEF Holding
  <2> QED
    BY <2>1, <2>2
<1> QED
  BY <1>2, <1>3

\* However entries are grouped, each is in one marker.
LEMMA GroupedProper ==
    ASSUME Now \in Nat, NEW times, times \subseteq Markers!Times, NEW mode
    PROVE  /\ Proper(Markers!Grouped(times, mode))
           /\ Holding(Markers!Grouped(times, mode)) =
                IF mode = "recent" THEN Markers!Recent(times) ELSE times
<1>1. CASE mode \in {"daily", "weekly", "monthly"}
  <2>1. \E span : Markers!Grouped(times, mode) = Markers!Gathered(times, span)
    BY <1>1 DEF Markers!Grouped
  <2>2. mode # "recent"
    BY <1>1
  <2> QED
    BY <2>1, <2>2, GatheredProper
<1>2. CASE mode = "recent"
  <2>1. Markers!Grouped(times, mode) = {Markers!Marker({t}) : t \in Markers!Recent(times)}
    BY <1>2 DEF Markers!Grouped
  <2>2. Markers!Recent(times) \subseteq Markers!Times
    BY DEF Markers!Recent
  <2> QED
    BY <1>2, <2>1, <2>2, AloneProper
<1>3. CASE mode \notin {"daily", "weekly", "monthly", "recent"}
  <2>1. Markers!Grouped(times, mode) = {Markers!Marker({t}) : t \in times}
    BY <1>3 DEF Markers!Grouped
  <2> QED
    BY <1>3, <2>1, AloneProper
<1> QED
  BY <1>1, <1>2, <1>3

\* What is left of proper markers is proper.
LEMMA FewerProper ==
    ASSUME NEW ms, Proper(ms), NEW ns, ns \subseteq ms
    PROVE  Proper(ns)
BY DEF Proper

\* Markers in the same bucket become one, which holds what they held.
LEMMA BucketedProper ==
    ASSUME Now \in Nat, NEW ms, Proper(ms), NEW spacing
    PROVE  /\ Proper(Markers!Bucketed(ms, spacing))
           /\ Holding(Markers!Bucketed(ms, spacing)) = Holding(ms)
           /\ \A b \in Markers!Bucketed(ms, spacing) : \E m \in ms : b.time = m.time
<1> DEFINE Bucket(m) == (m.time * Width) \div spacing
           Together(m) == {n \in ms : Bucket(n) = Bucket(m)}
           Of(m) == [time |-> Markers!Max({n.time : n \in Together(m)}),
                     holds |-> UNION {n.holds : n \in Together(m)}]
           B == Markers!Bucketed(ms, spacing)
<1>1. B = {Of(m) : m \in ms}
  BY Zenon DEF Markers!Bucketed
<1> HIDE DEF Bucket
<1>2. /\ \A m \in ms : m \in Together(m) /\ Together(m) \subseteq ms
      /\ \A m, n \in ms : n \in Together(m) => Together(n) = Together(m)
  OBVIOUS
<1>3. \A m \in ms : Of(m).holds = UNION {n.holds : n \in Together(m)}
  OBVIOUS
<1>4. \A m \in ms : \E n \in Together(m) : Of(m).time = n.time
  <2> TAKE m \in ms
  <2> DEFINE T == {n.time : n \in Together(m)}
  <2>1. T \subseteq 1 .. Now /\ T # {}
    <3>1. \A n \in ms : n.time \in 1 .. Now
      BY ProperTimes DEF Markers!Times
    <3> QED
      BY <1>2, <3>1
  <2>2. Markers!Max(T) \in T
    <3> HIDE DEF T
    <3> QED
      BY <2>1, LatestOf
  <2> QED
    BY <2>2
<1> HIDE DEF Of, Together, B
<1>5. \A m, n \in ms : Together(m) = Together(n) => Of(m) = Of(n)
  BY Zenon DEF Of
<1>6. ASSUME NEW b \in B PROVE b.holds \subseteq Markers!Times /\ b.time \in b.holds
  <2>1. PICK m \in ms : b = Of(m)
    BY <1>1
  <2>2. PICK n \in Together(m) : b.time = n.time
    BY <1>4, <2>1
  <2>3. n \in ms /\ n.time \in n.holds
    BY <1>2, <2>2 DEF Proper
  <2>4. n.holds \subseteq b.holds
    BY <1>3, <2>1, <2>2
  <2>5. b.holds \subseteq Markers!Times
    <3>1. \A k \in Together(m) : k.holds \subseteq Markers!Times
      BY <1>2 DEF Proper
    <3> QED
      BY <1>3, <2>1, <3>1
  <2> QED
    BY <2>2, <2>3, <2>4, <2>5
<1>7. ASSUME NEW b \in B, NEW c \in B, b # c PROVE b.holds \cap c.holds = {}
  <2>1. PICK m \in ms : b = Of(m)
    BY <1>1
  <2>2. PICK n \in ms : c = Of(n)
    BY <1>1
  <2>3. ASSUME NEW u \in b.holds, u \in c.holds PROVE FALSE
    <3>1. PICK j \in Together(m) : u \in j.holds
      BY <1>3, <2>1
    <3>2. PICK k \in Together(n) : u \in k.holds
      BY <1>3, <2>2, <2>3
    <3>3. j \in ms /\ k \in ms
      BY <1>2, <3>1, <3>2
    <3>4. j = k
      BY <3>1, <3>2, <3>3 DEF Proper
    <3>5. Together(m) = Together(n)
      BY <1>2, <3>1, <3>2, <3>3, <3>4
    <3> QED
      BY <1>5, <1>7, <2>1, <2>2, <3>5
  <2> QED
    BY <2>3
<1>8. Holding(B) = Holding(ms)
  <2>1. ASSUME NEW u \in Holding(B) PROVE u \in Holding(ms)
    <3>1. PICK b \in B : u \in b.holds
      BY DEF Holding
    <3>2. PICK m \in ms : b = Of(m)
      BY <1>1
    <3>3. PICK k \in Together(m) : u \in k.holds
      BY <1>3, <3>1, <3>2
    <3> QED
      BY <1>2, <3>3 DEF Holding
  <2>2. ASSUME NEW u \in Holding(ms) PROVE u \in Holding(B)
    <3>1. PICK m \in ms : u \in m.holds
      BY DEF Holding
    <3>2. Of(m) \in B
      BY <1>1
    <3>3. u \in Of(m).holds
      BY <1>2, <1>3, <3>1
    <3> QED
      BY <3>2, <3>3 DEF Holding
  <2> QED
    BY <2>1, <2>2
<1>9. \A b \in B : \E m \in ms : b.time = m.time
  <2> TAKE b \in B
  <2>1. PICK m \in ms : b = Of(m)
    BY <1>1
  <2>2. PICK n \in Together(m) : b.time = n.time
    BY <1>4, <2>1
  <2> QED
    BY <1>2, <2>2
<1>10. Proper(B)
  BY <1>6, <1>7, Zenon DEF Proper
<1> QED
  BY <1>8, <1>9, <1>10 DEF B

\* Proper markers are finitely many, and those in the same bucket become fewer.
LEMMA BucketedFew ==
    ASSUME Now \in Nat, NEW ms, Proper(ms), NEW spacing
    PROVE  /\ IsFiniteSet(ms) /\ Cardinality(ms) \in Nat
           /\ IsFiniteSet(Markers!Bucketed(ms, spacing))
           /\ Cardinality(Markers!Bucketed(ms, spacing)) <= Cardinality(ms)
<1>1. ASSUME NEW ns, Proper(ns) PROVE IsFiniteSet(ns)
  <2> DEFINE f == [m \in ns |-> m.time]
  <2>1. IsFiniteSet(1 .. Now)
    BY FS_Interval
  <2>2. f \in Injection(ns, 1 .. Now)
    <3>1. /\ \A m \in ns : m.time \in 1 .. Now
          /\ \A m, n \in ns : m.time = n.time => m = n
      BY <1>1, ProperTimes DEF Markers!Times
    <3> QED
      BY <3>1 DEF Injection, IsInjective
  <2> QED
    BY <2>1, <2>2, FS_Injection
<1> DEFINE B == Markers!Bucketed(ms, spacing)
<1>2. Proper(B) /\ \A b \in B : \E m \in ms : b.time = m.time
  BY BucketedProper
<1>3. IsFiniteSet(ms) /\ IsFiniteSet(B) /\ Cardinality(ms) \in Nat
  <2> HIDE DEF B
  <2> QED
    BY <1>1, <1>2, FS_CardinalityType
<1>4. Cardinality(B) <= Cardinality(ms)
  <2> HIDE DEF B
  <2> DEFINE f == [b \in B |-> CHOOSE m \in ms : b.time = m.time]
  <2>1. \A b \in B : f[b] \in ms /\ f[b].time = b.time
    BY <1>2
  <2>2. f \in [B -> ms]
    BY <2>1
  <2>3. \A b, c \in B : f[b] = f[c] => b = c
    <3> HIDE DEF f
    <3> QED
      BY <1>2, <2>1, ProperTimes
  <2>4. f \in Injection(B, ms)
    <3> HIDE DEF f
    <3> QED
      BY <2>2, <2>3 DEF Injection, IsInjective
  <2> HIDE DEF f
  <2> QED
    BY <1>3, <2>4, FS_Injection
<1> QED
  BY <1>3, <1>4

\* Of too many markers every step-th is left, which is not too many.
LEMMA ThinnedFew ==
    ASSUME Now \in Nat, MaxMarkers \in Nat \ {0}, NEW ms, Proper(ms)
    PROVE  /\ Markers!Thinned(ms) \subseteq ms
           /\ Cardinality(Markers!Thinned(ms)) <= MaxMarkers
<1> DEFINE c == Cardinality(ms)
           stride == (c + MaxMarkers - 1) \div MaxMarkers
           Before(m) == {n \in ms : n.time < m.time}
           K == {m \in ms : Cardinality(Before(m)) % stride = 0}
<1>1. IsFiniteSet(ms) /\ c \in Nat
  BY BucketedFew
<1>2. Markers!Thinned(ms) = IF c <= MaxMarkers THEN ms ELSE K
  BY MarkersCount, Zenon DEF Markers!Thinned
<1>3. ASSUME c > MaxMarkers PROVE Cardinality(K) <= MaxMarkers
  <2>1. stride \in Nat \ {0} /\ c <= MaxMarkers * stride
    <3>1. c + MaxMarkers - 1 \in Nat
      BY <1>1
    <3>2. /\ stride \in Nat /\ (c + MaxMarkers - 1) % MaxMarkers \in 0 .. MaxMarkers - 1
          /\ c + MaxMarkers - 1 = MaxMarkers * stride + ((c + MaxMarkers - 1) % MaxMarkers)
      <4> HIDE DEF c
      <4> QED
        BY <3>1, Divided
    <3> DEFINE r == (c + MaxMarkers - 1) % MaxMarkers
    <3> HIDE DEF stride, c, r
    <3>3. r \in 0 .. MaxMarkers - 1 /\ c + MaxMarkers - 1 = MaxMarkers * stride + r /\
              stride \in Nat
      BY <3>2 DEF r
    <3>4. MaxMarkers * stride \in Nat
      BY <3>3
    <3>5. c <= MaxMarkers * stride
      BY <1>1, <3>3, <3>4
    <3>6. stride # 0
      <4> SUFFICES ASSUME stride = 0 PROVE FALSE
        OBVIOUS
      <4>1. MaxMarkers * stride = 0
        OBVIOUS
      <4> QED
        BY <1>1, <1>3, <3>5, <4>1
    <3> QED
      BY <3>3, <3>5, <3>6
  <2>2. \A m, n \in ms : m.time = n.time => m = n
    BY ProperTimes
  <2>3. \A m \in ms : m.time \in Nat
    BY ProperTimes DEF Markers!Times
  <2>4. \A m \in ms : /\ IsFiniteSet(Before(m)) /\ Cardinality(Before(m)) \in Nat
                      /\ Cardinality(Before(m)) < c
    <3> TAKE m \in ms
    <3>1. Before(m) \in SUBSET ms /\ m \notin Before(m)
      BY <2>3
    <3> HIDE DEF Before
    <3>2. /\ IsFiniteSet(Before(m)) /\ Cardinality(Before(m)) <= c
          /\ (c = Cardinality(Before(m)) => ms = Before(m))
      BY <1>1, <3>1, FS_Subset
    <3>3. Cardinality(Before(m)) \in Nat
      BY <3>2, FS_CardinalityType
    <3>4. c # Cardinality(Before(m))
      BY <3>1, <3>2
    <3> HIDE DEF c
    <3> QED
      BY <1>1, <3>2, <3>3, <3>4
  <2>5. ASSUME NEW m \in ms, NEW n \in ms, m.time < n.time
        PROVE  Cardinality(Before(m)) < Cardinality(Before(n))
    <3>1. Before(m) \in SUBSET Before(n) /\ m \in Before(n) /\ m \notin Before(m)
      BY <2>3, <2>5
    <3>2. /\ IsFiniteSet(Before(n)) /\ Cardinality(Before(n)) \in Nat
          /\ Cardinality(Before(m)) \in Nat
      BY <2>4
    <3> HIDE DEF Before
    <3>3. /\ Cardinality(Before(m)) <= Cardinality(Before(n))
          /\ Cardinality(Before(n)) = Cardinality(Before(m)) => Before(n) = Before(m)
      BY <3>1, <3>2, FS_Subset
    <3>4. Cardinality(Before(n)) # Cardinality(Before(m))
      BY <3>1, <3>3
    <3> QED
      BY <3>2, <3>3, <3>4
  <2> DEFINE rank(m) == Cardinality(Before(m))
             f == [m \in K |-> rank(m) \div stride]
  <2>6. /\ K \subseteq ms /\ \A m \in K : rank(m) % stride = 0 
        /\ \A m \in ms : rank(m) \in Nat /\ rank(m) < c
    BY <2>4
  <2>7. \A m, n \in ms : rank(m) = rank(n) => m = n
    <3> TAKE m \in ms, n \in ms
    <3>1. m.time < n.time => rank(m) < rank(n)
      BY <2>5
    <3>2. n.time < m.time => rank(n) < rank(m)
      BY <2>5
    <3>3. rank(m) \in Nat /\ rank(n) \in Nat /\ m.time \in Nat /\ n.time \in Nat
      BY <2>3, <2>6
    <3> HIDE DEF rank
    <3> QED
      BY <2>2, <3>1, <3>2, <3>3
  <2> HIDE DEF rank, K, stride, c
  <2>8. \A m \in K : rank(m) = stride * f[m] /\ f[m] \in Nat
    <3> TAKE m \in K
    <3>1. rank(m) \in Nat /\ rank(m) % stride = 0 /\ f[m] = rank(m) \div stride
      BY <2>6
    <3>2. rank(m) = stride * (rank(m) \div stride) + (rank(m) % stride) /\
              rank(m) \div stride \in Nat
      BY <2>1, <3>1, Divided
    <3> HIDE DEF f
    <3>3. stride * f[m] \in Nat
      BY <2>1, <3>1, <3>2
    <3> QED
      BY <3>1, <3>2, <3>3
  <2> HIDE DEF f
  <2>9. \A m \in K : f[m] \in 0 .. MaxMarkers - 1
    <3> TAKE m \in K
    <3>1. stride * f[m] < MaxMarkers * stride /\ f[m] \in Nat
      <4>1. rank(m) < c /\ rank(m) = stride * f[m] /\ f[m] \in Nat /\ rank(m) \in Nat
        BY <2>6, <2>8
      <4>2. MaxMarkers * stride \in Nat
        BY <2>1
      <4> QED
        BY <1>1, <2>1, <4>1, <4>2
    <3>2. ASSUME f[m] >= MaxMarkers PROVE FALSE
      <4>1. PICK k \in Nat : f[m] = MaxMarkers + k
        <5>1. f[m] - MaxMarkers \in Nat /\ f[m] = MaxMarkers + (f[m] - MaxMarkers)
          BY <3>1, <3>2
        <5> QED
          BY <5>1
      <4>2. stride * f[m] = MaxMarkers * stride + stride * k /\ stride * k \in Nat /\
                MaxMarkers * stride \in Nat
        BY <2>1, <4>1
      <4> QED
        BY <3>1, <4>2
    <3> QED
      BY <3>1, <3>2
  <2>10. f \in Injection(K, 0 .. MaxMarkers - 1)
    <3>1. f \in [K -> 0 .. MaxMarkers - 1]
      BY <2>9 DEF f
    <3>2. \A m, n \in K : f[m] = f[n] => m = n
      <4> TAKE m \in K, n \in K
      <4>1. f[m] = f[n] => rank(m) = rank(n)
        BY <2>8
      <4> QED
        BY <2>6, <2>7, <4>1
    <3> QED
      BY <3>1, <3>2 DEF Injection, IsInjective
  <2>11. IsFiniteSet(0 .. MaxMarkers - 1) /\ Cardinality(0 .. MaxMarkers - 1) = MaxMarkers
    BY FS_Interval
  <2>12. Cardinality(K) <= Cardinality(0 .. MaxMarkers - 1)
    BY <2>10, <2>11, FS_Injection
  <2> QED
    BY <2>11, <2>12
<1> QED
  <2>1. CASE c <= MaxMarkers
    BY <1>2, <2>1
  <2>2. CASE ~ (c <= MaxMarkers)
    <3>1. c > MaxMarkers
      <4> HIDE DEF c
      <4> QED
        BY <1>1, <2>2
    <3>2. K \subseteq ms
      OBVIOUS
    <3> HIDE DEF K, c
    <3> QED
      BY <1>2, <1>3, <2>2, <3>1, <3>2
  <2> QED
    BY <2>1, <2>2

\* However dense the entries are, what is drawn stands for them.
LEMMA DensityIsTrue ==
    ASSUME MarkerAssumption, Markers!TypeOK
    PROVE  Markers!MarkersAreTrue
<1> DEFINE mode == Markers!ModeFor(densityMode, overlay)
           grouped == Markers!Grouped(overlay, mode)
           viewed == Markers!InView(grouped, visibleRange)
           thinned == Markers!Thinned(viewed)
           D == Markers!DensityAdjusted
<1>0. Now \in Nat /\ MaxMarkers \in Nat \ {0} /\ overlay \subseteq Markers!Times
      /\ visibleRange \in Markers!Ranges
  BY DEF MarkerAssumption, Markers!SpanAssumption, Markers!LimitAssumption, Markers!TypeOK
<1>1. D = Markers!Bucketed(thinned, Spacing[mode])
  BY Zenon DEF Markers!DensityAdjusted
<1>2. Proper(grouped) /\ Holding(grouped) = IF mode = "recent" THEN Markers!Recent(overlay)
                                            ELSE overlay
  <2> HIDE DEF mode
  <2> QED
    BY <1>0, GroupedProper
<1> HIDE DEF grouped, D
<1>3. viewed \subseteq grouped /\ \A m \in viewed :
          visibleRange.from <= m.time /\ m.time <= visibleRange.to
  BY DEF Markers!InView
<1>4. Proper(viewed)
  <2> HIDE DEF viewed
  <2> QED
    BY <1>2, <1>3, FewerProper
<1> HIDE DEF viewed
<1>5. thinned \subseteq viewed /\ Cardinality(thinned) <= MaxMarkers
  BY <1>0, <1>4, ThinnedFew
<1> HIDE DEF thinned
<1>6. Proper(thinned)
  BY <1>4, <1>5, FewerProper
<1>7. /\ Proper(D) /\ Holding(D) = Holding(thinned)
      /\ \A b \in D : \E m \in thinned : b.time = m.time
  BY <1>0, <1>1, <1>6, BucketedProper
<1>8. Cardinality(D) <= Cardinality(thinned) /\ IsFiniteSet(D) /\ IsFiniteSet(thinned)
  BY <1>0, <1>1, <1>6, BucketedFew, FewerProper, <1>7
<1>9. Markers!NothingTwice
  <2>1. \A m, n \in D : m # n => m.holds \cap n.holds = {} /\ m.time # n.time
    BY <1>7, ProperTimes DEF Proper
  <2> QED
    BY <2>1, Zenon DEF Markers!NothingTwice, D
<1>10. Markers!LimitHolds
  <2>1. Cardinality(D) \in Nat /\ Cardinality(thinned) \in Nat
    BY <1>8, FS_CardinalityType
  <2>2. Cardinality(D) <= MaxMarkers
    BY <1>0, <1>5, <1>8, <2>1
  <2>3. Markers!DensitySummary.markers = Cardinality(D)
    BY MarkersCount, Zenon DEF Markers!DensitySummary, D
  <2> QED
    BY <2>2, <2>3, Zenon DEF Markers!LimitHolds
<1>11. Markers!CountsTrue
  <2>1. ASSUME visibleRange = Markers!Whole, Cardinality(grouped) <= MaxMarkers
        PROVE  Holding(D) = IF mode = "recent" THEN Markers!Recent(overlay) ELSE overlay
    <3>1. viewed = grouped
      <4>1. \A m \in grouped : 1 <= m.time /\ m.time <= Now
        BY <1>0, <1>2, ProperTimes DEF Markers!Times
      <4> QED
        BY <2>1, <4>1 DEF viewed, Markers!InView, Markers!Whole
    <3>2. thinned = viewed
      BY <2>1, <3>1, MarkersCount, Zenon DEF thinned, Markers!Thinned
    <3> QED
      BY <1>2, <1>7, <3>1, <3>2
  <2> QED
    BY <2>1, MarkersCount, Zenon DEF Markers!CountsTrue, Holding, D, grouped, mode
<1>12. Markers!AtOwnEntry
  <2>1. ASSUME NEW m \in D
        PROVE  m.time \in m.holds /\ m.time \in visibleRange.from .. visibleRange.to
    <3>1. m.time \in m.holds /\ m.time \in Markers!Times
      BY <1>7, ProperTimes DEF Proper
    <3>2. PICK n \in thinned : m.time = n.time
      BY <1>7
    <3>3. visibleRange.from <= m.time /\ m.time <= visibleRange.to
      BY <1>3, <1>5, <3>2
    <3>4. visibleRange.from \in Int /\ visibleRange.to \in Int /\ m.time \in Int
      BY <1>0, <3>1 DEF Markers!Ranges, Markers!Times
    <3> QED
      BY <3>1, <3>3, <3>4
  <2> QED
    BY <2>1, Zenon DEF Markers!AtOwnEntry, D
<1> QED
  BY <1>9, <1>10, <1>11, <1>12 DEF Markers!MarkersAreTrue

\* A chart that is opened has the types, and every step keeps them.
LEMMA MarkersBegin ==
    ASSUME MarkerAssumption, Markers!Init
    PROVE  Markers!TypeOK
<1>1. Now \in Nat \ {0}
  BY DEF MarkerAssumption, Markers!SpanAssumption
<1> QED
  BY <1>1
     DEF Markers!Init, Markers!TypeOK, Markers!Modes, Markers!Ranges, Markers!Whole,
         Markers!Times

LEMMA MarkersStay ==
    ASSUME Markers!TypeOK, [Markers!Next]_Markers!vars
    PROVE  Markers!TypeOK'
<1>1. ASSUME NEW t \in Markers!Times \ overlay, Markers!Place(overlay \cup {t})
      PROVE  Markers!TypeOK'
  BY <1>1 DEF Markers!Place, Markers!TypeOK
<1>2. ASSUME NEW t \in overlay, Markers!Place(overlay \ {t}) PROVE Markers!TypeOK'
  BY <1>2 DEF Markers!Place, Markers!TypeOK
<1>3. ASSUME NEW m \in Markers!Modes, Markers!SetDensity(m) PROVE Markers!TypeOK'
  BY <1>3 DEF Markers!SetDensity, Markers!TypeOK
<1>4. ASSUME NEW r \in Markers!Ranges, Markers!Scroll(r) PROVE Markers!TypeOK'
  BY <1>4 DEF Markers!Scroll, Markers!TypeOK
<1>5. CASE UNCHANGED Markers!vars
  BY <1>5 DEF Markers!vars, Markers!TypeOK
<1> QED
  BY <1>1, <1>2, <1>3, <1>4, <1>5, Zenon DEF Markers!Next

-----------------------------------------------------------------------------
(* The days of the guided review *)

\* The parts count as this module does.
LEMMA DaysCount == \A S : GuidedDay!Cardinality(S) = Cardinality(S)
BY DEF GuidedDay!Cardinality, Cardinality

\* What an item is about.
Kinds == {"plan", "supplement", "rollover"}

\* Items of a kind, items that are not carried over, and the trades items are known to cover.
Kind(its, k) == {it \in its : it.kind = k}
Own(its) == {it \in its : it.kind # "rollover"}
Covered(its) == UNION {it.about : it \in its}

\* The rows of guided_review_items.
DayItem == [kind : Kinds, count : Nat, from : Int, about : SUBSET Nat, answered : BOOLEAN]

\* The types, and that a day that was not loaded has neither items nor a completion.
DayTypes ==
    /\ day \in GuidedDay!Days /\ clock \in Nat
    /\ trades \in [GuidedDay!Days -> SUBSET (1 .. clock)]
    /\ completed \in [GuidedDay!Days -> 0 .. clock]
    /\ rows \in [GuidedDay!Days -> SUBSET DayItem]
    /\ loaded \subseteq 1 .. day
    /\ \A d \in GuidedDay!Days : d \notin loaded => rows[d] = {} /\ completed[d] = 0

\* The items of a day: one of a kind, which cover different trades of the day, the plan those
\* before its completion.
DayIts(its, d, ts, end_) ==
    /\ \A it \in its : it.kind # "rollover" =>
         it.from = d /\ it.about \subseteq ts /\ it.count = Cardinality(it.about)
    /\ \A it \in its : it.kind = "rollover" => it.from = d - 1
    /\ \A it, jt \in its : it.kind = jt.kind => it = jt
    /\ end_ # 0 => \A it \in its : it.kind = "plan" => \A t \in it.about : t <= end_
    /\ \A it, jt \in its : it.kind = "plan" /\ jt.kind = "supplement" => it.about \cap jt.about = {}

\* So are the items of every day.
DayItems == \A d \in GuidedDay!Days : DayIts(rows[d], d, trades[d], completed[d])

\* What a day carries over, its own items have not counted.
Budget ==
    \A d \in GuidedDay!Days : d + 1 \in GuidedDay!Days =>
        \A it \in rows[d + 1] : it.kind = "rollover" =>
            GuidedDay!Count(Own(rows[d])) + it.count <= Cardinality(trades[d])

\* A streak is a run of completed days.
Run(s) ==
    /\ s = [current |-> s.current, last |-> s.last] /\ s.current \in Nat /\ s.last \in 0 .. LastDay
    /\ \A k \in 0 .. s.current - 1 : s.last - k \in GuidedDay!Days /\ completed[s.last - k] # 0

\* So are the streak and those completions have read, of days that are completed.
Streaks ==
    /\ Run(streak)
    /\ busy = [r \in DayRequests |-> busy[r]]
    /\ \A r \in DayRequests : busy[r] # None =>
         /\ busy[r] = [d |-> busy[r].d, read |-> busy[r].read]
         /\ busy[r].d \in GuidedDay!Days /\ completed[busy[r].d] # 0
         /\ busy[r].read # None => Run(busy[r].read)

\* What every step keeps.
DaysInvariant == DayTypes /\ DayItems /\ Budget /\ Streaks

-----------------------------------------------------------------------------

\* Counts of items.
LEMMA CountNone == GuidedDay!Count({}) = 0
<1>1. UNION {{it} \X (1 .. it.count) : it \in {}} = {}
  OBVIOUS
<1> QED
  BY <1>1, DaysCount, FS_EmptySet DEF GuidedDay!Count

LEMMA CountOne ==
    ASSUME NEW it, it.count \in Nat
    PROVE  GuidedDay!Count({it}) = it.count
<1>1. UNION {{i} \X (1 .. i.count) : i \in {it}} = {it} \X (1 .. it.count)
  OBVIOUS
<1>2. IsFiniteSet({it}) /\ Cardinality({it}) = 1
  BY FS_Singleton, Zenon
<1>3. PICK n \in Nat : n = it.count
  OBVIOUS
<1>4. IsFiniteSet(1 .. n) /\ Cardinality(1 .. n) = n
  BY FS_Interval
<1>5. Cardinality({it} \X (1 .. n)) = Cardinality({it}) * Cardinality(1 .. n)
  BY <1>2, <1>4, FS_Product, Zenon
<1>6. Cardinality({it}) * Cardinality(1 .. n) = n
  BY <1>2, <1>4
<1>7. GuidedDay!Count({it}) = Cardinality({it} \X (1 .. n))
  BY <1>1, <1>3, DaysCount, Zenon DEF GuidedDay!Count
<1> QED
  BY <1>3, <1>5, <1>6, <1>7, Zenon

LEMMA CountFinite ==
    ASSUME NEW its, IsFiniteSet(its), \A it \in its : it.count \in Nat
    PROVE  /\ IsFiniteSet(UNION {{it} \X (1 .. it.count) : it \in its})
           /\ GuidedDay!Count(its) \in Nat
<1> DEFINE S == {{it} \X (1 .. it.count) : it \in its}
<1>1. IsFiniteSet(S)
  <2> DEFINE f == [it \in its |-> {it} \X (1 .. it.count)]
  <2>1. f \in Surjection(its, S)
    BY DEF Surjection
  <2> HIDE DEF f, S
  <2> QED
    BY <2>1, FS_Surjection, Zenon
<1>2. \A T \in S : IsFiniteSet(T)
  <2>1. ASSUME NEW it \in its PROVE IsFiniteSet({it} \X (1 .. it.count))
    <3>1. PICK n \in Nat : n = it.count
      OBVIOUS
    <3>2. IsFiniteSet({it}) /\ IsFiniteSet(1 .. n)
      <4>1. IsFiniteSet({it})
        BY FS_Singleton, Zenon
      <4>2. IsFiniteSet(1 .. n)
        BY FS_Interval
      <4> QED
        BY <4>1, <4>2
    <3>3. IsFiniteSet({it} \X (1 .. n))
      BY <3>2, FS_Product, Zenon
    <3> QED
      BY <3>1, <3>3, Zenon
  <2> QED
    BY <2>1
<1>3. IsFiniteSet(UNION S)
  <2> HIDE DEF S
  <2> QED
    BY <1>1, <1>2, FS_UNION
<1>4. Cardinality(UNION S) \in Nat
  BY <1>3, FS_CardinalityType
<1> QED
  BY <1>3, <1>4, DaysCount DEF GuidedDay!Count

\* Items that are different are counted apart.
LEMMA CountApart ==
    ASSUME NEW its, IsFiniteSet(its), NEW jts, IsFiniteSet(jts), its \cap jts = {},
           \A it \in its \cup jts : it.count \in Nat
    PROVE  GuidedDay!Count(its \cup jts) = GuidedDay!Count(its) + GuidedDay!Count(jts)
<1> DEFINE U(is) == UNION {{it} \X (1 .. it.count) : it \in is}
<1>1. IsFiniteSet(U(its)) /\ IsFiniteSet(U(jts))
  BY CountFinite
<1>2. U(its \cup jts) = U(its) \cup U(jts)
  OBVIOUS
<1>3. U(its) \cap U(jts) = {}
  <2> SUFFICES ASSUME NEW u \in U(its), u \in U(jts) PROVE FALSE
    OBVIOUS
  <2>1. PICK it \in its : u \in {it} \X (1 .. it.count)
    OBVIOUS
  <2>2. PICK jt \in jts : u \in {jt} \X (1 .. jt.count)
    OBVIOUS
  <2>3. u[1] = it /\ u[1] = jt
    BY <2>1, <2>2
  <2> QED
    BY <2>3
<1> HIDE DEF U
<1>4. Cardinality(U(its) \cup U(jts)) = Cardinality(U(its)) + Cardinality(U(jts)) - Cardinality({})
  BY <1>1, <1>3, FS_Union
<1>5. Cardinality({}) = 0 /\ Cardinality(U(its)) \in Nat /\ Cardinality(U(jts)) \in Nat
  BY <1>1, FS_EmptySet, FS_CardinalityType
<1>6. \A is : GuidedDay!Count(is) = Cardinality(U(is))
  BY DaysCount, Zenon DEF GuidedDay!Count, U
<1>7. GuidedDay!Count(its \cup jts) = Cardinality(U(its) \cup U(jts))
  BY <1>2, <1>6, Zenon
<1>8. GuidedDay!Count(its) = Cardinality(U(its)) /\ GuidedDay!Count(jts) = Cardinality(U(jts))
  BY <1>6, Zenon
<1> DEFINE a == Cardinality(U(its))
           b == Cardinality(U(jts))
<1>9. a \in Nat /\ b \in Nat => a + b - 0 = a + b
  <2> HIDE DEF a, b
  <2> QED
    OBVIOUS
<1> QED
  BY <1>4, <1>5, <1>7, <1>8, <1>9, Zenon

\* Items of a kind count the trades they cover.
LEMMA KindCount ==
    ASSUME NEW its, its \subseteq DayItem, NEW d, NEW ts, IsFiniteSet(ts), NEW e,
           DayIts(its, d, ts, e),
           NEW k \in {"plan", "supplement"}
    PROVE  /\ IsFiniteSet(Kind(its, k)) /\ Covered(Kind(its, k)) \subseteq ts
           /\ IsFiniteSet(Covered(Kind(its, k)))
           /\ GuidedDay!Count(Kind(its, k)) = Cardinality(Covered(Kind(its, k)))
<1>1. CASE Kind(its, k) = {}
  <2>1. Covered({}) = {}
    BY DEF Covered
  <2>2. GuidedDay!Count({}) = Cardinality({}) /\ IsFiniteSet({})
    BY CountNone, FS_EmptySet, Zenon
  <2> QED
    BY <1>1, <2>1, <2>2, Zenon
<1>2. ASSUME NEW it \in Kind(its, k)
      PROVE  /\ IsFiniteSet(Kind(its, k)) /\ Covered(Kind(its, k)) \subseteq ts
             /\ IsFiniteSet(Covered(Kind(its, k)))
             /\ GuidedDay!Count(Kind(its, k)) = Cardinality(Covered(Kind(its, k)))
  <2>1. it \in its /\ it.kind = k /\ it.kind # "rollover"
    BY DEF Kind
  <2>2. Kind(its, k) = {it}
    BY <2>1 DEF Kind, DayIts
  <2>3. it.about \subseteq ts /\ it.count = Cardinality(it.about) /\ it.count \in Nat
    BY <2>1 DEF DayIts, DayItem
  <2>4. Covered({it}) = it.about
    BY DEF Covered
  <2>5. GuidedDay!Count({it}) = it.count
    BY <2>3, CountOne
  <2>6. IsFiniteSet(it.about)
    BY <2>3, FS_Subset
  <2>7. IsFiniteSet({it})
    BY FS_Singleton, Zenon
  <2> QED
    BY <2>2, <2>3, <2>4, <2>5, <2>6, <2>7
<1> QED
  BY <1>1, <1>2

\* A day's own items are those of the plan and its supplement.
LEMMA OwnCount ==
    ASSUME NEW its, its \subseteq DayItem, NEW d, NEW ts, IsFiniteSet(ts), NEW e,
           DayIts(its, d, ts, e)
    PROVE  /\ IsFiniteSet(Own(its))
           /\ GuidedDay!Count(Own(its)) =
                Cardinality(Covered(Kind(its, "plan"))) + Cardinality(Covered(Kind(its,
                    "supplement")))
           /\ Covered(Kind(its, "plan")) \cap Covered(Kind(its, "supplement")) = {}
<1> DEFINE P == Kind(its, "plan")
           S == Kind(its, "supplement")
<1>1. /\ IsFiniteSet(P) /\ IsFiniteSet(S)
      /\ GuidedDay!Count(P) = Cardinality(Covered(P))
      /\ GuidedDay!Count(S) = Cardinality(Covered(S))
  BY KindCount
<1>2. Own(its) = P \cup S /\ P \cap S = {}
  BY DEF Own, Kind, DayItem, Kinds
<1>3. \A it \in P \cup S : it.count \in Nat
  BY DEF Kind, DayItem
<1>4. Covered(P) \cap Covered(S) = {}
  BY DEF DayIts, Covered, Kind
<1> HIDE DEF P, S
<1>5. GuidedDay!Count(P \cup S) = GuidedDay!Count(P) + GuidedDay!Count(S)
  BY <1>1, <1>2, <1>3, CountApart
<1>6. IsFiniteSet(P \cup S)
  BY <1>1, FS_Union
<1>7. GuidedDay!Count(Own(its)) = Cardinality(Covered(P)) + Cardinality(Covered(S))
  BY <1>1, <1>2, <1>5, Zenon
<1> QED
  BY <1>2, <1>4, <1>6, <1>7 DEF P, S

\* They count no more than the day's trades.
LEMMA OwnFits ==
    ASSUME NEW its, its \subseteq DayItem, NEW d, NEW ts, IsFiniteSet(ts), NEW e,
           DayIts(its, d, ts, e)
    PROVE  GuidedDay!Count(Own(its)) <= Cardinality(ts) /\ GuidedDay!Count(Own(its)) \in Nat
<1> DEFINE P == Covered(Kind(its, "plan"))
           S == Covered(Kind(its, "supplement"))
<1>1. GuidedDay!Count(Own(its)) = Cardinality(P) + Cardinality(S) /\ P \cap S = {}
  BY OwnCount
<1>2. IsFiniteSet(P) /\ IsFiniteSet(S) /\ P \cup S \subseteq ts
  BY KindCount
<1> HIDE DEF P, S
<1>3. Cardinality(P \cup S) = Cardinality(P) + Cardinality(S) - Cardinality({})
  BY <1>1, <1>2, FS_Union
<1>4. Cardinality(P \cup S) <= Cardinality(ts)
  BY <1>2, FS_Subset
<1>5. Cardinality({}) = 0 /\ Cardinality(P) \in Nat /\ Cardinality(S) \in Nat /\
          Cardinality(ts) \in Nat
  BY <1>2, FS_EmptySet, FS_CardinalityType
<1> QED
  BY <1>1, <1>3, <1>4, <1>5

-----------------------------------------------------------------------------

\* Trades of a day are finitely many.
LEMMA TradesFinite ==
    ASSUME DayTypes, NEW d \in GuidedDay!Days
    PROVE  IsFiniteSet(trades[d]) /\ Cardinality(trades[d]) \in Nat /\
               trades[d] \subseteq 1 .. clock
<1>1. trades[d] \in SUBSET (1 .. clock) /\ clock \in Nat
  BY DEF DayTypes
<1>2. IsFiniteSet(1 .. clock)
  BY <1>1, FS_Interval
<1> QED
  BY <1>1, <1>2, FS_Subset, FS_CardinalityType

\* What is said of the days follows.
LEMMA DaysFollow ==
    ASSUME LastDay \in Nat, DaysInvariant
    PROVE  GuidedDay!DaysAreSound
<1>0. DayTypes /\ DayItems /\ Budget /\ Streaks
  BY DEF DaysInvariant
<1>1. GuidedDay!StreakIsARun
  BY <1>0, Zenon DEF GuidedDay!StreakIsARun, Streaks, Run
<1>2. ASSUME NEW d \in GuidedDay!Days
      PROVE  GuidedDay!Count({it \in UNION {rows[e] : e \in GuidedDay!Days} : it.from = d})
               <= Cardinality(trades[d])
  <2> DEFINE S == {it \in UNION {rows[e] : e \in GuidedDay!Days} : it.from = d}
             R == Kind(rows[d + 1], "rollover")
  <2>1. /\ rows[d] \subseteq DayItem /\ DayIts(rows[d], d, trades[d], completed[d])
        /\ IsFiniteSet(trades[d]) /\ Cardinality(trades[d]) \in Nat
    BY <1>0, TradesFinite DEF DayTypes, DayItems
  <2>2. /\ IsFiniteSet(Own(rows[d])) /\ GuidedDay!Count(Own(rows[d])) <= Cardinality(trades[d])
        /\ GuidedDay!Count(Own(rows[d])) \in Nat
    BY <2>1, OwnCount, OwnFits
  <2>3. \A e \in GuidedDay!Days : \A it \in rows[e] :
          /\ it \in DayItem
          /\ it.kind # "rollover" => it.from = e
          /\ it.kind = "rollover" => it.from = e - 1
    BY <1>0 DEF DayTypes, DayItems, DayIts
  <2>4. d \in Int /\ \A e \in GuidedDay!Days : e \in Int
    BY DEF GuidedDay!Days
  <2>5. CASE d + 1 \in GuidedDay!Days /\ R # {}
    <3>1. PICK it \in R : TRUE
      BY <2>5
    <3>2. it \in rows[d + 1] /\ it.kind = "rollover" /\ it.count \in Nat
      BY <2>3, <2>5, <3>1 DEF Kind, DayItem
    <3>3. R = {it}
      BY <1>0, <2>5, <3>2 DEF Kind, DayItems, DayIts
    <3>4. S = Own(rows[d]) \cup {it}
      <4>1. ASSUME NEW jt \in S PROVE jt \in Own(rows[d]) \cup {it}
        <5>1. PICK e \in GuidedDay!Days : jt \in rows[e] /\ jt.from = d
          OBVIOUS
        <5>2. CASE jt.kind = "rollover"
          <6>1. jt.from = e - 1 /\ e \in Int /\ d \in Int
            BY <2>3, <2>4, <5>1, <5>2
          <6>2. e = d + 1
            BY <5>1, <6>1
          <6> QED
            BY <3>3, <5>1, <5>2, <6>2 DEF Kind
        <5>3. CASE jt.kind # "rollover"
          BY <2>3, <5>1, <5>3 DEF Own
        <5> QED
          BY <5>2, <5>3
      <4>2. ASSUME NEW jt \in Own(rows[d]) PROVE jt \in S
        BY <2>3, <4>2 DEF Own
      <4>3. it \in S
        BY <2>3, <2>4, <2>5, <3>2
      <4> HIDE DEF S
      <4> QED
        BY <4>1, <4>2, <4>3
    <3>5. Own(rows[d]) \cap {it} = {} /\ \A jt \in Own(rows[d]) \cup {it} : jt.count \in Nat
      BY <2>3, <3>2 DEF Own, DayItem
    <3>6. IsFiniteSet({it})
      BY FS_Singleton, Zenon
    <3>7. GuidedDay!Count(Own(rows[d]) \cup {it}) =
              GuidedDay!Count(Own(rows[d])) + GuidedDay!Count({it})
      BY <2>2, <3>5, <3>6, CountApart
    <3>8. GuidedDay!Count({it}) = it.count
      BY <3>2, CountOne
    <3>9. GuidedDay!Count(Own(rows[d])) + it.count <= Cardinality(trades[d])
      BY <1>0, <2>5, <3>2 DEF Budget
    <3> HIDE DEF S
    <3> QED
      BY <3>4, <3>7, <3>8, <3>9 DEF S
  <2>6. CASE ~ (d + 1 \in GuidedDay!Days /\ R # {})
    <3>1. S = Own(rows[d])
      <4>1. ASSUME NEW jt \in S PROVE jt \in Own(rows[d])
        <5>1. PICK e \in GuidedDay!Days : jt \in rows[e] /\ jt.from = d
          OBVIOUS
        <5>2. CASE jt.kind = "rollover"
          <6>1. jt.from = e - 1 /\ e \in Int /\ d \in Int
            BY <2>3, <2>4, <5>1, <5>2
          <6>2. e = d + 1
            BY <5>1, <6>1
          <6> QED
            BY <2>6, <5>1, <5>2, <6>2 DEF Kind
        <5>3. CASE jt.kind # "rollover"
          BY <2>3, <5>1, <5>3 DEF Own
        <5> QED
          BY <5>2, <5>3
      <4>2. ASSUME NEW jt \in Own(rows[d]) PROVE jt \in S
        BY <2>3, <4>2 DEF Own
      <4> HIDE DEF S
      <4> QED
        BY <4>1, <4>2
    <3> HIDE DEF S
    <3> QED
      BY <2>2, <3>1 DEF S
  <2> QED
    BY <2>5, <2>6
<1>3. GuidedDay!NothingAskedTwice
  BY <1>2, DaysCount, Zenon DEF GuidedDay!NothingAskedTwice
<1> QED
  BY <1>1, <1>3 DEF GuidedDay!DaysAreSound

\* So do the types, with the length of the streak.
LEMMA DaysTyped ==
    ASSUME LastDay \in Nat, DaysInvariant
    PROVE  GuidedDay!TypeOK
<1>0. DayTypes /\ Streaks
  BY DEF DaysInvariant
<1>1. streak.current \in 0 .. LastDay /\ streak.last \in 0 .. LastDay
  <2>1. Run(streak)
    BY <1>0, Zenon DEF Streaks
  <2>2. streak.current \in Nat /\ streak.last \in 0 .. LastDay
    BY <2>1 DEF Run
  <2>3. CASE streak.current > LastDay
    <3>1. streak.current - 1 \in 0 .. streak.current - 1
      BY <2>2, <2>3
    <3>2. streak.last - (streak.current - 1) \in GuidedDay!Days
      BY <2>1, <3>1, Zenon DEF Run
    <3> QED
      BY <2>2, <2>3, <3>2 DEF GuidedDay!Days
  <2> QED
    BY <2>2, <2>3
<1>2. \A d \in GuidedDay!Days : \A it \in rows[d] :
          it.kind \in {"plan", "supplement", "rollover"} /\ it.count >= 0
  BY <1>0 DEF DayTypes, DayItem, Kinds
<1>3. \A r \in DayRequests : busy[r] = None \/ busy[r].d \in GuidedDay!Days
  BY <1>0, Zenon DEF Streaks
<1>4. day \in GuidedDay!Days /\ loaded \subseteq GuidedDay!Days
  BY <1>0 DEF DayTypes, GuidedDay!Days
<1>5. clock \in Nat /\ trades \in [GuidedDay!Days -> SUBSET (1 .. clock)] /\
          completed \in [GuidedDay!Days -> 0 .. clock]
  BY <1>0 DEF DayTypes
<1> QED
  BY <1>1, <1>2, <1>3, <1>4, <1>5 DEF GuidedDay!TypeOK

\* A user without reviews satisfies the invariant.
LEMMA DaysBegin ==
    ASSUME GuidedDay!DaysAssumption, GuidedDay!Init
    PROVE  DaysInvariant
<1>0. LastDay \in Nat \ {0}
  BY DEF GuidedDay!DaysAssumption
<1>1. /\ day = 1 /\ clock = 0 /\ trades = [d \in GuidedDay!Days |-> {}]
      /\ loaded = {} /\ completed = [d \in GuidedDay!Days |-> 0]
      /\ rows = [d \in GuidedDay!Days |-> {}]
      /\ streak = [current |-> 0, last |-> 0]
      /\ busy = [r \in DayRequests |-> None]
  BY DEF GuidedDay!Init
<1>2. DayTypes
  BY <1>0, <1>1 DEF DayTypes, GuidedDay!Days
<1>3. DayItems
  BY <1>1 DEF DayItems, DayIts
<1>4. Budget
  BY <1>1 DEF Budget
<1>5. Streaks
  BY <1>0, <1>1 DEF Streaks, Run
<1> QED
  BY <1>2, <1>3, <1>4, <1>5 DEF DaysInvariant

\* What is known of the days after a step that leaves the streaks alone, or the items.
LEMMA SameStreaks ==
    ASSUME Streaks, UNCHANGED <<streak, busy, completed>>
    PROVE  Streaks'
BY Zenon DEF Streaks, Run

LEMMA SameBudget ==
    ASSUME Budget, UNCHANGED <<rows, trades>>
    PROVE  Budget'
BY Zenon DEF Budget, GuidedDay!Count

\* A trade today.
LEMMA DayTraded ==
    ASSUME DaysInvariant, GuidedDay!Trade
    PROVE  DaysInvariant'
<1>0. DayTypes /\ DayItems /\ Budget /\ Streaks
  BY DEF DaysInvariant
<1>1. /\ clock' = clock + 1 /\ trades' = [trades EXCEPT ![day] = trades[day] \cup {clock + 1}]
      /\ UNCHANGED <<day, loaded, completed, rows, streak, busy>>
  BY Zenon DEF GuidedDay!Trade
<1>2. \A d \in GuidedDay!Days : d # day => trades'[d] = trades[d]
  BY <1>0, <1>1 DEF DayTypes
<1>3. trades'[day] = trades[day] \cup {clock + 1}
  BY <1>0, <1>1 DEF DayTypes
<1>4. DayTypes'
  <2>1. trades' \in [GuidedDay!Days -> SUBSET (1 .. clock')]
    <3>1. clock \in Nat /\ 1 .. clock \subseteq 1 .. clock' /\ clock + 1 \in 1 .. clock'
      BY <1>0, <1>1 DEF DayTypes
    <3> QED
      BY <1>0, <1>1, <3>1 DEF DayTypes
  <2>2. completed' \in [GuidedDay!Days -> 0 .. clock']
    <3>1. 0 .. clock \subseteq 0 .. clock'
      BY <1>0, <1>1 DEF DayTypes
    <3> QED
      BY <1>0, <1>1, <3>1 DEF DayTypes
  <2>3. clock' \in Nat
    BY <1>0, <1>1 DEF DayTypes
  <2> QED
    BY <1>0, <1>1, <2>1, <2>2, <2>3, Zenon DEF DayTypes
<1>5. DayItems'
  <2>1. ASSUME NEW d \in GuidedDay!Days PROVE DayIts(rows[d], d, trades'[d], completed[d])
    <3>1. DayIts(rows[d], d, trades[d], completed[d]) /\ trades[d] \subseteq trades'[d]
      BY <1>0, <1>2, <1>3 DEF DayItems
    <3> QED
      BY <3>1 DEF DayIts
  <2> QED
    BY <1>1, <2>1, Zenon DEF DayItems
<1>6. Budget'
  <2>1. ASSUME NEW d \in GuidedDay!Days, d + 1 \in GuidedDay!Days, NEW it \in rows[d + 1],
               it.kind = "rollover"
        PROVE  GuidedDay!Count(Own(rows[d])) + it.count <= Cardinality(trades'[d])
    <3>1. GuidedDay!Count(Own(rows[d])) + it.count <= Cardinality(trades[d])
      BY <1>0, <2>1 DEF Budget
    <3>2. d + 1 \in loaded
      BY <1>0, <2>1, Zenon DEF DayTypes
    <3>3. d # day
      BY <1>0, <3>2 DEF DayTypes, GuidedDay!Days
    <3> QED
      BY <1>2, <3>1, <3>3
  <2> QED
    BY <1>1, <2>1, Zenon DEF Budget, GuidedDay!Count
<1>7. Streaks'
  BY <1>0, <1>1, SameStreaks
<1> QED
  BY <1>4, <1>5, <1>6, <1>7 DEF DaysInvariant

\* The next day.
LEMMA DayPassed ==
    ASSUME DaysInvariant, GuidedDay!NewDay
    PROVE  DaysInvariant'
<1>0. DayTypes /\ DayItems /\ Budget /\ Streaks
  BY DEF DaysInvariant
<1>1. /\ day < LastDay /\ day' = day + 1
      /\ UNCHANGED <<clock, trades, loaded, completed, rows, streak, busy>>
  BY Zenon DEF GuidedDay!NewDay
<1>2. DayTypes'
  <2>1. day' \in GuidedDay!Days
    BY <1>0, <1>1, PartsAssumption DEF DayTypes, GuidedDay!Days, GuidedDay!DaysAssumption
  <2>2. loaded \subseteq 1 .. day'
    BY <1>0, <1>1 DEF DayTypes, GuidedDay!Days
  <2> QED
    BY <1>0, <1>1, <2>1, <2>2, Zenon DEF DayTypes
<1>3. DayItems'
  BY <1>0, <1>1, Zenon DEF DayItems
<1>4. Budget'
  BY <1>0, <1>1, SameBudget
<1>5. Streaks'
  BY <1>0, <1>1, SameStreaks
<1> QED
  BY <1>2, <1>3, <1>4, <1>5 DEF DaysInvariant

\* What is carried over to today has not been counted by the items of the day before.
LEMMA CarriedOver ==
    ASSUME DaysInvariant, NEW d \in GuidedDay!Days, NEW it \in GuidedDay!Rollover(d)
    PROVE  /\ GuidedDay!Rollover(d) = {it} /\ it \in DayItem
           /\ it.kind = "rollover" /\ it.from = d - 1 /\ d - 1 \in GuidedDay!Days
           /\ ~ \E jt \in rows[d] : jt.kind = "rollover"
           /\ GuidedDay!Count(Own(rows[d - 1])) + it.count <= Cardinality(trades[d - 1])
<1>0. DayTypes /\ DayItems
  BY DEF DaysInvariant
<1> DEFINE p == d - 1
           after == GuidedDay!After(p)
           delta == Cardinality(after) - GuidedDay!Counted(p, "supplement")
<1>1. /\ p \in GuidedDay!Days /\ completed[p] # 0 /\ ~ GuidedDay!RolledOver(d) /\ delta > 0
      /\ GuidedDay!Rollover(d) = {GuidedDay!Item("rollover", delta, p, {})}
  BY DaysCount, Zenon DEF GuidedDay!Rollover
<1>2. it = GuidedDay!Item("rollover", delta, p, {})
  BY <1>1, Zenon
<1>3. /\ rows[p] \subseteq DayItem /\ DayIts(rows[p], p, trades[p], completed[p])
      /\ IsFiniteSet(trades[p]) /\ Cardinality(trades[p]) \in Nat /\ trades[p] \subseteq 1 .. clock
      /\ clock \in Nat /\ completed[p] \in 0 .. clock
  BY <1>0, <1>1, TradesFinite DEF DayTypes, DayItems
<1> DEFINE P == Covered(Kind(rows[p], "plan"))
           S == Covered(Kind(rows[p], "supplement"))
<1>4. GuidedDay!Count(Own(rows[p])) = Cardinality(P) + Cardinality(S)
  BY <1>3, OwnCount
<1>5. IsFiniteSet(P) /\ IsFiniteSet(S) /\ P \subseteq trades[p]
  BY <1>3, KindCount
<1>6. GuidedDay!Counted(p, "supplement") = Cardinality(S)
  <2>1. GuidedDay!Counted(p, "supplement") = GuidedDay!Count(Kind(rows[p], "supplement"))
    BY Zenon DEF GuidedDay!Counted, Kind
  <2> QED
    BY <1>3, <2>1, KindCount
<1>7. after \subseteq trades[p] /\ P \cap after = {}
  <2>1. after = {t \in trades[p] : t > completed[p]}
    BY Zenon DEF GuidedDay!After
  <2>2. \A t \in P : t <= completed[p] /\ t \in Nat
    <3>1. \A jt \in Kind(rows[p], "plan") : \A t \in jt.about : t <= completed[p]
      BY <1>1, <1>3 DEF DayIts, Kind
    <3>2. \A t \in P : t \in Nat
      BY <1>3, <1>5
    <3> QED
      BY <3>1, <3>2 DEF Covered
  <2> HIDE DEF after, P
  <2> QED
    BY <1>3, <2>1, <2>2
<1>8. Cardinality(P) + Cardinality(after) <= Cardinality(trades[p]) /\ Cardinality(after) \in Nat
      /\ Cardinality(P) \in Nat /\ Cardinality(S) \in Nat
  <2> HIDE DEF after, P, S
  <2>1. IsFiniteSet(after)
    BY <1>3, <1>7, FS_Subset
  <2>2. Cardinality(P \cup after) = Cardinality(P) + Cardinality(after) - Cardinality({})
    BY <1>5, <1>7, <2>1, FS_Union
  <2>3. Cardinality(P \cup after) <= Cardinality(trades[p])
    <3>1. P \cup after \in SUBSET trades[p]
      BY <1>5, <1>7
    <3> QED
      BY <1>3, <3>1, FS_Subset
  <2>4. Cardinality({}) = 0 /\ Cardinality(P) \in Nat /\ Cardinality(after) \in Nat /\
            Cardinality(S) \in Nat
    BY <1>5, <2>1, FS_EmptySet, FS_CardinalityType
  <2> QED
    BY <1>3, <2>2, <2>3, <2>4
<1>9. delta \in Nat /\ GuidedDay!Count(Own(rows[p])) + delta <= Cardinality(trades[p])
  <2> DEFINE a == Cardinality(after)
             b == Cardinality(P)
             c == Cardinality(S)
  <2>1. a \in Nat /\ b \in Nat /\ c \in Nat /\ b + a <= Cardinality(trades[p]) /\
            Cardinality(trades[p]) \in Nat
    BY <1>3, <1>8
  <2>2. delta = a - c /\ GuidedDay!Count(Own(rows[p])) = b + c /\ delta > 0
    BY <1>1, <1>4, <1>6
  <2> HIDE DEF a, b, c, delta
  <2> QED
    BY <2>1, <2>2
<1>10. /\ it.kind = "rollover" /\ it.count = delta /\ it.from = p /\ it.about = {}
       /\ it.answered = FALSE
  BY <1>2, Zenon DEF GuidedDay!Item
<1>11. it \in DayItem
  <2>1. p \in Int
    BY <1>1 DEF GuidedDay!Days
  <2> HIDE DEF p, delta
  <2> QED
    BY <1>2, <1>9, <2>1 DEF GuidedDay!Item, DayItem, Kinds
<1>12. ~ \E jt \in rows[d] : jt.kind = "rollover"
  BY <1>1, Zenon DEF GuidedDay!RolledOver
<1>13. GuidedDay!Rollover(d) = {it}
  BY <1>1, <1>2, Zenon
<1> QED
  BY <1>1, <1>9, <1>10, <1>11, <1>12, <1>13

\* The items of today as a load makes them: those there were, but for a supplement, or the
\* plan of what was traded.
LEMMA FirstItemsFit ==
    ASSUME DaysInvariant, NEW d \in GuidedDay!Days
    PROVE  /\ GuidedDay!FirstItems(d) \subseteq DayItem
           /\ DayIts(GuidedDay!FirstItems(d), d, trades[d], completed[d])
           /\ \A it \in GuidedDay!FirstItems(d) : it.kind = "rollover" => it \in rows[d]
<1>0. DayTypes /\ DayItems
  BY DEF DaysInvariant
<1>1. CASE d \in loaded
  <2>1. GuidedDay!FirstItems(d) = rows[d]
    BY <1>1, Zenon DEF GuidedDay!FirstItems
  <2> QED
    BY <1>0, <2>1 DEF DayTypes, DayItems
<1>2. CASE d \notin loaded
  <2> DEFINE it == GuidedDay!Item("plan", Cardinality(trades[d]), d, trades[d])
  <2>1. GuidedDay!FirstItems(d) = {it}
    BY <1>2, DaysCount, Zenon DEF GuidedDay!FirstItems
  <2>2. completed[d] = 0
    BY <1>0, <1>2, Zenon DEF DayTypes
  <2>3. Cardinality(trades[d]) \in Nat /\ trades[d] \subseteq 1 .. clock /\ d \in Int
    BY <1>0, TradesFinite DEF GuidedDay!Days
  <2>4. /\ it.kind = "plan" /\ it.count = Cardinality(trades[d]) /\ it.from = d
        /\ it.about = trades[d]
        /\ it \in DayItem
    <3>1. trades[d] \in SUBSET Nat
      BY <2>3
    <3> QED
      BY <2>3, <3>1 DEF GuidedDay!Item, DayItem, Kinds
  <2> HIDE DEF it
  <2> QED
    BY <2>1, <2>2, <2>4 DEF DayIts
<1> QED
  BY <1>1, <1>2

\* With what is carried over they are items of the day.
LEMMA CarriedFit ==
    ASSUME DaysInvariant, NEW d \in GuidedDay!Days
    PROVE  /\ GuidedDay!FirstItems(d) \cup GuidedDay!Rollover(d) \subseteq DayItem
           /\ DayIts(GuidedDay!FirstItems(d) \cup GuidedDay!Rollover(d), d, trades[d], completed[d])
<1> DEFINE F == GuidedDay!FirstItems(d)
           R == GuidedDay!Rollover(d)
<1>1. /\ F \subseteq DayItem /\ DayIts(F, d, trades[d], completed[d])
      /\ \A it \in F : it.kind = "rollover" => it \in rows[d]
  BY FirstItemsFit
<1>2. \A it \in R : /\ R = {it} /\ it \in DayItem /\ it.kind = "rollover" /\ it.from = d - 1
                    /\ ~ \E jt \in rows[d] : jt.kind = "rollover"
  BY CarriedOver
<1> HIDE DEF F, R
<1>3. F \cup R \subseteq DayItem
  BY <1>1, <1>2
<1>4. DayIts(F \cup R, d, trades[d], completed[d])
  <2>1. \A it \in F \cup R : it.kind # "rollover" =>
          it.from = d /\ it.about \subseteq trades[d] /\ it.count = Cardinality(it.about)
    BY <1>1, <1>2 DEF DayIts
  <2>2. \A it \in F \cup R : it.kind = "rollover" => it.from = d - 1
    BY <1>1, <1>2 DEF DayIts
  <2>3. \A it, jt \in F \cup R : it.kind = jt.kind => it = jt
    BY <1>1, <1>2 DEF DayIts
  <2>4. completed[d] # 0 => \A it \in F \cup R : it.kind = "plan" =>
            \A t \in it.about : t <= completed[d]
    BY <1>1, <1>2 DEF DayIts
  <2>5. \A it, jt \in F \cup R : it.kind = "plan" /\ jt.kind = "supplement" =>
            it.about \cap jt.about = {}
    BY <1>1, <1>2 DEF DayIts
  <2> QED
    BY <2>1, <2>2, <2>3, <2>4, <2>5, Zenon DEF DayIts
<1> QED
  BY <1>3, <1>4 DEF F, R

\* A supplement covers what the plan does not.
LEMMA SupplementFits ==
    ASSUME DaysInvariant, NEW d \in GuidedDay!Days, NEW its, its \subseteq DayItem,
           DayIts(its, d, trades[d], completed[d])
    PROVE  /\ GuidedDay!Supplemented(d, its) \subseteq DayItem
           /\ DayIts(GuidedDay!Supplemented(d, its), d, trades[d], completed[d])
           /\ \A it \in GuidedDay!Supplemented(d, its) : it.kind # "supplement" => it \in its
<1>0. DayTypes
  BY DEF DaysInvariant
<1> DEFINE after == GuidedDay!After(d)
           s == GuidedDay!Item("supplement", Cardinality(after), d, after)
           new == {it \in its : it.kind # "supplement"} \cup {s}
<1>1. GuidedDay!Supplemented(d, its) = its \/
          (completed[d] # 0 /\ GuidedDay!Supplemented(d, its) = new)
  BY DaysCount, Zenon DEF GuidedDay!Supplemented
<1>2. CASE completed[d] # 0 /\ GuidedDay!Supplemented(d, its) = new
  <2>1. after = {t \in trades[d] : t > completed[d]}
    BY Zenon DEF GuidedDay!After
  <2>2. IsFiniteSet(trades[d]) /\ trades[d] \subseteq 1 .. clock /\ d \in Int /\
            completed[d] \in Nat
    BY <1>0, TradesFinite DEF GuidedDay!Days, DayTypes
  <2>3. after \in SUBSET Nat /\ after \subseteq trades[d] /\ Cardinality(after) \in Nat
    <3>1. after \subseteq trades[d]
      BY <2>1
    <3> HIDE DEF after
    <3> QED
      BY <2>2, <3>1, FS_Subset, FS_CardinalityType
  <2>4. /\ s.kind = "supplement" /\ s.count = Cardinality(after) /\ s.from = d /\ s.about = after
        /\ s \in DayItem
    <3> HIDE DEF after
    <3> QED
      BY <2>2, <2>3 DEF GuidedDay!Item, DayItem, Kinds
  <2>5. \A it \in its : it.kind = "plan" => it.about \cap after = {}
    <3> SUFFICES ASSUME NEW it \in its, it.kind = "plan", NEW t \in it.about, t \in after
                 PROVE  FALSE
      OBVIOUS
    <3>1. t <= completed[d] /\ t > completed[d] /\ t \in Nat
      BY <1>2, <2>1, <2>3 DEF DayIts
    <3> QED
      BY <2>2, <3>1
  <2> HIDE DEF s, after
  <2>6. new \subseteq DayItem /\ \A it \in new : it.kind # "supplement" => it \in its
    BY <2>4
  <2>7. \A it \in new : it \in its \/ it = s
    OBVIOUS
  <2>8. \A it \in new : it # s => it.kind # "supplement"
    OBVIOUS
  <2> HIDE DEF new
  <2>9. \A it \in new : it.kind # "rollover" =>
          it.from = d /\ it.about \subseteq trades[d] /\ it.count = Cardinality(it.about)
    BY <2>3, <2>4, <2>7 DEF DayIts
  <2>10. \A it \in new : it.kind = "rollover" => it.from = d - 1
    BY <2>4, <2>7 DEF DayIts
  <2>11. \A it, jt \in new : it.kind = jt.kind => it = jt
    BY <2>4, <2>7, <2>8 DEF DayIts
  <2>12. completed[d] # 0 => \A it \in new : it.kind = "plan" =>
             \A t \in it.about : t <= completed[d]
    BY <2>4, <2>7 DEF DayIts
  <2>13. \A it, jt \in new : it.kind = "plan" /\ jt.kind = "supplement" =>
             it.about \cap jt.about = {}
    BY <2>4, <2>5, <2>6, <2>7, <2>8
  <2>14. DayIts(new, d, trades[d], completed[d])
    BY <2>9, <2>10, <2>11, <2>12, <2>13, Zenon DEF DayIts
  <2> QED
    BY <1>2, <2>6, <2>14
<1>3. CASE GuidedDay!Supplemented(d, its) = its
  BY <1>3
<1> QED
  BY <1>1, <1>2, <1>3, Zenon

\* A load of today's review.
LEMMA TodayLoaded ==
    ASSUME DaysInvariant, GuidedDay!GetOrCreateToday
    PROVE  DaysInvariant'
<1>0. DayTypes /\ DayItems /\ Budget /\ Streaks
  BY DEF DaysInvariant
<1> DEFINE its == GuidedDay!FirstItems(day) \cup GuidedDay!Rollover(day)
           new == GuidedDay!Supplemented(day, its)
<1>1. /\ loaded' = loaded \cup {day} /\ rows' = [rows EXCEPT ![day] = new]
      /\ UNCHANGED <<day, clock, trades, completed, streak, busy>>
  BY Zenon DEF GuidedDay!GetOrCreateToday
<1>2. day \in GuidedDay!Days /\ day \in 1 .. day
  BY <1>0 DEF DayTypes, GuidedDay!Days
<1>3. its \subseteq DayItem /\ DayIts(its, day, trades[day], completed[day])
  BY <1>2, CarriedFit
<1>4. /\ new \subseteq DayItem /\ DayIts(new, day, trades[day], completed[day])
      /\ \A it \in new : it.kind # "supplement" => it \in its
  <2> HIDE DEF its
  <2> QED
    BY <1>2, <1>3, SupplementFits
<1>5. \A it \in new : it.kind = "rollover" => it \in rows[day] \/ it \in GuidedDay!Rollover(day)
  BY <1>2, <1>4, FirstItemsFit
<1> HIDE DEF new, its
<1>6. rows'[day] = new /\ \A d \in GuidedDay!Days : d # day => rows'[d] = rows[d]
  BY <1>0, <1>1, <1>2 DEF DayTypes
<1>7. DayTypes'
  <2>1. rows' \in [GuidedDay!Days -> SUBSET DayItem]
    BY <1>0, <1>1, <1>2, <1>4 DEF DayTypes
  <2>2. loaded' \subseteq 1 .. day
    BY <1>0, <1>1, <1>2 DEF DayTypes
  <2>3. \A d \in GuidedDay!Days : d \notin loaded' => rows'[d] = {} /\ completed[d] = 0
    BY <1>0, <1>1, <1>6 DEF DayTypes
  <2> QED
    BY <1>0, <1>1, <2>1, <2>2, <2>3, Zenon DEF DayTypes
<1>8. DayItems'
  <2>1. \A d \in GuidedDay!Days : DayIts(rows'[d], d, trades[d], completed[d])
    BY <1>0, <1>4, <1>6 DEF DayItems
  <2> QED
    BY <1>1, <2>1, Zenon DEF DayItems
<1>9. Budget'
  <2>1. ASSUME NEW d \in GuidedDay!Days, d + 1 \in GuidedDay!Days, NEW it \in rows'[d + 1],
               it.kind = "rollover"
        PROVE  GuidedDay!Count(Own(rows'[d])) + it.count <= Cardinality(trades[d])
    <3>1. d \in Int /\ d # d + 1
      BY DEF GuidedDay!Days
    <3>2. CASE d + 1 = day
      <4>1. rows'[d] = rows[d] /\ it \in new
        BY <1>6, <2>1, <3>1, <3>2
      <4>2. CASE it \in rows[day]
        BY <1>0, <2>1, <3>2, <4>1, <4>2 DEF Budget
      <4>3. CASE it \in GuidedDay!Rollover(day)
        <5>1. GuidedDay!Count(Own(rows[day - 1])) + it.count <= Cardinality(trades[day - 1])
          BY <1>2, <4>3, CarriedOver
        <5>2. day - 1 = d
          BY <3>1, <3>2
        <5> QED
          BY <4>1, <5>1, <5>2
      <4> QED
        BY <1>5, <2>1, <4>1, <4>2, <4>3
    <3>3. CASE d + 1 # day
      <4>1. it \in rows[d + 1]
        BY <1>6, <2>1, <3>3
      <4>2. d + 1 \in loaded
        BY <1>0, <2>1, <4>1, Zenon DEF DayTypes
      <4>3. d # day
        BY <1>0, <4>2 DEF DayTypes, GuidedDay!Days
      <4> QED
        BY <1>0, <1>6, <2>1, <4>1, <4>3 DEF Budget
    <3> QED
      BY <3>2, <3>3
  <2> QED
    BY <1>1, <2>1, Zenon DEF Budget, GuidedDay!Count
<1>10. Streaks'
  BY <1>0, <1>1, SameStreaks
<1> QED
  BY <1>7, <1>8, <1>9, <1>10 DEF DaysInvariant

\* An answered item is what it was otherwise.
Answering(its, it) == (its \ {it}) \cup {[it EXCEPT !.answered = TRUE]}

LEMMA AnsweredFits ==
    ASSUME NEW its, its \subseteq DayItem, NEW d, NEW ts, NEW e, DayIts(its, d, ts, e),
           NEW it \in its,
           NEW jts, jts = Answering(its, it)
    PROVE  /\ jts \subseteq DayItem /\ DayIts(jts, d, ts, e)
           /\ Covered(Kind(jts, "plan")) = Covered(Kind(its, "plan"))
           /\ Covered(Kind(jts, "supplement")) = Covered(Kind(its, "supplement"))
           /\ \A jt \in jts : \E i \in its : jt.kind = i.kind /\ jt.count = i.count
<1> DEFINE new == [it EXCEPT !.answered = TRUE]
<1>1. /\ new \in DayItem /\ new.kind = it.kind /\ new.count = it.count /\ new.from = it.from
      /\ new.about = it.about
  BY DEF DayItem
<1> HIDE DEF new
<1>2. jts = (its \ {it}) \cup {new}
  BY DEF new, Answering
<1>3. jts \subseteq DayItem
  BY <1>1, <1>2
<1>4. \A jt \in jts : (jt \in its /\ jt # it) \/ jt = new
  BY <1>2
<1>5. \A i \in its : (i # it /\ i \in jts) \/ i = it
  BY <1>2
<1>6. new \in jts
  BY <1>2
<1>7. DayIts(jts, d, ts, e)
  <2>1. \A jt \in jts : jt.kind # "rollover" =>
          jt.from = d /\ jt.about \subseteq ts /\ jt.count = Cardinality(jt.about)
    BY <1>1, <1>4 DEF DayIts
  <2>2. \A jt \in jts : jt.kind = "rollover" => jt.from = d - 1
    BY <1>1, <1>4 DEF DayIts
  <2>3. \A jt, kt \in jts : jt.kind = kt.kind => jt = kt
    BY <1>1, <1>4 DEF DayIts
  <2>4. e # 0 => \A jt \in jts : jt.kind = "plan" => \A t \in jt.about : t <= e
    BY <1>1, <1>4 DEF DayIts
  <2>5. \A jt, kt \in jts : jt.kind = "plan" /\ kt.kind = "supplement" =>
            jt.about \cap kt.about = {}
    BY <1>1, <1>4 DEF DayIts
  <2> QED
    BY <2>1, <2>2, <2>3, <2>4, <2>5, Zenon DEF DayIts
<1>8. ASSUME NEW k PROVE Covered(Kind(jts, k)) = Covered(Kind(its, k))
  <2>1. \A jt \in Kind(jts, k) : \E i \in Kind(its, k) : jt.about = i.about
    BY <1>1, <1>4 DEF Kind
  <2>2. \A i \in Kind(its, k) : \E jt \in Kind(jts, k) : jt.about = i.about
    BY <1>1, <1>5, <1>6 DEF Kind
  <2> QED
    <3>1. ASSUME NEW t \in Covered(Kind(jts, k)) PROVE t \in Covered(Kind(its, k))
      BY <2>1, Zenon DEF Covered
    <3>2. ASSUME NEW t \in Covered(Kind(its, k)) PROVE t \in Covered(Kind(jts, k))
      BY <2>2, Zenon DEF Covered
    <3> QED
      BY <3>1, <3>2
<1>9. \A jt \in jts : \E i \in its : jt.kind = i.kind /\ jt.count = i.count
  BY <1>1, <1>4
<1> QED
  BY <1>3, <1>7, <1>8, <1>9

\* An answer is given.
LEMMA ItemSubmitted ==
    ASSUME DaysInvariant, NEW d \in GuidedDay!Days, NEW it \in rows[d], GuidedDay!SubmitItem(d, it)
    PROVE  DaysInvariant'
<1>0. DayTypes /\ DayItems /\ Budget /\ Streaks
  BY DEF DaysInvariant
<1> DEFINE new == Answering(rows[d], it)
<1>1. /\ rows' = [rows EXCEPT ![d] = new]
      /\ UNCHANGED <<day, clock, trades, loaded, completed, streak, busy>>
  BY Zenon DEF GuidedDay!SubmitItem, Answering
<1>2. rows[d] \subseteq DayItem /\ DayIts(rows[d], d, trades[d], completed[d])
  BY <1>0 DEF DayTypes, DayItems
<1>3. /\ new \subseteq DayItem /\ DayIts(new, d, trades[d], completed[d])
      /\ Covered(Kind(new, "plan")) = Covered(Kind(rows[d], "plan"))
      /\ Covered(Kind(new, "supplement")) = Covered(Kind(rows[d], "supplement"))
      /\ \A jt \in new : \E i \in rows[d] : jt.kind = i.kind /\ jt.count = i.count
  <2>1. new = Answering(rows[d], it)
    OBVIOUS
  <2> HIDE DEF new
  <2> QED
    BY <1>2, <2>1, AnsweredFits
<1>4. GuidedDay!Count(Own(new)) = GuidedDay!Count(Own(rows[d]))
  <2> HIDE DEF new
  <2>1. IsFiniteSet(trades[d])
    BY <1>0, TradesFinite
  <2>2. GuidedDay!Count(Own(new)) =
          Cardinality(Covered(Kind(new, "plan"))) + Cardinality(Covered(Kind(new, "supplement")))
    BY <1>3, <2>1, OwnCount, Zenon
  <2>3. GuidedDay!Count(Own(rows[d])) =
          Cardinality(Covered(Kind(rows[d], "plan"))) + Cardinality(Covered(Kind(rows[d],
              "supplement")))
    BY <1>2, <2>1, OwnCount, Zenon
  <2> QED
    BY <1>3, <2>2, <2>3, Zenon
<1>5. d \in loaded
  BY <1>0, Zenon DEF DayTypes
<1> HIDE DEF new
<1>6. rows'[d] = new /\ \A e \in GuidedDay!Days : e # d => rows'[e] = rows[e]
  BY <1>0, <1>1 DEF DayTypes
<1>7. DayTypes'
  <2>1. rows' \in [GuidedDay!Days -> SUBSET DayItem]
    BY <1>0, <1>1, <1>3 DEF DayTypes
  <2>2. \A e \in GuidedDay!Days : e \notin loaded => rows'[e] = {} /\ completed[e] = 0
    BY <1>0, <1>5, <1>6 DEF DayTypes
  <2> QED
    BY <1>0, <1>1, <2>1, <2>2, Zenon DEF DayTypes
<1>8. DayItems'
  <2>1. \A e \in GuidedDay!Days : DayIts(rows'[e], e, trades[e], completed[e])
    BY <1>0, <1>3, <1>6 DEF DayItems
  <2> QED
    BY <1>1, <2>1, Zenon DEF DayItems
<1>9. Budget'
  <2>1. ASSUME NEW e \in GuidedDay!Days, e + 1 \in GuidedDay!Days, NEW jt \in rows'[e + 1],
               jt.kind = "rollover"
        PROVE  GuidedDay!Count(Own(rows'[e])) + jt.count <= Cardinality(trades[e])
    <3>1. PICK i \in rows[e + 1] : i.kind = "rollover" /\ i.count = jt.count
      BY <1>3, <1>6, <2>1
    <3>2. GuidedDay!Count(Own(rows[e])) + i.count <= Cardinality(trades[e])
      BY <1>0, <2>1, <3>1 DEF Budget
    <3>3. GuidedDay!Count(Own(rows'[e])) = GuidedDay!Count(Own(rows[e]))
      BY <1>4, <1>6, Zenon
    <3> QED
      BY <3>1, <3>2, <3>3
  <2> QED
    BY <1>1, <2>1, Zenon DEF Budget, GuidedDay!Count
<1>10. Streaks'
  BY <1>0, <1>1, SameStreaks
<1> QED
  BY <1>7, <1>8, <1>9, <1>10 DEF DaysInvariant

\* A completion of a day, of which the streak is read and written later.
LEMMA ReviewCompleted ==
    ASSUME DaysInvariant, NEW r \in DayRequests, NEW d \in GuidedDay!Days,
           GuidedDay!CompleteReview(r, d)
    PROVE  DaysInvariant'
<1>0. DayTypes /\ DayItems /\ Budget /\ Streaks
  BY DEF DaysInvariant
<1>1. /\ d \in loaded /\ clock' = clock + 1 /\ completed' = [completed EXCEPT ![d] = clock + 1]
      /\ busy' = [busy EXCEPT ![r] = [d |-> d, read |-> None]]
      /\ UNCHANGED <<day, trades, loaded, rows, streak>>
  BY Zenon DEF GuidedDay!CompleteReview
<1>2. clock \in Nat
  BY <1>0 DEF DayTypes
<1>3. completed'[d] = clock + 1 /\ \A e \in GuidedDay!Days : e # d => completed'[e] = completed[e]
  BY <1>0, <1>1 DEF DayTypes
<1>4. DayTypes'
  <2>1. trades \in [GuidedDay!Days -> SUBSET (1 .. clock')]
    <3>1. 1 .. clock \subseteq 1 .. clock'
      BY <1>1, <1>2
    <3> QED
      BY <1>0, <3>1 DEF DayTypes
  <2>2. completed' \in [GuidedDay!Days -> 0 .. clock']
    <3>1. 0 .. clock \subseteq 0 .. clock' /\ clock + 1 \in 0 .. clock'
      BY <1>1, <1>2
    <3> QED
      BY <1>0, <1>1, <3>1 DEF DayTypes
  <2>3. \A e \in GuidedDay!Days : e \notin loaded => rows[e] = {} /\ completed'[e] = 0
    BY <1>0, <1>1, <1>3 DEF DayTypes
  <2>4. clock' \in Nat
    BY <1>1, <1>2
  <2> QED
    BY <1>0, <1>1, <2>1, <2>2, <2>3, <2>4, Zenon DEF DayTypes
<1>5. DayItems'
  <2>1. DayIts(rows[d], d, trades[d], clock + 1)
    <3>1. DayIts(rows[d], d, trades[d], completed[d]) /\ trades[d] \subseteq 1 .. clock
      BY <1>0, TradesFinite DEF DayItems
    <3>2. \A it \in rows[d] : it.kind = "plan" => \A t \in it.about : t <= clock + 1
      BY <1>2, <3>1 DEF DayIts
    <3> QED
      BY <3>1, <3>2 DEF DayIts
  <2>2. \A e \in GuidedDay!Days : DayIts(rows[e], e, trades[e], completed'[e])
    BY <1>0, <1>3, <2>1 DEF DayItems
  <2> QED
    BY <1>1, <2>2, Zenon DEF DayItems
<1>6. Budget'
  BY <1>0, <1>1, SameBudget
<1>7. Streaks'
  <2>1. \A e \in GuidedDay!Days : completed[e] # 0 => completed'[e] # 0
    BY <1>2, <1>3
  <2>2. Run(streak)'
    BY <1>0, <1>1, <2>1, Zenon DEF Streaks, Run
  <2>3. ASSUME NEW q \in DayRequests, busy'[q] # None
        PROVE  /\ busy'[q] = [d |-> busy'[q].d, read |-> busy'[q].read]
               /\ busy'[q].d \in GuidedDay!Days /\ completed'[busy'[q].d] # 0
               /\ busy'[q].read # None => Run(busy[q].read)'
    <3>1. CASE q = r
      <4>1. busy'[q] = [d |-> d, read |-> None]
        BY <1>0, <1>1, <3>1 DEF Streaks
      <4> QED
        BY <1>2, <1>3, <4>1
    <3>2. CASE q # r
      <4>1. busy'[q] = busy[q]
        BY <1>0, <1>1, <3>2 DEF Streaks
      <4>2. /\ busy[q] = [d |-> busy[q].d, read |-> busy[q].read]
            /\ busy[q].d \in GuidedDay!Days /\ completed[busy[q].d] # 0
            /\ busy[q].read # None => Run(busy[q].read)
        BY <1>0, <2>3, <4>1, Zenon DEF Streaks
      <4>3. busy[q].read # None => Run(busy[q].read)'
        BY <2>1, <4>1, <4>2, Zenon DEF Run
      <4> QED
        BY <2>1, <4>1, <4>2, <4>3, Zenon
    <3> QED
      BY <3>1, <3>2
  <2>4. busy' = [q \in DayRequests |-> busy'[q]]
    BY <1>0, <1>1 DEF Streaks
  <2> QED
    BY <2>2, <2>3, <2>4, Zenon DEF Streaks
<1> QED
  BY <1>4, <1>5, <1>6, <1>7 DEF DaysInvariant

\* The streak as a completion found it.
LEMMA StreakRead ==
    ASSUME DaysInvariant, NEW r \in DayRequests, GuidedDay!ReadStreak(r)
    PROVE  DaysInvariant'
<1>0. DayTypes /\ DayItems /\ Budget /\ Streaks
  BY DEF DaysInvariant
<1>1. /\ busy[r] # None /\ busy' = [busy EXCEPT ![r].read = streak]
      /\ UNCHANGED <<day, clock, trades, loaded, completed, rows, streak>>
  BY Zenon DEF GuidedDay!ReadStreak
<1>2. DayTypes'
  BY <1>0, <1>1, Zenon DEF DayTypes
<1>3. DayItems'
  BY <1>0, <1>1, Zenon DEF DayItems
<1>4. Budget'
  BY <1>0, <1>1, SameBudget
<1>5. Streaks'
  <2>1. Run(streak)'
    BY <1>0, <1>1, Zenon DEF Streaks, Run
  <2>2. ASSUME NEW q \in DayRequests, busy'[q] # None
        PROVE  /\ busy'[q] = [d |-> busy'[q].d, read |-> busy'[q].read]
               /\ busy'[q].d \in GuidedDay!Days /\ completed'[busy'[q].d] # 0
               /\ busy'[q].read # None => Run(busy[q].read)'
    <3>1. CASE q = r
      <4>1. busy[r] = [d |-> busy[r].d, read |-> busy[r].read]
            /\ busy[r].d \in GuidedDay!Days /\ completed[busy[r].d] # 0
        BY <1>0, <1>1, Zenon DEF Streaks
      <4>2. busy'[q] = [d |-> busy[r].d, read |-> streak]
        <5>1. busy'[r] = [busy[r] EXCEPT !.read = streak]
          BY <1>0, <1>1 DEF Streaks
        <5> QED
          BY <3>1, <4>1, <5>1
      <4>3. Run(busy[q].read)'
        <5>1. busy'[q].read = streak
          BY <4>2
        <5> QED
          BY <1>0, <1>1, <5>1, Zenon DEF Streaks, Run
      <4> QED
        BY <1>1, <4>1, <4>2, <4>3
    <3>2. CASE q # r
      <4>1. busy'[q] = busy[q]
        BY <1>0, <1>1, <3>2 DEF Streaks
      <4>2. /\ busy[q] = [d |-> busy[q].d, read |-> busy[q].read]
            /\ busy[q].d \in GuidedDay!Days /\ completed[busy[q].d] # 0
            /\ busy[q].read # None => Run(busy[q].read)
        BY <1>0, <2>2, <4>1, Zenon DEF Streaks
      <4>3. busy[q].read # None => Run(busy[q].read)'
        BY <1>1, <4>1, <4>2, Zenon DEF Run
      <4> QED
        BY <1>1, <4>1, <4>2, <4>3, Zenon
    <3> QED
      BY <3>1, <3>2
  <2>3. busy' = [q \in DayRequests |-> busy'[q]]
    BY <1>0, <1>1 DEF Streaks
  <2> QED
    BY <2>1, <2>2, <2>3, Zenon DEF Streaks
<1> QED
  BY <1>2, <1>3, <1>4, <1>5 DEF DaysInvariant

\* A run that was read grows by a completed day.
LEMMA RunGrows ==
    ASSUME LastDay \in Nat, NEW s, Run(s),
           NEW d \in GuidedDay!Days, completed[d] # 0,
           NEW n, n = GuidedDay!NextStreak(s, d)
    PROVE  Run(n)
<1>1. s.current \in Nat /\ s.last \in 0 .. LastDay /\ d \in 1 .. LastDay
  BY DEF Run, GuidedDay!Days
<1>2. CASE s.last = d
  <2>1. n = s
    BY <1>1, <1>2 DEF GuidedDay!NextStreak
  <2> QED
    BY <2>1
<1>3. CASE s.last # d /\ s.last # 0 /\ s.last = d - 1
  <2>1. n = [current |-> s.current + 1, last |-> d]
    BY <1>3 DEF GuidedDay!NextStreak
  <2>2. ASSUME NEW k \in 0 .. s.current PROVE d - k \in GuidedDay!Days /\ completed[d - k] # 0
    <3>1. CASE k = 0
      <4>1. d - k = d
        BY <1>1, <3>1
      <4> QED
        BY <4>1
    <3>2. CASE k # 0
      <4>1. k - 1 \in 0 .. s.current - 1 /\ d - k = s.last - (k - 1)
        BY <1>1, <1>3, <3>2
      <4> QED
        BY <4>1, Zenon DEF Run
    <3> QED
      BY <3>1, <3>2
  <2>3. n.current = s.current + 1 /\ n.last = d
    BY <2>1
  <2>4. /\ n.current \in Nat /\ n.last \in 0 .. LastDay /\ 0 .. n.current - 1 = 0 .. s.current
        /\ n = [current |-> n.current, last |-> n.last]
    BY <1>1, <2>1, <2>3
  <2> QED
    BY <2>1, <2>2, <2>3, <2>4, Zenon DEF Run
<1>4. CASE s.last # d /\ ~ (s.last # 0 /\ s.last = d - 1)
  <2>1. n = [current |-> 1, last |-> d]
    BY <1>4 DEF GuidedDay!NextStreak
  <2>2. ASSUME NEW k \in 0 .. 1 - 1 PROVE d - k = d
    BY <1>1
  <2>3. /\ n.current = 1 /\ n.last = d /\ d \in 0 .. LastDay /\ 1 \in Nat
        /\ n = [current |-> n.current, last |-> n.last]
    BY <1>1, <2>1
  <2> QED
    BY <2>1, <2>2, <2>3, Zenon DEF Run
<1> QED
  BY <1>2, <1>3, <1>4

\* The streak as a completion writes it, of what it read.
LEMMA StreakWritten ==
    ASSUME DaysInvariant, NEW r \in DayRequests, GuidedDay!WriteStreak(r)
    PROVE  DaysInvariant'
<1>0. DayTypes /\ DayItems /\ Budget /\ Streaks
  BY DEF DaysInvariant
<1>1. /\ busy[r] # None /\ busy[r].read # None /\ busy' = [busy EXCEPT ![r] = None]
      /\ \/ streak' = streak
         \/ streak' = GuidedDay!NextStreak(busy[r].read, busy[r].d)
      /\ UNCHANGED <<day, clock, trades, loaded, completed, rows>>
  BY Zenon DEF GuidedDay!WriteStreak
<1>2. DayTypes'
  BY <1>0, <1>1, Zenon DEF DayTypes
<1>3. DayItems'
  BY <1>0, <1>1, Zenon DEF DayItems
<1>4. Budget'
  BY <1>0, <1>1, SameBudget
<1>5. LastDay \in Nat
  BY PartsAssumption DEF GuidedDay!DaysAssumption
<1>6. /\ busy[r].d \in GuidedDay!Days /\ completed[busy[r].d] # 0 /\ Run(busy[r].read)
  BY <1>0, <1>1, Zenon DEF Streaks
<1>7. Run(streak)'
  <2>1. CASE streak' = streak
    BY <1>0, <1>1, <2>1, Zenon DEF Streaks, Run
  <2>2. ASSUME NEW n, n = GuidedDay!NextStreak(busy[r].read, busy[r].d), streak' = n
        PROVE  Run(streak)'
    <3>1. Run(n)
      <4>1. PICK s, d : s = busy[r].read /\ d = busy[r].d
        OBVIOUS
      <4> QED
        BY <1>5, <1>6, <2>2, <4>1, RunGrows, Zenon
    <3> QED
      BY <1>1, <2>2, <3>1, Zenon DEF Run
  <2> QED
    BY <1>1, <2>1, <2>2
<1>8. Streaks'
  <2>1. ASSUME NEW q \in DayRequests, busy'[q] # None
        PROVE  /\ busy'[q] = [d |-> busy'[q].d, read |-> busy'[q].read]
               /\ busy'[q].d \in GuidedDay!Days /\ completed'[busy'[q].d] # 0
               /\ busy'[q].read # None => Run(busy[q].read)'
    <3>1. busy'[q] = busy[q]
      BY <1>0, <1>1, <2>1 DEF Streaks
    <3>2. /\ busy[q] = [d |-> busy[q].d, read |-> busy[q].read]
          /\ busy[q].d \in GuidedDay!Days /\ completed[busy[q].d] # 0
          /\ busy[q].read # None => Run(busy[q].read)
      BY <1>0, <2>1, <3>1, Zenon DEF Streaks
    <3>3. busy[q].read # None => Run(busy[q].read)'
      BY <1>1, <3>1, <3>2, Zenon DEF Run
    <3> QED
      BY <1>1, <3>1, <3>2, <3>3, Zenon
  <2>2. busy' = [q \in DayRequests |-> busy'[q]]
    BY <1>0, <1>1 DEF Streaks
  <2> QED
    BY <1>7, <2>1, <2>2, Zenon DEF Streaks
<1> QED
  BY <1>2, <1>3, <1>4, <1>8 DEF DaysInvariant

\* No step of the days breaks what is known of them.
LEMMA DaysStay ==
    ASSUME DaysInvariant, [GuidedDay!Next]_GuidedDay!vars
    PROVE  DaysInvariant'
<1>1. CASE GuidedDay!Next
  <2>1. CASE GuidedDay!Trade
    BY <2>1, DayTraded
  <2>2. CASE GuidedDay!NewDay
    BY <2>2, DayPassed
  <2>3. CASE GuidedDay!GetOrCreateToday
    BY <2>3, TodayLoaded
  <2>4. ASSUME NEW d \in GuidedDay!Days, NEW it \in rows[d], GuidedDay!SubmitItem(d, it)
        PROVE  DaysInvariant'
    BY <2>4, ItemSubmitted
  <2>5. ASSUME NEW r \in DayRequests, NEW d \in GuidedDay!Days, GuidedDay!CompleteReview(r, d)
        PROVE  DaysInvariant'
    BY <2>5, ReviewCompleted
  <2>6. ASSUME NEW r \in DayRequests, GuidedDay!ReadStreak(r) PROVE DaysInvariant'
    BY <2>6, StreakRead
  <2>7. ASSUME NEW r \in DayRequests, GuidedDay!WriteStreak(r) PROVE DaysInvariant'
    BY <2>7, StreakWritten
  <2> QED
    BY <1>1, <2>1, <2>2, <2>3, <2>4, <2>5, <2>6, <2>7, Zenon DEF GuidedDay!Next
<1>2. CASE UNCHANGED GuidedDay!vars
  <2>1. UNCHANGED <<day, clock, trades, loaded, completed, rows, streak, busy>>
    BY <1>2, Zenon DEF GuidedDay!vars
  <2>2. DayTypes' /\ DayItems'
    BY <2>1, Zenon DEF DaysInvariant, DayTypes, DayItems
  <2>3. Budget' /\ Streaks'
    BY <2>1, SameBudget, SameStreaks, Zenon DEF DaysInvariant
  <2> QED
    BY <2>2, <2>3 DEF DaysInvariant
<1> QED
  BY <1>1, <1>2

-----------------------------------------------------------------------------
(* The parts put together: a step of another part leaves what is said of this one *)

\* A step of the browser that is about the candles is one of its.
LEMMA CandlesMove ==
    [Next]_vars /\ part' = "candles" => part = "candles" /\ [CandleLoads!Next]_CandleLoads!vars
<1> SUFFICES ASSUME [Next]_vars, part' = "candles"
             PROVE  part = "candles" /\ [CandleLoads!Next]_CandleLoads!vars
  OBVIOUS
<1>1. CASE CandleLoadsStep
  BY <1>1, Zenon DEF CandleLoadsStep
<1>2. CASE UNCHANGED vars
  <2>1. UNCHANGED <<common, candlesOwn, part>>
    BY <1>2, Zenon DEF vars
  <2> QED
    BY <2>1, Zenon DEF common, candlesOwn, CandleLoads!vars
<1>3. ASSUME Next, ~ CandleLoadsStep PROVE FALSE
  BY <1>3 DEF Next, LabelsStep, ReplayStep, BoardStep, MarkersStep, GuidedStep, GuidedDayStep,
                    SummariesStep, FetchesStep, TotalsStep, PortfolioStep
<1> QED
  BY <1>1, <1>2, <1>3

\* A step of the browser that is about the replay is one of its.
LEMMA ReplayMoves ==
    [Next]_vars /\ part' = "replay" => part = "replay" /\ [Replay!Next]_Replay!vars
<1> SUFFICES ASSUME [Next]_vars, part' = "replay"
             PROVE  part = "replay" /\ [Replay!Next]_Replay!vars
  OBVIOUS
<1>1. CASE ReplayStep
  BY <1>1, Zenon DEF ReplayStep
<1>2. CASE UNCHANGED vars
  <2>1. UNCHANGED <<common, replayOwn, part>>
    BY <1>2, Zenon DEF vars
  <2> QED
    BY <2>1, Zenon DEF common, replayOwn, Replay!vars, Replay!replay
<1>3. ASSUME Next, ~ ReplayStep PROVE FALSE
  BY <1>3
     DEF Next, LabelsStep, CandleLoadsStep, BoardStep, MarkersStep, GuidedStep,
         GuidedDayStep, SummariesStep, FetchesStep, TotalsStep, PortfolioStep
<1> QED
  BY <1>1, <1>2, <1>3

\* A step of the browser that is about the board is one of its.
LEMMA BoardMoves ==
    [Next]_vars /\ part' = "board" => part = "board" /\ [Board!Next]_Board!vars
<1> SUFFICES ASSUME [Next]_vars, part' = "board"
             PROVE  part = "board" /\ [Board!Next]_Board!vars
  OBVIOUS
<1>1. CASE BoardStep
  BY <1>1, Zenon DEF BoardStep
<1>2. CASE UNCHANGED vars
  <2>1. UNCHANGED <<common, boardOwn, part>>
    BY <1>2, Zenon DEF vars
  <2> QED
    BY <2>1, Zenon DEF common, boardOwn, Board!vars, Board!data, Board!chart, Board!panel
<1>3. ASSUME Next, ~ BoardStep PROVE FALSE
  BY <1>3
     DEF Next, LabelsStep, CandleLoadsStep, ReplayStep, MarkersStep, GuidedStep,
         GuidedDayStep, SummariesStep, FetchesStep, TotalsStep, PortfolioStep
<1> QED
  BY <1>1, <1>2, <1>3

\* A step of the browser that is about the page of AI summaries is one of its.
LEMMA SummariesMove ==
    [Next]_vars /\ part' = "summaries" => part = "summaries" /\ [Summaries!Next]_Summaries!vars
<1> SUFFICES ASSUME [Next]_vars, part' = "summaries"
             PROVE  part = "summaries" /\ [Summaries!Next]_Summaries!vars
  OBVIOUS
<1>1. CASE SummariesStep
  BY <1>1, Zenon DEF SummariesStep
<1>2. CASE UNCHANGED vars
  <2>1. UNCHANGED <<common, summariesOwn, part>>
    BY <1>2, Zenon DEF vars
  <2> QED
    BY <2>1, Zenon DEF common, summariesOwn, Summaries!vars, Summaries!list, Summaries!address
<1>3. ASSUME Next, ~ SummariesStep PROVE FALSE
  BY <1>3 DEF Next, LabelsStep, CandleLoadsStep, ReplayStep, BoardStep, MarkersStep, GuidedStep,
                    GuidedDayStep, FetchesStep, TotalsStep, PortfolioStep
<1> QED
  BY <1>1, <1>2, <1>3

\* A step of the browser that is about the store of the review is one of its.
LEMMA FetchesMove ==
    [Next]_vars /\ part' = "fetches" => part = "fetches" /\ [Fetches!Next]_Fetches!vars
<1> SUFFICES ASSUME [Next]_vars, part' = "fetches"
             PROVE  part = "fetches" /\ [Fetches!Next]_Fetches!vars
  OBVIOUS
<1>1. CASE FetchesStep
  BY <1>1, Zenon DEF FetchesStep
<1>2. CASE UNCHANGED vars
  <2>1. UNCHANGED <<common, fetchesOwn, part>>
    BY <1>2, Zenon DEF vars
  <2> QED
    BY <2>1, Zenon DEF common, fetchesOwn, Fetches!vars
<1>3. ASSUME Next, ~ FetchesStep PROVE FALSE
  BY <1>3 DEF Next, LabelsStep, CandleLoadsStep, ReplayStep, BoardStep, MarkersStep, GuidedStep,
                    GuidedDayStep, SummariesStep, TotalsStep, PortfolioStep
<1> QED
  BY <1>1, <1>2, <1>3

\* A step of the browser that is about the summary of trades is one of its.
LEMMA TotalsMove ==
    [Next]_vars /\ part' = "home" => part = "home" /\ [Totals!Next]_Totals!vars
<1> SUFFICES ASSUME [Next]_vars, part' = "home"
             PROVE  part = "home" /\ [Totals!Next]_Totals!vars
  OBVIOUS
<1>1. CASE TotalsStep
  BY <1>1, Zenon DEF TotalsStep
<1>2. CASE UNCHANGED vars
  <2>1. UNCHANGED <<common, totalsOwn, part>>
    BY <1>2, Zenon DEF vars
  <2> QED
    BY <2>1, Zenon DEF common, totalsOwn, Totals!vars
<1>3. ASSUME Next, ~ TotalsStep PROVE FALSE
  BY <1>3 DEF Next, LabelsStep, CandleLoadsStep, ReplayStep, BoardStep, MarkersStep, GuidedStep,
                    GuidedDayStep, SummariesStep, FetchesStep, PortfolioStep
<1> QED
  BY <1>1, <1>2, <1>3

\* A step of the browser that is about the portfolio is one of its.
LEMMA PortfolioMoves ==
    [Next]_vars /\ part' = "portfolio" => part = "portfolio" /\ [Portfolio!Next]_Portfolio!vars
<1> SUFFICES ASSUME [Next]_vars, part' = "portfolio"
             PROVE  part = "portfolio" /\ [Portfolio!Next]_Portfolio!vars
  OBVIOUS
<1>1. CASE PortfolioStep
  BY <1>1, Zenon DEF PortfolioStep
<1>2. CASE UNCHANGED vars
  <2>1. UNCHANGED <<common, portfolioOwn, part>>
    BY <1>2, Zenon DEF vars
  <2> QED
    BY <2>1, Zenon DEF common, portfolioOwn, Portfolio!vars, Portfolio!data, Portfolio!flags
<1>3. ASSUME Next, ~ PortfolioStep PROVE FALSE
  BY <1>3 DEF Next, LabelsStep, CandleLoadsStep, ReplayStep, BoardStep, MarkersStep, GuidedStep,
                    GuidedDayStep, SummariesStep, FetchesStep, TotalsStep
<1> QED
  BY <1>1, <1>2, <1>3

\* A step of the browser that is about the labels is one of its.
LEMMA LabelsMove ==
    [Next]_vars /\ part' = "labels" => part = "labels" /\ [Labels!Next]_Labels!vars
<1> SUFFICES ASSUME [Next]_vars, part' = "labels"
             PROVE  part = "labels" /\ [Labels!Next]_Labels!vars
  OBVIOUS
<1>1. CASE LabelsStep
  BY <1>1, Zenon DEF LabelsStep
<1>2. CASE UNCHANGED vars
  <2>1. UNCHANGED <<common, labelsOwn, part>>
    BY <1>2, Zenon DEF vars
  <2> QED
    BY <2>1, Zenon DEF common, labelsOwn, Labels!vars
<1>3. ASSUME Next, ~ LabelsStep PROVE FALSE
  BY <1>3
     DEF Next, CandleLoadsStep, ReplayStep, BoardStep, MarkersStep, GuidedStep,
         GuidedDayStep, SummariesStep, FetchesStep, TotalsStep, PortfolioStep
<1> QED
  BY <1>1, <1>2, <1>3

\* A step of the browser that is about the markers is one of its.
LEMMA MarkersMove ==
    [Next]_vars /\ part' = "markers" => part = "markers" /\ [Markers!Next]_Markers!vars
<1> SUFFICES ASSUME [Next]_vars, part' = "markers"
             PROVE  part = "markers" /\ [Markers!Next]_Markers!vars
  OBVIOUS
<1>1. CASE MarkersStep
  BY <1>1, Zenon DEF MarkersStep
<1>2. CASE UNCHANGED vars
  <2>1. UNCHANGED <<common, markersOwn, part>>
    BY <1>2, Zenon DEF vars
  <2> QED
    BY <2>1, Zenon DEF common, markersOwn, Markers!vars
<1>3. ASSUME Next, ~ MarkersStep PROVE FALSE
  BY <1>3
     DEF Next, LabelsStep, CandleLoadsStep, ReplayStep, BoardStep, GuidedStep,
         GuidedDayStep, SummariesStep, FetchesStep, TotalsStep, PortfolioStep
<1> QED
  BY <1>1, <1>2, <1>3

\* A step of the browser that is about the days of the guided review is one of its.
LEMMA DaysMove ==
    [Next]_vars /\ part' = "days" => part = "days" /\ [GuidedDay!Next]_GuidedDay!vars
<1> SUFFICES ASSUME [Next]_vars, part' = "days"
             PROVE  part = "days" /\ [GuidedDay!Next]_GuidedDay!vars
  OBVIOUS
<1>1. CASE GuidedDayStep
  BY <1>1, Zenon DEF GuidedDayStep
<1>2. CASE UNCHANGED vars
  <2>1. UNCHANGED <<common, daysOwn, part>>
    BY <1>2, Zenon DEF vars
  <2> QED
    BY <2>1, Zenon DEF common, daysOwn, GuidedDay!vars
<1>3. ASSUME Next, ~ GuidedDayStep PROVE FALSE
  BY <1>3 DEF Next, LabelsStep, CandleLoadsStep, ReplayStep, BoardStep, MarkersStep, GuidedStep,
                    SummariesStep, FetchesStep, TotalsStep, PortfolioStep
<1> QED
  BY <1>1, <1>2, <1>3

\* A behaviour stays with its part.
LEMMA PartStays == [Next]_vars => part' = part
BY DEF Next, vars, LabelsStep, CandleLoadsStep, ReplayStep, BoardStep, MarkersStep, GuidedStep,
       GuidedDayStep, SummariesStep, FetchesStep, TotalsStep, PortfolioStep

\* The chart has all candles between its oldest and the latest whenever nothing is loading, for
\* any symbols, timeframes and limits, in whatever order requests are answered (Chart.tsx).
THEOREM CandlesHold == Spec => []CandlesAreWhole
<1> DEFINE Good == part = "candles" => CandleInvariant
<1>1. CandleAssumption
  BY PartsAssumption DEF CandleAssumption
<1>2. Init => Good
  BY <1>1, CandlesStart DEF Init
<1>3. Good /\ [Next]_vars => Good'
  <2> SUFFICES ASSUME Good, [Next]_vars, part' = "candles" PROVE CandleInvariant'
    OBVIOUS
  <2>1. part = "candles" /\ [CandleLoads!Next]_CandleLoads!vars
    BY CandlesMove, Zenon
  <2> QED
    BY <1>1, <2>1, CandlesKept
<1>4. Good => CandlesAreWhole
  BY <1>1, CandlesSound DEF CandlesAreWhole
<1> HIDE DEF Good
<1> QED
  BY <1>2, <1>3, <1>4, PTL DEF Spec

\* Nothing after the moment of the replay is displayed, and a replay that comes to its end has
\* shown every candle, for any candles, steps and filters (ChartReplay.tsx, Chart.tsx).
THEOREM ReplayStaysHonest == Spec => ReplayIsHonest
<1> DEFINE Good == part = "replay" => ReplayInvariant
           Honest == part = "replay" => Replay!FutureHidden' /\ Replay!ShowsAllAtEnd
<1>1. ReplayAssumption
  BY PartsAssumption DEF ReplayAssumption
<1>2. Init => Good
  BY <1>1, ReplayStart DEF Init
<1>3. Good /\ [Next]_vars => Good' /\ Honest
  <2> SUFFICES ASSUME Good, [Next]_vars, part' = "replay"
               PROVE  ReplayInvariant' /\ Replay!FutureHidden' /\ Replay!ShowsAllAtEnd
    BY PartStays, Zenon
  <2>1. part = "replay" /\ [Replay!Next]_Replay!vars
    BY ReplayMoves, Zenon
  <2>2. ReplayInvariant'
    BY <1>1, <2>1, ReplayKept
  <2>3. Replay!ShowsAllAtEnd
    BY <1>1, <2>1, ReplayEnds
  <2> QED
    BY <2>2, <2>3 DEF ReplayInvariant
<1>4. ReplayIsHonest <=> [][Honest]_vars
  BY DEF ReplayIsHonest
<1> HIDE DEF Good, Honest
<1> QED
  BY <1>2, <1>3, <1>4, PTL DEF Spec

\* Whatever is stored, synced or chosen under the chart, every pager is on a page there is, the
\* markers are those of the symbol, and none of its trades is missing (Chart.tsx).
THEOREM BoardHolds == Spec => []BoardIsSound
<1> DEFINE Good == part = "board" => BoardInvariant
<1>1. BoardAssumption
  BY PartsAssumption DEF BoardAssumption
<1>2. Init => Good
  BY <1>1, BoardStart DEF Init
<1>3. Good /\ [Next]_vars => Good'
  <2> SUFFICES ASSUME Good, [Next]_vars, part' = "board" PROVE BoardInvariant'
    OBVIOUS
  <2>1. part = "board" /\ [Board!Next]_Board!vars
    BY BoardMoves, Zenon
  <2> QED
    BY <1>1, <2>1, BoardKept
<1>4. Good => BoardIsSound
  BY <1>1, BoardSound DEF BoardIsSound
<1> HIDE DEF Good
<1> QED
  BY <1>2, <1>3, <1>4, PTL DEF Spec

\* What the page of summaries shows as loaded is as young as its last refresh, and no choice
\* strands the reader, for any notes and any order of answers (review/page.tsx).
THEOREM SummariesStayFresh == Spec => SummariesAreFresh
<1> DEFINE Good == part = "summaries" => SummaryInvariant
           Fresh == part = "summaries" => Summaries!NotesAreOfRefresh' /\ Summaries!KeepsCards
<1>1. Summaries!BoundAssumption
  BY PartsAssumption
<1>2. Init => Good
  BY <1>1, SummariesStart DEF Init
<1>3. Good /\ [Next]_vars => Good' /\ Fresh
  <2> SUFFICES ASSUME Good, [Next]_vars, part' = "summaries"
               PROVE  SummaryInvariant' /\ Summaries!NotesAreOfRefresh' /\ Summaries!KeepsCards
    BY PartStays, Zenon
  <2>1. part = "summaries" /\ [Summaries!Next]_Summaries!vars
    BY SummariesMove, Zenon
  <2>2. SummaryInvariant'
    BY <1>1, <2>1, SummariesKept
  <2>3. Summaries!KeepsCards
    BY <1>1, <2>1, SummariesKeepCards
  <2> QED
    BY <2>2, <2>3 DEF SummaryInvariant
<1>4. SummariesAreFresh <=> [][Fresh]_vars
  BY DEF SummariesAreFresh
<1> HIDE DEF Good, Fresh
<1> QED
  BY <1>2, <1>3, <1>4, PTL DEF Spec

\* Statistics, totals and the portfolio are those of the filters that are set, for any venues and
\* numbers of trades, in whatever order requests are answered (reviewStore.ts, HomeSnapshot.tsx,
\* PortfolioDashboard.tsx).
THEOREM FiguresHold == Spec => []FiguresFit
<1> DEFINE Good == /\ part = "fetches" => FetchInvariant
                   /\ part = "home" => TotalInvariant
                   /\ part = "portfolio" => PortfolioInvariant
<1>1. FetchAssumption /\ TotalAssumption /\ PortfolioAssumption
  BY PartsAssumption DEF FetchAssumption, TotalAssumption, PortfolioAssumption
<1>2. Init => Good
  BY <1>1, FetchesStart, TotalsStart, PortfolioStart DEF Init
<1>3. Good /\ [Next]_vars => Good'
  <2> SUFFICES ASSUME Good, [Next]_vars PROVE Good'
    OBVIOUS
  <2>1. ASSUME part' = "fetches" PROVE FetchInvariant'
    <3>1. part = "fetches" /\ [Fetches!Next]_Fetches!vars
      BY <2>1, FetchesMove, Zenon
    <3> QED
      BY <1>1, <3>1, FetchesKept
  <2>2. ASSUME part' = "home" PROVE TotalInvariant'
    <3>1. part = "home" /\ [Totals!Next]_Totals!vars
      BY <2>2, TotalsMove, Zenon
    <3> QED
      BY <1>1, <3>1, TotalsKept
  <2>3. ASSUME part' = "portfolio" PROVE PortfolioInvariant'
    <3>1. part = "portfolio" /\ [Portfolio!Next]_Portfolio!vars
      BY <2>3, PortfolioMoves, Zenon
    <3> QED
      BY <1>1, <3>1, PortfolioKept
  <2> QED
    BY <2>1, <2>2, <2>3, Zenon
<1>4. Good => FiguresFit
  BY <1>1, FetchesSound, TotalsSound, PortfolioSound DEF FiguresFit
<1> HIDE DEF Good
<1> QED
  BY <1>2, <1>3, <1>4, PTL DEF Spec

\* A fill on the page of trades is called what it did to the account, for any symbols and numbers
\* of fills, wherever the page begins with the account flat (futuresActionById in Trades.tsx).
THEOREM LabelsHold == Spec => []LabelsAreTrue
<1> DEFINE Good == part = "labels" => LabelInvariant
<1>1. Init => Good
  BY LabelsBegin DEF Init
<1>2. Good /\ [Next]_vars => Good'
  <2> SUFFICES ASSUME Good, [Next]_vars, part' = "labels" PROVE LabelInvariant'
    OBVIOUS
  <2>1. part = "labels" /\ [Labels!Next]_Labels!vars
    BY LabelsMove, Zenon
  <2> QED
    BY <2>1, LabelsStay
<1>3. Good => LabelsAreTrue
  BY DEF LabelInvariant, LabelsAreTrue
<1> HIDE DEF Good
<1> QED
  BY <1>1, <1>2, <1>3, PTL DEF Spec

\* Markers are no more than the density allows, count what they stand for, and stand where one of
\* those was made, for any trades, spacing and limits (overlay markers in Chart.tsx).
THEOREM MarkersHold == Spec => []MarkersAreTrue
<1> DEFINE Good == part = "markers" => Markers!TypeOK
<1>1. MarkerAssumption
  BY PartsAssumption DEF MarkerAssumption
<1>2. Init => Good
  BY <1>1, MarkersBegin DEF Init
<1>3. Good /\ [Next]_vars => Good'
  <2> SUFFICES ASSUME Good, [Next]_vars, part' = "markers" PROVE Markers!TypeOK'
    OBVIOUS
  <2>1. part = "markers" /\ [Markers!Next]_Markers!vars
    BY MarkersMove, Zenon
  <2> QED
    BY <2>1, MarkersStay
<1>4. Good => MarkersAreTrue
  BY <1>1, DensityIsTrue DEF MarkersAreTrue
<1> HIDE DEF Good
<1> QED
  BY <1>2, <1>3, <1>4, PTL DEF Spec

\* Over the days no trade is asked about twice, and the streak is a run of completed days, for any
\* days, trades and completions that overlap (guided_review_repository_impl.go).
THEOREM DaysHold == Spec => []DaysAreSound
<1> DEFINE Good == part = "days" => DaysInvariant
<1>1. GuidedDay!DaysAssumption /\ LastDay \in Nat
  BY PartsAssumption DEF GuidedDay!DaysAssumption
<1>2. Init => Good
  BY <1>1, DaysBegin DEF Init
<1>3. Good /\ [Next]_vars => Good'
  <2> SUFFICES ASSUME Good, [Next]_vars, part' = "days" PROVE DaysInvariant'
    OBVIOUS
  <2>1. part = "days" /\ [GuidedDay!Next]_GuidedDay!vars
    BY DaysMove, Zenon
  <2> QED
    BY <2>1, DaysStay
<1>4. Good => DaysAreSound
  BY <1>1, DaysFollow DEF DaysAreSound
<1> HIDE DEF Good
<1> QED
  BY <1>2, <1>3, <1>4, PTL DEF Spec
=============================================================================
