------------------------- MODULE BrowserSessionProofs -------------------------
(***************************************************************************)
(* Proofs about BrowserSession, for any number of tabs, calls, accounts    *)
(* and token pairs: the types, that a tab renews once at a time and is not *)
(* signed out without a mishap; and, for a browser with one tab, that what *)
(* the tab keeps of an account is that account's.                          *)
(***************************************************************************)
EXTENDS BrowserSession, FiniteSetTheorems, TLAPS

\* The actions of Next one by one, as the case splits below need them.
LEMMA StepCases ==
    ASSUME Next
    PROVE  \/ \E p \in Pairs : AccessExpires(p)
           \/ \E x \in exchange : CheckToken(x) \/ Rotate(x) \/ RotateFails(x)
           \/ \E t \in Tabs, c \in Calls :
                \/ Send(t, c) \/ Answer(t, c) \/ CallLost(t, c) \/ GiveUp(t, c)
                \/ NoRefreshToken(t, c) \/ JoinRefresh(t, c) \/ StartRefresh(t, c)
           \/ \E t \in Tabs, d \in Doors : Submit(t, d) \/ Rejected(t, d)
           \/ \E t \in Tabs, u \in Users : LogIn(t, u) \/ SignUp(t, u) \/ SocialCallback(t, u)
           \/ \E t \in Tabs : ContinueAsGuest(t) \/ StartGuestSession(t) \/ LogOut(t) \/ Load(t)
           \/ \E x \in exchange : Renewed(x) \/ RefreshFailed(x) \/ RefreshLost(x) \/ Denied(x)
  BY Zenon DEF Next, Server, Browser, Arrives

-----------------------------------------------------------------------------
(* Types *)

LEMMA IdleTyped == SessionBounds => Idle \in Call
  BY DEF SessionBounds, Idle, Call

\* The server's part of the types.
ServerTyped ==
    /\ owner \in [Pairs -> Users \cup {Nobody}]
    /\ row \in [Pairs -> {"none", "live", "revoked"}]
    /\ fresh \subseteq Pairs

LEMMA IssueTypes ==
    ASSUME ServerTyped, NEW p, NEW u \in Users \cup {Nobody}, NEW R, Issue(p, u, R)
    PROVE  ServerTyped' /\ p \in Pairs
  BY DEF ServerTyped, Issue, Unissued

\* What the server makes of a request is one.
LEMMA RequestTypes ==
    ASSUME NEW x \in Exchange
    PROVE  /\ [x EXCEPT !.at = "denied"] \in Exchange
           /\ [x EXCEPT !.at = "granted"] \in Exchange
           /\ [x EXCEPT !.at = "failed"] \in Exchange
           /\ [x EXCEPT !.tab = Gone] \in Exchange
           /\ SessionBounds => \A p \in Pairs : [x EXCEPT !.at = "renewed", !.pair = p] \in Exchange
<1>1. [x EXCEPT !.at = "denied"] \in Exchange
  BY DEF Exchange
<1>2. [x EXCEPT !.at = "granted"] \in Exchange
  BY DEF Exchange
<1>3. [x EXCEPT !.at = "failed"] \in Exchange
  BY DEF Exchange
<1>4. [x EXCEPT !.tab = Gone] \in Exchange
  BY DEF Exchange
<1>5. ASSUME SessionBounds, NEW p \in Pairs PROVE [x EXCEPT !.at = "renewed", !.pair = p] \in Exchange
  <2>1. p \in 0 .. MaxPairs
    BY <1>5 DEF Pairs, SessionBounds
  <2>2. [x EXCEPT !.at = "renewed"] \in Exchange
    BY DEF Exchange
  <2>3. ASSUME NEW y \in Exchange PROVE [y EXCEPT !.pair = p] \in Exchange
    BY <2>1 DEF Exchange
  <2>4. [x EXCEPT !.at = "renewed", !.pair = p] = [[x EXCEPT !.at = "renewed"] EXCEPT !.pair = p]
    BY Zenon
  <2> QED
    BY <2>2, <2>3, <2>4
<1> QED
  BY <1>1, <1>2, <1>3, <1>4, <1>5

\* It is still the same request.
LEMMA RequestStays ==
    ASSUME NEW x \in Exchange
    PROVE  /\ \A a \in {"denied", "granted", "failed"} :
                /\ [x EXCEPT !.at = a].tab = x.tab
                /\ [x EXCEPT !.at = a].token = x.token
                /\ [x EXCEPT !.at = a].at = a
           /\ [x EXCEPT !.tab = Gone].tab = Gone
           /\ [x EXCEPT !.tab = Gone].token = x.token
           /\ [x EXCEPT !.tab = Gone].at = x.at
           /\ [x EXCEPT !.tab = Gone].pair = x.pair
           /\ \A p \in Pairs :
                /\ [x EXCEPT !.at = "renewed", !.pair = p].tab = x.tab
                /\ [x EXCEPT !.at = "renewed", !.pair = p].token = x.token
                /\ [x EXCEPT !.at = "renewed", !.pair = p].at = "renewed"
                /\ [x EXCEPT !.at = "renewed", !.pair = p].pair = p
  BY DEF Exchange

LEMMA LeaveTypes ==
    ASSUME TypeOK, SessionBounds, NEW t \in Tabs, Leave(t)
    PROVE  /\ isRefreshing' \in [Tabs -> BOOLEAN]
           /\ call' \in [Tabs -> [Calls -> Call]]
           /\ signing' \in [Tabs -> SUBSET Doors]
           /\ exchange' \subseteq Exchange
<1>1. [c \in Calls |-> Idle] \in [Calls -> Call]
  BY IdleTyped
<1>2. \A x \in exchange : [x EXCEPT !.tab = Gone] \in Exchange
  BY RequestTypes DEF TypeOK
<1>3. exchange' \subseteq Exchange
  BY <1>2 DEF TypeOK, Leave, Unanswered, Mine
<1> QED
  BY <1>1, <1>3 DEF TypeOK, Leave

LEMMA TypeInit == SessionBounds /\ Init => TypeOK
<1> SUFFICES ASSUME SessionBounds, Init PROVE TypeOK
  OBVIOUS
<1>1. [c \in Calls |-> Idle] \in [Calls -> Call]
  BY IdleTyped
<1>2. call \in [Tabs -> [Calls -> Call]]
  BY <1>1 DEF Init
<1>3. ServerTyped
  BY DEF Init, ServerTyped
<1>4. disk \in [pair : 0 .. MaxPairs, journal : Users \cup {Nobody}, guest : BOOLEAN]
  BY DEF Init, SessionBounds
<1>5. memory \in [Tabs -> 0 .. MaxPairs] /\ faults \in 0 .. MaxFaults
  BY DEF Init, SessionBounds
<1> QED
  BY <1>2, <1>3, <1>4, <1>5 DEF Init, TypeOK, ServerTyped

LEMMA MishapTypes == ASSUME TypeOK, NEW lost \in BOOLEAN, Mishap(lost) PROVE mishap' \in BOOLEAN
  BY DEF TypeOK, Mishap, TwoHolders

LEMMA TypeServer ==
    ASSUME TypeOK, SessionBounds, NEW x \in exchange, CheckToken(x) \/ Rotate(x) \/ RotateFails(x)
    PROVE  TypeOK'
<1>1. x \in Exchange /\ x.token \in Pairs /\ owner[x.token] \in Users \cup {Nobody}
  BY DEF TypeOK, Exchange
<1>2. \A y \in Exchange : Answered(x, y) \subseteq Exchange
  BY DEF TypeOK, Answered
<1>3. ServerTyped
  BY DEF TypeOK, ServerTyped
<1>4. CASE CheckToken(x)
  <2>1. exchange' \subseteq Exchange
    <3>1. exchange' = Answered(x, [x EXCEPT !.at = "denied"]) \/ exchange' = (exchange \ {x}) \cup {[x EXCEPT !.at = "granted"]}
      BY <1>4 DEF CheckToken
    <3>2. exchange \subseteq Exchange
      BY DEF TypeOK
    <3>3. [x EXCEPT !.at = "denied"] \in Exchange /\ [x EXCEPT !.at = "granted"] \in Exchange
      BY <1>1, RequestTypes
    <3> QED
      BY <1>2, <3>1, <3>2, <3>3
  <2> QED
    BY <1>4, <2>1 DEF CheckToken, TypeOK
<1>5. CASE Rotate(x)
  <2>1. PICK p \in Unissued : /\ Issue(p, owner[x.token], {x.token})
                              /\ exchange' = Answered(x, [x EXCEPT !.at = "renewed", !.pair = p])
    BY <1>5 DEF Rotate
  <2>2. ServerTyped' /\ p \in Pairs
    BY <1>1, <1>3, <2>1, IssueTypes
  <2>3. exchange' \subseteq Exchange
    BY <1>1, <1>2, <2>1, <2>2, RequestTypes
  <2> QED
    BY <1>5, <2>2, <2>3 DEF Rotate, TypeOK, ServerTyped
<1>6. CASE RotateFails(x)
  <2>1. exchange' \subseteq Exchange
    BY <1>1, <1>2, <1>6, RequestTypes DEF RotateFails
  <2>2. ServerTyped'
    BY <1>1, <1>3, <1>6, IssueTypes DEF RotateFails, ServerTyped, server
  <2>3. faults' \in 0 .. MaxFaults
    BY <1>6 DEF RotateFails, SessionBounds, TypeOK
  <2> QED
    BY <1>6, <2>1, <2>2, <2>3 DEF RotateFails, TypeOK, ServerTyped
<1> QED
  BY <1>4, <1>5, <1>6

\* Calls of a tab change what the tab keeps and send a renewal at most.
LEMMA TypeCalls ==
    ASSUME TypeOK, SessionBounds, NEW t \in Tabs, NEW c \in Calls,
           \/ Send(t, c) \/ Answer(t, c) \/ CallLost(t, c) \/ GiveUp(t, c)
           \/ NoRefreshToken(t, c) \/ JoinRefresh(t, c) \/ StartRefresh(t, c)
    PROVE  TypeOK'
<1> USE DEF TypeOK
<1>0. call[t] \in [Calls -> Call] /\ call[t][c] \in Call
  OBVIOUS
<1>1. ASSUME NEW k \in Call, call' = [call EXCEPT ![t][c] = k]
      PROVE  call' \in [Tabs -> [Calls -> Call]]
  BY <1>0, <1>1
<1>2. CASE Send(t, c)
  BY <1>1, <1>2 DEF Send, Call
<1>3. CASE Answer(t, c)
  <2>1. call[t][c].with \in Pairs
    BY <1>3 DEF Answer
  <2> QED
    BY <1>1, <1>3, <2>1, IdleTyped DEF Answer, Settle
<1>4. CASE CallLost(t, c)
  BY <1>1, <1>4, IdleTyped DEF CallLost, Settle, SessionBounds
<1>5. CASE GiveUp(t, c)
  BY <1>1, <1>5, IdleTyped DEF GiveUp, Settle
<1>6. CASE NoRefreshToken(t, c)
  <2>1. mishap' \in BOOLEAN
    BY <1>6, MishapTypes DEF NoRefreshToken
  <2> QED
    BY <1>6, <2>1, LeaveTypes DEF NoRefreshToken, SetPair, SessionBounds
<1>7. CASE JoinRefresh(t, c)
  <2>1. call' \in [Tabs -> [Calls -> Call]]
    BY <1>0, <1>7 DEF JoinRefresh, Call
  <2> QED
    BY <1>7, <2>1 DEF JoinRefresh
<1>8. CASE StartRefresh(t, c)
  <2>1. mishap' \in BOOLEAN
    BY <1>8, MishapTypes DEF StartRefresh
  <2>2. call' \in [Tabs -> [Calls -> Call]]
    BY <1>0, <1>8 DEF StartRefresh, Call
  <2>3. [tab |-> t, token |-> memory[t], at |-> "sent", pair |-> 0] \in Exchange
    BY <1>8 DEF StartRefresh, Exchange, Pairs, SessionBounds
  <2> QED
    BY <1>8, <2>1, <2>2, <2>3 DEF StartRefresh
<1> QED
  BY <1>2, <1>3, <1>4, <1>5, <1>6, <1>7, <1>8

LEMMA ResetTypes ==
    ASSUME TypeOK, SessionBounds, GuestAssumption, NEW t \in Tabs, NEW p \in 0 .. MaxPairs, NEW g \in BOOLEAN, Reset(t, p, g)
    PROVE  /\ memory' \in [Tabs -> 0 .. MaxPairs]
           /\ journal' \in [Tabs -> Users \cup {Nobody}]
           /\ disk' \in [pair : 0 .. MaxPairs, journal : Users \cup {Nobody}, guest : BOOLEAN]
  BY DEF TypeOK, Reset

LEMMA TypeDoors ==
    ASSUME TypeOK, SessionBounds, GuestAssumption, NEW t \in Tabs,
           \/ \E d \in Doors : Submit(t, d) \/ Rejected(t, d)
           \/ \E u \in Users : LogIn(t, u) \/ SignUp(t, u) \/ SocialCallback(t, u)
           \/ ContinueAsGuest(t) \/ StartGuestSession(t) \/ LogOut(t) \/ Load(t)
    PROVE  TypeOK'
<1>0. ServerTyped /\ Pairs \subseteq 0 .. MaxPairs
  BY DEF TypeOK, ServerTyped, Pairs, SessionBounds
<1>1. ASSUME NEW d \in Doors, Submit(t, d) \/ Rejected(t, d) PROVE TypeOK'
  <2>1. signing' \in [Tabs -> SUBSET Doors]
    BY <1>1 DEF TypeOK, Submit, Rejected
  <2>2. CASE Submit(t, d)
    BY <2>1, <2>2 DEF TypeOK, Submit
  <2>3. CASE Rejected(t, d)
    BY <2>1, <2>3 DEF TypeOK, Rejected, SetPair, SessionBounds
  <2> QED
    BY <1>1, <2>2, <2>3
<1>2. ASSUME NEW u \in Users, LogIn(t, u) \/ SignUp(t, u) PROVE TypeOK'
  <2>1. /\ \E p \in Pairs : Issue(p, u, {}) /\ Reset(t, p, FALSE)
        /\ Leave(t) /\ Mishap(Mine(t) # {})
        /\ UNCHANGED <<faults, tainted, forcedOut>>
    BY <1>2 DEF LogIn, SignUp
  <2>2. mishap' \in BOOLEAN
    BY <2>1, MishapTypes
  <2>3. ServerTyped'
    BY <1>0, <2>1, IssueTypes
  <2> QED
    BY <1>0, <2>1, <2>2, <2>3, ResetTypes, LeaveTypes DEF TypeOK, ServerTyped
<1>3. ASSUME NEW u \in Users, SocialCallback(t, u) PROVE TypeOK'
  <2>1. mishap' \in BOOLEAN
    BY <1>3, MishapTypes DEF SocialCallback
  <2>2. PICK p \in Pairs : /\ Issue(p, u, {})
                           /\ memory' = [memory EXCEPT ![t] = p]
                           /\ disk' = [disk EXCEPT !.pair = p]
    BY <1>3 DEF SocialCallback
  <2>3. ServerTyped'
    BY <1>0, <2>2, IssueTypes
  <2>4. Leave(t)
    BY <1>3 DEF SocialCallback
  <2>5. tainted' \in BOOLEAN
    BY <1>3, Zenon DEF SocialCallback
  <2> QED
    BY <1>0, <1>3, <2>1, <2>2, <2>3, <2>4, <2>5, LeaveTypes DEF TypeOK, ServerTyped, SocialCallback
<1>4. CASE ContinueAsGuest(t)
  <2>1. mishap' \in BOOLEAN
    BY <1>4, MishapTypes DEF ContinueAsGuest
  <2>2. ServerTyped'
    BY <1>0, <1>4, IssueTypes DEF ContinueAsGuest, GuestAssumption
  <2>3. tainted' \in BOOLEAN
    BY <1>4, Zenon DEF ContinueAsGuest
  <2> QED
    BY <1>0, <1>4, <2>1, <2>2, <2>3, ResetTypes DEF TypeOK, ServerTyped, ContinueAsGuest
<1>5. CASE StartGuestSession(t)
  <2>1. mishap' \in BOOLEAN
    BY <1>5, MishapTypes DEF StartGuestSession
  <2>2. ServerTyped'
    BY <1>0, <1>5, IssueTypes DEF StartGuestSession, GuestAssumption
  <2>3. tainted' \in BOOLEAN
    BY <1>5, Zenon DEF StartGuestSession
  <2>4. /\ memory' \in [Tabs -> 0 .. MaxPairs]
        /\ disk' \in [pair : 0 .. MaxPairs, journal : Users \cup {Nobody}, guest : BOOLEAN]
    <3>1. PICK p \in Pairs : /\ memory' = [memory EXCEPT ![t] = p]
                             /\ disk' = [disk EXCEPT !.pair = p, !.guest = TRUE]
      BY <1>5 DEF StartGuestSession
    <3>2. p \in 0 .. MaxPairs
      BY <1>0
    <3>3. disk' = [pair |-> p, journal |-> disk.journal, guest |-> TRUE]
      BY <3>1 DEF TypeOK
    <3> QED
      BY <3>1, <3>2, <3>3 DEF TypeOK
  <2>5. UNCHANGED <<journal, isRefreshing, call, signing, exchange, faults, forcedOut>>
    BY <1>5 DEF StartGuestSession
  <2> QED
    BY <2>1, <2>2, <2>3, <2>4, <2>5 DEF TypeOK, ServerTyped
<1>6. CASE LogOut(t)
  <2>1. mishap' \in BOOLEAN
    BY <1>6, MishapTypes DEF LogOut
  <2>2. tainted' \in BOOLEAN
    BY <1>6, Zenon DEF LogOut
  <2>3. 0 \in 0 .. MaxPairs
    BY DEF SessionBounds
  <2>4. Reset(t, 0, FALSE)
    BY <1>6, Zenon DEF LogOut
  <2> QED
    BY <1>6, <2>1, <2>2, <2>3, <2>4, ResetTypes DEF TypeOK, LogOut
<1>7. CASE Load(t)
  <2>1. mishap' \in BOOLEAN
    BY <1>7, MishapTypes DEF Load
  <2> QED
    BY <1>7, <2>1, LeaveTypes DEF TypeOK, Load
<1> QED
  BY <1>1, <1>2, <1>3, <1>4, <1>5, <1>6, <1>7

LEMMA TypeArrives ==
    ASSUME TypeOK, SessionBounds, NEW x \in exchange,
           Renewed(x) \/ RefreshFailed(x) \/ RefreshLost(x) \/ Denied(x)
    PROVE  TypeOK'
<1>1. x \in Exchange /\ x.tab \in Tabs
  BY DEF TypeOK, Renewed, RefreshFailed, RefreshLost, Denied
<1>2. \A k \in Call : [c \in Calls |-> IF c \in Awaiting(x.tab) THEN k ELSE call[x.tab][c]] \in [Calls -> Call]
  BY <1>1 DEF TypeOK
<1>3. RejectWaiting(x) => isRefreshing' \in [Tabs -> BOOLEAN] /\ call' \in [Tabs -> [Calls -> Call]]
  BY <1>1, <1>2, IdleTyped DEF TypeOK, RejectWaiting
<1>4. CASE Renewed(x)
  <2>1. mishap' \in BOOLEAN
    BY <1>4, MishapTypes DEF Renewed
  <2>2. x.pair \in 0 .. MaxPairs
    BY <1>1 DEF Exchange
  <2>3. call' \in [Tabs -> [Calls -> Call]]
    <3>1. [at |-> "sent", with |-> x.pair, retried |-> TRUE] \in Call
      BY <2>2 DEF Call
    <3> QED
      BY <1>1, <1>2, <1>4, <3>1 DEF Renewed, TypeOK
  <2> QED
    BY <1>1, <1>4, <2>1, <2>2, <2>3 DEF TypeOK, Renewed, SetPair
<1>5. CASE RefreshFailed(x)
  BY <1>3, <1>5 DEF TypeOK, RefreshFailed
<1>6. CASE RefreshLost(x)
  <2>1. mishap' \in BOOLEAN
    BY <1>6, MishapTypes DEF RefreshLost
  <2>2. exchange' \subseteq exchange \cup {[x EXCEPT !.tab = Gone]}
    BY <1>6, Zenon DEF RefreshLost, Unanswered
  <2>3. exchange' \subseteq Exchange
    <3>1. [x EXCEPT !.tab = Gone] \in Exchange
      BY <1>1, RequestTypes
    <3> QED
      BY <2>2, <3>1 DEF TypeOK
  <2>4. faults' \in 0 .. MaxFaults
    BY <1>6 DEF RefreshLost, SessionBounds, TypeOK
  <2> QED
    BY <1>3, <1>6, <2>1, <2>3, <2>4 DEF TypeOK, RefreshLost
<1>7. CASE Denied(x)
  <2>1. mishap' \in BOOLEAN
    BY <1>7, MishapTypes DEF Denied
  <2>2. call' \in [Tabs -> [Calls -> Call]]
    BY <1>1, <1>7, IdleTyped DEF TypeOK, Denied
  <2>3. 0 \in 0 .. MaxPairs
    BY DEF SessionBounds
  <2> QED
    BY <1>1, <1>7, <2>1, <2>2, <2>3 DEF TypeOK, Denied, SetPair
<1> QED
  BY <1>4, <1>5, <1>6, <1>7

LEMMA TypeStep == SessionBounds /\ GuestAssumption /\ TypeOK /\ [Next]_vars => TypeOK'
<1> SUFFICES ASSUME SessionBounds, GuestAssumption, TypeOK, [Next]_vars PROVE TypeOK'
  OBVIOUS
<1>1. ASSUME NEW p \in Pairs, AccessExpires(p) PROVE TypeOK'
  BY <1>1 DEF TypeOK, AccessExpires
<1>2. CASE UNCHANGED vars
  BY <1>2 DEF TypeOK, vars
<1> QED
  BY StepCases, TypeServer, TypeCalls, TypeDoors, TypeArrives, <1>1, <1>2

\* Every part of the session keeps its type.
THEOREM Typing ==
    ASSUME SessionBounds, GuestAssumption
    PROVE  Spec => []TypeOK
  BY TypeInit, TypeStep, PTL DEF Spec

-----------------------------------------------------------------------------
(* One renewal at a time *)

\* SingleFlight without counting.
Flight(t) ==
    /\ isRefreshing[t] <=> \E x \in exchange : x.tab = t
    /\ isRefreshing[t] <=> \E c \in Calls : call[t][c].at \in {"queued", "refreshing"}
    /\ \A x, y \in exchange : x.tab = t /\ y.tab = t => x = y

LEMMA FlightIsSingle == ASSUME TypeOK, \A t \in Tabs : Flight(t) PROVE SingleFlight
<1> SUFFICES ASSUME NEW t \in Tabs
             PROVE  /\ Cardinality(Mine(t)) = (IF isRefreshing[t] THEN 1 ELSE 0)
                    /\ Awaiting(t) # {} <=> isRefreshing[t]
  BY DEF SingleFlight
<1>1. Awaiting(t) # {} <=> isRefreshing[t]
  BY DEF Flight, Awaiting
<1>2. CASE isRefreshing[t]
  <2>1. PICK x \in exchange : Mine(t) = {x}
    BY <1>2 DEF Flight, Mine
  <2> QED
    BY <1>1, <1>2, <2>1, FS_Singleton
<1>3. CASE ~ isRefreshing[t]
  <2>1. Mine(t) = {}
    BY <1>3 DEF Flight, Mine
  <2> QED
    BY <1>1, <1>3, <2>1, FS_EmptySet
<1> QED
  BY <1>2, <1>3

\* The renewal of a tab is over, and so is the waiting for it.
Ends(t) ==
    /\ isRefreshing' = [isRefreshing EXCEPT ![t] = FALSE]
    /\ \A x \in exchange' : x.tab # t
    /\ \A x : x.tab \in Tabs \ {t} => (x \in exchange' <=> x \in exchange)
    /\ \A c \in Calls : call'[t][c].at \in {"idle", "sent"}
    /\ \A s \in Tabs \ {t} : call'[s] = call[s]

LEMMA EndsFlight ==
    ASSUME TypeOK, NEW t \in Tabs, Ends(t), \A s \in Tabs : Flight(s), NEW s \in Tabs
    PROVE  Flight(s)'
<1>1. CASE s = t
  BY <1>1, SMTT(30) DEF Ends, Flight, TypeOK
<1>2. CASE s # t
  BY <1>2 DEF Ends, Flight, TypeOK
<1> QED
  BY <1>1, <1>2

LEMMA LeaveEnds == ASSUME TypeOK, TabsAssumption, NEW t \in Tabs, Leave(t) PROVE Ends(t)
<1>1. \A x \in exchange : [x EXCEPT !.tab = Gone].tab = Gone
  BY DEF TypeOK, Exchange
<1>2. \A x \in exchange' : x.tab # t
  BY <1>1 DEF Leave, Mine, Unanswered, TabsAssumption
<1>3. ASSUME NEW x, x.tab \in Tabs \ {t} PROVE x \in exchange' <=> x \in exchange
  BY <1>1, <1>3 DEF Leave, Mine, Unanswered, TabsAssumption
<1>4. \A c \in Calls : call'[t][c].at \in {"idle", "sent"}
  BY DEF Leave, Idle, TypeOK
<1> QED
  BY <1>2, <1>3, <1>4 DEF Ends, Leave, TypeOK

LEMMA ArrivalEnds ==
    ASSUME TypeOK, TabsAssumption, \A t \in Tabs : Flight(t), NEW x \in exchange,
           Renewed(x) \/ RefreshFailed(x) \/ RefreshLost(x) \/ Denied(x)
    PROVE  x.tab \in Tabs /\ Ends(x.tab)
<1>1. x.tab \in Tabs
  BY DEF Renewed, RefreshFailed, RefreshLost, Denied
<1>2. exchange' = exchange \ {x} \/ exchange' = (exchange \ {x}) \cup {[y EXCEPT !.tab = Gone] : y \in Unanswered({x})}
  BY DEF Renewed, RefreshFailed, RefreshLost, Denied
<1>3. [x EXCEPT !.tab = Gone].tab = Gone
  BY DEF TypeOK, Exchange
<1>4. \A y \in exchange' : y.tab # x.tab
  <2>1. \A y \in exchange : y.tab = x.tab => y = x
    BY <1>1 DEF Flight
  <2> QED
    BY <1>1, <1>2, <1>3, <2>1 DEF Unanswered, TabsAssumption
<1>5. ASSUME NEW y, y.tab \in Tabs \ {x.tab} PROVE y \in exchange' <=> y \in exchange
  BY <1>2, <1>3, <1>5 DEF Unanswered, TabsAssumption
<1>6. /\ \A c \in Calls : call'[x.tab][c].at \in {"idle", "sent"}
      /\ \A s \in Tabs \ {x.tab} : call'[s] = call[s]
  <2>1. CASE Renewed(x)
    <3>1. call' = [call EXCEPT ![x.tab] = [c \in Calls |->
                      IF c \in Awaiting(x.tab)
                      THEN [at |-> "sent", with |-> x.pair, retried |-> TRUE] ELSE call[x.tab][c]]]
      BY <2>1 DEF Renewed
    <3> QED
      BY <1>1, <3>1 DEF TypeOK, Awaiting, Call
  <2>2. CASE Denied(x)
    BY <1>1, <2>2 DEF Denied, Idle, TypeOK
  <2>3. CASE RejectWaiting(x)
    BY <1>1, <2>3 DEF RejectWaiting, Idle, TypeOK, Awaiting, Call
  <2> QED
    BY <2>1, <2>2, <2>3 DEF RefreshFailed, RefreshLost
<1>7. isRefreshing' = [isRefreshing EXCEPT ![x.tab] = FALSE]
  BY DEF Renewed, RefreshFailed, RefreshLost, Denied, RejectWaiting
<1> QED
  BY <1>1, <1>4, <1>5, <1>6, <1>7 DEF Ends

\* A step of the server moves one request on.
Moves(x, y) ==
    \/ exchange' = (exchange \ {x}) \cup {y}
    \/ x.tab = Gone /\ exchange' = exchange \ {x}

\* The request after the step.
LEMMA ServerMoves ==
    ASSUME TypeOK, SessionBounds, NEW x \in exchange, CheckToken(x) \/ Rotate(x) \/ RotateFails(x)
    PROVE  \E y \in Exchange : y.tab = x.tab /\ y.token = x.token /\ Moves(x, y)
<1>1. x \in Exchange
  BY DEF TypeOK
<1>2. \A y : exchange' = Answered(x, y) => Moves(x, y)
  BY DEF Answered, Moves
<1>3. CASE CheckToken(x)
  <2>1. \E y \in {[x EXCEPT !.at = "denied"], [x EXCEPT !.at = "granted"]} : Moves(x, y)
    BY <1>2, <1>3, Zenon DEF CheckToken, Moves
  <2>2. \A y \in {[x EXCEPT !.at = "denied"], [x EXCEPT !.at = "granted"]} :
            y \in Exchange /\ y.tab = x.tab /\ y.token = x.token
    <3>1. \A a \in {"denied", "granted"} :
            /\ [x EXCEPT !.at = a].tab = x.tab
            /\ [x EXCEPT !.at = a].token = x.token
      BY <1>1, RequestStays
    <3> QED
      BY <1>1, <3>1, RequestTypes
  <2> QED
    BY <2>1, <2>2
<1>4. CASE Rotate(x)
  <2>1. PICK p \in Pairs : exchange' = Answered(x, [x EXCEPT !.at = "renewed", !.pair = p])
    BY <1>4 DEF Rotate, Unissued
  <2>2. /\ [x EXCEPT !.at = "renewed", !.pair = p] \in Exchange
        /\ [x EXCEPT !.at = "renewed", !.pair = p].tab = x.tab
        /\ [x EXCEPT !.at = "renewed", !.pair = p].token = x.token
    BY <1>1, RequestTypes, RequestStays, ZenonT(40)
  <2> QED
    BY <1>2, <2>1, <2>2
<1>5. CASE RotateFails(x)
  BY <1>1, <1>2, <1>5, RequestTypes, RequestStays DEF RotateFails
<1> QED
  BY <1>3, <1>4, <1>5

LEMMA ServerFlight ==
    ASSUME TypeOK, SessionBounds, TabsAssumption, \A t \in Tabs : Flight(t), NEW x \in exchange,
           CheckToken(x) \/ Rotate(x) \/ RotateFails(x), NEW t \in Tabs
    PROVE  Flight(t)'
<1>1. PICK y : y.tab = x.tab /\ Moves(x, y)
  BY ServerMoves
<1>2. UNCHANGED <<isRefreshing, call>>
  BY DEF CheckToken, Rotate, RotateFails
<1> QED
  BY <1>1, <1>2 DEF Flight, Moves, TabsAssumption

LEMMA CallFlight ==
    ASSUME TypeOK, TabsAssumption, \A s \in Tabs : Flight(s), NEW t \in Tabs, NEW c \in Calls,
           \/ Send(t, c) \/ Answer(t, c) \/ CallLost(t, c) \/ GiveUp(t, c)
           \/ JoinRefresh(t, c) \/ StartRefresh(t, c), NEW s \in Tabs
    PROVE  Flight(s)'
<1>1. CASE Send(t, c) \/ Answer(t, c) \/ CallLost(t, c) \/ GiveUp(t, c)
  <2>1. /\ call'[t][c].at \in {"idle", "sent"}
        /\ \A u \in Tabs, d \in Calls : u # t \/ d # c => call'[u][d] = call[u][d]
    BY <1>1 DEF Send, Answer, CallLost, GiveUp, Settle, Idle, TypeOK
  <2>2. call[t][c].at \notin {"queued", "refreshing"}
    BY <1>1 DEF Send, Answer, CallLost, GiveUp, Unauthorized
  <2>3. UNCHANGED <<isRefreshing, exchange>>
    BY <1>1 DEF Send, Answer, CallLost, GiveUp
  <2> QED
    BY <2>1, <2>2, <2>3 DEF Flight
<1>2. CASE JoinRefresh(t, c)
  <2>1. /\ call'[t][c].at = "queued"
        /\ \A u \in Tabs, d \in Calls : u # t \/ d # c => call'[u][d] = call[u][d]
        /\ isRefreshing[t] /\ UNCHANGED <<isRefreshing, exchange>>
    BY <1>2 DEF JoinRefresh, TypeOK, Call
  <2> QED
    BY <2>1 DEF Flight
<1>3. CASE StartRefresh(t, c)
  <2>1. /\ call'[t][c].at = "refreshing"
        /\ \A u \in Tabs, d \in Calls : u # t \/ d # c => call'[u][d] = call[u][d]
        /\ ~ isRefreshing[t] /\ isRefreshing'[t]
        /\ \A u \in Tabs : u # t => isRefreshing'[u] = isRefreshing[u]
        /\ exchange' = exchange \cup {[tab |-> t, token |-> memory[t], at |-> "sent", pair |-> 0]}
    BY <1>3 DEF StartRefresh, TypeOK, Call
  <2>2. CASE s = t
    <3>1. ~ \E x \in exchange : x.tab = t
      BY <2>1 DEF Flight
    <3>2. \A x \in exchange' : x.tab = t <=> x = [tab |-> t, token |-> memory[t], at |-> "sent", pair |-> 0]
      BY <2>1, <3>1
    <3>3. \E x \in exchange' : x.tab = t
      <4>1. [tab |-> t, token |-> memory[t], at |-> "sent", pair |-> 0] \in exchange'
        BY <2>1
      <4> QED
        BY <3>2, <4>1
    <3>4. \E d \in Calls : call'[t][d].at \in {"queued", "refreshing"}
      BY <2>1
    <3> QED
      BY <2>1, <2>2, <3>2, <3>3, <3>4 DEF Flight
  <2>3. CASE s # t
    BY <2>1, <2>3 DEF Flight
  <2> QED
    BY <2>2, <2>3
<1> QED
  BY <1>1, <1>2, <1>3

LEMMA DoorFlight ==
    ASSUME TypeOK, TabsAssumption, \A s \in Tabs : Flight(s), NEW t \in Tabs, NEW s \in Tabs,
           \/ \E c \in Calls : NoRefreshToken(t, c)
           \/ \E d \in Doors : Submit(t, d) \/ Rejected(t, d)
           \/ \E u \in Users : LogIn(t, u) \/ SignUp(t, u) \/ SocialCallback(t, u)
           \/ ContinueAsGuest(t) \/ StartGuestSession(t) \/ LogOut(t) \/ Load(t)
    PROVE  Flight(s)'
<1>1. CASE Leave(t)
  BY <1>1, LeaveEnds, EndsFlight
<1>2. CASE UNCHANGED <<isRefreshing, call, exchange>>
  BY <1>2 DEF Flight
<1> QED
  BY <1>1, <1>2 DEF NoRefreshToken, Submit, Rejected, LogIn, SignUp, SocialCallback,
     ContinueAsGuest, StartGuestSession, LogOut, Load

LEMMA FlightStep ==
    ASSUME TypeOK, SessionBounds, TabsAssumption, \A t \in Tabs : Flight(t), [Next]_vars, NEW t \in Tabs
    PROVE  Flight(t)'
<1>1. ASSUME NEW p \in Pairs, AccessExpires(p) PROVE Flight(t)'
  BY <1>1 DEF Flight, AccessExpires
<1>2. CASE UNCHANGED vars
  BY <1>2 DEF Flight, vars
<1> QED
  BY StepCases, ServerFlight, CallFlight, DoorFlight, ArrivalEnds, EndsFlight, <1>1, <1>2

-----------------------------------------------------------------------------
(* Tokens in use were issued *)

Issued(p) == p \in Pairs /\ row[p] # "none"

\* A request carries an issued token and brings back one of the same user.
Tokens ==
    \A x \in exchange :
        /\ Issued(x.token)
        /\ x.at = "renewed" => Issued(x.pair) /\ owner[x.pair] = owner[x.token]

\* So do the stores and the calls under way.
HeldIssued ==
    /\ \A t \in Tabs : memory[t] # 0 => Issued(memory[t])
    /\ disk.pair # 0 => Issued(disk.pair)
    /\ \A t \in Tabs, c \in Calls : call[t][c].at = "sent" => Issued(call[t][c].with)

LEMMA IssueStays ==
    ASSUME TypeOK, NEW p, NEW u, NEW R, Issue(p, u, R)
    PROVE  /\ p \in Pairs /\ row[p] = "none"
           /\ row'[p] = "live" /\ owner'[p] = u
           /\ \A q \in Pairs \ {p} : /\ owner'[q] = owner[q]
                                     /\ row'[q] = IF q \in R THEN "revoked" ELSE row[q]
  BY DEF TypeOK, Issue, Unissued

\* What was issued stays so, and stays its user's.
LEMMA IssuedStay ==
    ASSUME TypeOK, [Next]_vars, NEW q, Issued(q)
    PROVE  Issued(q)' /\ owner'[q] = owner[q]
<1>1. ASSUME NEW p, NEW u, NEW R, Issue(p, u, R) PROVE Issued(q)' /\ owner'[q] = owner[q]
  BY <1>1, IssueStays DEF Issued
<1>2. CASE UNCHANGED <<row, owner>>
  BY <1>2 DEF Issued
<1>3. ASSUME NEW x \in exchange, CheckToken(x) PROVE Issued(q)' /\ owner'[q] = owner[q]
  BY <1>3 DEF Issued, CheckToken, TypeOK
<1>4. ASSUME NEW x \in exchange, Rotate(x) PROVE Issued(q)' /\ owner'[q] = owner[q]
  BY <1>1, <1>4 DEF Rotate
<1>5. ASSUME NEW x \in exchange, RotateFails(x) PROVE Issued(q)' /\ owner'[q] = owner[q]
  BY <1>1, <1>2, <1>5 DEF RotateFails, server
<1>6. ASSUME NEW t \in Tabs, NEW c \in Calls,
             \/ Send(t, c) \/ Answer(t, c) \/ CallLost(t, c) \/ GiveUp(t, c)
             \/ NoRefreshToken(t, c) \/ JoinRefresh(t, c) \/ StartRefresh(t, c)
      PROVE  UNCHANGED <<row, owner>>
  BY <1>6 DEF Send, Answer, CallLost, GiveUp, NoRefreshToken, JoinRefresh, StartRefresh
<1>7. ASSUME NEW t \in Tabs, NEW u \in Users, LogIn(t, u) \/ SignUp(t, u) \/ SocialCallback(t, u)
      PROVE  Issued(q)' /\ owner'[q] = owner[q]
  BY <1>1, <1>7 DEF LogIn, SignUp, SocialCallback
<1>8. ASSUME NEW t \in Tabs, ContinueAsGuest(t) \/ StartGuestSession(t)
      PROVE  Issued(q)' /\ owner'[q] = owner[q]
  BY <1>1, <1>8 DEF ContinueAsGuest, StartGuestSession
<1>9. ASSUME NEW t \in Tabs, NEW d \in Doors, Submit(t, d) \/ Rejected(t, d) PROVE UNCHANGED <<row, owner>>
  BY <1>9 DEF Submit, Rejected
<1>10. ASSUME NEW t \in Tabs, LogOut(t) \/ Load(t) PROVE UNCHANGED <<row, owner>>
  BY <1>10 DEF LogOut, Load
<1>11. ASSUME NEW x \in exchange, Renewed(x) \/ RefreshFailed(x) \/ RefreshLost(x) \/ Denied(x)
       PROVE  UNCHANGED <<row, owner>>
  BY <1>11 DEF Renewed, RefreshFailed, RefreshLost, Denied
<1>12. ASSUME NEW p \in Pairs, AccessExpires(p) PROVE UNCHANGED <<row, owner>>
  BY <1>12 DEF AccessExpires
<1>13. CASE UNCHANGED vars
  BY <1>13, <1>2 DEF vars
<1> QED
  BY StepCases, <1>2, <1>3, <1>4, <1>5, <1>6, <1>7, <1>8, <1>9, <1>10, <1>11, <1>12, <1>13

\* Where a request of the next state comes from: it was there, perhaps of a tab that
\* has left since; the server renewed it; or a tab just made it.
From(x, y) ==
    /\ y.tab \in {x.tab, Gone} /\ y.token = x.token
    /\ y.at = "renewed" => x.at = "renewed" /\ y.pair = x.pair

Made(x, y) ==
    /\ y.tab = x.tab /\ y.token = x.token
    /\ Issue(y.pair, owner[x.token], {x.token})

Begun(t, y) ==
    /\ memory[t] # 0 /\ y.tab = t /\ y.token = memory[t] /\ y.at = "sent"

LEMMA Provenance ==
    ASSUME TypeOK, SessionBounds, [Next]_vars, NEW y \in exchange'
    PROVE  \/ \E x \in exchange : From(x, y) \/ Made(x, y)
           \/ \E t \in Tabs : Begun(t, y)
<1>1. y \in exchange => From(y, y)
  BY DEF From
<1>2. ASSUME NEW x \in exchange, y = [x EXCEPT !.tab = Gone] PROVE From(x, y)
  BY <1>2, RequestStays DEF From, TypeOK
<1>3. ASSUME NEW t \in Tabs, Leave(t) PROVE \E x \in exchange : From(x, y)
  BY <1>1, <1>2, <1>3 DEF Leave, Mine, Unanswered
<1>4. ASSUME NEW x \in exchange, CheckToken(x) \/ RotateFails(x) PROVE \E z \in exchange : From(z, y)
  <2>1. ASSUME NEW a \in {"denied", "granted", "failed"}, y = [x EXCEPT !.at = a] PROVE From(x, y)
    BY <2>1, RequestStays DEF From, TypeOK
  <2>2. y \in exchange \/ \E a \in {"denied", "granted", "failed"} : y = [x EXCEPT !.at = a]
    BY <1>4 DEF CheckToken, RotateFails, Answered
  <2> QED
    BY <1>1, <2>1, <2>2
<1>5. ASSUME NEW x \in exchange, Rotate(x) PROVE \E z \in exchange : From(z, y) \/ Made(z, y)
  <2>1. PICK p \in Unissued : /\ Issue(p, owner[x.token], {x.token})
                              /\ exchange' = Answered(x, [x EXCEPT !.at = "renewed", !.pair = p])
    BY <1>5 DEF Rotate
  <2>2. CASE y = [x EXCEPT !.at = "renewed", !.pair = p]
    <3>1. y.tab = x.tab /\ y.token = x.token /\ y.pair = p
      BY <2>2, RequestStays DEF TypeOK, Unissued
    <3> QED
      BY <2>1, <3>1 DEF Made
  <2> QED
    BY <1>1, <2>1, <2>2 DEF Answered
<1>6. ASSUME NEW t \in Tabs, NEW c \in Calls, StartRefresh(t, c)
      PROVE  (\E x \in exchange : From(x, y)) \/ Begun(t, y)
  <2>1. y \in exchange \/ y = [tab |-> t, token |-> memory[t], at |-> "sent", pair |-> 0]
    BY <1>6 DEF StartRefresh
  <2> QED
    BY <1>1, <1>6, <2>1 DEF StartRefresh, Begun
<1>7. ASSUME NEW x \in exchange, Renewed(x) \/ RefreshFailed(x) \/ RefreshLost(x) \/ Denied(x)
      PROVE  \E z \in exchange : From(z, y)
  BY <1>1, <1>2, <1>7 DEF Renewed, RefreshFailed, RefreshLost, Denied, Unanswered
<1>8. ASSUME NEW t \in Tabs, NEW c \in Calls,
             \/ Send(t, c) \/ Answer(t, c) \/ CallLost(t, c) \/ GiveUp(t, c)
             \/ NoRefreshToken(t, c) \/ JoinRefresh(t, c)
      PROVE  \E x \in exchange : From(x, y)
  BY <1>1, <1>3, <1>8 DEF Send, Answer, CallLost, GiveUp, NoRefreshToken, JoinRefresh
<1>9. ASSUME NEW t \in Tabs,
             \/ \E d \in Doors : Submit(t, d) \/ Rejected(t, d)
             \/ \E u \in Users : LogIn(t, u) \/ SignUp(t, u) \/ SocialCallback(t, u)
             \/ ContinueAsGuest(t) \/ StartGuestSession(t) \/ LogOut(t) \/ Load(t)
      PROVE  \E x \in exchange : From(x, y)
  BY <1>1, <1>3, <1>9 DEF Submit, Rejected, LogIn, SignUp, SocialCallback,
     ContinueAsGuest, StartGuestSession, LogOut, Load
<1>10. ASSUME NEW p \in Pairs, AccessExpires(p) PROVE y \in exchange
  BY <1>10 DEF AccessExpires
<1>11. CASE UNCHANGED vars
  BY <1>1, <1>11 DEF vars
<1> QED
  BY StepCases, <1>1, <1>4, <1>5, <1>6, <1>7, <1>8, <1>9, <1>10, <1>11

LEMMA TokensStep ==
    ASSUME TypeOK, SessionBounds, Tokens, HeldIssued, [Next]_vars
    PROVE  Tokens'
<1> SUFFICES ASSUME NEW y \in exchange'
             PROVE  /\ Issued(y.token)'
                    /\ y.at = "renewed" => Issued(y.pair)' /\ owner'[y.pair] = owner'[y.token]
  BY DEF Tokens
<1>1. ASSUME NEW x \in exchange, From(x, y)
      PROVE  /\ Issued(y.token)'
             /\ y.at = "renewed" => Issued(y.pair)' /\ owner'[y.pair] = owner'[y.token]
  BY <1>1, IssuedStay DEF Tokens, From
<1>2. ASSUME NEW x \in exchange, Made(x, y)
      PROVE  Issued(y.token)' /\ Issued(y.pair)' /\ owner'[y.pair] = owner'[y.token]
  <2>1. Issued(y.token) /\ Issued(y.token)' /\ owner'[y.token] = owner[y.token]
    BY <1>2, IssuedStay DEF Tokens, Made
  <2>2. y.pair \in Pairs /\ row'[y.pair] = "live" /\ owner'[y.pair] = owner[x.token]
    BY <1>2, IssueStays DEF Made
  <2> QED
    BY <1>2, <2>1, <2>2 DEF Made, Issued
<1>3. ASSUME NEW t \in Tabs, Begun(t, y) PROVE Issued(y.token)' /\ y.at # "renewed"
  BY <1>3, IssuedStay DEF HeldIssued, Begun
<1> QED
  BY Provenance, <1>1, <1>2, <1>3

\* What a store or a call may hold after a step.
Known(p) == p # 0 => Issued(p)

LEMMA HeldStep ==
    ASSUME TypeOK, SessionBounds, Tokens, HeldIssued, [Next]_vars
    PROVE  HeldIssued'
<1>0. /\ \A p : Issued(p) => p \in Pairs /\ row'[p] # "none"
      /\ \A t \in Tabs : memory[t] # 0 => Issued(memory[t])
      /\ disk.pair # 0 => Issued(disk.pair)
      /\ \A t \in Tabs, c \in Calls : call[t][c].at = "sent" => Issued(call[t][c].with)
  BY IssuedStay DEF HeldIssued, Issued
<1>a. ASSUME UNCHANGED <<memory, call>>, disk'.pair = disk.pair PROVE HeldIssued'
  <2>1. \A t \in Tabs : memory'[t] # 0 => memory'[t] \in Pairs /\ row'[memory'[t]] # "none"
    BY <1>0, <1>a
  <2>2. disk'.pair # 0 => disk'.pair \in Pairs /\ row'[disk'.pair] # "none"
    BY <1>0, <1>a
  <2>3. \A t \in Tabs, c \in Calls : call'[t][c].at = "sent" =>
            call'[t][c].with \in Pairs /\ row'[call'[t][c].with] # "none"
    BY <1>0, <1>a
  <2> QED
    BY <2>1, <2>2, <2>3 DEF HeldIssued, Issued
<1>b. ASSUME NEW t \in Tabs, NEW m, Known(m)', memory' = [memory EXCEPT ![t] = m],
             disk'.pair \in {m, disk.pair},
             \A s \in Tabs, c \in Calls : call'[s][c].at = "sent" => call'[s][c] = call[s][c]
      PROVE  HeldIssued'
  <2>1. \A s \in Tabs : memory'[s] # 0 => memory'[s] \in Pairs /\ row'[memory'[s]] # "none"
    BY <1>0, <1>b DEF Known, Issued, TypeOK
  <2>2. disk'.pair # 0 => disk'.pair \in Pairs /\ row'[disk'.pair] # "none"
    BY <1>0, <1>b DEF Known, Issued
  <2>3. \A s \in Tabs, c \in Calls : call'[s][c].at = "sent" =>
            call'[s][c].with \in Pairs /\ row'[call'[s][c].with] # "none"
    BY <1>0, <1>b
  <2> QED
    BY <2>1, <2>2, <2>3 DEF HeldIssued, Issued
<1>c. ASSUME NEW t \in Tabs, Leave(t)
      PROVE  \A s \in Tabs, c \in Calls : call'[s][c].at = "sent" => call'[s][c] = call[s][c]
  BY <1>c DEF Leave, TypeOK, Idle
<1>d. ASSUME NEW p, NEW u, NEW R, Issue(p, u, R) PROVE Known(p)'
  BY <1>d, IssueStays DEF Known, Issued
<1>e. ASSUME NEW x \in exchange, Renewed(x) PROVE Issued(x.pair)'
  BY <1>e, IssuedStay DEF Renewed, Tokens
<1>f. Known(0)' /\ \A p : p = disk.pair => Known(p)'
  BY <1>0 DEF Known, Issued
<1>1. ASSUME NEW p \in Pairs, AccessExpires(p) PROVE HeldIssued'
  BY <1>1, <1>a DEF AccessExpires
<1>2. ASSUME NEW x \in exchange, CheckToken(x) \/ Rotate(x) \/ RotateFails(x) PROVE HeldIssued'
  BY <1>2, <1>a DEF CheckToken, Rotate, RotateFails
<1>3. ASSUME NEW t \in Tabs, NEW c \in Calls, Send(t, c) PROVE HeldIssued'
  <2>1. /\ call' = [call EXCEPT ![t][c] = [at |-> "sent", with |-> memory[t], retried |-> FALSE]]
        /\ memory[t] # 0 /\ UNCHANGED <<memory, disk>>
    BY <1>3 DEF Send
  <2>2. \A s \in Tabs, d \in Calls : call'[s][d] = call[s][d] \/ call'[s][d].with = memory[t]
    BY <2>1 DEF TypeOK
  <2> QED
    BY <1>0, <2>1, <2>2 DEF HeldIssued, Issued
<1>4. ASSUME NEW t \in Tabs, NEW c \in Calls,
             \/ Answer(t, c) \/ CallLost(t, c) \/ GiveUp(t, c) \/ JoinRefresh(t, c) \/ StartRefresh(t, c)
      PROVE  HeldIssued'
  <2>1. \A s \in Tabs, d \in Calls : call'[s][d].at = "sent" => call'[s][d] = call[s][d]
    <3>1. CASE Answer(t, c) \/ CallLost(t, c) \/ GiveUp(t, c)
      BY <3>1 DEF Answer, CallLost, GiveUp, Settle, Idle, TypeOK
    <3>2. CASE JoinRefresh(t, c)
      BY <3>2 DEF JoinRefresh, TypeOK, Call
    <3>3. CASE StartRefresh(t, c)
      BY <3>3 DEF StartRefresh, TypeOK, Call
    <3> QED
      BY <1>4, <3>1, <3>2, <3>3
  <2>2. memory' = memory /\ disk'.pair = disk.pair
    BY <1>4 DEF Answer, CallLost, GiveUp, JoinRefresh, StartRefresh, TypeOK
  <2> QED
    BY <1>0, <2>1, <2>2 DEF HeldIssued, Issued
<1>5. ASSUME NEW t \in Tabs, NEW c \in Calls, NoRefreshToken(t, c) PROVE HeldIssued'
  <2>1. memory' = [memory EXCEPT ![t] = 0] /\ disk'.pair = 0
    BY <1>5 DEF NoRefreshToken, SetPair, TypeOK
  <2> QED
    BY <1>5, <1>b, <1>c, <1>f, <2>1 DEF NoRefreshToken
<1>6. ASSUME NEW t \in Tabs, NEW d \in Doors, Submit(t, d) \/ Rejected(t, d) PROVE HeldIssued'
  <2>1. CASE Submit(t, d)
    BY <2>1, <1>a DEF Submit
  <2>2. CASE Rejected(t, d)
    <3>1. memory' = [memory EXCEPT ![t] = 0] /\ disk'.pair = 0 /\ call' = call
      BY <2>2 DEF Rejected, SetPair, TypeOK
    <3> QED
      BY <3>1, <1>b, <1>f
  <2> QED
    BY <1>6, <2>1, <2>2
<1>7. ASSUME NEW t \in Tabs, NEW u \in Users, LogIn(t, u) \/ SignUp(t, u) PROVE HeldIssued'
  <2>1. PICK p \in Pairs : Issue(p, u, {}) /\ Reset(t, p, FALSE)
    BY <1>7 DEF LogIn, SignUp
  <2>2. memory' = [memory EXCEPT ![t] = p] /\ disk'.pair = p
    BY <2>1 DEF Reset
  <2>3. Known(p)'
    BY <1>d, <2>1
  <2> QED
    BY <1>7, <1>b, <1>c, <2>2, <2>3 DEF LogIn, SignUp
<1>8. ASSUME NEW t \in Tabs, NEW u \in Users, SocialCallback(t, u) PROVE HeldIssued'
  <2>1. PICK p \in Pairs : /\ Issue(p, u, {})
                           /\ memory' = [memory EXCEPT ![t] = p]
                           /\ disk' = [disk EXCEPT !.pair = p]
    BY <1>8 DEF SocialCallback
  <2>2. disk'.pair = p
    BY <2>1 DEF TypeOK
  <2>3. Known(p)'
    BY <1>d, <2>1
  <2> QED
    BY <1>8, <1>b, <1>c, <2>1, <2>2, <2>3 DEF SocialCallback
<1>9. ASSUME NEW t \in Tabs, ContinueAsGuest(t) \/ StartGuestSession(t) PROVE HeldIssued'
  <2>1. PICK p \in Pairs : /\ Issue(p, Guest, {})
                           /\ memory' = [memory EXCEPT ![t] = p]
                           /\ disk'.pair = p
    <3>1. CASE ContinueAsGuest(t)
      <4>1. PICK p \in Pairs : Issue(p, Guest, {}) /\ Reset(t, p, TRUE)
        BY <3>1, Zenon DEF ContinueAsGuest
      <4>2. memory' = [memory EXCEPT ![t] = p] /\ disk'.pair = p
        BY <4>1 DEF Reset
      <4> QED
        BY <4>1, <4>2
    <3>2. CASE StartGuestSession(t)
      <4>1. \A p : [disk EXCEPT !.pair = p, !.guest = TRUE].pair = p
        BY DEF TypeOK
      <4> QED
        BY <3>2, <4>1 DEF StartGuestSession
    <3> QED
      BY <1>9, <3>1, <3>2
  <2>2. Known(p)'
    BY <1>d, <2>1
  <2> QED
    BY <1>9, <1>b, <2>1, <2>2 DEF ContinueAsGuest, StartGuestSession
<1>10. ASSUME NEW t \in Tabs, LogOut(t) PROVE HeldIssued'
  <2>1. memory' = [memory EXCEPT ![t] = 0] /\ disk'.pair = 0 /\ call' = call
    BY <1>10 DEF LogOut, Reset
  <2> QED
    BY <1>b, <1>f, <2>1
<1>11. ASSUME NEW t \in Tabs, Load(t) PROVE HeldIssued'
  <2>1. memory' = [memory EXCEPT ![t] = disk.pair] /\ disk' = disk
    BY <1>11 DEF Load
  <2> QED
    BY <1>11, <1>b, <1>c, <1>f, <2>1 DEF Load
<1>12. ASSUME NEW x \in exchange, Renewed(x) PROVE HeldIssued'
  <2>1. /\ memory' = [memory EXCEPT ![x.tab] = x.pair] /\ disk'.pair = x.pair
        /\ x.tab \in Tabs
    BY <1>12 DEF Renewed, SetPair, TypeOK
  <2>2. \A s \in Tabs, d \in Calls : call'[s][d] = call[s][d] \/ call'[s][d].with = x.pair
    BY <1>12 DEF Renewed, TypeOK
  <2> QED
    <3>1. x.pair \in Pairs /\ row'[x.pair] # "none"
      BY <1>12, <1>e DEF Issued
    <3>2. \A s \in Tabs : memory'[s] # 0 => memory'[s] \in Pairs /\ row'[memory'[s]] # "none"
      BY <1>0, <2>1, <3>1 DEF TypeOK
    <3>3. \A s \in Tabs, c \in Calls : call'[s][c].at = "sent" =>
              call'[s][c].with \in Pairs /\ row'[call'[s][c].with] # "none"
      <4> SUFFICES ASSUME NEW s \in Tabs, NEW c \in Calls, call'[s][c].at = "sent"
                   PROVE  call'[s][c].with \in Pairs /\ row'[call'[s][c].with] # "none"
        OBVIOUS
      <4>1. CASE call'[s][c] = call[s][c]
        BY <1>0, <4>1
      <4> QED
        BY <2>2, <3>1, <4>1
    <3> QED
      BY <2>1, <3>1, <3>2, <3>3 DEF HeldIssued, Issued
<1>13. ASSUME NEW x \in exchange, RefreshFailed(x) \/ RefreshLost(x) PROVE HeldIssued'
  <2>1. UNCHANGED <<memory, disk>> /\ x.tab \in Tabs
    BY <1>13 DEF RefreshFailed, RefreshLost
  <2>2. \A s \in Tabs, d \in Calls : call'[s][d].at = "sent" => call'[s][d] = call[s][d]
    <3>1. RejectWaiting(x)
      BY <1>13 DEF RefreshFailed, RefreshLost
    <3> QED
      BY <2>1, <3>1 DEF RejectWaiting, Idle, TypeOK
  <2> QED
    BY <1>0, <2>1, <2>2 DEF HeldIssued, Issued
<1>14. ASSUME NEW x \in exchange, Denied(x) PROVE HeldIssued'
  <2>1. /\ memory' = [memory EXCEPT ![x.tab] = 0] /\ disk'.pair = 0
        /\ x.tab \in Tabs
    BY <1>14 DEF Denied, SetPair, TypeOK
  <2>2. \A s \in Tabs, d \in Calls : call'[s][d].at = "sent" => call'[s][d] = call[s][d]
    BY <1>14, <2>1 DEF Denied, Idle, TypeOK
  <2> QED
    BY <1>b, <1>f, <2>1, <2>2
<1>15. CASE UNCHANGED vars
  BY <1>15, <1>a DEF vars
<1> QED
  BY StepCases, <1>1, <1>2, <1>3, <1>4, <1>5, <1>6, <1>7, <1>8, <1>9, <1>10, <1>11, <1>12,
     <1>13, <1>14, <1>15

-----------------------------------------------------------------------------
(* Nobody is signed out without a mishap *)

\* A pair in use: the server takes its refresh token, or its renewal is on the way back.
Held(m) ==
    \/ row[m] = "live"
    \/ row[m] = "revoked" /\ \E x \in exchange : x.token = m /\ x.at = "renewed"

\* A renewal of a tab that waits for it, of a token nobody else renews, that brings
\* back a pair nobody has seen.
InHand(x) ==
    /\ x.tab # Gone /\ x.at # "denied"
    /\ x.at # "renewed" => row[x.token] = "live"
    /\ \A y \in exchange : x.token = y.token => x = y
    /\ x.at = "renewed" =>
        /\ row[x.pair] = "live"
        /\ disk.pair # x.pair
        /\ \A t \in Tabs : memory[t] # x.pair
        /\ \A y \in exchange :
            /\ y.token # x.pair
            /\ y.at = "renewed" /\ y.pair = x.pair => x = y

AllHeld ==
    /\ disk.pair # 0 => Held(disk.pair)
    /\ \A t \in Tabs : memory[t] # 0 => Held(memory[t])
AllInHand == \A x \in exchange : InHand(x)
Quiet == ~ TwoHolders(memory, exchange) /\ ~ forcedOut
Calm == ~ mishap => AllHeld /\ AllInHand /\ Quiet

\* What a step that is no mishap leaves behind.
LEMMA NoMishap ==
    ASSUME NEW lost, Mishap(lost), ~ mishap'
    PROVE  ~ mishap /\ ~ lost /\ ~ TwoHolders(memory', exchange')
  BY DEF Mishap

\* The server takes every token it is sent, and rotates it.
LEMMA CalmServer ==
    ASSUME TypeOK, Tokens, HeldIssued, SessionBounds, Calm, ~ mishap, NEW x \in exchange,
           CheckToken(x) \/ Rotate(x) \/ RotateFails(x)
    PROVE  AllHeld' /\ AllInHand' /\ Quiet'
<1>1. /\ AllHeld /\ AllInHand /\ Quiet
      /\ x \in Exchange /\ InHand(x) /\ x.at # "renewed" /\ row[x.token] = "live"
  BY DEF Calm, AllInHand, InHand, TypeOK, CheckToken, Rotate, RotateFails
<1>2. UNCHANGED <<disk, memory, forcedOut>>
  BY DEF CheckToken, Rotate, RotateFails
<1>3. \A y : exchange' = Answered(x, y) => exchange' = (exchange \ {x}) \cup {y}
  BY <1>1 DEF Answered, InHand
<1>4. ASSUME NEW y, exchange' = (exchange \ {x}) \cup {y}, y.tab = x.tab, y.token = x.token,
             y.at \in {"granted", "failed"}, \A q \in Pairs : row[q] # "none" => row'[q] = row[q]
      PROVE  AllHeld' /\ AllInHand' /\ Quiet'
  <2>1. ASSUME NEW m, Issued(m), Held(m) PROVE Held(m)'
    BY <1>1, <1>4, <2>1 DEF Held, Issued
  <2>2. AllHeld'
    BY <1>1, <1>2, <2>1 DEF AllHeld, HeldIssued
  <2>3. AllInHand'
    <3> SUFFICES ASSUME NEW z \in exchange' PROVE InHand(z)'
      BY DEF AllInHand
    <3>1. CASE z = y
      BY <1>1, <1>2, <1>4, <3>1 DEF InHand, AllInHand, Tokens, Issued
    <3>2. CASE z \in exchange /\ z # x /\ z # y
      BY <1>1, <1>2, <1>4, <3>2 DEF InHand, AllInHand, Tokens, Issued
    <3> QED
      BY <1>4, <3>1, <3>2
  <2>4. Quiet'
    BY <1>1, <1>2, <1>4 DEF Quiet, TwoHolders
  <2> QED
    BY <2>2, <2>3, <2>4
<1>5. CASE CheckToken(x)
  <2>1. exchange' = (exchange \ {x}) \cup {[x EXCEPT !.at = "granted"]} /\ row' = row
    BY <1>1, <1>5 DEF CheckToken
  <2>2. /\ [x EXCEPT !.at = "granted"].tab = x.tab
        /\ [x EXCEPT !.at = "granted"].token = x.token
        /\ [x EXCEPT !.at = "granted"].at \in {"granted", "failed"}
    BY <1>1, RequestStays
  <2> QED
    BY <1>4, <2>1, <2>2
<1>6. CASE RotateFails(x)
  <2>1. exchange' = (exchange \ {x}) \cup {[x EXCEPT !.at = "failed"]}
    BY <1>3, <1>6 DEF RotateFails
  <2>2. /\ [x EXCEPT !.at = "failed"].tab = x.tab
        /\ [x EXCEPT !.at = "failed"].token = x.token
        /\ [x EXCEPT !.at = "failed"].at \in {"granted", "failed"}
    BY <1>1, RequestStays
  <2>3. \A q \in Pairs : row[q] # "none" => row'[q] = row[q]
    BY <1>6, IssueStays DEF RotateFails, server
  <2> QED
    BY <1>4, <2>1, <2>2, <2>3
<1>7. CASE Rotate(x)
  <2>1. PICK p : /\ Issue(p, owner[x.token], {x.token})
                 /\ exchange' = Answered(x, [x EXCEPT !.at = "renewed", !.pair = p])
    BY <1>7 DEF Rotate
  <2>2. /\ p \in Pairs /\ row[p] = "none" /\ row'[p] = "live"
        /\ \A q \in Pairs \ {p} : row'[q] = IF q = x.token THEN "revoked" ELSE row[q]
    BY <2>1, IssueStays
  <2>3. PICK y : /\ y.tab = x.tab /\ y.token = x.token /\ y.at = "renewed" /\ y.pair = p
                 /\ exchange' = (exchange \ {x}) \cup {y}
    <3>1. /\ [x EXCEPT !.at = "renewed", !.pair = p].tab = x.tab
          /\ [x EXCEPT !.at = "renewed", !.pair = p].token = x.token
          /\ [x EXCEPT !.at = "renewed", !.pair = p].at = "renewed"
          /\ [x EXCEPT !.at = "renewed", !.pair = p].pair = p
      BY <1>1, <2>2, RequestStays
    <3> QED
      BY <1>3, <2>1, <3>1
  <2>4. ASSUME NEW m, Issued(m), Held(m) PROVE Held(m)'
    <3>1. CASE m = x.token
      BY <1>1, <2>2, <2>3, <2>4, <3>1 DEF Held, Issued
    <3>2. CASE m # x.token
      BY <1>1, <2>2, <2>3, <2>4, <3>2 DEF Held, Issued
    <3> QED
      BY <3>1, <3>2
  <2>5. AllHeld'
    BY <1>1, <1>2, <2>4 DEF AllHeld, HeldIssued
  <2>6. AllInHand'
    <3> SUFFICES ASSUME NEW z \in exchange' PROVE InHand(z)'
      BY DEF AllInHand
    <3>1. CASE z = y
      <4>1. disk.pair # p /\ \A t \in Tabs : memory[t] # p
        BY <2>2 DEF HeldIssued, Issued, Pairs
      <4>2. \A w \in exchange : w.token # p /\ (w.at = "renewed" => w.pair # p)
        BY <2>2 DEF Tokens, Issued
      <4>3. \A w \in exchange : w.token = x.token => w = x
        BY <1>1 DEF InHand
      <4> QED
        BY <1>1, <1>2, <2>2, <2>3, <3>1, <4>1, <4>2, <4>3 DEF InHand
    <3>2. CASE z \in exchange /\ z # x /\ z # y
      BY <1>1, <1>2, <2>2, <2>3, <3>2 DEF InHand, AllInHand, Tokens, HeldIssued, Issued
    <3> QED
      BY <2>3, <3>1, <3>2
  <2>7. Quiet'
    BY <1>1, <1>2, <2>3 DEF Quiet, TwoHolders
  <2> QED
    BY <2>5, <2>6, <2>7
<1> QED
  BY <1>5, <1>6, <1>7

\* A tab renews a pair the server takes, and that no other request carries.
LEMMA CalmStart ==
    ASSUME TypeOK, Tokens, HeldIssued, Calm, ~ mishap', NEW t \in Tabs, NEW c \in Calls,
           StartRefresh(t, c), Flight(t), TabsAssumption
    PROVE  AllHeld' /\ AllInHand' /\ Quiet'
<1>1. ~ mishap /\ ~ TwoHolders(memory', exchange')
  BY NoMishap DEF StartRefresh
<1>2. AllHeld /\ AllInHand /\ Quiet
  BY <1>1 DEF Calm
<1>3. UNCHANGED <<row, disk, memory, forcedOut>> /\ memory[t] # 0
  BY DEF StartRefresh
<1>4. PICK y : /\ y.tab = t /\ y.token = memory[t] /\ y.at = "sent"
               /\ exchange' = exchange \cup {y}
  BY DEF StartRefresh
<1>5. \A x \in exchange : x.tab \in Tabs \ {t}
  BY <1>2 DEF StartRefresh, Flight, AllInHand, InHand, TypeOK, Exchange
<1>6. \A x \in exchange : x.token # memory[t]
  BY <1>2, <1>5 DEF Quiet, TwoHolders
<1>7. row[memory[t]] = "live"
  BY <1>2, <1>3, <1>6 DEF AllHeld, Held
<1>8. AllHeld'
  BY <1>2, <1>3, <1>4 DEF AllHeld, Held
<1>9. AllInHand'
  <2> SUFFICES ASSUME NEW z \in exchange' PROVE InHand(z)'
    BY DEF AllInHand
  <2>1. CASE z = y
    BY <1>2, <1>3, <1>4, <1>6, <1>7, <2>1 DEF InHand, AllInHand, TabsAssumption
  <2>2. CASE z \in exchange
    BY <1>2, <1>3, <1>4, <1>6, <2>2 DEF InHand, AllInHand
  <2> QED
    BY <1>4, <2>1, <2>2
<1> QED
  BY <1>1, <1>2, <1>3, <1>8, <1>9 DEF Quiet

\* A renewal that comes back to its tab.
LEMMA CalmArrival ==
    ASSUME TypeOK, Tokens, HeldIssued, Calm, ~ mishap', NEW x \in exchange,
           Renewed(x) \/ RefreshFailed(x) \/ RefreshLost(x) \/ Denied(x)
    PROVE  AllHeld' /\ AllInHand' /\ Quiet'
<1>1. ~ mishap
  BY NoMishap DEF Renewed, RefreshFailed, RefreshLost, Denied
<1>2. AllHeld /\ AllInHand /\ Quiet /\ InHand(x)
  BY <1>1 DEF Calm, AllInHand
<1>3. ~ Denied(x) /\ ~ RefreshLost(x)
  BY <1>2, NoMishap DEF Denied, RefreshLost, InHand
<1>4. CASE RefreshFailed(x)
  <2>1. /\ exchange' = exchange \ {x} /\ x.at = "failed"
        /\ UNCHANGED <<row, disk, memory, forcedOut>>
    BY <1>4 DEF RefreshFailed
  <2>2. AllHeld'
    BY <1>2, <2>1 DEF AllHeld, Held
  <2>3. AllInHand'
    BY <1>2, <2>1 DEF AllInHand, InHand
  <2> QED
    BY <1>2, <2>1, <2>2, <2>3 DEF Quiet, TwoHolders
<1>5. CASE Renewed(x)
  <2>1. /\ exchange' = exchange \ {x} /\ x.at = "renewed" /\ x.tab \in Tabs
        /\ memory' = [memory EXCEPT ![x.tab] = x.pair] /\ disk'.pair = x.pair
        /\ UNCHANGED <<row, forcedOut>> /\ ~ TwoHolders(memory', exchange')
    BY <1>5, NoMishap DEF Renewed, SetPair, TypeOK
  <2>2. row[x.pair] = "live"
    BY <1>2, <2>1 DEF InHand
  <2>3. AllHeld'
    <3>1. ASSUME NEW t \in Tabs, t # x.tab, memory[t] # 0 PROVE Held(memory[t]) /\ memory[t] # x.token
      BY <1>2, <3>1 DEF AllHeld, Quiet, TwoHolders
    <3>2. ASSUME NEW t \in Tabs, memory'[t] # 0 PROVE Held(memory[t])'
      <4>1. CASE t = x.tab
        BY <2>1, <2>2, <4>1 DEF Held, TypeOK
      <4>2. CASE t # x.tab
        BY <2>1, <3>1, <3>2, <4>2 DEF Held, TypeOK
      <4> QED
        BY <4>1, <4>2
    <3> QED
      BY <2>1, <2>2, <3>2 DEF AllHeld, Held
  <2>4. AllInHand'
    <3> SUFFICES ASSUME NEW z \in exchange, z # x PROVE InHand(z)'
      BY <2>1 DEF AllInHand
    <3>1. InHand(z)
      BY <1>2 DEF AllInHand
    <3>2. \A t \in Tabs : memory'[t] \in {memory[t], x.pair}
      BY <2>1 DEF TypeOK
    <3> QED
      BY <1>2, <2>1, <3>1, <3>2 DEF InHand
  <2> QED
    BY <1>2, <2>1, <2>3, <2>4 DEF Quiet
<1> QED
  BY <1>3, <1>4, <1>5

\* A door is opened or closed, or a tab loaded, with no renewal of the tab under way.
LEMMA CalmDoor ==
    ASSUME TypeOK, Tokens, HeldIssued, Calm, ~ mishap, NEW t \in Tabs, NEW m,
           UNCHANGED <<exchange, forcedOut>>,
           memory' = [memory EXCEPT ![t] = m], ~ TwoHolders(memory', exchange'),
           \/ row' = row /\ m \in {0, disk.pair} /\ disk'.pair = m
           \/ \E u : Issue(m, u, {}) /\ disk'.pair = m
    PROVE  AllHeld' /\ AllInHand' /\ Quiet'
<1>1. AllHeld /\ AllInHand /\ Quiet
  BY DEF Calm
<1>2. /\ \A q \in Pairs : row[q] # "none" => row'[q] = row[q]
      /\ \A s \in Tabs : memory'[s] \in {memory[s], m}
      /\ disk'.pair = m
  BY IssueStays DEF TypeOK
<1>3. \/ m = 0
      \/ Held(m) /\ Issued(m)
      \/ m \in Pairs /\ row'[m] = "live" /\ row[m] = "none"
  BY <1>1, IssueStays DEF AllHeld, HeldIssued
<1>4. ASSUME NEW q, Held(q), Issued(q) PROVE Held(q)'
  BY <1>2, <1>4 DEF Held, Issued
<1>5. m # 0 => Held(m)'
  BY <1>3, <1>4 DEF Held
<1>6. AllHeld'
  BY <1>1, <1>2, <1>4, <1>5 DEF AllHeld, HeldIssued
<1>7. AllInHand'
  <2> SUFFICES ASSUME NEW z \in exchange PROVE InHand(z)'
    BY DEF AllInHand
  <2>1. InHand(z) /\ Issued(z.token) /\ (z.at = "renewed" => Issued(z.pair))
    BY <1>1 DEF AllInHand, Tokens
  <2>2. z.at = "renewed" => m # z.pair
    <3>1. 0 \notin Pairs
      BY DEF Pairs
    <3> QED
      BY <2>1, <3>1, IssueStays DEF InHand, Issued
  <2> QED
    BY <1>2, <2>1, <2>2 DEF InHand, Issued
<1> QED
  BY <1>1, <1>6, <1>7 DEF Quiet

LEMMA LeaveQuietly ==
    ASSUME NEW t \in Tabs, Leave(t), Mine(t) = {}
    PROVE  exchange' = exchange
  BY DEF Leave, Unanswered

LEMMA CalmStep ==
    ASSUME TypeOK, SessionBounds, TabsAssumption, Tokens, HeldIssued, \A t \in Tabs : Flight(t),
           Calm, [Next]_vars
    PROVE  Calm'
<1> SUFFICES ASSUME ~ mishap' PROVE AllHeld' /\ AllInHand' /\ Quiet'
  BY DEF Calm
<1>a. ASSUME UNCHANGED <<row, memory, exchange, forcedOut, mishap>>, disk'.pair = disk.pair
      PROVE  AllHeld' /\ AllInHand' /\ Quiet'
  BY <1>a DEF Calm, AllHeld, AllInHand, Quiet, Held, InHand, TwoHolders
<1>1. ASSUME NEW p \in Pairs, AccessExpires(p) PROVE AllHeld' /\ AllInHand' /\ Quiet'
  BY <1>1, <1>a DEF AccessExpires
<1>2. ASSUME NEW x \in exchange, CheckToken(x) \/ Rotate(x) \/ RotateFails(x)
      PROVE  AllHeld' /\ AllInHand' /\ Quiet'
  <2>1. ~ mishap
    BY <1>2 DEF CheckToken, Rotate, RotateFails
  <2> QED
    BY <1>2, <2>1, CalmServer
<1>3. ASSUME NEW t \in Tabs, NEW c \in Calls,
             Send(t, c) \/ Answer(t, c) \/ CallLost(t, c) \/ GiveUp(t, c) \/ JoinRefresh(t, c)
      PROVE  AllHeld' /\ AllInHand' /\ Quiet'
  <2>1. UNCHANGED <<row, memory, exchange, forcedOut, mishap>> /\ disk'.pair = disk.pair
    BY <1>3 DEF Send, Answer, CallLost, GiveUp, JoinRefresh, TypeOK
  <2> QED
    BY <2>1, <1>a
<1>4. ASSUME NEW t \in Tabs, NEW c \in Calls, NoRefreshToken(t, c)
      PROVE  AllHeld' /\ AllInHand' /\ Quiet'
  <2>1. ~ mishap /\ Mine(t) = {} /\ ~ TwoHolders(memory', exchange')
    BY <1>4, NoMishap DEF NoRefreshToken
  <2>2. /\ memory' = [memory EXCEPT ![t] = 0] /\ disk'.pair = 0
        /\ exchange' = exchange /\ UNCHANGED <<row, forcedOut>>
    BY <1>4, <2>1, LeaveQuietly DEF NoRefreshToken, SetPair, TypeOK
  <2> QED
    BY <2>1, <2>2, CalmDoor
<1>5. ASSUME NEW t \in Tabs, NEW c \in Calls, StartRefresh(t, c)
      PROVE  AllHeld' /\ AllInHand' /\ Quiet'
  BY <1>5, CalmStart
<1>6. ASSUME NEW t \in Tabs, NEW d \in Doors, Submit(t, d) \/ Rejected(t, d)
      PROVE  AllHeld' /\ AllInHand' /\ Quiet'
  <2>1. CASE Submit(t, d)
    BY <2>1, <1>a DEF Submit
  <2>2. CASE Rejected(t, d)
    <3>1. /\ memory' = [memory EXCEPT ![t] = 0] /\ memory' = memory /\ disk'.pair = 0
          /\ UNCHANGED <<row, exchange, forcedOut, mishap>>
      BY <2>2 DEF Rejected, SetPair, TypeOK
    <3>2. ~ TwoHolders(memory', exchange')
      BY <3>1 DEF Calm, Quiet
    <3> QED
      BY <3>1, <3>2, CalmDoor
  <2> QED
    BY <1>6, <2>1, <2>2
<1>7. ASSUME NEW t \in Tabs, NEW u \in Users, LogIn(t, u) \/ SignUp(t, u)
      PROVE  AllHeld' /\ AllInHand' /\ Quiet'
  <2>1. ~ mishap /\ Mine(t) = {} /\ ~ TwoHolders(memory', exchange')
    BY <1>7, NoMishap DEF LogIn, SignUp
  <2>2. PICK p \in Pairs : Issue(p, u, {}) /\ Reset(t, p, FALSE)
    BY <1>7 DEF LogIn, SignUp
  <2>3. /\ memory' = [memory EXCEPT ![t] = p] /\ disk'.pair = p
        /\ exchange' = exchange /\ UNCHANGED forcedOut
    BY <1>7, <2>1, <2>2, LeaveQuietly DEF LogIn, SignUp, Reset
  <2> QED
    BY <2>1, <2>2, <2>3, CalmDoor
<1>8. ASSUME NEW t \in Tabs, NEW u \in Users, SocialCallback(t, u)
      PROVE  AllHeld' /\ AllInHand' /\ Quiet'
  <2>1. ~ mishap /\ Mine(t) = {} /\ ~ TwoHolders(memory', exchange')
    BY <1>8, NoMishap DEF SocialCallback
  <2>2. PICK p \in Pairs : /\ Issue(p, u, {})
                           /\ memory' = [memory EXCEPT ![t] = p]
                           /\ disk' = [disk EXCEPT !.pair = p]
    BY <1>8 DEF SocialCallback
  <2>3. disk'.pair = p /\ exchange' = exchange /\ UNCHANGED forcedOut
    BY <1>8, <2>1, <2>2, LeaveQuietly DEF SocialCallback, TypeOK
  <2> QED
    BY <2>1, <2>2, <2>3, CalmDoor
<1>9. ASSUME NEW t \in Tabs, ContinueAsGuest(t) PROVE AllHeld' /\ AllInHand' /\ Quiet'
  <2>1. ~ mishap /\ ~ TwoHolders(memory', exchange')
    BY <1>9, NoMishap DEF ContinueAsGuest
  <2>2. PICK p \in Pairs : Issue(p, Guest, {}) /\ Reset(t, p, TRUE)
    BY <1>9, Zenon DEF ContinueAsGuest
  <2>3. /\ memory' = [memory EXCEPT ![t] = p] /\ disk'.pair = p
        /\ UNCHANGED <<exchange, forcedOut>>
    BY <1>9, <2>2 DEF ContinueAsGuest, Reset
  <2> QED
    BY <2>1, <2>2, <2>3, CalmDoor
<1>10. ASSUME NEW t \in Tabs, StartGuestSession(t) PROVE AllHeld' /\ AllInHand' /\ Quiet'
  <2>1. ~ mishap /\ ~ TwoHolders(memory', exchange')
    BY <1>10, NoMishap DEF StartGuestSession
  <2>2. PICK p \in Pairs : /\ Issue(p, Guest, {})
                           /\ memory' = [memory EXCEPT ![t] = p]
                           /\ disk' = [disk EXCEPT !.pair = p, !.guest = TRUE]
    BY <1>10 DEF StartGuestSession
  <2>3. disk'.pair = p /\ UNCHANGED <<exchange, forcedOut>>
    BY <1>10, <2>2 DEF StartGuestSession, TypeOK
  <2> QED
    BY <2>1, <2>2, <2>3, CalmDoor
<1>11. ASSUME NEW t \in Tabs, LogOut(t) PROVE AllHeld' /\ AllInHand' /\ Quiet'
  <2>1. ~ mishap /\ ~ TwoHolders(memory', exchange')
    BY <1>11, NoMishap DEF LogOut
  <2>2. /\ memory' = [memory EXCEPT ![t] = 0] /\ disk'.pair = 0
        /\ UNCHANGED <<row, exchange, forcedOut>>
    BY <1>11 DEF LogOut, Reset
  <2> QED
    BY <2>1, <2>2, CalmDoor
<1>12. ASSUME NEW t \in Tabs, Load(t) PROVE AllHeld' /\ AllInHand' /\ Quiet'
  <2>1. ~ mishap /\ Mine(t) = {} /\ ~ TwoHolders(memory', exchange')
    BY <1>12, NoMishap DEF Load
  <2>2. /\ memory' = [memory EXCEPT ![t] = disk.pair] /\ disk'.pair = disk.pair
        /\ exchange' = exchange /\ UNCHANGED <<row, forcedOut>>
    BY <1>12, <2>1, LeaveQuietly DEF Load
  <2> QED
    BY <2>1, <2>2, CalmDoor
<1>13. ASSUME NEW x \in exchange, Renewed(x) \/ RefreshFailed(x) \/ RefreshLost(x) \/ Denied(x)
       PROVE  AllHeld' /\ AllInHand' /\ Quiet'
  BY <1>13, CalmArrival
<1>14. CASE UNCHANGED vars
  BY <1>14, <1>a DEF vars
<1> QED
  BY StepCases, <1>1, <1>2, <1>3, <1>4, <1>5, <1>6, <1>7, <1>8, <1>9, <1>10, <1>11, <1>12,
     <1>13, <1>14

SessionInvariant ==
    /\ TypeOK
    /\ \A t \in Tabs : Flight(t)
    /\ Tokens /\ HeldIssued
    /\ Calm

LEMMA SessionInit == SessionBounds /\ Init => SessionInvariant
<1> SUFFICES ASSUME SessionBounds, Init PROVE SessionInvariant
  OBVIOUS
<1>1. TypeOK
  BY TypeInit
<1>2. \A t \in Tabs : Flight(t)
  BY DEF Init, Flight, Idle
<1>3. Tokens /\ HeldIssued
  BY DEF Init, Tokens, HeldIssued, Idle
<1>4. Calm
  BY DEF Init, Calm, AllHeld, AllInHand, Quiet, TwoHolders
<1> QED
  BY <1>1, <1>2, <1>3, <1>4 DEF SessionInvariant

LEMMA SessionStep ==
    SessionBounds /\ GuestAssumption /\ TabsAssumption /\ SessionInvariant /\ [Next]_vars
        => SessionInvariant'
  BY TypeStep, FlightStep, TokensStep, HeldStep, CalmStep DEF SessionInvariant

\* However many calls fail at once, in however many tabs, a tab has one renewal under way,
\* calls wait exactly as long, and the server signs no user out for reusing a token unless
\* the answer to a renewal was lost or two tabs held the token.
THEOREM RenewalsSafe ==
    ASSUME SessionBounds, GuestAssumption, TabsAssumption
    PROVE  Spec => []RenewalsAreSafe
<1>1. SessionInvariant => RenewalsAreSafe
  BY FlightIsSingle DEF SessionInvariant, RenewalsAreSafe, ForcedOutNeedsMishap, Calm, Quiet
<1> QED
  BY <1>1, SessionInit, SessionStep, PTL DEF Spec

-----------------------------------------------------------------------------
(* In a browser with one tab the tab keeps to its account *)

\* The pair is of the account the tab is signed in with.
Own(t, p) == memory[t] # 0 /\ owner[p] = owner[memory[t]]

\* Everything the tab has under way is done for the account it is signed in with.
OwnWork(t) ==
    /\ \A c \in Calls : call[t][c].at = "sent" => Own(t, call[t][c].with)
    /\ \A x \in exchange : x.tab = t => Own(t, x.token)

OwnMarks(t) ==
    /\ memory[t] = 0 \/ journal[t] \in {Nobody, owner[memory[t]]}
    /\ memory[t] # 0 /\ disk.guest => owner[memory[t]] = Guest

\* The local storage is what the one tab wrote.
OneStore(t) == disk.pair = memory[t] /\ disk.journal = journal[t]

Apart(t) == OneStore(t) /\ (~ tainted => OwnWork(t) /\ OwnMarks(t))

\* The tab stays with the account, or has none before and after.
SameAccount(t) ==
    /\ memory[t] = 0 <=> memory'[t] = 0
    /\ memory[t] # 0 => owner'[memory'[t]] = owner[memory[t]]

LEMMA SameMemory ==
    ASSUME TypeOK, HeldIssued, [Next]_vars, NEW t \in Tabs, memory'[t] = memory[t]
    PROVE  SameAccount(t)
  BY IssuedStay DEF SameAccount, HeldIssued

\* Renewals under way stay those of the account.
LEMMA OwnRenewals ==
    ASSUME TypeOK, SessionBounds, TabsAssumption, Tokens, HeldIssued, [Next]_vars,
           NEW t \in Tabs, SameAccount(t), OwnWork(t), NEW y \in exchange', y.tab = t
    PROVE  memory'[t] # 0 /\ owner'[y.token] = owner'[memory'[t]]
<1>1. CASE \E x \in exchange : From(x, y) \/ Made(x, y)
  <2>1. PICK x \in exchange : x.tab = t /\ x.token = y.token
    BY <1>1 DEF From, Made, TabsAssumption
  <2>2. Own(t, y.token) /\ owner'[y.token] = owner[y.token]
    BY <2>1, IssuedStay DEF OwnWork, Tokens
  <2> QED
    BY <2>2 DEF Own, SameAccount
<1>2. CASE \E s \in Tabs : Begun(s, y)
  <2>1. memory[t] # 0 /\ y.token = memory[t]
    BY <1>2 DEF Begun
  <2>2. owner'[y.token] = owner[y.token]
    BY <2>1, IssuedStay DEF HeldIssued
  <2> QED
    BY <2>1, <2>2 DEF SameAccount
<1> QED
  BY Provenance, <1>1, <1>2

\* A step that stays with the account, and after which every call sent was sent before,
\* or with a pair of the account.
LEMMA ApartKept ==
    ASSUME TypeOK, SessionBounds, TabsAssumption, Tokens, HeldIssued, [Next]_vars,
           NEW t \in Tabs, Apart(t), SameAccount(t), tainted' = tainted,
           disk'.pair = memory'[t], disk'.journal = journal'[t], disk'.guest = disk.guest,
           \/ journal'[t] = journal[t]
           \/ \E c \in Calls : call[t][c].at = "sent" /\ journal'[t] = owner[call[t][c].with],
           \A c \in Calls : call'[t][c].at = "sent" =>
                \/ call[t][c].at = "sent" /\ call'[t][c].with = call[t][c].with
                \/ memory'[t] # 0 /\ call'[t][c].with = memory'[t]
    PROVE  Apart(t)'
<1> SUFFICES ASSUME ~ tainted PROVE OwnWork(t)' /\ OwnMarks(t)'
  BY DEF Apart, OneStore
<1>1. OwnWork(t) /\ OwnMarks(t)
  BY DEF Apart
<1>2. \A y \in exchange' : y.tab = t => memory'[t] # 0 /\ owner'[y.token] = owner'[memory'[t]]
  BY <1>1, OwnRenewals
<1>3. ASSUME NEW c \in Calls, call'[t][c].at = "sent"
      PROVE  memory'[t] # 0 /\ owner'[call'[t][c].with] = owner'[memory'[t]]
  <2>1. CASE call[t][c].at = "sent" /\ call'[t][c].with = call[t][c].with
    <3>1. owner'[call[t][c].with] = owner[call[t][c].with]
      BY <2>1, IssuedStay DEF HeldIssued
    <3> QED
      BY <1>1, <2>1, <3>1 DEF OwnWork, Own, SameAccount
  <2> QED
    BY <1>3, <2>1
<1>4. OwnWork(t)'
  BY <1>2, <1>3 DEF OwnWork, Own
<1>5. OwnMarks(t)'
  BY <1>1 DEF OwnMarks, SameAccount, OwnWork, Own
<1> QED
  BY <1>4, <1>5

\* A step after which nothing is under way for an account.
LEMMA ApartAnew ==
    ASSUME NEW t \in Tabs,
           disk'.pair = memory'[t], disk'.journal = journal'[t],
           ~ tainted' => /\ OwnMarks(t)'
                         /\ \A c \in Calls : call'[t][c].at # "sent"
                         /\ \A x \in exchange' : x.tab # t
    PROVE  Apart(t)'
  BY DEF Apart, OneStore, OwnWork

\* A tab without calls has no renewal under way either.
LEMMA NotBusy ==
    ASSUME NEW t \in Tabs, Flight(t), ~ Busy(t)
    PROVE  (\A c \in Calls : call[t][c].at # "sent") /\ \A x \in exchange : x.tab # t
  BY DEF Flight, Busy

LEMMA LeftAlone ==
    ASSUME TypeOK, TabsAssumption, NEW t \in Tabs, Leave(t)
    PROVE  /\ \A c \in Calls : call'[t][c].at # "sent"
           /\ \A x \in exchange' : x.tab # t
<1>1. \A c \in Calls : call'[t][c].at # "sent"
  BY DEF Leave, TypeOK, Idle
<1> QED
  BY <1>1, LeaveEnds DEF Ends

LEMMA ApartStep ==
    ASSUME SessionBounds, TabsAssumption, GuestAssumption, SessionInvariant, [Next]_vars,
           NEW t, Tabs = {t}, Apart(t)
    PROVE  Apart(t)'
<1>0. TypeOK /\ Tokens /\ HeldIssued /\ Flight(t) /\ t \in Tabs
  BY DEF SessionInvariant
<1>a. ASSUME UNCHANGED <<memory, disk, journal, tainted>>,
             \A c \in Calls : call'[t][c].at = "sent" =>
                \/ call[t][c].at = "sent" /\ call'[t][c].with = call[t][c].with
                \/ memory'[t] # 0 /\ call'[t][c].with = memory'[t]
      PROVE  Apart(t)'
  <2>1. SameAccount(t) /\ disk'.pair = memory'[t] /\ disk'.journal = journal'[t]
    BY <1>0, <1>a, SameMemory DEF Apart, OneStore
  <2> QED
    BY <1>0, <1>a, <2>1, ApartKept
<1>1. ASSUME NEW p \in Pairs, AccessExpires(p) PROVE Apart(t)'
  BY <1>1, <1>a DEF AccessExpires
<1>2. ASSUME NEW x \in exchange, CheckToken(x) \/ Rotate(x) \/ RotateFails(x) PROVE Apart(t)'
  BY <1>2, <1>a DEF CheckToken, Rotate, RotateFails
<1>3. ASSUME NEW c \in Calls, Send(t, c) PROVE Apart(t)'
  <2>1. /\ call' = [call EXCEPT ![t][c] = [at |-> "sent", with |-> memory[t], retried |-> FALSE]]
        /\ memory[t] # 0 /\ UNCHANGED <<memory, disk, journal, tainted>>
    BY <1>3 DEF Send
  <2>2. \A d \in Calls : call'[t][d] = call[t][d] \/ call'[t][d].with = memory[t]
    BY <1>0, <2>1 DEF TypeOK
  <2> QED
    BY <1>a, <2>1, <2>2
<1>4. ASSUME NEW c \in Calls, Answer(t, c) PROVE Apart(t)'
  <2>1. /\ \A d \in Calls : call'[t][d].at = "sent" => call'[t][d] = call[t][d]
        /\ call[t][c].at = "sent" /\ journal'[t] = owner[call[t][c].with]
        /\ UNCHANGED <<memory, tainted>>
        /\ disk'.pair = disk.pair /\ disk'.guest = disk.guest /\ disk'.journal = journal'[t]
    BY <1>0, <1>4 DEF Answer, Settle, Idle, TypeOK
  <2>2. SameAccount(t) /\ disk'.pair = memory'[t]
    BY <1>0, <2>1, SameMemory DEF Apart, OneStore
  <2> QED
    BY <1>0, <2>1, <2>2, ApartKept
<1>5. ASSUME NEW c \in Calls, CallLost(t, c) \/ GiveUp(t, c) \/ JoinRefresh(t, c) \/ StartRefresh(t, c)
      PROVE  Apart(t)'
  <2>1. \A d \in Calls : call'[t][d].at = "sent" => call'[t][d] = call[t][d]
    <3>1. CASE CallLost(t, c) \/ GiveUp(t, c)
      BY <1>0, <3>1 DEF CallLost, GiveUp, Settle, Idle, TypeOK
    <3>2. CASE JoinRefresh(t, c)
      BY <1>0, <3>2 DEF JoinRefresh, TypeOK, Call
    <3>3. CASE StartRefresh(t, c)
      BY <1>0, <3>3 DEF StartRefresh, TypeOK, Call
    <3> QED
      BY <1>5, <3>1, <3>2, <3>3
  <2>2. UNCHANGED <<memory, disk, journal, tainted>>
    BY <1>5 DEF CallLost, GiveUp, JoinRefresh, StartRefresh
  <2> QED
    BY <1>a, <2>1, <2>2
<1>6. ASSUME NEW c \in Calls, NoRefreshToken(t, c) PROVE Apart(t)'
  <2>1. memory'[t] = 0 /\ disk'.pair = 0 /\ disk'.journal = disk.journal /\ journal' = journal
    BY <1>0, <1>6 DEF NoRefreshToken, SetPair, TypeOK
  <2>2. OwnMarks(t)' /\ disk'.journal = journal'[t]
    BY <2>1 DEF OwnMarks, Apart, OneStore
  <2> QED
    BY <1>0, <1>6, <2>1, <2>2, LeftAlone, ApartAnew DEF NoRefreshToken
<1>7. ASSUME NEW d \in Doors, Submit(t, d) PROVE Apart(t)'
  BY <1>7, <1>a DEF Submit
<1>8. ASSUME NEW d \in Doors, Rejected(t, d) PROVE Apart(t)'
  <2>1. /\ memory'[t] = memory[t] /\ disk'.pair = memory'[t] /\ disk'.guest = disk.guest
        /\ disk'.journal = disk.journal /\ UNCHANGED <<journal, tainted, call>>
    BY <1>0, <1>8 DEF Rejected, SetPair, TypeOK
  <2>2. SameAccount(t) /\ disk'.journal = journal'[t]
    BY <1>0, <2>1, SameMemory DEF Apart, OneStore
  <2> QED
    BY <1>0, <2>1, <2>2, ApartKept
<1>9. ASSUME NEW u \in Users, LogIn(t, u) \/ SignUp(t, u) PROVE Apart(t)'
  <2>1. PICK p \in Pairs : Reset(t, p, FALSE)
    BY <1>9 DEF LogIn, SignUp
  <2>2. /\ disk'.pair = memory'[t] /\ disk'.journal = journal'[t]
        /\ journal'[t] = Nobody /\ disk'.guest = FALSE
    BY <1>0, <2>1 DEF Reset, TypeOK
  <2>3. OwnMarks(t)'
    BY <2>2 DEF OwnMarks
  <2> QED
    BY <1>0, <1>9, <2>2, <2>3, LeftAlone, ApartAnew DEF LogIn, SignUp
<1>10. ASSUME NEW u \in Users, SocialCallback(t, u) PROVE Apart(t)'
  <2>1. PICK p \in Pairs : /\ Issue(p, u, {})
                           /\ memory' = [memory EXCEPT ![t] = p]
                           /\ disk' = [disk EXCEPT !.pair = p]
    BY <1>10 DEF SocialCallback
  <2>2. /\ owner'[p] = u /\ memory'[t] = p
        /\ disk'.pair = p /\ disk'.journal = disk.journal /\ disk'.guest = disk.guest
    BY <1>0, <2>1, IssueStays DEF TypeOK
  <2>3. journal'[t] = disk.journal
    BY <1>0, <1>10 DEF SocialCallback, TypeOK
  <2>4. ~ tainted' => disk.journal \in {Nobody, u} /\ (disk.guest => u = Guest)
    BY <1>10 DEF SocialCallback
  <2>5. ~ tainted' => OwnMarks(t)'
    BY <2>2, <2>3, <2>4 DEF OwnMarks
  <2> QED
    BY <1>0, <1>10, <2>2, <2>3, <2>5, LeftAlone, ApartAnew DEF SocialCallback
<1>11. CASE ContinueAsGuest(t)
  <2>1. PICK p \in Pairs : Issue(p, Guest, {}) /\ Reset(t, p, TRUE)
    BY <1>11, Zenon DEF ContinueAsGuest
  <2>2. /\ owner'[p] = Guest /\ memory'[t] = p
        /\ disk'.pair = p /\ disk'.journal = journal'[t] /\ journal'[t] = Nobody
    BY <1>0, <2>1, IssueStays DEF Reset, TypeOK
  <2>3. OwnMarks(t)'
    BY <2>2 DEF OwnMarks
  <2>4. (~ tainted' => ~ Busy(t)) /\ UNCHANGED <<call, exchange>>
    BY <1>11 DEF ContinueAsGuest
  <2> QED
    BY <1>0, <2>2, <2>3, <2>4, NotBusy, ApartAnew
<1>12. CASE StartGuestSession(t)
  <2>1. PICK p \in Pairs : /\ Issue(p, Guest, {})
                           /\ memory' = [memory EXCEPT ![t] = p]
                           /\ disk' = [disk EXCEPT !.pair = p, !.guest = TRUE]
    BY <1>12 DEF StartGuestSession
  <2>2. /\ owner'[p] = Guest /\ memory'[t] = p
        /\ disk'.pair = p /\ disk'.journal = disk.journal
    BY <1>0, <2>1, IssueStays DEF TypeOK
  <2>3. /\ ~ tainted' => ~ Busy(t) /\ journal[t] \in {Nobody, Guest}
        /\ UNCHANGED <<call, exchange, journal>>
    BY <1>12 DEF StartGuestSession
  <2>4. disk'.journal = journal'[t] /\ (~ tainted' => OwnMarks(t)')
    BY <2>2, <2>3 DEF OwnMarks, Apart, OneStore
  <2> QED
    BY <1>0, <2>2, <2>3, <2>4, NotBusy, ApartAnew
<1>13. CASE LogOut(t)
  <2>1. memory'[t] = 0 /\ disk'.pair = 0 /\ disk'.journal = journal'[t]
    BY <1>0, <1>13 DEF LogOut, Reset, TypeOK
  <2>2. OwnMarks(t)'
    BY <2>1 DEF OwnMarks
  <2>3. (~ tainted' => ~ Busy(t)) /\ UNCHANGED <<call, exchange>>
    BY <1>13 DEF LogOut
  <2> QED
    BY <1>0, <2>1, <2>2, <2>3, NotBusy, ApartAnew
<1>14. CASE Load(t)
  <2>1. memory'[t] = memory[t] /\ journal'[t] = journal[t] /\ UNCHANGED <<disk, tainted>>
    BY <1>0, <1>14 DEF Load, TypeOK, Apart, OneStore
  <2>2. SameAccount(t) /\ disk'.pair = memory'[t] /\ disk'.journal = journal'[t]
    BY <1>0, <2>1, SameMemory DEF Apart, OneStore
  <2>3. \A c \in Calls : call'[t][c].at # "sent"
    BY <1>0, <1>14, LeftAlone DEF Load
  <2> QED
    BY <1>0, <2>1, <2>2, <2>3, ApartKept
<1>15. ASSUME NEW x \in exchange, Renewed(x) PROVE Apart(t)'
  <2>1. /\ x.tab = t /\ x.pair # 0 /\ memory'[t] = x.pair
        /\ disk'.pair = x.pair /\ disk'.journal = disk.journal /\ disk'.guest = disk.guest
        /\ UNCHANGED <<owner, journal, tainted>>
    BY <1>0, <1>15 DEF Renewed, SetPair, TypeOK, Tokens, Issued, Pairs
  <2>2. \A c \in Calls : call'[t][c] = call[t][c] \/ call'[t][c].with = x.pair
    BY <1>0, <1>15, <2>1 DEF Renewed, TypeOK
  <2>3. CASE tainted
    BY <2>1, <2>3 DEF Apart, OneStore
  <2>4. CASE ~ tainted
    <3>1. Own(t, x.token)
      BY <2>1, <2>4 DEF Apart, OwnWork
    <3>2. SameAccount(t)
      BY <1>0, <1>15, <2>1, <3>1 DEF SameAccount, Own, Tokens, Renewed
    <3>3. disk'.journal = journal'[t]
      BY <2>1 DEF Apart, OneStore
    <3> QED
      BY <1>0, <2>1, <2>2, <3>2, <3>3, ApartKept
  <2> QED
    BY <2>3, <2>4
<1>16. ASSUME NEW x \in exchange, RefreshFailed(x) \/ RefreshLost(x) PROVE Apart(t)'
  <2>1. UNCHANGED <<memory, disk, journal, tainted>> /\ RejectWaiting(x) /\ x.tab = t
    BY <1>0, <1>16 DEF RefreshFailed, RefreshLost
  <2>2. \A c \in Calls : call'[t][c].at = "sent" => call'[t][c] = call[t][c]
    BY <1>0, <2>1 DEF RejectWaiting, TypeOK, Idle
  <2> QED
    BY <1>a, <2>1, <2>2
<1>17. ASSUME NEW x \in exchange, Denied(x) PROVE Apart(t)'
  <2>1. /\ x.tab = t /\ memory'[t] = 0 /\ disk'.pair = 0
        /\ disk'.journal = disk.journal /\ journal' = journal
    BY <1>0, <1>17 DEF Denied, SetPair, TypeOK
  <2>2. OwnMarks(t)' /\ disk'.journal = journal'[t]
    BY <2>1 DEF OwnMarks, Apart, OneStore
  <2>3. \A c \in Calls : call'[t][c].at # "sent"
    BY <1>0, <1>17, <2>1 DEF Denied, TypeOK, Idle
  <2>4. \A y \in exchange' : y.tab # t
    BY <1>0, <1>17, <2>1, ArrivalEnds DEF Ends, SessionInvariant
  <2> QED
    BY <1>0, <2>1, <2>2, <2>3, <2>4, ApartAnew
<1>18. CASE UNCHANGED vars
  BY <1>18, <1>a DEF vars
<1> QED
  BY StepCases, <1>0, <1>1, <1>2, <1>3, <1>4, <1>5, <1>6, <1>7, <1>8, <1>9, <1>10, <1>11,
     <1>12, <1>13, <1>14, <1>15, <1>16, <1>17, <1>18

\* A tab that has the browser to itself shows the journal of the account it is signed in
\* with and takes no member for a guest, but for the doors and the moments that mark the
\* session tainted.  With a second tab this is not so: the tabs write one local storage.
THEOREM AccountsApart ==
    ASSUME SessionBounds, GuestAssumption, TabsAssumption, NEW t, Tabs = {t}
    PROVE  Spec => []AccountsStayApart
<1>1. Init => Apart(t)
  BY DEF Init, Apart, OneStore, OwnWork, OwnMarks, Idle
<1>2. Apart(t) => AccountsStayApart
  BY DEF Apart, OneStore, OwnMarks, AccountsStayApart, JournalIsOwn, GuestMarkIsTrue
<1> QED
  BY <1>1, <1>2, SessionInit, SessionStep, ApartStep, PTL DEF Spec
=============================================================================
