---------------------------- MODULE AIQuotaProofs ----------------------------
(***************************************************************************)
(* Proofs about AIQuota, for any users, requests, providers, quotas and    *)
(* months: the types, and that the whole of requests, reset job and        *)
(* crashes implements QuotaMeter.                                          *)
(***************************************************************************)
EXTENDS AIQuota, FiniteSetTheorems, TLAPS

\* Rows: no reset lies in the future, free users have no paid plan to run out.
RowsSound ==
    \A u \in User :
        /\ sub[u].reset <= Month(day)
        /\ sub[u].tier = Free => sub[u].expires = Never

\* The rows listed by the reset job still need their reset.
ListSound == \A u \in toReset : Expired(sub[u]) \/ sub[u].reset < Month(day)

\* A request looks up keys first and counts a call once it is made.
RequestSound(q) ==
    /\ q.used <= Cardinality(q.service \ q.asked)
    /\ q.pc = "keys" => q.used = 0
    /\ q.pc = "call" => q.unresolved = {}

RequestsSound == \A r \in Req : req[r] # Idle => RequestSound(req[r])

QuotaInvariant == TypeOK /\ RowsSound /\ ListSound /\ RequestsSound

-----------------------------------------------------------------------------
(* The calendar and finite sets of providers *)

LEMMA MonthTyped == \A d \in Nat : Month(d) \in Nat
  BY CalendarAssumption DEF Month

LEMMA MonthGrows == \A d \in Nat : Month(d) <= Month(d + 1)
<1> SUFFICES ASSUME NEW d \in Nat PROVE Month(d) <= Month(d + 1)
  OBVIOUS
<1> DEFINE D == DaysPerMonth
           q == d \div D
           p == (d + 1) \div D
<1>1. D \in Nat /\ D > 0
  BY CalendarAssumption
<1>2. q \in Int /\ p \in Int /\ d = D * q + (d % D) /\ d % D \in 0..(D - 1)
  BY <1>1
<1>3. d + 1 = D * p + ((d + 1) % D) /\ (d + 1) % D \in 0..(D - 1)
  BY <1>1
<1>4. ASSUME p < q PROVE FALSE
  <2>1. D * p + D <= D * q
    BY <1>1, <1>2, <1>4
  <2> QED
    BY <2>1, <1>1, <1>2, <1>3
<1> QED
  BY <1>2, <1>4 DEF Month

LEMMA ProvidersFinite ==
    \A S \in SUBSET Provider :
        /\ IsFiniteSet(S) /\ Cardinality(S) \in Nat
        /\ \A p \in Provider \ S : Cardinality(S \cup {p}) = Cardinality(S) + 1
  BY KeyAssumption, FS_Subset, FS_CardinalityType, FS_AddElement

LEMMA CardinalityMonotone ==
    ASSUME NEW S \in SUBSET Provider, NEW T \in SUBSET S
    PROVE  Cardinality(T) <= Cardinality(S)
  BY ProvidersFinite, FS_Subset

LEMMA StepCases ==
    ASSUME Next
    PROVE  \/ Tick \/ Crash \/ Restart \/ ListSubscriptions \/ ListFails
           \/ \E u \in User : ResetRow(u)
           \/ \E u \in User : ResetRowFails(u)
           \/ \E r \in Req, u \in User : ReadSubscription(r, u)
           \/ \E r \in Req : ResolveKey(r) \/ ResolveKeyFails(r)
           \/ \E r \in Req : Decide(r)
           \/ \E r \in Req : CallProvider(r) \/ CallFails(r)
           \/ \E r \in Req : AnswerUncharged(r) \/ ChargeRefused(r) \/ ChargeFails(r)
           \/ \E r \in Req : Charge(r)
           \/ \E u \in User : CacheExpires(u)
           \/ \E u \in User, p \in Provider : StoreKey(u, p) \/ DeleteKey(u, p)
  BY Zenon DEF Next, ResetStep, ResetFault, RequestStep, RequestFault

-----------------------------------------------------------------------------
(* Initial states *)

LEMMA InvariantInit == Init => QuotaInvariant
<1> SUFFICES ASSUME Init PROVE QuotaInvariant
  OBVIOUS
<1> USE DEF Init
<1>1. PICK tier \in [User -> Tier], last \in [User -> {Never} \cup 0..MaxDay] :
          /\ \A u \in User : tier[u] = Free => last[u] = Never
          /\ sub = [u \in User |->
                      [tier |-> tier[u], left |-> Quota[tier[u]], limit |-> Quota[tier[u]],
                       reset |-> 0, expires |-> last[u]]]
  OBVIOUS
<1>2. 0 \in 0..MaxDay /\ 0 \in 0..MaxFaults
  BY QuotaBounds
<1>3. sub \in [User -> Subscription]
  BY <1>1, TierAssumption, QuotaBounds DEF Subscription
<1>4. TypeOK
  <2>1. \A u \in User : sub[u].left <= sub[u].limit /\ sub[u].limit = Quota[sub[u].tier]
    BY <1>1, TierAssumption
  <2>2. ownKeys \in [User -> SUBSET Provider]
    OBVIOUS
  <2>3. req \in [Req -> Request \cup {Idle}]
    OBVIOUS
  <2> QED
    BY <1>2, <1>3, <2>1, <2>2, <2>3 DEF TypeOK
<1>5. RowsSound
  BY <1>1, MonthTyped DEF RowsSound
<1> QED
  BY <1>4, <1>5 DEF QuotaInvariant, ListSound, RequestsSound

-----------------------------------------------------------------------------
(* Requests *)

\* The shape a request keeps through every step.
RequestTyped(q) == q = Idle \/ (q \in Request /\ RequestSound(q))

LEMMA RequestsTyped ==
    ASSUME QuotaInvariant
    PROVE  \A r \in Req : RequestTyped(req[r])
  BY DEF QuotaInvariant, TypeOK, RequestsSound, RequestTyped

\* Looking up a key, with any outcome.
LEMMA UseKeyKeeps ==
    ASSUME QuotaInvariant, NEW r \in Req, req[r] # Idle,
           NEW p \in req[r].unresolved, NEW own \in BOOLEAN, UseKey(r, p, own),
           NEW s \in Req
    PROVE  RequestTyped(req'[s])
<1> DEFINE q == req[r]
<1>1. q \in Request /\ RequestSound(q)
  BY RequestsTyped DEF RequestTyped
<1>2. q.pc = "keys" /\ q.used = 0 /\ p \in Provider
  BY <1>1 DEF Request, RequestSound
<1>3. req \in [Req -> Request \cup {Idle}]
  BY DEF QuotaInvariant, TypeOK
<1>4. CASE s # r
  <2>1. req'[s] = req[s]
    BY <1>3, <1>4 DEF UseKey, Return
  <2> QED
    BY <2>1, RequestsTyped
<1>5. CASE s = r /\ req'[r] = Idle
  BY <1>5 DEF RequestTyped
<1>6. CASE s = r /\ req'[r] # Idle
  <2>1. req' = [req EXCEPT
            ![r].unresolved = @ \ {p},
            ![r].asked = IF own \/ p \in ServiceKey THEN @ \cup {p} ELSE @,
            ![r].service = IF ~own /\ p \in ServiceKey THEN @ \cup {p} ELSE @]
    BY <1>3, <1>6 DEF UseKey, Return
  <2>2. req'[r] = [q EXCEPT
            !.unresolved = @ \ {p},
            !.asked = IF own \/ p \in ServiceKey THEN @ \cup {p} ELSE @,
            !.service = IF ~own /\ p \in ServiceKey THEN @ \cup {p} ELSE @]
    BY <1>3, <2>1
  <2>3. req'[r] \in Request
    <3>1. q.unresolved \in SUBSET Provider /\ q.asked \in SUBSET Provider
            /\ q.service \in SUBSET Provider
      BY <1>1 DEF Request
    <3>2. /\ q.unresolved \ {p} \in SUBSET Provider
          /\ q.asked \cup {p} \in SUBSET Provider
          /\ q.service \cup {p} \in SUBSET Provider
      BY <3>1, <1>2
    <3> QED
      BY <1>1, <2>2, <3>1, <3>2 DEF Request
  <2>4. req'[r].used = 0 /\ req'[r].pc = "keys"
    BY <1>1, <1>2, <2>2 DEF Request
  <2>5. 0 <= Cardinality(req'[r].service \ req'[r].asked)
    <3>1. req'[r].service \ req'[r].asked \in SUBSET Provider
      BY <2>3 DEF Request
    <3> QED
      BY <3>1, ProvidersFinite
  <2> QED
    BY <1>6, <2>3, <2>4, <2>5 DEF RequestTyped, RequestSound
<1> QED
  BY <1>4, <1>5, <1>6

\* A step that leaves every request as it was, ends it, or marks it overtaken.
LEMMA MarksKeep ==
    ASSUME QuotaInvariant, NEW s \in Req,
           \/ req'[s] = req[s]
           \/ req'[s] = Idle
           \/ req[s] # Idle /\ req'[s] = [req[s] EXCEPT !.overtaken = TRUE]
    PROVE  RequestTyped(req'[s])
<1>1. CASE req'[s] = req[s] \/ req'[s] = Idle
  BY <1>1, RequestsTyped DEF RequestTyped
<1>2. CASE req[s] # Idle /\ req'[s] = [req[s] EXCEPT !.overtaken = TRUE]
  <2>1. req[s] \in Request /\ RequestSound(req[s])
    BY <1>2, RequestsTyped DEF RequestTyped
  <2> QED
    BY <1>2, <2>1 DEF RequestTyped, RequestSound, Request
<1> QED
  BY <1>1, <1>2

LEMMA ReadSubscriptionKeeps ==
    ASSUME QuotaInvariant, NEW r \in Req, NEW u \in User, ReadSubscription(r, u), NEW s \in Req
    PROVE  RequestTyped(req'[s])
<1>1. PICK kind \in {"opinions", "one-shot"}, P \in SUBSET Provider \ {{}} :
          req' = [req EXCEPT ![r] =
                [pc |-> "keys", user |-> u, kind |-> kind,
                 left |-> sub[u].left, limit |-> sub[u].limit, unresolved |-> P,
                 asked |-> {}, service |-> {}, used |-> 0, overtaken |-> FALSE]]
  BY DEF ReadSubscription
<1>2. req \in [Req -> Request \cup {Idle}] /\ sub[u] \in Subscription
  BY DEF QuotaInvariant, TypeOK
<1>3. CASE s # r
  BY <1>1, <1>2, <1>3, MarksKeep
<1>4. CASE s = r
  <2>1. req'[r] \in Request
    BY <1>1, <1>2 DEF Request, Subscription
  <2>2. /\ req'[r].used = 0 /\ req'[r].pc = "keys"
        /\ req'[r].service \ req'[r].asked \in SUBSET Provider
    BY <1>1, <1>2
  <2> QED
    BY <1>4, <2>1, <2>2, ProvidersFinite DEF RequestTyped, RequestSound
<1> QED
  BY <1>3, <1>4

LEMMA DecideKeeps ==
    ASSUME QuotaInvariant, NEW r \in Req, Decide(r), NEW s \in Req
    PROVE  RequestTyped(req'[s])
<1> DEFINE q == req[r]
<1>1. q \in Request /\ RequestSound(q) /\ q.unresolved = {}
  BY RequestsTyped DEF RequestTyped, Decide
<1>2. req \in [Req -> Request \cup {Idle}]
  BY DEF QuotaInvariant, TypeOK
<1>3. CASE s # r \/ req'[s] = Idle
  BY <1>2, <1>3, MarksKeep DEF Decide, Return
<1>4. CASE s = r /\ req'[s] # Idle
  <2>1. req' = [req EXCEPT ![r].pc = "call", ![r].left = 0, ![r].limit = 0]
    BY <1>2, <1>4 DEF Decide, Return
  <2>2. req'[r] = [q EXCEPT !.pc = "call", !.left = 0, !.limit = 0]
    BY <1>2, <2>1
  <2>3. req'[r] \in Request
    <3>1. /\ q = [pc |-> q.pc, user |-> q.user, kind |-> q.kind, left |-> q.left,
                  limit |-> q.limit, unresolved |-> q.unresolved, asked |-> q.asked,
                  service |-> q.service, used |-> q.used, overtaken |-> q.overtaken]
          /\ q.user \in User /\ q.kind \in {"opinions", "one-shot"}
          /\ q.unresolved \in SUBSET Provider /\ q.asked \in SUBSET Provider
          /\ q.service \in SUBSET Provider /\ q.used \in Nat /\ q.overtaken \in BOOLEAN
      BY <1>1 DEF Request
    <3>2. req'[r] = [pc |-> "call", user |-> q.user, kind |-> q.kind, left |-> 0,
                     limit |-> 0, unresolved |-> q.unresolved, asked |-> q.asked,
                     service |-> q.service, used |-> q.used, overtaken |-> q.overtaken]
      BY <2>2, <3>1
    <3> QED
      BY <3>1, <3>2 DEF Request
  <2>4. /\ req'[r].pc = "call" /\ req'[r].used = q.used /\ req'[r].unresolved = {}
        /\ req'[r].service = q.service /\ req'[r].asked = q.asked
        /\ q.used <= Cardinality(q.service \ q.asked)
    BY <1>1, <2>2 DEF Request, RequestSound
  <2> QED
    BY <1>4, <2>3, <2>4 DEF RequestTyped, RequestSound
<1> QED
  BY <1>3, <1>4

LEMMA CallProviderKeeps ==
    ASSUME QuotaInvariant, NEW r \in Req, CallProvider(r) \/ CallFails(r), NEW s \in Req
    PROVE  RequestTyped(req'[s])
<1> DEFINE q == req[r]
           rest(p) == q.asked \ {p}
<1>1. q \in Request /\ RequestSound(q)
  BY RequestsTyped DEF RequestTyped, CallProvider, CallFails
<1>2. req \in [Req -> Request \cup {Idle}]
  BY DEF QuotaInvariant, TypeOK
<1>3. CASE s # r \/ req'[s] = Idle
  BY <1>2, <1>3, MarksKeep DEF CallProvider, CallFails, Return
<1>4. CASE s = r /\ req'[s] # Idle
  <2>1. PICK p \in q.asked, n \in {q.used, q.used + 1} :
          /\ req'[r] = [q EXCEPT !.asked = rest(p), !.used = n]
          /\ n # q.used => p \in q.service
    <3>1. CASE CallProvider(r)
      BY <1>1, <1>2, <3>1 DEF CallProvider, Request
    <3>2. CASE CallFails(r)
      <4>1. PICK p \in q.asked : req' = [req EXCEPT ![r].asked = @ \ {p}]
        BY <1>2, <1>4, <3>2 DEF CallFails, Return
      <4>2. req'[r] = [q EXCEPT !.asked = rest(p), !.used = q.used]
        BY <1>1, <1>2, <4>1 DEF Request
      <4> QED
        BY <4>2
    <3> QED
      BY <3>1, <3>2
  <2>2. /\ q.asked \in SUBSET Provider /\ q.service \in SUBSET Provider
        /\ q.used \in Nat /\ q.pc \in {"keys", "call"} /\ n \in Nat
    BY <1>1 DEF Request
  <2>3. req'[r] \in Request
    BY <1>1, <2>1, <2>2 DEF Request
  <2>4. /\ req'[r].used = n /\ req'[r].asked = rest(p)
        /\ req'[r].service = q.service /\ req'[r].unresolved = q.unresolved
        /\ req'[r].pc = "call" /\ q.pc = "call"
    <3>1. q.pc = "call"
      BY DEF CallProvider, CallFails
    <3> QED
      BY <1>1, <2>1, <3>1 DEF Request
  <2>5. n <= Cardinality(q.service \ rest(p))
    <3> DEFINE S == q.service \ q.asked
               T == q.service \ rest(p)
    <3>1. S \in SUBSET Provider /\ T \in SUBSET Provider /\ S \in SUBSET T
      BY <2>2
    <3>2. Cardinality(S) \in Nat /\ Cardinality(T) \in Nat /\ q.used <= Cardinality(S)
      BY <1>1, <3>1, ProvidersFinite DEF RequestSound
    <3>3. CASE n = q.used
      BY <2>2, <3>1, <3>2, <3>3, CardinalityMonotone
    <3>4. CASE n # q.used
      <4>1. T = S \cup {p} /\ p \in Provider \ S
        BY <2>1, <2>2, <3>4
      <4>2. Cardinality(T) = Cardinality(S) + 1
        BY <3>1, <4>1, ProvidersFinite
      <4> QED
        BY <2>1, <2>2, <3>2, <3>4, <4>2
    <3> QED
      BY <3>3, <3>4
  <2> QED
    BY <1>1, <1>4, <2>3, <2>4, <2>5 DEF RequestTyped, RequestSound
<1> QED
  BY <1>3, <1>4

\* Every step keeps the shape of every request.
LEMMA RequestsStep ==
    ASSUME QuotaInvariant, [Next]_vars
    PROVE  /\ req' \in [Req -> Request \cup {Idle}]
           /\ RequestsSound'
<1> DEFINE total == req' = [s \in Req |-> req'[s]]
<1>1. req \in [Req -> Request \cup {Idle}]
  BY DEF QuotaInvariant, TypeOK
<1>2. total /\ \A s \in Req : RequestTyped(req'[s])
  <2>1. CASE \/ req' = req
             \/ \E r \in Req : Return(r)
             \/ Crash
    BY <1>1, <2>1, MarksKeep DEF Return, Crash
  <2>2. CASE \E r \in Req, u \in User : ReadSubscription(r, u)
    <3>1. total
      BY <1>1, <2>2 DEF ReadSubscription
    <3> QED
      BY <2>2, <3>1, ReadSubscriptionKeeps
  <2>3. CASE \E r \in Req : ResolveKey(r) \/ ResolveKeyFails(r)
    <3>1. PICK r \in Req : req[r] # Idle /\ (ResolveKey(r) \/ ResolveKeyFails(r))
      BY <2>3 DEF ResolveKey, ResolveKeyFails
    <3>2. PICK p \in req[r].unresolved, own \in BOOLEAN : UseKey(r, p, own)
      <4>1. CASE ResolveKey(r)
        <5>1. PICK p \in req[r].unresolved : UseKey(r, p, p \in ownKeys[req[r].user])
          BY <4>1 DEF ResolveKey
        <5>2. CASE p \in ownKeys[req[r].user]
          <6>1. UseKey(r, p, TRUE)
            BY <5>1, <5>2 DEF UseKey
          <6> QED
            BY <6>1
        <5>3. CASE p \notin ownKeys[req[r].user]
          <6>1. UseKey(r, p, FALSE)
            BY <5>1, <5>3 DEF UseKey
          <6> QED
            BY <6>1
        <5> QED
          BY <5>2, <5>3
      <4>2. CASE ResolveKeyFails(r)
        BY <4>2 DEF ResolveKeyFails
      <4> QED
        BY <3>1, <4>1, <4>2
    <3>3. total
      BY <1>1, <3>2 DEF UseKey, Return
    <3> QED
      BY <3>1, <3>2, <3>3, UseKeyKeeps
  <2>4. CASE \E r \in Req : Decide(r)
    <3>1. total
      BY <1>1, <2>4 DEF Decide, Return
    <3> QED
      BY <2>4, <3>1, DecideKeeps
  <2>5. CASE \E r \in Req : CallProvider(r) \/ CallFails(r)
    <3>1. total
      BY <1>1, <2>5 DEF CallProvider, CallFails, Return
    <3> QED
      BY <2>5, <3>1, CallProviderKeeps
  <2>6. CASE \E r \in Req : AnswerUncharged(r) \/ ChargeRefused(r) \/ ChargeFails(r)
    BY <2>1, <2>6 DEF AnswerUncharged, ChargeRefused, ChargeFails
  <2>7. CASE \E r \in Req : Charge(r)
    BY <2>7, MarksKeep DEF Charge, Serving
  <2>8. CASE \E u \in User : ResetRow(u)
    BY <2>8, MarksKeep DEF ResetRow, Serving
  <2>9. CASE \/ UNCHANGED vars \/ Tick \/ Restart \/ ListSubscriptions \/ ListFails
             \/ \E u \in User : ResetRowFails(u) \/ CacheExpires(u)
             \/ \E u \in User, p \in Provider : StoreKey(u, p) \/ DeleteKey(u, p)
    BY <2>1, <2>9 DEF vars, Tick, Restart, ListSubscriptions, ListFails, ResetRowFails,
                      CacheExpires, StoreKey, DeleteKey
  <2>10. CASE Crash
    BY <2>1, <2>10
  <2> QED
    BY <2>1, <2>2, <2>3, <2>4, <2>5, <2>6, <2>7, <2>8, <2>9, <2>10, StepCases
<1> QED
  BY <1>2 DEF RequestTyped, RequestsSound

-----------------------------------------------------------------------------
(* Rows *)

\* What TypeOK says of one row.
RowTyped(row) ==
    row \in Subscription /\ row.left <= row.limit /\ row.limit = Quota[row.tier]

LEMMA RowsTyped ==
    ASSUME TypeOK
    PROVE  /\ sub \in [User -> Subscription]
           /\ \A u \in User : RowTyped(sub[u]) /\ sub[u].left \in Nat /\ sub[u].tier \in Tier
           /\ \A u \in User : sub[u].reset \in Nat /\ sub[u].expires \in {Never} \cup Nat
  BY DEF TypeOK, RowTyped, Subscription

\* A charge takes a positive amount off a row that has it.
LEMMA ChargedRow ==
    ASSUME QuotaInvariant, NEW r \in Req, Charge(r)
    PROVE  \E u \in User : \E n \in 1..sub[u].left :
              sub' = [sub EXCEPT ![u] = [sub[u] EXCEPT !.left = sub[u].left - n]]
<1> DEFINE u == req[r].user
           n == req[r].used
<1>1. req[r] \in Request
  BY RequestsTyped DEF RequestTyped, Charge, CallsMade
<1>2. u \in User /\ n \in Nat
  BY <1>1 DEF Request
<1>3. sub[u].left \in Nat
  BY <1>2, RowsTyped DEF QuotaInvariant
<1>4. n \in 1..sub[u].left
  BY <1>2, <1>3 DEF Charge
<1>5. sub' = [sub EXCEPT ![u] = [sub[u] EXCEPT !.left = sub[u].left - n]]
  BY DEF Charge
<1> QED
  BY <1>2, <1>4, <1>5

\* A reset row: filled up, and free with no paid plan left or unchanged in both.
LEMMA ReplacedRow ==
    ASSUME QuotaInvariant, NEW u \in User, ResetRow(u)
    PROVE  \E tier \in Tier, until \in {Never} \cup Nat :
              /\ sub' = [sub EXCEPT ![u] =
                    [tier |-> tier, left |-> Quota[tier], limit |-> Quota[tier],
                     reset |-> Month(day), expires |-> until]]
              /\ IF Expired(sub[u])
                 THEN tier = Free /\ until = Never
                 ELSE tier = sub[u].tier /\ until = sub[u].expires
              /\ tier = Free => until = Never
<1> DEFINE tier  == IF Expired(sub[u]) THEN Free ELSE sub[u].tier
           until == IF tier = Free THEN Never ELSE sub[u].expires
<1>1. /\ tier \in Tier
      /\ until \in {Never} \cup Nat
  BY RowsTyped, TierAssumption DEF QuotaInvariant
<1>2. sub' = [sub EXCEPT ![u] =
         [tier |-> tier, left |-> Quota[tier], limit |-> Quota[tier],
          reset |-> Month(day), expires |-> until]]
  BY DEF ResetRow, TierReset
<1>3. ~Expired(sub[u]) => until = sub[u].expires
  BY DEF QuotaInvariant, RowsSound
<1> HIDE DEF until
<1>4. Expired(sub[u]) => tier = Free /\ until = Never
  BY DEF until
<1>5. tier = Free => until = Never
  BY DEF until
<1> QED
  BY <1>1, <1>2, <1>3, <1>4, <1>5

\* The actions that leave rows, list and calendar alone.
LEMMA StepsOfRows ==
    ASSUME QuotaInvariant, [Next]_vars
    PROVE  \/ UNCHANGED <<sub, day, toReset>>
           \/ Tick
           \/ \E r \in Req : Charge(r)
           \/ ListSubscriptions
           \/ \E u \in User : ResetRow(u)
           \/ UNCHANGED <<sub, day>> /\ toReset' \subseteq toReset
  BY StepCases DEF vars, Crash, Restart, ListFails, ResetRowFails, ReadSubscription, ResolveKey,
        ResolveKeyFails, Decide, CallProvider, CallFails, AnswerUncharged, ChargeRefused,
        ChargeFails, CacheExpires, StoreKey, DeleteKey

LEMMA RowsStep ==
    ASSUME QuotaInvariant, [Next]_vars
    PROVE  /\ sub' \in [User -> Subscription]
           /\ \A u \in User : RowTyped(sub'[u])
           /\ RowsSound'
           /\ ListSound'
<1>1. TypeOK /\ RowsSound /\ ListSound /\ day \in Nat /\ toReset \subseteq User
  BY QuotaBounds DEF QuotaInvariant, TypeOK
<1>2. Month(day) \in Nat
  BY <1>1, MonthTyped
<1>3. CASE UNCHANGED <<sub, day>> /\ toReset' \subseteq toReset
  BY <1>1, <1>3, RowsTyped DEF RowsSound, ListSound, Expired, Month
<1>4. CASE Tick
  <2>1. sub' = sub /\ toReset' = {} /\ Month(day)' = Month(day + 1)
    BY <1>4 DEF Tick, Month
  <2>2. Month(day + 1) \in Nat /\ Month(day) <= Month(day + 1)
    BY <1>1, MonthTyped, MonthGrows
  <2>3. RowsSound'
    BY <1>1, <1>2, <2>1, <2>2, RowsTyped DEF RowsSound
  <2>4. ListSound'
    BY <2>1 DEF ListSound
  <2> QED
    BY <1>1, <2>1, <2>3, <2>4, RowsTyped
<1>5. CASE \E r \in Req : Charge(r)
  <2>0. PICK v \in User : \E n \in 1..sub[v].left :
           sub' = [sub EXCEPT ![v] = [sub[v] EXCEPT !.left = sub[v].left - n]]
    BY <1>5, ChargedRow
  <2>1. PICK n \in 1..sub[v].left :
           sub' = [sub EXCEPT ![v] = [sub[v] EXCEPT !.left = sub[v].left - n]]
    BY <2>0
  <2>2. day' = day /\ toReset' = toReset
    BY <1>5 DEF Charge
  <2>3. \A u \in User :
           /\ sub'[u].tier = sub[u].tier /\ sub'[u].reset = sub[u].reset
           /\ sub'[u].expires = sub[u].expires
    BY <1>1, <2>1, RowsTyped DEF Subscription
  <2>4. \A u \in User : sub'[u] \in Subscription /\ RowTyped(sub'[u])
    <3> SUFFICES ASSUME NEW u \in User PROVE sub'[u] \in Subscription /\ RowTyped(sub'[u])
      OBVIOUS
    <3>1. RowTyped(sub[u]) /\ sub[u].left \in Nat
      BY <1>1, RowsTyped
    <3>2. CASE u # v
      BY <1>1, <2>1, <3>1, <3>2, RowsTyped DEF RowTyped
    <3>3. CASE u = v
      BY <1>1, <2>1, <3>1, <3>3, RowsTyped DEF RowTyped, Subscription
    <3> QED
      BY <3>2, <3>3
  <2>5. RowsSound' /\ ListSound'
    BY <1>1, <2>2, <2>3 DEF RowsSound, ListSound, Expired, Month
  <2> QED
    BY <1>1, <2>1, <2>4, <2>5, RowsTyped
<1>6. CASE ListSubscriptions
  <2>1. sub' = sub /\ day' = day
          /\ toReset' = {u \in User : Expired(sub[u]) \/ MonthChanged(sub[u])}
    BY <1>6 DEF ListSubscriptions
  <2>2. ListSound'
    BY <1>1, <1>2, <2>1, RowsTyped DEF ListSound, RowsSound, MonthChanged, Expired, Month
  <2> QED
    BY <1>1, <2>1, <2>2, RowsTyped DEF RowsSound, Month
<1>7. CASE \E u \in User : ResetRow(u)
  <2>1. PICK v \in User : ResetRow(v)
    BY <1>7
  <2>2. PICK tier \in Tier, until \in {Never} \cup Nat :
           /\ sub' = [sub EXCEPT ![v] =
                 [tier |-> tier, left |-> Quota[tier], limit |-> Quota[tier],
                  reset |-> Month(day), expires |-> until]]
           /\ tier = Free => until = Never
    BY <2>1, ReplacedRow
  <2>3. day' = day /\ toReset' = toReset \ {v}
    BY <2>1 DEF ResetRow
  <2>4. Quota[tier] \in Nat
    BY TierAssumption
  <2>5. \A u \in User : sub'[u] \in Subscription /\ RowTyped(sub'[u])
    <3> SUFFICES ASSUME NEW u \in User PROVE sub'[u] \in Subscription /\ RowTyped(sub'[u])
      OBVIOUS
    <3>1. CASE u # v
      BY <1>1, <2>2, <3>1, RowsTyped
    <3>2. CASE u = v
      BY <1>1, <1>2, <2>2, <2>4, <3>2, RowsTyped DEF RowTyped, Subscription
    <3> QED
      BY <3>1, <3>2
  <2>6. RowsSound'
    BY <1>1, <1>2, <2>2, <2>3, RowsTyped DEF RowsSound, Month
  <2>7. ListSound'
    BY <1>1, <2>2, <2>3, RowsTyped DEF ListSound, Expired, Month
  <2> QED
    BY <1>1, <2>2, <2>5, <2>6, <2>7, RowsTyped
<1> QED
  BY <1>3, <1>4, <1>5, <1>6, <1>7, StepsOfRows

-----------------------------------------------------------------------------
(* The invariant *)

LEMMA OthersTyped ==
    ASSUME QuotaInvariant, [Next]_vars
    PROVE  /\ day' \in 0..MaxDay /\ up' \in BOOLEAN /\ faults' \in 0..MaxFaults
           /\ ownKeys' \in [User -> SUBSET Provider]
           /\ cached' \subseteq User
           /\ resetDue' \in BOOLEAN
           /\ toReset' \subseteq User
<1>1. /\ day \in 0..MaxDay /\ up \in BOOLEAN /\ faults \in 0..MaxFaults
      /\ ownKeys \in [User -> SUBSET Provider]
      /\ cached \subseteq User
      /\ resetDue \in BOOLEAN
      /\ toReset \subseteq User
  BY DEF QuotaInvariant, TypeOK
<1>2. \A r \in Req : req[r] # Idle => req[r].user \in User
  BY RequestsTyped DEF RequestTyped, Request
<1>3. Fault => faults' \in 0..MaxFaults
  BY <1>1, QuotaBounds DEF Fault
<1>4. CASE UNCHANGED vars
  BY <1>1, <1>4 DEF vars
<1>5. CASE Tick
  BY <1>1, <1>5, QuotaBounds DEF Tick
<1>6. CASE Crash \/ Restart \/ ListSubscriptions \/ ListFails
  BY <1>1, <1>3, <1>6 DEF Crash, Restart, ListSubscriptions, ListFails
<1>7. CASE \E u \in User : ResetRow(u) \/ ResetRowFails(u)
  BY <1>1, <1>3, <1>7 DEF ResetRow, ResetRowFails
<1>8. CASE \/ \E r \in Req, u \in User : ReadSubscription(r, u)
           \/ \E r \in Req : ResolveKey(r) \/ ResolveKeyFails(r)
           \/ \E r \in Req : Decide(r)
           \/ \E r \in Req : CallProvider(r) \/ CallFails(r)
  BY <1>1, <1>3, <1>8 DEF ReadSubscription, ResolveKey, ResolveKeyFails, Decide,
                          CallProvider, CallFails
<1>9. CASE \/ \E r \in Req : AnswerUncharged(r) \/ ChargeRefused(r) \/ ChargeFails(r)
           \/ \E r \in Req : Charge(r)
  BY <1>1, <1>2, <1>3, <1>9 DEF AnswerUncharged, ChargeRefused, ChargeFails, Charge, Answer,
                                CallsMade
<1>10. CASE \/ \E u \in User : CacheExpires(u)
            \/ \E u \in User, p \in Provider : StoreKey(u, p) \/ DeleteKey(u, p)
  BY <1>1, <1>10 DEF CacheExpires, StoreKey, DeleteKey
<1> QED
  BY <1>4, <1>5, <1>6, <1>7, <1>8, <1>9, <1>10, StepCases

LEMMA InvariantStep == QuotaInvariant /\ [Next]_vars => QuotaInvariant'
<1> SUFFICES ASSUME QuotaInvariant, [Next]_vars PROVE QuotaInvariant'
  OBVIOUS
<1>1. \A r \in Req : req'[r] # Idle => req'[r].used <= Cardinality(req'[r].service)
  <2> SUFFICES ASSUME NEW r \in Req, req'[r] # Idle
               PROVE  req'[r].used <= Cardinality(req'[r].service)
    OBVIOUS
  <2> DEFINE q == req'[r]
  <2>1. q \in Request /\ RequestSound(q)
    BY RequestsStep DEF RequestsSound
  <2>2. q.used \in Nat /\ q.service \in SUBSET Provider
    BY <2>1 DEF Request
  <2>3. Cardinality(q.service \ q.asked) <= Cardinality(q.service)
    BY <2>2, CardinalityMonotone
  <2>4. Cardinality(q.service \ q.asked) \in Nat /\ Cardinality(q.service) \in Nat
    BY <2>2, ProvidersFinite
  <2> QED
    BY <2>1, <2>2, <2>3, <2>4 DEF RequestSound
<1>2. TypeOK'
  BY <1>1, OthersTyped, RowsStep, RequestsStep DEF TypeOK, RowTyped
<1> QED
  BY <1>2, RowsStep, RequestsStep DEF QuotaInvariant

LEMMA Invariance == Spec => []QuotaInvariant
  BY InvariantInit, InvariantStep, PTL DEF Spec

\* Every variable keeps its type, what is left never exceeds the limit of the tier nor
\* falls below zero, and no request charges more calls than it was let through for
\* (TypeOK of AIQuota).
THEOREM Typing == Spec => []TypeOK
<1>1. QuotaInvariant => TypeOK
  BY DEF QuotaInvariant
<1> QED
  BY <1>1, Invariance, PTL

-----------------------------------------------------------------------------
(* Paid for until overtaken *)

\* The row s backs request q: it has at least what q read, and once q makes its calls
\* it can pay for them.
Backed(q, s) ==
    /\ q.pc = "keys" => q.left <= s.left /\ q.limit = s.limit
    /\ q.pc = "call" =>
         LET n == Cardinality(q.service) IN n <= s.left /\ ~ExceedsCap(s.left, s.limit, n)

HeldRowsSound ==
    \A r \in Req : req[r] # Idle /\ ~req[r].overtaken => Backed(req[r], sub[req[r].user])

\* The goal of the lemmas below, for one request.
StillBacked(r) ==
    req'[r] # Idle /\ ~req'[r].overtaken => Backed(req'[r], sub'[req'[r].user])

LEMMA BackedGrows ==
    ASSUME NEW q \in Request, NEW s \in Subscription, NEW t \in Subscription,
           Backed(q, s), t.left >= s.left, t.limit = s.limit
    PROVE  Backed(q, t)
<1>1. s.left \in Nat /\ t.left \in Nat /\ s.limit \in Nat /\ q.left \in Nat
  BY DEF Subscription, Request
<1>2. Cardinality(q.service) \in Nat
  BY ProvidersFinite DEF Request
<1> QED
  BY <1>1, <1>2, CapAssumption DEF Backed, ExceedsCap

\* A step that ends the request, marks it overtaken, or leaves it alone while its row
\* keeps the limit and loses nothing.
LEMMA HeldStays ==
    ASSUME QuotaInvariant, QuotaInvariant', HeldRowsSound, NEW r \in Req,
           \/ req'[r] = Idle
           \/ req'[r] # Idle /\ req'[r].overtaken
           \/ /\ req'[r] = req[r]
              /\ req[r] # Idle => LET u == req[r].user
                                  IN  sub'[u].left >= sub[u].left /\ sub'[u].limit = sub[u].limit
    PROVE  StillBacked(r)
<1> SUFFICES ASSUME req'[r] = req[r], req[r] # Idle, ~req[r].overtaken,
                    sub'[req[r].user].left >= sub[req[r].user].left,
                    sub'[req[r].user].limit = sub[req[r].user].limit
             PROVE  Backed(req[r], sub'[req[r].user])
  BY DEF StillBacked
<1>1. req[r] \in Request
  BY RequestsTyped DEF RequestTyped
<1>2. req[r].user \in User
  BY <1>1 DEF Request
<1>3. sub[req[r].user] \in Subscription /\ sub'[req[r].user] \in Subscription
  BY <1>2 DEF QuotaInvariant, TypeOK
<1>4. Backed(req[r], sub[req[r].user])
  BY DEF HeldRowsSound
<1> QED
  BY <1>1, <1>3, <1>4, BackedGrows

\* Looking up a key leaves what the request has read alone.
LEMMA UseKeyHeld ==
    ASSUME QuotaInvariant, QuotaInvariant', HeldRowsSound, NEW r \in Req, req[r] # Idle,
           NEW p \in req[r].unresolved, NEW own \in BOOLEAN, UseKey(r, p, own),
           sub' = sub, NEW s \in Req
    PROVE  StillBacked(s)
<1>1. req \in [Req -> Request \cup {Idle}] /\ \A u \in User : sub[u].left \in Nat
  BY RowsTyped DEF QuotaInvariant, TypeOK
<1>2. req[r] \in Request /\ req[r].pc = "keys"
  BY RequestsTyped DEF RequestTyped, RequestSound, Request
<1>3. CASE s # r
  <2>1. req'[s] = req[s]
    BY <1>1, <1>3 DEF UseKey, Return
  <2>2. req[s] # Idle => sub[req[s].user].left \in Nat
    BY <1>1, RequestsTyped DEF RequestTyped, Request
  <2>3. req[s] # Idle => sub'[req[s].user].left >= sub[req[s].user].left
    BY <2>2
  <2> QED
    BY <2>1, <2>3, HeldStays
<1>4. CASE s = r
  <2>1. CASE req'[r] = Idle
    BY <1>4, <2>1 DEF StillBacked
  <2>2. CASE req' = [req EXCEPT
            ![r].unresolved = @ \ {p},
            ![r].asked = IF own \/ p \in ServiceKey THEN @ \cup {p} ELSE @,
            ![r].service = IF ~own /\ p \in ServiceKey THEN @ \cup {p} ELSE @]
    <3>1. req'[r] = [req[r] EXCEPT
            !.unresolved = @ \ {p},
            !.asked = IF own \/ p \in ServiceKey THEN @ \cup {p} ELSE @,
            !.service = IF ~own /\ p \in ServiceKey THEN @ \cup {p} ELSE @]
      BY <1>1, <2>2
    <3>2. /\ req'[r].pc = "keys" /\ req'[r].left = req[r].left /\ req'[r].limit = req[r].limit
          /\ req'[r].user = req[r].user /\ req'[r].overtaken = req[r].overtaken
      BY <1>2, <3>1 DEF Request
    <3> QED
      BY <1>2, <1>4, <3>2 DEF HeldRowsSound, Backed, StillBacked
  <2> QED
    BY <1>1, <2>1, <2>2 DEF UseKey, Return
<1> QED
  BY <1>3, <1>4

\* The check is made on the row as it was read: what the row has by now is no less.
LEMMA DecideHeld ==
    ASSUME QuotaInvariant, HeldRowsSound, NEW r \in Req, Decide(r)
    PROVE  StillBacked(r)
<1> DEFINE q == req[r]
           n == Cardinality(q.service)
           t == sub[q.user]
<1>1. req \in [Req -> Request \cup {Idle}] /\ q \in Request /\ q.pc = "keys" /\ sub' = sub
  BY RequestsTyped DEF QuotaInvariant, TypeOK, RequestTyped, Decide
<1>2. q.user \in User /\ q.left \in Nat /\ q.service \in SUBSET Provider
  BY <1>1 DEF Request
<1>3. t \in Subscription /\ t.left \in Nat /\ t.limit \in Nat /\ n \in Nat
  BY <1>2, ProvidersFinite DEF QuotaInvariant, TypeOK, Subscription
<1>4. CASE ~Admitted(q)
  BY <1>1, <1>4 DEF Decide, Return, StillBacked
<1>5. CASE Admitted(q)
  <2>1. req'[r] = [q EXCEPT !.pc = "call", !.left = 0, !.limit = 0]
    BY <1>1, <1>5 DEF Decide
  <2>2. /\ req'[r].pc = "call" /\ req'[r].service = q.service /\ req'[r].user = q.user
        /\ req'[r].overtaken = q.overtaken
    BY <1>1, <2>1 DEF Request
  <2>3. ~q.overtaken => q.left <= t.left /\ q.limit = t.limit
    BY <1>1 DEF HeldRowsSound, Backed, Decide
  <2>4. n <= q.left /\ ~ExceedsCap(q.left, q.limit, n)
    BY <1>5 DEF Admitted
  <2>5. ~q.overtaken => n <= t.left /\ ~ExceedsCap(t.left, t.limit, n)
    BY <1>2, <1>3, <2>3, <2>4, CapAssumption DEF ExceedsCap
  <2> QED
    BY <1>1, <2>2, <2>5 DEF Backed, StillBacked
<1> QED
  BY <1>4, <1>5

\* A call changes what is still to ask and to charge, and no more.
LEMMA CallHeld ==
    ASSUME QuotaInvariant, HeldRowsSound, NEW r \in Req, CallProvider(r) \/ CallFails(r)
    PROVE  StillBacked(r)
<1> DEFINE q == req[r]
<1>1. /\ req \in [Req -> Request \cup {Idle}] /\ q \in Request /\ q # Idle /\ sub' = sub
      /\ q.pc = "call"
  BY RequestsTyped DEF QuotaInvariant, TypeOK, RequestTyped, CallProvider, CallFails
<1>2. CASE req'[r] = Idle
  BY <1>2 DEF StillBacked
<1>3. CASE req'[r] # Idle
  <2>1. \E A, n : req'[r] = [q EXCEPT !.asked = A, !.used = n]
    <3>1. CASE CallProvider(r)
      <4>1. PICK p \in q.asked :
               req' = [req EXCEPT ![r].asked = @ \ {p},
                                  ![r].used = IF p \in req[r].service THEN @ + 1 ELSE @]
        BY <3>1 DEF CallProvider
      <4>2. req'[r] = [q EXCEPT !.asked = q.asked \ {p},
                                !.used = IF p \in q.service THEN q.used + 1 ELSE q.used]
        BY <1>1, <4>1 DEF Request
      <4> QED
        BY <4>2
    <3>2. CASE CallFails(r)
      <4>1. PICK p \in q.asked : req' = [req EXCEPT ![r].asked = @ \ {p}]
        BY <1>1, <1>3, <3>2 DEF CallFails, Return
      <4>2. req'[r] = [q EXCEPT !.asked = q.asked \ {p}, !.used = q.used]
        BY <1>1, <4>1 DEF Request
      <4> QED
        BY <4>2
    <3> QED
      BY <3>1, <3>2
  <2>2. /\ req'[r].pc = q.pc /\ req'[r].service = q.service /\ req'[r].user = q.user
        /\ req'[r].overtaken = q.overtaken
    BY <1>1, <2>1 DEF Request
  <2> QED
    BY <1>1, <2>2 DEF HeldRowsSound, Backed, StillBacked
<1> QED
  BY <1>2, <1>3

LEMMA ReadHeld ==
    ASSUME QuotaInvariant, NEW r \in Req, NEW u \in User, ReadSubscription(r, u)
    PROVE  StillBacked(r)
<1>1. req \in [Req -> Request \cup {Idle}] /\ sub[u].left \in Nat /\ sub' = sub
  BY RowsTyped DEF QuotaInvariant, TypeOK, ReadSubscription
<1>2. /\ req'[r].pc = "keys" /\ req'[r].user = u
      /\ req'[r].left = sub[u].left /\ req'[r].limit = sub[u].limit
  BY <1>1 DEF ReadSubscription
<1> QED
  BY <1>1, <1>2 DEF Backed, StillBacked

\* A charge and a fall to the free tier mark every other request of the user.
LEMMA ChargeHeld ==
    ASSUME QuotaInvariant, QuotaInvariant', HeldRowsSound, NEW r \in Req, Charge(r), NEW s \in Req
    PROVE  StillBacked(s)
<1>1. req \in [Req -> Request \cup {Idle}] /\ sub \in [User -> Subscription]
  BY DEF QuotaInvariant, TypeOK
<1>2. req'[s] = IF s = r THEN Idle
                ELSE IF s \in Serving(req[r].user) THEN [req[s] EXCEPT !.overtaken = TRUE]
                ELSE req[s]
  BY DEF Charge
<1>3. CASE s = r
  BY <1>2, <1>3 DEF StillBacked
<1>4. CASE s # r /\ s \in Serving(req[r].user)
  <2>1. req[s] \in Request
    BY <1>1, <1>4 DEF Serving
  <2>2. req'[s].overtaken
    BY <1>2, <1>4, <2>1 DEF Request
  <2> QED
    BY <2>2 DEF StillBacked
<1>5. CASE s # r /\ s \notin Serving(req[r].user)
  <2>1. req'[s] = req[s]
    BY <1>2, <1>5
  <2>2. req[s] # Idle => req[s].user # req[r].user /\ req[s].user \in User
    BY <1>1, <1>5 DEF Serving, Request
  <2>3. req[s] # Idle => sub'[req[s].user] = sub[req[s].user] /\ sub[req[s].user].left \in Nat
    BY <1>1, <2>2, RowsTyped DEF Charge, QuotaInvariant
  <2>4. req[s] # Idle => sub'[req[s].user].left >= sub[req[s].user].left
    BY <2>3
  <2> QED
    BY <2>1, <2>3, <2>4, HeldStays
<1> QED
  BY <1>3, <1>4, <1>5

LEMMA ResetHeld ==
    ASSUME QuotaInvariant, QuotaInvariant', HeldRowsSound, NEW u \in User, ResetRow(u), NEW s \in Req
    PROVE  StillBacked(s)
<1> DEFINE tier == IF Expired(sub[u]) THEN Free ELSE sub[u].tier
<1>1. req \in [Req -> Request \cup {Idle}] /\ sub \in [User -> Subscription]
  BY DEF QuotaInvariant, TypeOK
<1>2. req'[s] = IF s \in Serving(u) /\ tier # sub[u].tier
                THEN [req[s] EXCEPT !.overtaken = TRUE] ELSE req[s]
  BY DEF ResetRow
<1>3. CASE s \in Serving(u) /\ tier # sub[u].tier
  <2>1. req[s] \in Request
    BY <1>1, <1>3 DEF Serving
  <2>2. req'[s].overtaken
    BY <1>2, <1>3, <2>1 DEF Request
  <2> QED
    BY <2>2 DEF StillBacked
<1>4. CASE ~(s \in Serving(u) /\ tier # sub[u].tier)
  <2>1. req'[s] = req[s]
    BY <1>2, <1>4
  <2>2. \A v \in User : sub[v].left \in Nat
    BY RowsTyped DEF QuotaInvariant
  <2>3. req[s] # Idle => req[s].user \in User
    BY <1>1 DEF Request
  <2>4. CASE tier = sub[u].tier
    <3>1. sub[u].left <= Quota[tier] /\ sub[u].limit = Quota[tier]
      BY <2>4 DEF QuotaInvariant, TypeOK
    <3>2. sub'[u].left = Quota[tier] /\ sub'[u].limit = Quota[tier]
      BY <1>1 DEF ResetRow, TierReset
    <3>3. \A v \in User : v # u => sub'[v] = sub[v]
      BY <1>1 DEF ResetRow
    <3>4. \A v \in User : sub'[v].left >= sub[v].left /\ sub'[v].limit = sub[v].limit
      BY <2>2, <3>1, <3>2, <3>3
    <3> QED
      BY <2>1, <2>3, <3>4, HeldStays
  <2>5. CASE s \notin Serving(u)
    <3>1. req[s] # Idle => req[s].user # u /\ req[s].user \in User
      BY <2>3, <2>5 DEF Serving
    <3>2. req[s] # Idle => sub'[req[s].user] = sub[req[s].user]
      BY <1>1, <3>1 DEF ResetRow
    <3>3. req[s] # Idle => sub'[req[s].user].left >= sub[req[s].user].left
      BY <2>2, <3>1, <3>2
    <3> QED
      BY <2>1, <3>2, <3>3, HeldStays
  <2> QED
    BY <1>4, <2>4, <2>5
<1> QED
  BY <1>3, <1>4

LEMMA HeldRowsStep ==
    QuotaInvariant /\ QuotaInvariant' /\ HeldRowsSound /\ [Next]_vars => HeldRowsSound'
<1> SUFFICES ASSUME QuotaInvariant, QuotaInvariant', HeldRowsSound, [Next]_vars, NEW s \in Req
             PROVE  StillBacked(s)
  BY DEF HeldRowsSound, StillBacked
<1>0. /\ req \in [Req -> Request \cup {Idle}]
      /\ req[s] # Idle => sub[req[s].user].left \in Nat
  BY RequestsTyped, RowsTyped DEF QuotaInvariant, TypeOK, RequestTyped, Request
<1>1. ASSUME sub' = sub, req'[s] = req[s] \/ req'[s] = Idle PROVE StillBacked(s)
  <2>1. req[s] # Idle => sub'[req[s].user].left >= sub[req[s].user].left
    BY <1>0, <1>1
  <2> QED
    BY <1>1, <2>1, HeldStays
<1>2. CASE UNCHANGED vars \/ Tick \/ Crash \/ Restart \/ ListSubscriptions \/ ListFails
  BY <1>1, <1>2 DEF vars, Tick, Crash, Restart, ListSubscriptions, ListFails
<1>3. ASSUME NEW u \in User, ResetRowFails(u) \/ CacheExpires(u) PROVE StillBacked(s)
  BY <1>1, <1>3 DEF ResetRowFails, CacheExpires
<1>4. ASSUME NEW u \in User, NEW p \in Provider, StoreKey(u, p) \/ DeleteKey(u, p)
      PROVE  StillBacked(s)
  BY <1>1, <1>4 DEF StoreKey, DeleteKey
<1>5. ASSUME NEW r \in Req, AnswerUncharged(r) \/ ChargeRefused(r) \/ ChargeFails(r)
      PROVE  StillBacked(s)
  BY <1>0, <1>1, <1>5 DEF AnswerUncharged, ChargeRefused, ChargeFails, Return
<1>6. ASSUME NEW r \in Req, ResolveKey(r) PROVE StillBacked(s)
  <2>1. PICK p \in req[r].unresolved : UseKey(r, p, p \in ownKeys[req[r].user])
    BY <1>6 DEF ResolveKey
  <2>2. (p \in ownKeys[req[r].user]) \in BOOLEAN
    OBVIOUS
  <2>3. req[r] # Idle /\ sub' = sub
    BY <1>6 DEF ResolveKey
  <2> QED
    BY <2>1, <2>2, <2>3, UseKeyHeld, Zenon
<1>7. ASSUME NEW r \in Req, ResolveKeyFails(r) PROVE StillBacked(s)
  BY <1>7, UseKeyHeld DEF ResolveKeyFails
<1>8. ASSUME NEW r \in Req, Decide(r) PROVE StillBacked(s)
  BY <1>0, <1>1, <1>8, DecideHeld DEF Decide, Return
<1>9. ASSUME NEW r \in Req, CallProvider(r) \/ CallFails(r) PROVE StillBacked(s)
  BY <1>0, <1>1, <1>9, CallHeld DEF CallProvider, CallFails, Return
<1>10. ASSUME NEW r \in Req, NEW u \in User, ReadSubscription(r, u) PROVE StillBacked(s)
  BY <1>0, <1>1, <1>10, ReadHeld DEF ReadSubscription
<1>11. ASSUME NEW r \in Req, Charge(r) PROVE StillBacked(s)
  BY <1>11, ChargeHeld
<1>12. ASSUME NEW u \in User, ResetRow(u) PROVE StillBacked(s)
  BY <1>12, ResetHeld
<1> QED
  BY StepCases, <1>2, <1>3, <1>4, <1>5, <1>6, <1>7, <1>8, <1>9, <1>10, <1>11, <1>12

\* A request that is making its calls can still be paid for and stays under the cap,
\* unless another request of the user was charged or the user lost the paid tier
\* since it read the row (CoveredUnlessOvertaken of AIQuota).
THEOREM CoveredCalls == Spec => []CoveredUnlessOvertaken
<1>1. Init => HeldRowsSound
  BY DEF Init, HeldRowsSound
<1>2. HeldRowsSound => CoveredUnlessOvertaken
  BY DEF HeldRowsSound, Backed, CoveredUnlessOvertaken
<1> QED
  BY <1>1, <1>2, Invariance, HeldRowsStep, PTL DEF Spec

-----------------------------------------------------------------------------
(* Refinement *)

LEMMA MeterInitially == Init => Meter!MeterInit
<1> SUFFICES ASSUME Init PROVE Meter!MeterInit
  OBVIOUS
<1>1. PICK tier \in [User -> Tier], last \in [User -> {Never} \cup 0..MaxDay] :
          sub = [u \in User |->
                      [tier |-> tier[u], left |-> Quota[tier[u]], limit |-> Quota[tier[u]],
                       reset |-> 0, expires |-> last[u]]]
  BY DEF Init
<1>2. DOMAIN Quota = Tier
  BY TierAssumption
<1> QED
  BY <1>1, <1>2 DEF Init, Meter!MeterInit, Meter!Never, Never

\* The abstract rows, written out.
Left == [u \in User |-> sub[u].left]
Plan == [u \in User |-> sub[u].tier]
Filled == [u \in User |-> sub[u].reset]
Until == [u \in User |-> sub[u].expires]

LEMMA MeterStep == QuotaInvariant /\ [Next]_vars => [Meter!MeterNext]_Meter!meterVars
<1> SUFFICES ASSUME QuotaInvariant, [Next]_vars
             PROVE  [Meter!MeterNext]_Meter!meterVars
  OBVIOUS
<1>1. sub \in [User -> Subscription] /\ RowsSound /\ ListSound /\ toReset \subseteq User
  BY DEF QuotaInvariant, TypeOK
<1>2. CASE UNCHANGED <<sub, day>>
  BY <1>2 DEF Meter!meterVars
<1>3. CASE Tick
  <2>1. Meter!NextDay
    BY <1>3 DEF Tick, Meter!NextDay
  <2> QED
    BY <2>1 DEF Meter!MeterNext
<1>4. CASE \E r \in Req : Charge(r)
  <2>0. PICK v \in User : \E n \in 1..sub[v].left :
           sub' = [sub EXCEPT ![v] = [sub[v] EXCEPT !.left = sub[v].left - n]]
    BY <1>4, ChargedRow
  <2>1. PICK n \in 1..sub[v].left :
           sub' = [sub EXCEPT ![v] = [sub[v] EXCEPT !.left = sub[v].left - n]]
    BY <2>0
  <2>2. day' = day
    BY <1>4 DEF Charge
  <2>3. \A u \in User :
           /\ sub'[u].left = IF u = v THEN sub[v].left - n ELSE sub[u].left
           /\ sub'[u].tier = sub[u].tier
           /\ sub'[u].reset = sub[u].reset
           /\ sub'[u].expires = sub[u].expires
    BY <1>1, <2>1 DEF Subscription
  <2>4. Left' = [Left EXCEPT ![v] = @ - n] /\ n \in 1..Left[v]
    BY <2>3, <2>1 DEF Left
  <2>5. UNCHANGED <<Plan, Filled, Until>>
    BY <2>3 DEF Plan, Filled, Until
  <2>6. Meter!Spend(v)
    BY <2>2, <2>4, <2>5 DEF Meter!Spend, Left, Plan, Filled, Until
  <2> QED
    BY <2>6 DEF Meter!MeterNext
<1>5. CASE \E u \in User : ResetRow(u)
  <2>1. PICK v \in User : ResetRow(v)
    BY <1>5
  <2>2. PICK tier \in Tier, until \in {Never} \cup Nat :
           /\ sub' = [sub EXCEPT ![v] =
                 [tier |-> tier, left |-> Quota[tier], limit |-> Quota[tier],
                  reset |-> Month(day), expires |-> until]]
           /\ IF Expired(sub[v])
              THEN tier = Free /\ until = Never
              ELSE tier = sub[v].tier /\ until = sub[v].expires
    BY <2>1, ReplacedRow
  <2>3. v \in toReset /\ day' = day
    BY <2>1 DEF ResetRow
  <2>4. \A u \in User : sub'[u] =
           IF u = v THEN [tier |-> tier, left |-> Quota[tier], limit |-> Quota[tier],
                          reset |-> Month(day), expires |-> until]
           ELSE sub[u]
    BY <1>1, <2>2
  <2>5. /\ Left' = [Left EXCEPT ![v] = Quota[tier]]
        /\ Plan' = [Plan EXCEPT ![v] = tier]
        /\ Filled' = [Filled EXCEPT ![v] = Month(day)]
        /\ Until' = [Until EXCEPT ![v] = until]
    <3>1. \A u \in User :
             /\ sub'[u].left = IF u = v THEN Quota[tier] ELSE sub[u].left
             /\ sub'[u].tier = IF u = v THEN tier ELSE sub[u].tier
             /\ sub'[u].reset = IF u = v THEN Month(day) ELSE sub[u].reset
             /\ sub'[u].expires = IF u = v THEN until ELSE sub[u].expires
      BY <2>4
    <3>2. Left' = [Left EXCEPT ![v] = Quota[tier]]
      BY <3>1 DEF Left
    <3>3. Plan' = [Plan EXCEPT ![v] = tier]
      BY <3>1 DEF Plan
    <3>4. Filled' = [Filled EXCEPT ![v] = Month(day)]
      BY <3>1 DEF Filled
    <3>5. Until' = [Until EXCEPT ![v] = until]
      BY <3>1 DEF Until
    <3> QED
      BY <3>2, <3>3, <3>4, <3>5
  <2>6. Meter!FillUp(v, tier)
    BY <2>3, <2>5 DEF Meter!FillUp, Meter!Month, Month, Left, Plan, Filled
  <2>7. CASE Expired(sub[v])
    <3>1. Meter!FallBack(v)
      BY <2>2, <2>5, <2>6, <2>7 DEF Meter!FallBack, Meter!Never, Never, Until, Expired
    <3> QED
      BY <3>1 DEF Meter!MeterNext
  <2>8. CASE ~Expired(sub[v])
    <3>1. tier = Plan[v] /\ Until' = Until /\ Filled[v] < Month(day)
      BY <1>1, <2>2, <2>3, <2>5, <2>8 DEF Plan, Until, Filled, ListSound
    <3>2. Meter!FillUp(v, Plan[v])
      BY <2>6, <3>1 DEF Meter!FillUp
    <3>3. Meter!Renew(v)
      BY <3>1, <3>2 DEF Meter!Renew, Meter!Month, Month, Plan, Until, Filled
    <3> QED
      BY <3>3 DEF Meter!MeterNext
  <2> QED
    BY <2>7, <2>8
<1>6. CASE ListSubscriptions
  BY <1>2, <1>6 DEF ListSubscriptions
<1> QED
  BY <1>2, <1>3, <1>4, <1>5, <1>6, StepsOfRows

\* Requests, key settings, cache, reset job and crashes together implement the
\* abstract meter (ImplementsMeter of AIQuota).
THEOREM QuotaIsAMeter == Spec => ImplementsMeter
  BY MeterInitially, MeterStep, Invariance, PTL DEF Spec, ImplementsMeter, Meter!MeterSpec

=============================================================================
