------------------------------- MODULE AIQuota -------------------------------
(***************************************************************************)
(* The monthly AI quota (handlers/ai_handler.go, jobs/quota_reset.go and   *)
(* the subscription and key repositories).                                 *)
(*                                                                         *)
(* A request reads the subscription, looks up a key per provider, decides  *)
(* on what it read whether quota and cap allow the calls, makes the calls, *)
(* and only then charges what succeeded on the server's own keys.  Other   *)
(* requests of the same user, the key settings and the daily reset job run *)
(* in between.  The process may crash; the job's timer then starts anew at *)
(* the next 00:05, so the run of that day may be lost.                     *)
(*                                                                         *)
(* Abstractions.  Only allow-listed users with a bubble of their own ask.  *)
(* A user has one question for the one-shot cache.  Time is counted in     *)
(* days.  Failing statements and provider calls (the one retry included)   *)
(* are faults, as is a crash; there are MaxFaults of them.                 *)
(***************************************************************************)
EXTENDS Integers, FiniteSets

CONSTANTS
    User, Req, Provider,
    ServiceKey,     \* providers the server has a key for
    Tier, Free,     \* subscription tiers; the free one
    Quota,          \* quotaForTier
    Cap,            \* AI_SERVICE_MONTHLY_CAP; 0 switches it off
    DaysPerMonth,
    MaxDay, MaxFaults   \* bounds of the model

ASSUME KeyAssumption == ServiceKey \subseteq Provider /\ IsFiniteSet(Provider)
ASSUME TierAssumption == Free \in Tier /\ Quota \in [Tier -> Nat]
ASSUME CapAssumption == Cap \in Nat
ASSUME CalendarAssumption == DaysPerMonth \in Nat \ {0}
ASSUME QuotaBounds == MaxDay \in Nat /\ MaxFaults \in Nat

Never == -1
Month(d) == d \div DaysPerMonth

VARIABLES
    day, up, faults,
    sub,       \* subscriptions: one row per user
    ownKeys,   \* user_ai_keys: providers each user has stored a key for
    cached,    \* users whose one-shot answer is in the cache
    req,       \* the requests being served
    resetDue,  \* the timer of the reset job has fired
    toReset    \* rows the reset job has still to write

vars == <<day, up, faults, sub, ownKeys, cached, req, resetDue, toReset>>

\* A row of subscriptions; reset is the month of last_reset_at.
Subscription ==
    [tier : Tier, left : Nat, limit : Nat, reset : Nat, expires : {Never} \cup Nat]

\* What a handler holds: the user, the kind of request, the row it read (left,
\* limit; zero once it has decided), the providers whose key it has still to look up
\* (unresolved), those it will call (asked), those it calls with the server's key
\* (service), the calls it has to charge (used).  overtaken is history: since the
\* row was read another request was charged or the user fell back to the free tier.
Idle == [pc |-> "idle"]
Request ==
    [pc : {"keys", "call"}, user : User, kind : {"opinions", "one-shot"},
     left : Nat, limit : Nat, unresolved : SUBSET Provider, asked : SUBSET Provider,
     service : SUBSET Provider, used : Nat, overtaken : BOOLEAN]

Serving(u) == {r \in Req : req[r] # Idle /\ req[r].user = u}

\* Rows keep their shape, what is left lies between nothing and the limit, the
\* limit is the tier's, and a request charges no more than it was let through for.
TypeOK ==
    /\ day \in 0..MaxDay /\ up \in BOOLEAN /\ faults \in 0..MaxFaults
    /\ sub \in [User -> Subscription]
    /\ \A u \in User : sub[u].left <= sub[u].limit /\ sub[u].limit = Quota[sub[u].tier]
    /\ ownKeys \in [User -> SUBSET Provider]
    /\ cached \subseteq User
    /\ req \in [Req -> Request \cup {Idle}]
    /\ \A r \in Req : req[r] # Idle => req[r].used <= Cardinality(req[r].service)
    /\ resetDue \in BOOLEAN
    /\ toReset \subseteq User

Init ==
    /\ day = 0 /\ up = TRUE /\ faults = 0
    /\ \E tier \in [User -> Tier], last \in [User -> {Never} \cup 0..MaxDay] :
          /\ \A u \in User : tier[u] = Free => last[u] = Never
          /\ sub = [u \in User |->
                      [tier |-> tier[u], left |-> Quota[tier[u]], limit |-> Quota[tier[u]],
                       reset |-> 0, expires |-> last[u]]]
    /\ ownKeys = [u \in User |-> {}]
    /\ cached = {}
    /\ req = [r \in Req |-> Idle]
    /\ resetDue = FALSE /\ toReset = {}

Fault == faults < MaxFaults /\ faults' = faults + 1

\* Midnight.  At 00:05 the reset job runs, and before the next midnight it is done.
Tick ==
    /\ day < MaxDay
    /\ ~resetDue /\ toReset = {}
    /\ day' = day + 1
    /\ resetDue' = up
    /\ UNCHANGED <<up, faults, sub, ownKeys, cached, req, toReset>>

-----------------------------------------------------------------------------
(* Requests.                                                               *)

\* GetByUserID.  A one-shot question answered within the last minute is answered
\* from the cache, and that is all.
ReadSubscription(r, u) ==
    /\ up /\ req[r] = Idle
    /\ \E kind \in {"opinions", "one-shot"}, P \in SUBSET Provider \ {{}} :
          /\ kind = "one-shot" => Cardinality(P) = 1 /\ u \notin cached
          /\ req' = [req EXCEPT ![r] =
                [pc |-> "keys", user |-> u, kind |-> kind,
                 left |-> sub[u].left, limit |-> sub[u].limit, unresolved |-> P,
                 asked |-> {}, service |-> {}, used |-> 0, overtaken |-> FALSE]]
    /\ UNCHANGED <<day, up, faults, sub, ownKeys, cached, resetDue, toReset>>

Return(r) == req' = [req EXCEPT ![r] = Idle]

\* resolveAPIKey: the user's key, else the server's.  Without any key a one-shot
\* ends here; opinions leave that provider out.
UseKey(r, p, own) ==
    IF ~own /\ p \notin ServiceKey /\ req[r].kind = "one-shot"
    THEN Return(r)
    ELSE req' = [req EXCEPT
            ![r].unresolved = @ \ {p},
            ![r].asked = IF own \/ p \in ServiceKey THEN @ \cup {p} ELSE @,
            ![r].service = IF ~own /\ p \in ServiceKey THEN @ \cup {p} ELSE @]

ResolveKey(r) ==
    /\ req[r] # Idle
    /\ \E p \in req[r].unresolved : UseKey(r, p, p \in ownKeys[req[r].user])
    /\ UNCHANGED <<day, up, faults, sub, ownKeys, cached, resetDue, toReset>>

\* A failing look-up or decryption is logged and treated as "no key stored".
ResolveKeyFails(r) ==
    /\ req[r] # Idle
    /\ Fault
    /\ \E p \in req[r].unresolved \cap ownKeys[req[r].user] : UseKey(r, p, FALSE)
    /\ UNCHANGED <<day, up, sub, ownKeys, cached, resetDue, toReset>>

\* exceedsServiceMonthlyCap
ExceedsCap(left, limit, n) == n > 0 /\ Cap > 0 /\ (limit - left) + n > Cap

\* Mutant of Admitted: checks for one call, however many are made.
AdmittedForOne(q) == q.left >= 1 /\ ~ExceedsCap(q.left, q.limit, 1)

\* The decision, on the row as it was read.
Admitted(q) ==
    LET n == Cardinality(q.service)
    IN  n <= q.left /\ ~ExceedsCap(q.left, q.limit, n)

Decide(r) ==
    /\ req[r] # Idle /\ req[r].pc = "keys" /\ req[r].unresolved = {}
    /\ IF Admitted(req[r])
       THEN req' = [req EXCEPT ![r].pc = "call", ![r].left = 0, ![r].limit = 0]
       ELSE Return(r)
    /\ UNCHANGED <<day, up, faults, sub, ownKeys, cached, resetDue, toReset>>

\* callProvider, and for opinions the insert of the answer.
CallProvider(r) ==
    /\ req[r] # Idle /\ req[r].pc = "call"
    /\ \E p \in req[r].asked :
          req' = [req EXCEPT ![r].asked = @ \ {p},
                             ![r].used = IF p \in req[r].service THEN @ + 1 ELSE @]
    /\ UNCHANGED <<day, up, faults, sub, ownKeys, cached, resetDue, toReset>>

\* Opinions go on without that provider, a one-shot ends.
CallFails(r) ==
    /\ req[r] # Idle /\ req[r].pc = "call"
    /\ Fault
    /\ \E p \in req[r].asked :
          IF req[r].kind = "one-shot" THEN Return(r)
          ELSE req' = [req EXCEPT ![r].asked = @ \ {p}]
    /\ UNCHANGED <<day, up, sub, ownKeys, cached, resetDue, toReset>>

CallsMade(r) == req[r] # Idle /\ req[r].pc = "call" /\ req[r].asked = {}

\* The answer is sent; a one-shot's is kept in the cache.
Answer(r) ==
    cached' = IF req[r].kind = "one-shot" THEN cached \cup {req[r].user} ELSE cached

\* Nothing to charge: every call was made with a key of the user, or failed.
AnswerUncharged(r) ==
    /\ CallsMade(r) /\ req[r].used = 0
    /\ Return(r) /\ Answer(r)
    /\ UNCHANGED <<day, up, faults, sub, ownKeys, resetDue, toReset>>

\* Mutant of Charge: the UPDATE does not look at what is left.
ChargeBlindly(r) ==
    LET u == req[r].user IN
    /\ CallsMade(r) /\ req[r].used > 0
    /\ sub' = [sub EXCEPT ![u].left = @ - req[r].used]
    /\ req' = [s \in Req |-> IF s = r THEN Idle
                             ELSE IF s \in Serving(u) THEN [req[s] EXCEPT !.overtaken = TRUE]
                             ELSE req[s]]
    /\ Answer(r)
    /\ UNCHANGED <<day, up, faults, ownKeys, resetDue, toReset>>

\* DecrementQuota, a single conditional UPDATE.
Charge(r) ==
    LET u == req[r].user IN
    /\ CallsMade(r) /\ req[r].used > 0
    /\ req[r].used <= sub[u].left
    /\ sub' = [sub EXCEPT ![u].left = @ - req[r].used]
    /\ req' = [s \in Req |-> IF s = r THEN Idle
                             ELSE IF s \in Serving(u) THEN [req[s] EXCEPT !.overtaken = TRUE]
                             ELSE req[s]]
    /\ Answer(r)
    /\ UNCHANGED <<day, up, faults, ownKeys, resetDue, toReset>>

\* The UPDATE found too little left: 429, after the calls were made.
ChargeRefused(r) ==
    /\ CallsMade(r) /\ req[r].used > sub[req[r].user].left
    /\ Return(r)
    /\ UNCHANGED <<day, up, faults, sub, ownKeys, cached, resetDue, toReset>>

ChargeFails(r) ==
    /\ CallsMade(r) /\ req[r].used > 0
    /\ Fault
    /\ Return(r)
    /\ UNCHANGED <<day, up, sub, ownKeys, cached, resetDue, toReset>>

\* The cache entry is older than a minute.
CacheExpires(u) ==
    /\ u \in cached
    /\ cached' = cached \ {u}
    /\ UNCHANGED <<day, up, faults, sub, ownKeys, req, resetDue, toReset>>

\* UpdateUserAIKeys (one Upsert) and DeleteUserAIKey.
StoreKey(u, p) ==
    /\ up /\ p \notin ownKeys[u]
    /\ ownKeys' = [ownKeys EXCEPT ![u] = @ \cup {p}]
    /\ UNCHANGED <<day, up, faults, sub, cached, req, resetDue, toReset>>

DeleteKey(u, p) ==
    /\ up /\ p \in ownKeys[u]
    /\ ownKeys' = [ownKeys EXCEPT ![u] = @ \ {p}]
    /\ UNCHANGED <<day, up, faults, sub, cached, req, resetDue, toReset>>

-----------------------------------------------------------------------------
(* The reset job.                                                          *)

Expired(s) == s.expires # Never /\ s.expires < day

\* Mutant of MonthChanged: resets on the first of the month only.
FirstOfMonth(s) == s.reset # Month(day) /\ day % DaysPerMonth = 0
MonthChanged(s) == s.reset # Month(day)

\* runOnce reads all rows.  What it writes back depends on columns nobody else
\* writes, so the names of the rows stand for the rows it holds.
ListSubscriptions ==
    /\ up /\ resetDue
    /\ resetDue' = FALSE
    /\ toReset' = {u \in User : Expired(sub[u]) \/ MonthChanged(sub[u])}
    /\ UNCHANGED <<day, up, faults, sub, ownKeys, cached, req>>

ListFails ==
    /\ up /\ resetDue
    /\ Fault
    /\ resetDue' = FALSE
    /\ UNCHANGED <<day, up, sub, ownKeys, cached, req, toReset>>

\* Mutant of TierReset: forgets last_reset_at.
ResetForgetsDate(s, tier) ==
    [tier |-> tier, left |-> Quota[tier], limit |-> Quota[tier], reset |-> s.reset,
     expires |-> IF tier = Free THEN Never ELSE s.expires]

\* applyTierReset
TierReset(s, tier) ==
    [tier |-> tier, left |-> Quota[tier], limit |-> Quota[tier], reset |-> Month(day),
     expires |-> IF tier = Free THEN Never ELSE s.expires]

\* Update overwrites the row, charges made since the list was read included.
ResetRow(u) ==
    LET tier == IF Expired(sub[u]) THEN Free ELSE sub[u].tier IN
    /\ u \in toReset
    /\ toReset' = toReset \ {u}
    /\ sub' = [sub EXCEPT ![u] = TierReset(sub[u], tier)]
    /\ req' = [r \in Req |-> IF r \in Serving(u) /\ tier # sub[u].tier
                             THEN [req[r] EXCEPT !.overtaken = TRUE] ELSE req[r]]
    /\ UNCHANGED <<day, up, faults, ownKeys, cached, resetDue>>

ResetRowFails(u) ==
    /\ u \in toReset
    /\ Fault
    /\ toReset' = toReset \ {u}
    /\ UNCHANGED <<day, up, sub, ownKeys, cached, req, resetDue>>

-----------------------------------------------------------------------------
Crash ==
    /\ up /\ Fault
    /\ up' = FALSE
    /\ req' = [r \in Req |-> Idle]
    /\ cached' = {} /\ resetDue' = FALSE /\ toReset' = {}
    /\ UNCHANGED <<day, sub, ownKeys>>

Restart ==
    /\ ~up
    /\ up' = TRUE
    /\ UNCHANGED <<day, faults, sub, ownKeys, cached, req, resetDue, toReset>>

RequestStep(r) ==
    \/ ResolveKey(r) \/ Decide(r) \/ CallProvider(r)
    \/ AnswerUncharged(r) \/ Charge(r) \/ ChargeRefused(r)
RequestFault(r) == ResolveKeyFails(r) \/ CallFails(r) \/ ChargeFails(r)
ResetStep == ListSubscriptions \/ \E u \in User : ResetRow(u)
ResetFault == ListFails \/ \E u \in User : ResetRowFails(u)

Next ==
    \/ Tick \/ Crash \/ Restart \/ ResetStep \/ ResetFault
    \/ \E r \in Req : RequestStep(r) \/ RequestFault(r)
    \/ \E r \in Req, u \in User : ReadSubscription(r, u)
    \/ \E u \in User : CacheExpires(u)
    \/ \E u \in User, p \in Provider : StoreKey(u, p) \/ DeleteKey(u, p)

Spec == Init /\ [][Next]_vars

\* Time passes, the container is restarted, the job's goroutine and the requests
\* under way are scheduled.
Fairness ==
    /\ WF_vars(Tick) /\ WF_vars(Restart) /\ WF_vars(ResetStep)
    /\ \A r \in Req : WF_vars(RequestStep(r))

LiveSpec == Spec /\ Fairness

-----------------------------------------------------------------------------
(* Properties.                                                             *)

\* A request that is making its calls can still be paid for, and stays under the
\* cap, unless since its check another request of the same user was charged or
\* the user lost the paid tier: nothing else can bring the "calls made, nothing
\* charged" answer.
CoveredUnlessOvertaken ==
    \A r \in Req : req[r] # Idle /\ req[r].pc = "call" /\ ~req[r].overtaken =>
        LET s == sub[req[r].user]
            n == Cardinality(req[r].service)
        IN  n <= s.left /\ ~ExceedsCap(s.left, s.limit, n)

\* The whole of requests, settings, cache, reset job and crashes is a meter:
\* spent down to zero, filled up once a month, put back to free once on expiry.
Meter == INSTANCE QuotaMeter WITH
    left   <- [u \in User |-> sub[u].left],
    plan   <- [u \in User |-> sub[u].tier],
    filled <- [u \in User |-> sub[u].reset],
    until  <- [u \in User |-> sub[u].expires]
ImplementsMeter == Meter!MeterSpec

\* A reset that was missed, because the process was down at 00:05 or a statement
\* failed, is made up for on the next day that sees no fault.
MissedResetIsMadeUp ==
    \A u \in User :
        sub[u].reset < Month(day) /\ up /\ faults = MaxFaults /\ day < MaxDay
            ~> sub[u].reset = Month(day)

\* Documented: with the cap set, no more than Cap calls a month are paid by the server.
CapHolds ==
    Cap > 0 => \A u \in User : sub[u].limit - sub[u].left <= Cap

=============================================================================
