------------------------------ MODULE QuotaMeter ------------------------------
(***************************************************************************)
(* What the AI quota promises, without requests, keys, caches or crashes:  *)
(* an account is spent down to zero and no further, it is filled up once a *)
(* calendar month, and it falls back to the free plan when the paid one    *)
(* has run out.                                                            *)
(***************************************************************************)
EXTENDS Integers

CONSTANTS User, Quota, Free, DaysPerMonth, MaxDay

VARIABLES
    day,     \* the date
    left,    \* what each user may still spend
    plan,    \* each user's tier
    filled,  \* month of the last fill-up
    until    \* last day of the paid plan, or Never

meterVars == <<day, left, plan, filled, until>>

Never == -1
Month(d) == d \div DaysPerMonth

MeterInit ==
    /\ day = 0
    /\ plan \in [User -> DOMAIN Quota]
    /\ left = [u \in User |-> Quota[plan[u]]]
    /\ filled = [u \in User |-> 0]
    /\ until \in [User -> {Never} \cup 0..MaxDay]

NextDay ==
    /\ day' = day + 1
    /\ UNCHANGED <<left, plan, filled, until>>

Spend(u) ==
    /\ \E n \in 1..left[u] : left' = [left EXCEPT ![u] = @ - n]
    /\ UNCHANGED <<day, plan, filled, until>>

FillUp(u, tier) ==
    /\ left' = [left EXCEPT ![u] = Quota[tier]]
    /\ plan' = [plan EXCEPT ![u] = tier]
    /\ filled' = [filled EXCEPT ![u] = Month(day)]
    /\ UNCHANGED day

Renew(u) ==
    /\ filled[u] < Month(day)
    /\ FillUp(u, plan[u])
    /\ UNCHANGED until

FallBack(u) ==
    /\ until[u] # Never /\ until[u] < day
    /\ FillUp(u, Free)
    /\ until' = [until EXCEPT ![u] = Never]

MeterNext == NextDay \/ \E u \in User : Spend(u) \/ Renew(u) \/ FallBack(u)

MeterSpec == MeterInit /\ [][MeterNext]_meterVars
=============================================================================
