-------------------------------- MODULE Alerts --------------------------------
(***************************************************************************)
(* Alerts from trigger to outcome (backend/internal/jobs/alert_monitor.go, *)
(* services/alert_briefing_service.go, jobs/alert_outcome_calc.go, the     *)
(* alert handlers and their repositories).                                 *)
(*                                                                         *)
(* Four kinds of actors write the status column of an alert without        *)
(* looking at it first: the monitor (a ticker goroutine), one briefing     *)
(* goroutine per alert, the requests that decide or dismiss, and the       *)
(* expiry sweep.  The outcome job reads it.  The process may crash.        *)
(*                                                                         *)
(* Abstractions.  Whether a rule's condition holds is up to the market, so *)
(* a rule under evaluation triggers or not.  Alerts are numbered in the    *)
(* order of creation.  Failing requests, statements and price look-ups are *)
(* faults, of which there are MaxFaults.  "answered" is a history          *)
(* variable.                                                               *)
(***************************************************************************)
EXTENDS Integers, FiniteSets

CONSTANTS
    Rule,         \* rows of alert_rules
    Provider,     \* enabled AI providers
    Period,       \* outcome periods: 1h, 4h, 1d
    Due,          \* Due[p]: length of a period
    Cooldown,     \* cooldown_minutes
    ExpireAfter,  \* 24 hours
    NoRule,       \* the rule of an alert that does not exist
    MaxAlerts, MaxTime, MaxFaults   \* bounds of the model

ASSUME RuleAssumption == NoRule \notin Rule
ASSUME DueAssumption == Due \in [Period -> Nat]
ASSUME TimeAssumption == Cooldown \in Nat /\ ExpireAfter \in Nat
ASSUME AlertBounds == MaxAlerts \in Nat /\ MaxTime \in Nat /\ MaxFaults \in Nat

Alert == 1..MaxAlerts
Never == -1

VARIABLES
    clock, up, faults,
    rule,        \* "enabled", "disabled" or "deleted"
    triggered,   \* alert_rules.last_triggered_at, or Never
    ruleOf,      \* alerts.rule_id
    born,        \* alerts.created_at
    status,      \* alerts.status; "none" before the insert, "deleted" after a cascade
    notified,    \* alerts whose notified_at is set
    briefs,      \* alert_briefings: providers whose answer is stored
    decided,     \* alert_decisions.created_at, or Never when there is no row
    outcomes,    \* alert_outcomes: periods with a row
    monitor,     \* place of runOnce: "idle", "rules" or "mark"
    due,         \* rules this run has still to evaluate
    fresh,       \* the alert it has just created, or 0
    briefing,    \* place of HandleTrigger for each alert
    unasked,     \* providers HandleTrigger has still to ask
    deciding,    \* alerts whose CreateDecision stands between its two statements
    listed,      \* what the outcome job has read and not yet worked off
    answered     \* history: decision answered with 201, and not dismissed since

ruleVars    == <<rule, triggered>>
alertVars   == <<ruleOf, born, status, notified, briefs, decided, outcomes>>
monitorVars == <<monitor, due, fresh>>
briefVars   == <<briefing, unasked>>
vars == <<clock, up, faults, ruleVars, alertVars, monitorVars, briefVars,
          deciding, listed, answered>>

Existing == {a \in Alert : status[a] \notin {"none", "deleted"}}

TypeOK ==
    /\ clock \in 0..MaxTime /\ up \in BOOLEAN /\ faults \in 0..MaxFaults
    /\ rule \in [Rule -> {"enabled", "disabled", "deleted"}]
    /\ triggered \in [Rule -> {Never} \cup 0..MaxTime]
    /\ ruleOf \in [Alert -> Rule \cup {NoRule}]
    /\ born \in [Alert -> 0..MaxTime]
    /\ status \in [Alert -> {"none", "pending", "briefed", "decided", "expired", "deleted"}]
    /\ notified \subseteq Alert
    /\ briefs \in [Alert -> SUBSET Provider]
    /\ decided \in [Alert -> {Never} \cup 0..MaxTime]
    /\ outcomes \in [Alert -> SUBSET Period]
    /\ monitor \in {"idle", "rules", "mark"}
    /\ due \subseteq Rule
    /\ fresh \in Alert \cup {0}
    /\ monitor = "mark" <=> fresh # 0
    /\ briefing \in [Alert -> {"none", "ask", "send", "over"}]
    /\ unasked \in [Alert -> SUBSET Provider]
    /\ deciding \subseteq Alert
    /\ listed \subseteq Alert \X Period
    /\ answered \subseteq Alert

Init ==
    /\ clock = 0 /\ up = TRUE /\ faults = 0
    /\ rule = [r \in Rule |-> "enabled"]
    /\ triggered = [r \in Rule |-> Never]
    /\ ruleOf = [a \in Alert |-> NoRule]
    /\ born = [a \in Alert |-> 0]
    /\ status = [a \in Alert |-> "none"]
    /\ notified = {}
    /\ briefs = [a \in Alert |-> {}]
    /\ decided = [a \in Alert |-> Never]
    /\ outcomes = [a \in Alert |-> {}]
    /\ monitor = "idle" /\ due = {} /\ fresh = 0
    /\ briefing = [a \in Alert |-> "none"]
    /\ unasked = [a \in Alert |-> {}]
    /\ deciding = {} /\ listed = {}
    /\ answered = {}

\* Time passes.  A run, a briefing or a request takes minutes at most (every call
\* it makes has a timeout of 30 seconds or less), so it sees one tick at most.
Tick ==
    /\ clock < MaxTime
    /\ fresh # 0 => clock = born[fresh]
    /\ \A a \in Alert : briefing[a] \in {"ask", "send"} => clock = born[a]
    /\ \A a \in deciding : decided[a] \in {Never, clock}
    /\ clock' = clock + 1
    /\ UNCHANGED <<up, faults, ruleVars, alertVars, monitorVars, briefVars,
                   deciding, listed, answered>>

Fault == faults < MaxFaults /\ faults' = faults + 1

\* UpdateStatus: no condition on the old status; no row, no effect.
SetStatus(a, s) ==
    status' = [status EXCEPT ![a] = IF a \in Existing THEN s ELSE @]

-----------------------------------------------------------------------------
(* The monitor: runOnce *)

\* Mutant: a rule is due again at the very end of its cooldown.
CooldownReached(r) == triggered[r] = Never \/ clock >= triggered[r] + Cooldown

CooldownPassed(r) == triggered[r] = Never \/ clock > triggered[r] + Cooldown

\* The run lists the active rules and keeps those whose cooldown has passed.
\* Without an active rule it returns, and the expiry sweep does not run either.
MonitorStart ==
    /\ up /\ monitor = "idle"
    /\ \E r \in Rule : rule[r] = "enabled"
    /\ monitor' = "rules"
    /\ due' = {r \in Rule : rule[r] = "enabled" /\ CooldownPassed(r)}
    /\ UNCHANGED <<clock, up, faults, ruleVars, alertVars, fresh, briefVars,
                   deciding, listed, answered>>

\* The condition of the rule does not hold, its price cannot be fetched, or the
\* alert cannot be inserted (its rule may be gone): on to the next rule.
RuleQuiet(r) ==
    /\ monitor = "rules" /\ r \in due
    /\ due' = due \ {r}
    /\ UNCHANGED <<clock, up, faults, ruleVars, alertVars, monitor, fresh, briefVars,
                   deciding, listed, answered>>

\* The condition holds: an alert is inserted, even if the rule has been disabled
\* since the run listed it.
RuleTriggers(r) ==
    /\ monitor = "rules" /\ r \in due
    /\ rule[r] # "deleted"
    /\ \E a \in Alert :
        /\ status[a] = "none" /\ \A b \in Alert : b < a => status[b] # "none"
        /\ ruleOf' = [ruleOf EXCEPT ![a] = r]
        /\ born' = [born EXCEPT ![a] = clock]
        /\ status' = [status EXCEPT ![a] = "pending"]
        /\ fresh' = a
    /\ due' = due \ {r}
    /\ monitor' = "mark"
    /\ UNCHANGED <<clock, up, faults, ruleVars, notified, briefs, decided, outcomes, briefVars,
                   deciding, listed, answered>>

\* Mutant: the run keeps the alert it has dealt with.
MarkKeepsFresh ==
    LET r == ruleOf[fresh]
    IN  /\ monitor = "mark"
        /\ \/ triggered' = [triggered EXCEPT ![r] = IF rule[r] = "deleted" THEN @ ELSE clock]
              /\ UNCHANGED faults
           \/ Fault /\ UNCHANGED triggered
        /\ briefing' = [briefing EXCEPT ![fresh] = "ask"]
        /\ unasked' = [unasked EXCEPT ![fresh] = Provider]
        /\ monitor' = "rules"
        /\ UNCHANGED <<clock, up, rule, alertVars, fresh, due, deciding, listed, answered>>

\* last_triggered_at is written, or the error is logged; either way the briefing
\* goroutine starts.
MarkTriggered ==
    LET r == ruleOf[fresh]
    IN  /\ monitor = "mark"
        /\ \/ triggered' = [triggered EXCEPT ![r] = IF rule[r] = "deleted" THEN @ ELSE clock]
              /\ UNCHANGED faults
           \/ Fault /\ UNCHANGED triggered
        /\ briefing' = [briefing EXCEPT ![fresh] = "ask"]
        /\ unasked' = [unasked EXCEPT ![fresh] = Provider]
        /\ monitor' = "rules" /\ fresh' = 0
        /\ UNCHANGED <<clock, up, rule, alertVars, due, deciding, listed, answered>>

\* Mutant: the sweep takes pending alerts only.
ExpireOldPending ==
    /\ monitor = "rules" /\ due = {}
    /\ monitor' = "idle"
    /\ \/ status' = [a \in Alert |->
                       IF status[a] = "pending" /\ born[a] + ExpireAfter < clock
                       THEN "expired" ELSE status[a]]
          /\ UNCHANGED faults
       \/ Fault /\ UNCHANGED status
    /\ UNCHANGED <<clock, up, ruleVars, ruleOf, born, notified, briefs, decided, outcomes, due, fresh,
                   briefVars, deciding, listed, answered>>

\* ExpireOlderThan: the one status update that looks at the old status.
ExpireOld ==
    /\ monitor = "rules" /\ due = {}
    /\ monitor' = "idle"
    /\ \/ status' = [a \in Alert |->
                       IF status[a] \in {"pending", "briefed"} /\ born[a] + ExpireAfter < clock
                       THEN "expired" ELSE status[a]]
          /\ UNCHANGED faults
       \/ Fault /\ UNCHANGED status
    /\ UNCHANGED <<clock, up, ruleVars, ruleOf, born, notified, briefs, decided, outcomes, due, fresh,
                   briefVars, deciding, listed, answered>>

-----------------------------------------------------------------------------
(* The briefing goroutine: HandleTrigger *)

\* The list of providers cannot be read: no status, no notification, no retry.
ListProvidersFails(a) ==
    /\ briefing[a] = "ask" /\ unasked[a] = Provider
    /\ Fault
    /\ briefing' = [briefing EXCEPT ![a] = "over"]
    /\ unasked' = [unasked EXCEPT ![a] = {}]
    /\ UNCHANGED <<clock, up, ruleVars, alertVars, monitorVars, deciding, listed, answered>>

\* One provider is asked; no key, an error, or an alert that is gone leaves no row.
AskProvider(a, p) ==
    /\ briefing[a] = "ask" /\ p \in unasked[a]
    /\ unasked' = [unasked EXCEPT ![a] = @ \ {p}]
    /\ \/ a \in Existing /\ briefs' = [briefs EXCEPT ![a] = @ \cup {p}]
       \/ UNCHANGED briefs
    /\ UNCHANGED <<clock, up, faults, ruleVars, ruleOf, born, status, notified, decided, outcomes,
                   monitorVars, briefing, deciding, listed, answered>>

\* The status becomes briefed, whatever it is by now; an error is logged.
MarkBriefed(a) ==
    /\ briefing[a] = "ask" /\ unasked[a] = {}
    /\ briefing' = [briefing EXCEPT ![a] = "send"]
    /\ \/ SetStatus(a, "briefed") /\ UNCHANGED faults
       \/ Fault /\ UNCHANGED status
    /\ UNCHANGED <<clock, up, ruleVars, ruleOf, born, notified, briefs, decided, outcomes, monitorVars,
                   unasked, deciding, listed, answered>>

\* The notification goes out, once, and notified_at is written; what happens to it
\* is not tried again.
SendNotification(a) ==
    /\ briefing[a] = "send"
    /\ briefing' = [briefing EXCEPT ![a] = "over"]
    /\ \/ notified' = notified \cup ({a} \cap Existing)
       \/ UNCHANGED notified
    /\ UNCHANGED <<clock, up, faults, ruleVars, ruleOf, born, status, briefs, decided, outcomes,
                   monitorVars, unasked, deciding, listed, answered>>

Brief(a) ==
    \/ ListProvidersFails(a)
    \/ \E p \in Provider : AskProvider(a, p)
    \/ MarkBriefed(a) \/ SendNotification(a)

-----------------------------------------------------------------------------
(* Requests *)

\* CreateDecision inserts the decision; alert_id is unique, the status is not
\* looked at.
InsertDecision(a) ==
    /\ up /\ a \in Existing
    /\ decided[a] = Never
    /\ decided' = [decided EXCEPT ![a] = clock]
    /\ deciding' = deciding \cup {a}
    /\ UNCHANGED <<clock, up, faults, ruleVars, ruleOf, born, status, notified, briefs, outcomes,
                   monitorVars, briefVars, listed, answered>>

\* ... and then updates the status in a statement of its own.  If that fails the
\* request fails, but the decision stays.
FinishDecision(a) ==
    /\ a \in deciding
    /\ deciding' = deciding \ {a}
    /\ \/ /\ SetStatus(a, "decided")
          /\ answered' = answered \cup {a}
          /\ UNCHANGED faults
       \/ Fault /\ UNCHANGED <<status, answered>>
    /\ UNCHANGED <<clock, up, ruleVars, ruleOf, born, notified, briefs, decided, outcomes,
                   monitorVars, briefVars, listed>>

DismissAlert(a) ==
    /\ up /\ a \in Existing
    /\ SetStatus(a, "expired")
    /\ answered' = answered \ {a}
    /\ UNCHANGED <<clock, up, faults, ruleVars, ruleOf, born, notified, briefs, decided, outcomes,
                   monitorVars, briefVars, deciding, listed>>

\* Toggle, or an update with "enabled"; neither touches last_triggered_at.
Toggle(r) ==
    /\ up
    /\ \/ rule[r] = "enabled" /\ rule' = [rule EXCEPT ![r] = "disabled"]
       \/ rule[r] = "disabled" /\ rule' = [rule EXCEPT ![r] = "enabled"]
    /\ UNCHANGED <<clock, up, faults, triggered, alertVars, monitorVars, briefVars,
                   deciding, listed, answered>>

\* The delete cascades to the rule's alerts and to all that hangs on them.
DeleteRule(r) ==
    LET gone == {a \in Existing : ruleOf[a] = r}
    IN  /\ up /\ rule[r] # "deleted"
        /\ rule' = [rule EXCEPT ![r] = "deleted"]
        /\ status' = [a \in Alert |-> IF a \in gone THEN "deleted" ELSE status[a]]
        /\ notified' = notified \ gone
        /\ briefs' = [a \in Alert |-> IF a \in gone THEN {} ELSE briefs[a]]
        /\ decided' = [a \in Alert |-> IF a \in gone THEN Never ELSE decided[a]]
        /\ outcomes' = [a \in Alert |-> IF a \in gone THEN {} ELSE outcomes[a]]
        /\ UNCHANGED <<clock, up, faults, triggered, ruleOf, born, monitorVars, briefVars,
                       deciding, listed, answered>>

-----------------------------------------------------------------------------
(* The outcome job *)

\* Mutant: the age of the decision is not looked at.
PendingEarly(p) ==
    {a \in Existing : status[a] = "decided" /\ decided[a] # Never /\ p \notin outcomes[a]}

\* Mutant: the outcome of any period counts for all of them.
PendingFirst(p) ==
    {a \in Existing : /\ status[a] = "decided" /\ decided[a] # Never
                      /\ outcomes[a] = {} /\ decided[a] + Due[p] <= clock}

\* ListPendingDecisions of one period.
Pending(p) ==
    {a \in Existing : /\ status[a] = "decided" /\ decided[a] # Never
                      /\ p \notin outcomes[a] /\ decided[a] + Due[p] <= clock}

ListPending(p) ==
    /\ up /\ listed = {} /\ Pending(p) # {}
    /\ listed' = Pending(p) \X {p}
    /\ UNCHANGED <<clock, up, faults, ruleVars, alertVars, monitorVars, briefVars,
                   deciding, answered>>

\* Mutant: the row does not depend on the decision it was listed for.
CalculateUnbound(a, p) ==
    /\ <<a, p>> \in listed
    /\ listed' = listed \ {<<a, p>>}
    /\ \/ /\ outcomes' = [outcomes EXCEPT ![a] = @ \cup {p}]
          /\ UNCHANGED faults
       \/ Fault /\ UNCHANGED outcomes
    /\ UNCHANGED <<clock, up, ruleVars, ruleOf, born, status, notified, briefs, decided,
                   monitorVars, briefVars, deciding, answered>>

\* One listed decision: its row is inserted unless the decision has gone; when the
\* price is missing the decision waits for a later run.
CalculateOutcome(a, p) ==
    /\ <<a, p>> \in listed
    /\ listed' = listed \ {<<a, p>>}
    /\ \/ /\ outcomes' = [outcomes EXCEPT ![a] = IF decided[a] = Never THEN @ ELSE @ \cup {p}]
          /\ UNCHANGED faults
       \/ Fault /\ UNCHANGED outcomes
    /\ UNCHANGED <<clock, up, ruleVars, ruleOf, born, status, notified, briefs, decided,
                   monitorVars, briefVars, deciding, answered>>

-----------------------------------------------------------------------------
(* Crash and restart *)

\* The goroutines and requests in flight are lost, and no job picks up what they
\* had not done.
Crash ==
    /\ up /\ Fault
    /\ up' = FALSE
    /\ monitor' = "idle" /\ due' = {} /\ fresh' = 0
    /\ briefing' = [a \in Alert |-> IF briefing[a] = "none" THEN "none" ELSE "over"]
    /\ unasked' = [a \in Alert |-> {}]
    /\ deciding' = {} /\ listed' = {}
    /\ UNCHANGED <<clock, ruleVars, alertVars, answered>>

Restart ==
    /\ ~up /\ up' = TRUE
    /\ UNCHANGED <<clock, faults, ruleVars, alertVars, monitorVars, briefVars,
                   deciding, listed, answered>>

-----------------------------------------------------------------------------
Monitor ==
    \/ MonitorStart \/ MarkTriggered \/ ExpireOld
    \/ \E r \in Rule : RuleQuiet(r) \/ RuleTriggers(r)

Calculate == \E p \in Period : ListPending(p) \/ \E a \in Alert : CalculateOutcome(a, p)

Request ==
    \/ \E a \in Alert : InsertDecision(a) \/ FinishDecision(a) \/ DismissAlert(a)
    \/ \E r \in Rule : Toggle(r) \/ DeleteRule(r)

Next ==
    \/ Tick
    \/ Monitor
    \/ \E a \in Alert : Brief(a)
    \/ Request
    \/ Calculate
    \/ Crash \/ Restart

Spec == Init /\ [][Next]_vars

\* The tickers fire, started goroutines and requests run on (every call has a
\* timeout), and the container restarts.
Fairness ==
    /\ WF_vars(Monitor)
    /\ \A a \in Alert : WF_vars(Brief(a)) /\ WF_vars(FinishDecision(a))
    /\ WF_vars(Calculate)
    /\ WF_vars(Restart)

LiveSpec == Spec /\ Fairness

-----------------------------------------------------------------------------
(* Properties *)

\* Alerts that came too soon after another alert of their rule.
TooSoon ==
    {b \in Alert : \E a \in Alert :
        /\ a < b /\ ruleOf[a] # NoRule /\ ruleOf[a] = ruleOf[b]
        /\ born[b] <= born[a] + Cooldown}

\* The cooldown holds: an alert may follow another of its rule too soon only where
\* a crash or a failed update kept last_triggered_at from being written, and each
\* such fault lets through one alert at most.
CooldownHolds == Cardinality(TooSoon) <= faults

\* An outcome is only recorded for a decision that exists and is old enough, though
\* the job works from a list it has read earlier.
OutcomesAreDue ==
    \A a \in Alert : \A p \in outcomes[a] :
        a \in Existing /\ decided[a] # Never /\ decided[a] + Due[p] <= clock

\* Without its alert nothing is left: whatever the goroutines still write after the
\* cascade falls flat.
CascadeComplete ==
    \A a \in Alert : a \notin Existing =>
        briefs[a] = {} /\ decided[a] = Never /\ outcomes[a] = {} /\ a \notin notified

\* An alert that stays decided gets the outcome of every period that comes due.
DecisionsEvaluated ==
    \A a \in Alert, p \in Period :
        <>[](status[a] = "decided") =>
            ((decided[a] # Never /\ decided[a] + Due[p] <= clock) ~> p \in outcomes[a])

Open(a) == status[a] \in {"pending", "briefed"}

\* As long as some rule is active, an alert nobody answers does not stay open: it
\* expires, even when its briefing was lost in a crash.
OpenAlertsExpire ==
    <>[](\E r \in Rule : rule[r] = "enabled") =>
        \A a \in Alert : (Open(a) /\ born[a] + ExpireAfter < clock) ~> ~Open(a)

\* What the design says of every alert: left alone, it expires after 24 hours
\* (here only once the user no longer edits rules).
EveryOpenAlertExpires ==
    <>[][FALSE]_rule =>
        \A a \in Alert : (Open(a) /\ born[a] + ExpireAfter < clock) ~> ~Open(a)

\* What the design says of decisions: only alerts the user left alone or dismissed
\* expire, not those whose decision was accepted.
DecidedDoesNotExpire ==
    \A a \in answered : status[a] # "expired"

=============================================================================
