----------------------------- MODULE AlertsProofs -----------------------------
(***************************************************************************)
(* Proofs about Alerts, for any rules, providers and periods: the types,   *)
(* the completeness of the cascade, the age of evaluated decisions, and    *)
(* that each fault lets through one alert within the cooldown at most.     *)
(***************************************************************************)
EXTENDS Alerts, FiniteSetTheorems, TLAPS

\* The actions of Next one by one, as the case splits below need them.
LEMMA StepCases ==
    ASSUME Next
    PROVE  \/ Tick \/ Crash \/ Restart
           \/ MonitorStart \/ MarkTriggered \/ ExpireOld
           \/ \E r \in Rule : RuleQuiet(r)
           \/ \E r \in Rule : RuleTriggers(r)
           \/ \E a \in Alert : ListProvidersFails(a)
           \/ \E a \in Alert, p \in Provider : AskProvider(a, p)
           \/ \E a \in Alert : MarkBriefed(a)
           \/ \E a \in Alert : SendNotification(a)
           \/ \E a \in Alert : InsertDecision(a)
           \/ \E a \in Alert : FinishDecision(a)
           \/ \E a \in Alert : DismissAlert(a)
           \/ \E r \in Rule : Toggle(r)
           \/ \E r \in Rule : DeleteRule(r)
           \/ \E p \in Period : ListPending(p)
           \/ \E a \in Alert, p \in Period : CalculateOutcome(a, p)
  BY Zenon DEF Next, Monitor, Brief, Request, Calculate

-----------------------------------------------------------------------------
(* Types *)

LEMMA TypeInit == Init => TypeOK
  BY AlertBounds DEF Init, TypeOK, Alert, Never

LEMMA TypeStep == TypeOK /\ [Next]_vars => TypeOK'
<1> SUFFICES ASSUME TypeOK, [Next]_vars PROVE TypeOK'
  OBVIOUS
<1> USE AlertBounds DEF TypeOK, ruleVars, alertVars, monitorVars, briefVars, Fault, SetStatus
<1>1. CASE Tick
  BY <1>1 DEF Tick
<1>2. CASE Crash
  <2>1. briefing' \in [Alert -> {"none", "ask", "send", "over"}] /\ unasked' \in [Alert -> SUBSET Provider]
    BY <1>2 DEF Crash
  <2>2. /\ up' = FALSE /\ monitor' = "idle" /\ due' = {} /\ fresh' = 0
        /\ deciding' = {} /\ listed' = {} /\ faults' \in 0..MaxFaults
        /\ UNCHANGED <<clock, rule, triggered, ruleOf, born, status, notified, briefs,
                       decided, outcomes, answered>>
    BY <1>2 DEF Crash
  <2> QED
    BY <2>1, <2>2
<1>3. CASE Restart
  BY <1>3 DEF Restart
<1>4. CASE MonitorStart
  BY <1>4 DEF MonitorStart
<1>5. CASE MarkTriggered
  BY <1>5 DEF MarkTriggered
<1>6. CASE ExpireOld
  BY <1>6 DEF ExpireOld
<1>7. ASSUME NEW r \in Rule, RuleQuiet(r) PROVE TypeOK'
  BY <1>7 DEF RuleQuiet
<1>8. ASSUME NEW r \in Rule, RuleTriggers(r) PROVE TypeOK'
  <2>1. PICK a \in Alert :
            /\ ruleOf' = [ruleOf EXCEPT ![a] = r]
            /\ born' = [born EXCEPT ![a] = clock]
            /\ status' = [status EXCEPT ![a] = "pending"]
            /\ fresh' = a
    BY <1>8 DEF RuleTriggers
  <2>2. a # 0
    BY DEF Alert
  <2> QED
    BY <1>8, <2>1, <2>2 DEF RuleTriggers
<1>9. ASSUME NEW a \in Alert, ListProvidersFails(a) PROVE TypeOK'
  BY <1>9 DEF ListProvidersFails
<1>10. ASSUME NEW a \in Alert, NEW p \in Provider, AskProvider(a, p) PROVE TypeOK'
  BY <1>10 DEF AskProvider
<1>11. ASSUME NEW a \in Alert, MarkBriefed(a) PROVE TypeOK'
  BY <1>11 DEF MarkBriefed
<1>12. ASSUME NEW a \in Alert, SendNotification(a) PROVE TypeOK'
  BY <1>12 DEF SendNotification
<1>13. ASSUME NEW a \in Alert, InsertDecision(a) PROVE TypeOK'
  BY <1>13 DEF InsertDecision
<1>14. ASSUME NEW a \in Alert, FinishDecision(a) PROVE TypeOK'
  BY <1>14 DEF FinishDecision
<1>15. ASSUME NEW a \in Alert, DismissAlert(a) PROVE TypeOK'
  BY <1>15 DEF DismissAlert
<1>16. ASSUME NEW r \in Rule, Toggle(r) PROVE TypeOK'
  BY <1>16 DEF Toggle
<1>17. ASSUME NEW r \in Rule, DeleteRule(r) PROVE TypeOK'
  BY <1>17 DEF DeleteRule
<1>18. ASSUME NEW p \in Period, ListPending(p) PROVE TypeOK'
  BY <1>18 DEF ListPending, Pending, Existing
<1>19. ASSUME NEW a \in Alert, NEW p \in Period, CalculateOutcome(a, p) PROVE TypeOK'
  BY <1>19 DEF CalculateOutcome
<1>20. CASE UNCHANGED vars
  BY <1>20 DEF vars
<1> QED
  BY StepCases, <1>1, <1>2, <1>3, <1>4, <1>5, <1>6, <1>7, <1>8, <1>9, <1>10, <1>11,
     <1>12, <1>13, <1>14, <1>15, <1>16, <1>17, <1>18, <1>19, <1>20

\* Every column and every piece of state of the jobs keeps its type.
THEOREM Typing == Spec => []TypeOK
  BY TypeInit, TypeStep, PTL DEF Spec

-----------------------------------------------------------------------------
(* Rows and what hangs on them *)

\* No row appears and none goes.
SameRows ==
    /\ Existing' = Existing
    /\ \A a \in Alert : status'[a] = "none" <=> status[a] = "none"

\* Whether an alert has a row changes in two places only: the insert by the
\* monitor and the cascade of a deleted rule.
LEMMA RowsStay ==
    ASSUME TypeOK, [Next]_vars
    PROVE  \/ SameRows
           \/ \E r \in Rule : RuleTriggers(r) \/ DeleteRule(r)
<1>1. ASSUME status' = status PROVE SameRows
  BY <1>1 DEF SameRows, Existing
<1>2. ASSUME NEW a \in Alert, NEW s \in {"briefed", "decided", "expired"}, SetStatus(a, s)
      PROVE  SameRows
  BY <1>2 DEF SetStatus, SameRows, Existing, TypeOK
<1>3. CASE ExpireOld
  <2>1. CASE status' = status
    BY <1>1, <2>1
  <2>2. CASE status' = [a \in Alert |->
                       IF status[a] \in {"pending", "briefed"} /\ born[a] + ExpireAfter < clock
                       THEN "expired" ELSE status[a]]
    BY <2>2 DEF SameRows, Existing, TypeOK
  <2> QED
    BY <1>3, <2>1, <2>2 DEF ExpireOld
<1>4. ASSUME NEW a \in Alert, MarkBriefed(a) \/ FinishDecision(a) \/ DismissAlert(a)
      PROVE  SameRows
  BY <1>1, <1>2, <1>4 DEF MarkBriefed, FinishDecision, DismissAlert
<1>5. CASE Tick \/ Crash \/ Restart \/ MonitorStart \/ MarkTriggered
  BY <1>1, <1>5 DEF Tick, Crash, Restart, MonitorStart, MarkTriggered, alertVars
<1>6. ASSUME NEW r \in Rule, RuleQuiet(r) \/ Toggle(r) PROVE SameRows
  BY <1>1, <1>6 DEF RuleQuiet, Toggle, alertVars
<1>7. ASSUME NEW a \in Alert, NEW p \in Provider, AskProvider(a, p) PROVE SameRows
  BY <1>1, <1>7 DEF AskProvider
<1>8. ASSUME NEW a \in Alert, NEW p \in Period, CalculateOutcome(a, p) PROVE SameRows
  BY <1>1, <1>8 DEF CalculateOutcome
<1>9. CASE UNCHANGED vars
  BY <1>1, <1>9 DEF vars, alertVars
<1>10. ASSUME NEW a \in Alert, ListProvidersFails(a) \/ SendNotification(a) \/ InsertDecision(a)
       PROVE  SameRows
  BY <1>1, <1>10 DEF ListProvidersFails, SendNotification, InsertDecision, alertVars
<1>11. ASSUME NEW p \in Period, ListPending(p) PROVE SameRows
  BY <1>1, <1>11 DEF ListPending, alertVars
<1> SUFFICES ASSUME \A r \in Rule : ~RuleTriggers(r) /\ ~DeleteRule(r)
             PROVE  SameRows
  OBVIOUS
<1>12. CASE Next
  BY StepCases, <1>12, <1>3, <1>4, <1>5, <1>6, <1>7, <1>8, <1>10, <1>11
<1> QED
  BY <1>9, <1>12

\* A trigger adds one row and takes none away.
LEMMA TriggerAddsRow ==
    ASSUME TypeOK, NEW r \in Rule, RuleTriggers(r)
    PROVE  \E a \in Alert :
             /\ status[a] = "none" /\ \A b \in Alert : b < a => status[b] # "none"
             /\ ruleOf' = [ruleOf EXCEPT ![a] = r]
             /\ born' = [born EXCEPT ![a] = clock]
             /\ status' = [status EXCEPT ![a] = "pending"]
             /\ fresh' = a /\ Existing' = Existing \cup {a}
<1>1. PICK a \in Alert :
          /\ status[a] = "none" /\ \A b \in Alert : b < a => status[b] # "none"
          /\ ruleOf' = [ruleOf EXCEPT ![a] = r]
          /\ born' = [born EXCEPT ![a] = clock]
          /\ status' = [status EXCEPT ![a] = "pending"]
          /\ fresh' = a
  BY DEF RuleTriggers
<1>2. Existing' = Existing \cup {a}
  BY <1>1 DEF Existing, TypeOK
<1> QED
  BY <1>1, <1>2

LEMMA CascadeTakesRows ==
    ASSUME TypeOK, NEW r \in Rule, DeleteRule(r)
    PROVE  /\ Existing' = Existing \ {a \in Existing : ruleOf[a] = r}
           /\ \A a \in Alert : status'[a] = "none" <=> status[a] = "none"
  BY DEF DeleteRule, Existing, TypeOK

LEMMA CascadeStep == TypeOK /\ CascadeComplete /\ [Next]_vars => CascadeComplete'
<1> SUFFICES ASSUME TypeOK, CascadeComplete, [Next]_vars PROVE CascadeComplete'
  OBVIOUS
<1> USE DEF CascadeComplete, ruleVars, alertVars, monitorVars, briefVars
<1>1. ASSUME NEW r \in Rule, RuleTriggers(r) PROVE CascadeComplete'
  BY <1>1, TriggerAddsRow DEF RuleTriggers
<1>2. ASSUME NEW r \in Rule, DeleteRule(r) PROVE CascadeComplete'
  BY <1>2, CascadeTakesRows, ZenonT(40) DEF DeleteRule, TypeOK
<1>3. CASE SameRows
  <2> USE <1>3 DEF SameRows
  <2>1. CASE UNCHANGED <<notified, briefs, decided, outcomes>>
    BY <2>1
  <2>2. ASSUME NEW a \in Alert, NEW p \in Provider, AskProvider(a, p) PROVE CascadeComplete'
    BY <2>2 DEF AskProvider, TypeOK
  <2>3. ASSUME NEW a \in Alert, SendNotification(a) PROVE CascadeComplete'
    BY <2>3 DEF SendNotification, TypeOK
  <2>4. ASSUME NEW a \in Alert, InsertDecision(a) PROVE CascadeComplete'
    BY <2>4 DEF InsertDecision, TypeOK
  <2>5. ASSUME NEW a \in Alert, NEW p \in Period, CalculateOutcome(a, p) PROVE CascadeComplete'
    BY <2>5 DEF CalculateOutcome, TypeOK
  <2>6. CASE UNCHANGED vars
    BY <2>1, <2>6 DEF vars
  <2>7. CASE Tick \/ Crash \/ Restart \/ MonitorStart \/ MarkTriggered \/ ExpireOld
    BY <2>1, <2>7 DEF Tick, Crash, Restart, MonitorStart, MarkTriggered, ExpireOld
  <2>8. ASSUME NEW r \in Rule, RuleQuiet(r) \/ Toggle(r) PROVE CascadeComplete'
    BY <2>1, <2>8 DEF RuleQuiet, Toggle
  <2>9. ASSUME NEW a \in Alert,
               ListProvidersFails(a) \/ MarkBriefed(a) \/ FinishDecision(a) \/ DismissAlert(a)
        PROVE  CascadeComplete'
    BY <2>1, <2>9 DEF ListProvidersFails, MarkBriefed, FinishDecision, DismissAlert
  <2>10. ASSUME NEW p \in Period, ListPending(p) PROVE CascadeComplete'
    BY <2>1, <2>10 DEF ListPending
  <2> HIDE DEF CascadeComplete
  <2> QED
    BY StepCases, <1>1, <1>2, <2>2, <2>3, <2>4, <2>5, <2>6, <2>7, <2>8, <2>9, <2>10
<1> HIDE DEF CascadeComplete
<1> QED
  BY <1>1, <1>2, <1>3, RowsStay

\* Once an alert is gone, with its rule, no briefing, decision, outcome or
\* notification mark of it is left, whatever the goroutines in flight still write.
THEOREM CascadeIsComplete == Spec => []CascadeComplete
<1>1. Init => CascadeComplete
  BY DEF Init, CascadeComplete
<1> QED
  BY <1>1, Typing, CascadeStep, PTL DEF Spec

-----------------------------------------------------------------------------
(* Evaluated decisions *)

\* What the outcome job has listed was due, and stays due unless its alert goes.
ListedStayDue ==
    \A a \in Alert, p \in Period : <<a, p>> \in listed =>
        /\ status[a] # "none"
        /\ a \in Existing => decided[a] # Never /\ decided[a] + Due[p] <= clock

OutcomesSound == ListedStayDue /\ OutcomesAreDue

OutcomeInvariant == CascadeComplete /\ OutcomesSound

LEMMA OutcomeStep == TypeOK /\ OutcomeInvariant /\ [Next]_vars => OutcomeInvariant'
<1> SUFFICES ASSUME TypeOK, OutcomeInvariant, [Next]_vars
             PROVE  OutcomesSound'
  BY CascadeStep DEF OutcomeInvariant
<1> USE DEF OutcomeInvariant, OutcomesSound, ruleVars, alertVars, monitorVars, briefVars
<1>1. ASSUME NEW r \in Rule, RuleTriggers(r) PROVE OutcomesSound'
  <2>1. PICK a \in Alert : status[a] = "none" /\ status' = [status EXCEPT ![a] = "pending"]
                            /\ Existing' = Existing \cup {a}
    BY <1>1, TriggerAddsRow
  <2>2. UNCHANGED <<clock, decided, outcomes, listed>>
    BY <1>1 DEF RuleTriggers
  <2>3. ListedStayDue'
    BY <2>1, <2>2 DEF ListedStayDue, TypeOK
  <2>4. OutcomesAreDue'
    BY <2>1, <2>2 DEF OutcomesAreDue, TypeOK
  <2> QED
    BY <2>3, <2>4
<1>2. ASSUME NEW r \in Rule, DeleteRule(r) PROVE OutcomesSound'
  BY <1>2, CascadeTakesRows DEF DeleteRule, ListedStayDue, OutcomesAreDue, TypeOK
<1>3. CASE SameRows
  <2> USE <1>3 DEF SameRows, ListedStayDue, OutcomesAreDue
  <2>1. CASE listed' \subseteq listed /\ UNCHANGED <<decided, outcomes, clock>>
    BY <2>1 DEF TypeOK
  <2>2. CASE Tick
    BY <2>2, DueAssumption DEF Tick, TypeOK, Never
  <2>3. ASSUME NEW a \in Alert, InsertDecision(a) PROVE OutcomesSound'
    BY <2>3 DEF InsertDecision, TypeOK
  <2>4. ASSUME NEW a \in Alert, NEW p \in Period, CalculateOutcome(a, p) PROVE OutcomesSound'
    BY <2>4 DEF CalculateOutcome, CascadeComplete, TypeOK
  <2>5. ASSUME NEW p \in Period, ListPending(p) PROVE OutcomesSound'
    BY <2>5 DEF ListPending, Pending, Existing, TypeOK
  <2>6. CASE UNCHANGED vars
    BY <2>1, <2>6 DEF vars
  <2>7. CASE Crash \/ Restart \/ MonitorStart \/ MarkTriggered \/ ExpireOld
    BY <2>1, <2>7 DEF Crash, Restart, MonitorStart, MarkTriggered, ExpireOld
  <2>8. ASSUME NEW r \in Rule, RuleQuiet(r) \/ Toggle(r) PROVE OutcomesSound'
    BY <2>1, <2>8 DEF RuleQuiet, Toggle
  <2>9. ASSUME NEW a \in Alert,
               \/ ListProvidersFails(a) \/ MarkBriefed(a) \/ SendNotification(a)
               \/ FinishDecision(a) \/ DismissAlert(a)
        PROVE  OutcomesSound'
    BY <2>1, <2>9 DEF ListProvidersFails, MarkBriefed, SendNotification, FinishDecision, DismissAlert
  <2>10. ASSUME NEW a \in Alert, NEW p \in Provider, AskProvider(a, p) PROVE OutcomesSound'
    BY <2>1, <2>10 DEF AskProvider
  <2> HIDE DEF OutcomesSound, SameRows, ListedStayDue, OutcomesAreDue
  <2> QED
    BY StepCases, <1>1, <1>2, <2>2, <2>3, <2>4, <2>5, <2>6, <2>7, <2>8, <2>9, <2>10
<1> HIDE DEF OutcomesSound
<1> QED
  BY <1>1, <1>2, <1>3, RowsStay

\* An outcome is only recorded for a decision that exists and is old enough, though
\* the job works off a list read earlier while decisions and alerts come and go.
THEOREM OutcomesDue == Spec => []OutcomesAreDue
<1>1. Init => OutcomeInvariant
  BY DEF Init, OutcomeInvariant, OutcomesSound, CascadeComplete, ListedStayDue, OutcomesAreDue
<1>2. OutcomeInvariant => OutcomesAreDue
  BY DEF OutcomeInvariant, OutcomesSound
<1> QED
  BY <1>1, <1>2, Typing, OutcomeStep, PTL DEF Spec

-----------------------------------------------------------------------------
(* The cooldown *)

\* Alerts are numbered in the order of their birth, and only those that were ever
\* inserted have a rule.
AlertsInOrder ==
    \A b \in Alert :
        IF status[b] = "none"
        THEN ruleOf[b] = NoRule
        ELSE /\ ruleOf[b] \in Rule /\ born[b] <= clock
             /\ \A a \in Alert : a < b => status[a] # "none" /\ born[a] <= born[b]

\* The rules a run still has to evaluate are past their cooldown and are not the
\* rule whose alert it has just created; no mark lies in the future.
RunSound ==
    /\ \A r \in due : CooldownPassed(r) /\ (fresh # 0 => r # ruleOf[fresh])
    /\ fresh # 0 => status[fresh] # "none"
    /\ \A r \in Rule : triggered[r] <= clock

\* Rules whose last alert never made it to last_triggered_at, where no run is about
\* to write it: they may trigger again too soon.
Unmarked ==
    {r \in Rule :
        /\ rule[r] # "deleted"
        /\ fresh # 0 => ruleOf[fresh] # r
        /\ \E a \in Alert : ruleOf[a] = r /\ triggered[r] < born[a]}

\* Each fault accounts for one rule left unmarked, or for the alert that came of it.
MarksCounted ==
    /\ IsFiniteSet(Unmarked)
    /\ Cardinality(TooSoon) + Cardinality(Unmarked) <= faults

CooldownInvariant == AlertsInOrder /\ RunSound /\ MarksCounted

LEMMA TooSoonFinite == IsFiniteSet(TooSoon) /\ Cardinality(TooSoon) \in Nat
<1>1. IsFiniteSet(Alert)
  BY FS_Interval, AlertBounds DEF Alert
<1>2. TooSoon \in SUBSET Alert
  BY DEF TooSoon
<1>3. IsFiniteSet(TooSoon)
  BY <1>1, <1>2, FS_Subset
<1> QED
  BY <1>3, FS_CardinalityType

\* A step keeps the count where it adds no early alert and no unmarked rule.
LEMMA CountStays ==
    ASSUME TypeOK, TypeOK', MarksCounted, faults' >= faults,
           TooSoon' = TooSoon, Unmarked' \subseteq Unmarked
    PROVE  MarksCounted'
<1>1. IsFiniteSet(Unmarked') /\ Cardinality(Unmarked') <= Cardinality(Unmarked)
  BY FS_Subset DEF MarksCounted
<1>2. Cardinality(Unmarked) \in Nat /\ Cardinality(Unmarked') \in Nat
  BY <1>1, FS_CardinalityType DEF MarksCounted
<1>3. Cardinality(TooSoon) \in Nat
  BY TooSoonFinite
<1> QED
  BY <1>1, <1>2, <1>3 DEF MarksCounted, TypeOK

\* ... and where a fault leaves one rule unmarked.
LEMMA CountOfFault ==
    ASSUME TypeOK, MarksCounted, faults' = faults + 1, TooSoon' = TooSoon,
           NEW r, Unmarked' \subseteq Unmarked \cup {r}
    PROVE  MarksCounted'
<1>1. /\ IsFiniteSet(Unmarked \cup {r})
      /\ Cardinality(Unmarked \cup {r}) \in {Cardinality(Unmarked), Cardinality(Unmarked) + 1}
  BY FS_AddElement DEF MarksCounted
<1>2. IsFiniteSet(Unmarked') /\ Cardinality(Unmarked') <= Cardinality(Unmarked \cup {r})
  BY <1>1, FS_Subset
<1>3. Cardinality(Unmarked) \in Nat /\ Cardinality(Unmarked') \in Nat
  BY <1>2, FS_CardinalityType DEF MarksCounted
<1>4. Cardinality(TooSoon) \in Nat
  BY TooSoonFinite
<1> QED
  BY <1>1, <1>2, <1>3, <1>4 DEF MarksCounted, TypeOK

\* Steps that leave alerts, marks and the fresh alert alone, and list only rules that
\* may be listed, keep the invariant.
LEMMA OtherSteps ==
    ASSUME TypeOK, TypeOK', CooldownInvariant,
           UNCHANGED <<ruleOf, born, triggered, fresh>>,
           faults' >= faults, clock' >= clock,
           \A a \in Alert : status'[a] = "none" <=> status[a] = "none",
           \A r \in Rule : rule[r] = "deleted" => rule'[r] = "deleted",
           \A r \in due' : r \in due \/ (CooldownPassed(r) /\ fresh = 0)
    PROVE  CooldownInvariant'
<1>1. AlertsInOrder'
  BY DEF CooldownInvariant, AlertsInOrder, TypeOK
<1>2. RunSound'
  <2>1. \A r \in due' : CooldownPassed(r)'
    BY TimeAssumption DEF CooldownInvariant, RunSound, CooldownPassed, TypeOK, Never
  <2> QED
    BY <2>1 DEF CooldownInvariant, RunSound, TypeOK, Never
<1>3. MarksCounted'
  <2>1. TooSoon' = TooSoon
    BY DEF TooSoon
  <2>2. Unmarked' \subseteq Unmarked
    BY DEF Unmarked, TypeOK
  <2> QED
    BY <2>1, <2>2, CountStays DEF CooldownInvariant
<1> QED
  BY <1>1, <1>2, <1>3 DEF CooldownInvariant

\* A trigger: the new alert is early only if its rule was unmarked, and its rule is no
\* longer among those once the alert is there to be marked.
LEMMA TriggerStep ==
    ASSUME TypeOK, TypeOK', CooldownInvariant, NEW r \in Rule, RuleTriggers(r)
    PROVE  CooldownInvariant'
<1>1. PICK b \in Alert :
          /\ status[b] = "none" /\ \A a \in Alert : a < b => status[a] # "none"
          /\ ruleOf' = [ruleOf EXCEPT ![b] = r]
          /\ born' = [born EXCEPT ![b] = clock]
          /\ status' = [status EXCEPT ![b] = "pending"]
          /\ fresh' = b
  BY DEF RuleTriggers
<1>2. /\ UNCHANGED <<clock, faults, rule, triggered>> /\ due' = due \ {r}
      /\ r \in due /\ rule[r] # "deleted" /\ fresh = 0
  BY DEF RuleTriggers, ruleVars, TypeOK
<1>3. b # 0 /\ Alert \subseteq Nat
  BY DEF Alert
<1>4. \A a \in Alert : a > b => status[a] = "none" /\ ruleOf[a] = NoRule
  BY <1>1, <1>3 DEF CooldownInvariant, AlertsInOrder
<1>5. AlertsInOrder'
  <2>1. \A a \in Alert : status[a] # "none" => a < b /\ ruleOf[a] \in Rule /\ born[a] <= clock
    BY <1>1, <1>3, <1>4 DEF CooldownInvariant, AlertsInOrder
  <2>2. \A a \in Alert : /\ a # b => status'[a] = status[a] /\ ruleOf'[a] = ruleOf[a]
                                     /\ born'[a] = born[a]
    BY <1>1 DEF TypeOK
  <2>3. status'[b] = "pending" /\ ruleOf'[b] = r /\ born'[b] = clock
    BY <1>1 DEF TypeOK
  <2> QED
    BY <1>1, <1>2, <1>3, <2>1, <2>2, <2>3 DEF CooldownInvariant, AlertsInOrder, TypeOK
<1>6. RunSound'
  BY <1>1, <1>2, <1>3, TimeAssumption DEF CooldownInvariant, RunSound, CooldownPassed, TypeOK
<1>7. TooSoon' \subseteq TooSoon \cup {b}
  <2> SUFFICES ASSUME NEW c \in TooSoon', c # b PROVE c \in TooSoon
    OBVIOUS
  <2>1. PICK a \in Alert : /\ a < c /\ ruleOf'[a] # NoRule /\ ruleOf'[a] = ruleOf'[c]
                            /\ born'[c] <= born'[a] + Cooldown
    BY DEF TooSoon
  <2>2. c \in Alert /\ ruleOf'[c] = ruleOf[c] /\ born'[c] = born[c]
    BY <1>1 DEF TooSoon, TypeOK
  <2>3. a # b
    BY <1>4, <2>1, <2>2
  <2>4. ruleOf'[a] = ruleOf[a] /\ born'[a] = born[a]
    BY <1>1, <2>3 DEF TypeOK
  <2> QED
    BY <2>1, <2>2, <2>4 DEF TooSoon
<1>8. Unmarked' \subseteq Unmarked \ {r}
  BY <1>1, <1>2, <1>3 DEF Unmarked, TypeOK
<1>9. r \notin Unmarked => TooSoon' \subseteq TooSoon
  <2> SUFFICES ASSUME r \notin Unmarked, b \in TooSoon' PROVE FALSE
    BY <1>7
  <2>1. PICK a \in Alert : a < b /\ ruleOf[a] = r /\ clock <= born[a] + Cooldown
    BY <1>1, <1>3, RuleAssumption DEF TooSoon, TypeOK
  <2>2. triggered[r] >= born[a]
    BY <1>2, <2>1 DEF Unmarked, TypeOK, Never
  <2>3. CooldownPassed(r)
    BY <1>2 DEF CooldownInvariant, RunSound
  <2> QED
    BY <2>1, <2>2, <2>3, TimeAssumption DEF CooldownPassed, TypeOK, Never
<1>10. MarksCounted'
  <2>1. IsFiniteSet(TooSoon) /\ Cardinality(TooSoon) \in Nat /\ IsFiniteSet(Unmarked)
    BY TooSoonFinite DEF CooldownInvariant, MarksCounted
  <2>2. Cardinality(Unmarked) \in Nat
    BY <2>1, FS_CardinalityType
  <2>3. /\ IsFiniteSet(Unmarked \ {r})
        /\ Cardinality(Unmarked \ {r}) =
             IF r \in Unmarked THEN Cardinality(Unmarked) - 1 ELSE Cardinality(Unmarked)
    BY <2>1, FS_RemoveElement
  <2>4. IsFiniteSet(Unmarked') /\ Cardinality(Unmarked') <= Cardinality(Unmarked \ {r})
    BY <1>8, <2>3, FS_Subset
  <2>5. Cardinality(Unmarked') \in Nat
    BY <2>4, FS_CardinalityType
  <2>6. /\ IsFiniteSet(TooSoon \cup {b})
        /\ Cardinality(TooSoon \cup {b}) <= Cardinality(TooSoon) + 1
    <3>1. Cardinality(TooSoon \cup {b})
             = IF b \in TooSoon THEN Cardinality(TooSoon) ELSE Cardinality(TooSoon) + 1
      BY <2>1, FS_AddElement
    <3> QED
      BY <2>1, <3>1, FS_AddElement
  <2>7. IsFiniteSet(TooSoon') /\ Cardinality(TooSoon') <= Cardinality(TooSoon \cup {b})
    BY <1>7, <2>6, FS_Subset
  <2>8. Cardinality(TooSoon') \in Nat /\ Cardinality(TooSoon \cup {b}) \in Nat
    BY <2>6, <2>7, FS_CardinalityType
  <2>9. r \notin Unmarked => Cardinality(TooSoon') <= Cardinality(TooSoon)
    BY <1>9, <2>1, FS_Subset
  <2> QED
    BY <1>2, <2>1, <2>2, <2>3, <2>4, <2>5, <2>6, <2>7, <2>8, <2>9
       DEF CooldownInvariant, MarksCounted, TypeOK
<1> QED
  BY <1>5, <1>6, <1>10 DEF CooldownInvariant

\* The mark after a trigger is written, or a fault leaves the rule unmarked.
LEMMA MarkStep ==
    ASSUME TypeOK, TypeOK', CooldownInvariant, MarkTriggered
    PROVE  CooldownInvariant'
<1> DEFINE r == ruleOf[fresh]
<1>1. /\ UNCHANGED <<clock, rule, ruleOf, born, status, due>>
      /\ fresh # 0 /\ fresh \in Alert /\ fresh' = 0
  BY DEF MarkTriggered, alertVars, TypeOK
<1>2. \/ /\ triggered' = [triggered EXCEPT ![r] = IF rule[r] = "deleted" THEN @ ELSE clock]
         /\ faults' = faults
      \/ triggered' = triggered /\ faults' = faults + 1
  BY DEF MarkTriggered, Fault
<1>3. r \in Rule /\ status[fresh] # "none"
  BY <1>1 DEF CooldownInvariant, RunSound, AlertsInOrder
<1>4. \A s \in Rule : s # r => triggered'[s] = triggered[s]
  BY <1>2, <1>3 DEF TypeOK
<1>5. AlertsInOrder'
  BY <1>1 DEF CooldownInvariant, AlertsInOrder
<1>6. RunSound'
  <2>1. \A s \in due' : s # r /\ s \in Rule /\ CooldownPassed(s)
    BY <1>1 DEF CooldownInvariant, RunSound, TypeOK
  <2>2. \A s \in due' : CooldownPassed(s)'
    BY <1>1, <1>4, <2>1 DEF CooldownPassed
  <2>3. \A s \in Rule : triggered'[s] <= clock'
    BY <1>1, <1>2, <1>3, <1>4 DEF CooldownInvariant, RunSound, TypeOK, Never
  <2> QED
    BY <1>1, <2>2, <2>3 DEF RunSound
<1>7. TooSoon' = TooSoon
  BY <1>1 DEF TooSoon
<1>8. MarksCounted'
  <2>1. CASE triggered' = triggered /\ faults' = faults + 1
    <3>1. Unmarked' \subseteq Unmarked \cup {r}
      BY <1>1, <2>1 DEF Unmarked
    <3> QED
      BY <1>7, <2>1, <3>1, CountOfFault DEF CooldownInvariant
  <2>2. CASE /\ triggered' = [triggered EXCEPT ![r] = IF rule[r] = "deleted" THEN @ ELSE clock]
             /\ faults' = faults
    <3>1. rule[r] # "deleted" => triggered'[r] = clock
      BY <2>2, <1>3 DEF TypeOK
    <3>2. \A a \in Alert : ruleOf[a] = r => born[a] <= clock
      BY <1>3, RuleAssumption DEF CooldownInvariant, AlertsInOrder
    <3>3. r \notin Unmarked'
      BY <1>1, <3>1, <3>2 DEF Unmarked, TypeOK
    <3>4. Unmarked' \subseteq Unmarked
      BY <1>1, <1>4, <3>3 DEF Unmarked
    <3> QED
      BY <1>7, <2>2, <3>4, CountStays DEF CooldownInvariant, TypeOK
  <2> QED
    BY <1>2, <2>1, <2>2
<1> QED
  BY <1>5, <1>6, <1>8 DEF CooldownInvariant

\* A crash is a fault and may come before the mark.
LEMMA CrashStep ==
    ASSUME TypeOK, TypeOK', CooldownInvariant, Crash
    PROVE  CooldownInvariant'
<1>1. /\ UNCHANGED <<clock, rule, triggered, ruleOf, born, status>>
      /\ fresh' = 0 /\ due' = {} /\ faults' = faults + 1
  BY DEF Crash, Fault, alertVars, ruleVars
<1>2. AlertsInOrder' /\ RunSound'
  BY <1>1 DEF CooldownInvariant, AlertsInOrder, RunSound
<1>3. TooSoon' = TooSoon
  BY <1>1 DEF TooSoon
<1>4. Unmarked' \subseteq Unmarked \cup {ruleOf[fresh]}
  BY <1>1 DEF Unmarked
<1>5. MarksCounted'
  BY <1>1, <1>3, <1>4, CountOfFault DEF CooldownInvariant
<1> QED
  BY <1>2, <1>5 DEF CooldownInvariant

LEMMA CooldownStep ==
    TypeOK /\ TypeOK' /\ CooldownInvariant /\ [Next]_vars => CooldownInvariant'
<1> SUFFICES ASSUME TypeOK, TypeOK', CooldownInvariant, [Next]_vars PROVE CooldownInvariant'
  OBVIOUS
<1>1. ASSUME UNCHANGED <<ruleOf, born, triggered, fresh>>, faults' >= faults, clock' >= clock,
             SameRows \/ \E r \in Rule : DeleteRule(r),
             \A r \in Rule : rule[r] = "deleted" => rule'[r] = "deleted",
             \A r \in due' : r \in due \/ (CooldownPassed(r) /\ fresh = 0)
      PROVE  CooldownInvariant'
  <2>1. \A a \in Alert : status'[a] = "none" <=> status[a] = "none"
    BY <1>1, CascadeTakesRows DEF SameRows
  <2> QED
    BY <1>1, <2>1, OtherSteps
<1>2. ASSUME UNCHANGED <<faults, clock, rule, triggered, ruleOf, born, due, fresh>>,
             SameRows
      PROVE  CooldownInvariant'
  BY <1>1, <1>2 DEF TypeOK
<1> USE DEF ruleVars, alertVars, monitorVars
<1>3. SameRows \/ \E r \in Rule : RuleTriggers(r) \/ DeleteRule(r)
  BY RowsStay
<1>4. ASSUME NEW r \in Rule, DeleteRule(r) PROVE CooldownInvariant'
  <2>1. /\ UNCHANGED <<clock, faults, triggered, ruleOf, born, due, fresh>>
        /\ rule' = [rule EXCEPT ![r] = "deleted"]
    BY <1>4 DEF DeleteRule
  <2>2. \A s \in Rule : rule[s] = "deleted" => rule'[s] = "deleted"
    BY <2>1 DEF TypeOK
  <2> QED
    BY <1>1, <1>4, <2>1, <2>2 DEF TypeOK
<1>5. ASSUME NEW r \in Rule, RuleTriggers(r) PROVE CooldownInvariant'
  BY <1>5, TriggerStep
<1>6. CASE SameRows
  <2> USE <1>6
  <2>1. CASE Tick
    BY <1>1, <2>1 DEF Tick, TypeOK
  <2>2. CASE MonitorStart
    BY <1>1, <2>2 DEF MonitorStart, TypeOK
  <2>3. CASE ExpireOld
    BY <1>1, <2>3 DEF ExpireOld, Fault, TypeOK
  <2>4. ASSUME NEW r \in Rule, RuleQuiet(r) PROVE CooldownInvariant'
    BY <1>1, <2>4 DEF RuleQuiet, TypeOK
  <2>5. ASSUME NEW r \in Rule, Toggle(r) PROVE CooldownInvariant'
    BY <1>1, <2>5 DEF Toggle, TypeOK
  <2>6. ASSUME NEW a \in Alert, ListProvidersFails(a) \/ MarkBriefed(a) \/ FinishDecision(a)
        PROVE  CooldownInvariant'
    BY <1>1, <2>6 DEF ListProvidersFails, MarkBriefed, FinishDecision, Fault, TypeOK
  <2>7. ASSUME NEW a \in Alert, SendNotification(a) \/ InsertDecision(a) \/ DismissAlert(a)
        PROVE  CooldownInvariant'
    BY <1>2, <2>7 DEF SendNotification, InsertDecision, DismissAlert
  <2>8. ASSUME NEW a \in Alert, NEW p \in Provider, AskProvider(a, p) PROVE CooldownInvariant'
    BY <1>2, <2>8 DEF AskProvider
  <2>9. ASSUME NEW p \in Period, ListPending(p) PROVE CooldownInvariant'
    BY <1>2, <2>9 DEF ListPending
  <2>10. ASSUME NEW a \in Alert, NEW p \in Period, CalculateOutcome(a, p)
         PROVE  CooldownInvariant'
    BY <1>1, <2>10 DEF CalculateOutcome, Fault, TypeOK
  <2>11. CASE Restart \/ UNCHANGED vars
    BY <1>2, <2>11 DEF Restart, vars
  <2> QED
    BY StepCases, MarkStep, CrashStep, <1>4, <1>5, <2>1, <2>2, <2>3, <2>4, <2>5, <2>6,
       <2>7, <2>8, <2>9, <2>10, <2>11
<1> QED
  BY <1>3, <1>4, <1>5, <1>6

\* Each crash or failed update of last_triggered_at lets through one alert within its
\* rule's cooldown at most; without a fault there is none.
THEOREM CooldownIsKept == Spec => []CooldownHolds
<1>1. Init => CooldownInvariant
  <2> SUFFICES ASSUME Init PROVE CooldownInvariant
    OBVIOUS
  <2>1. AlertsInOrder /\ RunSound
    BY DEF Init, AlertsInOrder, RunSound, Never
  <2>2. TooSoon = {} /\ Unmarked = {}
    BY RuleAssumption DEF Init, TooSoon, Unmarked
  <2>3. MarksCounted
    BY <2>2, FS_EmptySet DEF MarksCounted, Init
  <2> QED
    BY <2>1, <2>3 DEF CooldownInvariant
<1>2. TypeOK /\ CooldownInvariant => CooldownHolds
  <2> SUFFICES ASSUME TypeOK, CooldownInvariant PROVE CooldownHolds
    OBVIOUS
  <2>1. Cardinality(Unmarked) \in Nat /\ Cardinality(TooSoon) \in Nat
    BY TooSoonFinite, FS_CardinalityType DEF CooldownInvariant, MarksCounted
  <2> QED
    BY <2>1 DEF CooldownInvariant, MarksCounted, CooldownHolds, TypeOK
<1> QED
  BY <1>1, <1>2, Typing, CooldownStep, PTL DEF Spec
=============================================================================
