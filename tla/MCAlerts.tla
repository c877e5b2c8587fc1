------------------------------- MODULE MCAlerts -------------------------------
(* Instances of Alerts for TLC. *)
EXTENDS Alerts, TLC

CONSTANTS r1, r2, openai, claude, hour, day, noRule

OneRule == {r1}
TwoRules == {r1, r2}
OneProvider == {openai}
TwoProviders == {openai, claude}
OnePeriod == {hour}
TwoPeriods == {hour, day}
DueOne == [p \in OnePeriod |-> 1]
DueTwo == [p \in TwoPeriods |-> IF p = hour THEN 1 ELSE 2]
=============================================================================
