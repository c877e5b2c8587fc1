---------------------------- MODULE MCTradeSync ----------------------------
(* Instances of TradeSync for TLC. *)
EXTENDS TradeSync, TLC

CONSTANTS s1, s2, none, poller, m1

OneSymbol == {s1}
TwoSymbols == {s1, s2}
NoManual == {}
OneManual == {m1}
SecondDead == {s2}
=============================================================================
