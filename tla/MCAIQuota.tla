------------------------------ MODULE MCAIQuota ------------------------------
(* Instances of AIQuota for TLC. *)
EXTENDS AIQuota, TLC

CONSTANTS u1, u2, q1, q2, openai, claude, free, gold

OneUser == {u1}
TwoUsers == {u1, u2}
OneReq == {q1}
TwoReqs == {q1, q2}
OneProvider == {openai}
TwoProviders == {openai, claude}
Tiers == {free, gold}
QuotaOf == (free :> 1) @@ (gold :> 3)
NoReq == {}
Symmetry == Permutations(TwoReqs) \cup Permutations(TwoProviders)
=============================================================================
