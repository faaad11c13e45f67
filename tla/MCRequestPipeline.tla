-------------------------- MODULE MCRequestPipeline --------------------------
(***************************************************************************)
(* Instances of RequestPipeline for TLC: assessments that lead to each     *)
(* action, and a pattern that two prompts share.                           *)
(***************************************************************************)
EXTENDS RequestPipeline, TLC

CONSTANTS p1, p2, k1, k2

\* k1 is found in both prompts, k2 in the second only.
SharedPattern == p1 :> {k1} @@ p2 :> {k1, k2}

\* Allowed; rate-limited; quarantined, at high risk; blocked.
Harmless == <<Signal("intent_agent", 0, "benign", 90)>>
Doubtful == <<Signal("intent_agent", 35, "prompt_injection", 60)>>
Serious  == <<Signal("cot_inspector", 70, "identity_override", 90)>>
Hostile  == <<Signal("intent_agent", 0, "benign", 90), Signal("injection_agent", 90, "jailbreak", 80)>>

EveryAssessment == {Harmless, Doubtful, Serious, Hostile}
FewAssessments  == {Harmless, Serious, Hostile}

Peer(s, c) == [severity |-> s, category |-> c]
SomePeerIocs == {Peer(7, "jailbreak"), Peer(9, "tool_abuse")}
OnePeerIoc   == {Peer(8, "jailbreak")}

Interchangeable == Permutations(Requests)
=============================================================================
