----------------------------- MODULE MCGuardian -----------------------------
(***************************************************************************)
(* Instances of Guardian for TLC: the pattern hits, LLM confidences and    *)
(* IOC matches that tell its rules apart.                                  *)
(***************************************************************************)
EXTENDS Guardian

Hit(s, c) == [severity |-> s, category |-> c]

\* None; one or two hits of a known category, below and above the dominant score;
\* a hot-reloaded pattern whose category is not a ThreatCategory, and one whose severity
\* is out of range.
SomeHits ==
    {<<>>, <<Hit(9, "prompt_injection")>>, <<Hit(7, "jailbreak"), Hit(10, "tool_abuse")>>,
     <<Hit(9, "prompt_injection"), Hit(8, "jailbreak"), Hit(10, "llmjacking")>>,
     <<Hit(9, "unheard_of")>>, <<Hit(-1, "jailbreak")>>, <<Hit(40, "jailbreak")>>}
FewHits == {<<>>, <<Hit(9, "prompt_injection"), Hit(8, "jailbreak")>>, <<Hit(9, "unheard_of")>>}

NoMatch     == {}
SomeMatches == {Hit(6, "tool_abuse"), Hit(7, "jailbreak"), Hit(9, "out_of_scope"), Hit(9, "jailbreak")}
=============================================================================
