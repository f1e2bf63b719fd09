---------------------------- MODULE MCLLMRouting ----------------------------
\* A client configured for claude, with the default fallbacks.
EXTENDS LLMRouting, TLC

CONSTANTS c1, c2, c3

MCTwo == {c1, c2}
MCThree == {c1, c2, c3}
MCSymmetry2 == Permutations(MCTwo)
MCSymmetry3 == Permutations(MCThree)

MCConfigured == [provider |-> "claude", model |-> ""]
MCDefault == [p \in Providers |-> IF p = "ollama" THEN "llama" ELSE "sonnet"]
MCFallbacks == <<"gpt", "ollama">>
=============================================================================
