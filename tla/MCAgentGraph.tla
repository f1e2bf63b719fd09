----------------------------- MODULE MCAgentGraph -----------------------------
(* Two or three agents, two titles, and a confidence on each side of the       *)
(* threshold of ExpansionNode.                                                 *)
EXTENDS AgentGraph

CONSTANTS t1, t2

MCTitles == {t1, t2}
MCConfidences == {6, 9}

===============================================================================
