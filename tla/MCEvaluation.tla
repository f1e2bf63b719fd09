---------------------------- MODULE MCEvaluation ----------------------------
(* Three cases. c1 has two annotated points, the first of which lists the    *)
(* title of the second as an alias; c2 a point of no known category besides  *)
(* one of its own; c3 no point at all.                                       *)
EXTENDS Evaluation

Want(category, title, aliases) == [category |-> category, title |-> title, aliases |-> aliases]
Got(category, title) == Want(category, title, {})

MCCaseOrder == <<"c1", "c2", "c3">>
MCLanguage == [c1 |-> "python", c2 |-> "go", c3 |-> "go"]
MCCategory == [c1 |-> "DP", c2 |-> "AD", c3 |-> "AD"]
MCExpected ==
  [c1 |-> <<Want("DP", "observer", {"pubsub"}), Want("DP", "pubsub", {})>>,
   c2 |-> <<Want("AD", "layers", {}), Want("", "layers", {})>>,
   c3 |-> <<>>]
MCAnswers ==
  [c1 |-> {<<Got("DP", "pubsub"), Got("DP", "observer")>>,
           <<Got("DP", "observers"), Got("DP", "observer"), Got("AD", "pubsub")>>,
           MCExpected["c1"]},
   c2 |-> {<<Got("AD", "layer"), Got("AD", "layers")>>, <<Got("AL", "layers")>>},
   c3 |-> {<<>>, <<Got("AD", "")>>}]
MCSimilar == {<<"observers", "observer">>, <<"layer", "layers">>}

Settings(version, categories) ==
  [version |-> version, languages |-> {}, categories |-> categories]

MCPlan == [plain |-> <<>>, ab |-> <<Settings("v1", {"DP"}), Settings("v2", {"AD"})>>]
MCFirstConfig == Settings("v0", {"DP", "AD"})
MCBatches == [b |-> 4]
MCJobs == [all |-> Settings("v3", {})]
=============================================================================
