--------------------------- MODULE AgentGraphProofs ---------------------------
(* What AgentGraph keeps for any number of agents, retries, titles and         *)
(* confidences.                                                                *)
EXTENDS AgentGraph, FiniteSetTheorems, TLAPS

Above(c) == {k \in Confidences : k > c}

\* A non-empty set of confidences has a largest one.
LEMMA LargestConfidence ==
  ASSUME NEW C \in SUBSET Confidences, C # {}
  PROVE  \E c \in C : \A d \in C : d <= c
PROOF
<1> DEFINE Uppers == {Above(c) : c \in C}
<1>1. IsWellFoundedOn(StrictSubsetOrdering(Confidences), FiniteSubsetsOf(Confidences))
  BY FS_StrictSubsetOrderingWellFounded
<1>2. Uppers \subseteq FiniteSubsetsOf(Confidences)
  BY ConfidencesAssumption, FS_FiniteSubsetsOfFinite DEF Above
<1>3. Uppers # {}
  OBVIOUS
<1>4. PICK u \in Uppers :
        \A v \in Uppers : <<v, u>> \notin StrictSubsetOrdering(Confidences)
  <2> HIDE DEF Uppers
  <2> QED BY <1>1, <1>2, <1>3, WFMin
<1>5. PICK c \in C : u = Above(c)
  OBVIOUS
<1>6. ASSUME NEW d \in C, ~(d <= c) PROVE FALSE
  <2>1. c \in Nat /\ d \in Nat /\ d \in Confidences /\ d > c /\ ~(d > d)
    BY <1>6, ConfidencesAssumption
  <2>2. d \in Above(c) /\ d \notin Above(d)
    BY <2>1 DEF Above
  <2>3. \A k \in Above(d) : k \in Above(c)
    <3>1. \A k \in Confidences : k > d => k > c
      BY <2>1, ConfidencesAssumption
    <3> QED BY <3>1 DEF Above
  <2>4. <<Above(d), Above(c)>> \in StrictSubsetOrdering(Confidences)
    BY <2>2, <2>3 DEF StrictSubsetOrdering, Above
  <2> QED BY <2>4, <1>4, <1>5
<1> QED BY <1>6

\* What the reducer returns is one of its arguments, or the first one with
\* the points of the second whose titles are new.
LEMMA AccumulateResult ==
  ASSUME NEW ps, NEW ns
  PROVE  \/ Accumulate(ps, ns) = ps
         \/ Accumulate(ps, ns) = ns
         \/ Accumulate(ps, ns) = ps \cup {p \in ns : p.title \notin TitlesOf(ps)}
PROOF BY DEF Accumulate

\* A list that brings no new title is taken for an update.
LEMMA AccumulateUpdates ==
  ASSUME NEW ps, NEW ns, ns # {}, TitlesOf(ns) \subseteq TitlesOf(ps)
  PROVE  Accumulate(ps, ns) = ns
PROOF
<1>1. {p \in ns : p.title \notin TitlesOf(ps)} = {}
  BY DEF TitlesOf
<1>2. ps # {}
  BY DEF TitlesOf
<1> QED BY <1>1, <1>2 DEF Accumulate

LEMMA AccumulateEmpty ==
  ASSUME NEW ps
  PROVE  Accumulate(ps, {}) = ps
PROOF BY DEF Accumulate

\* MergeNode returns, for each title, one of the points with the highest
\* confidence.
LEMMA MergedPoints ==
  ASSUME NEW ps \in SUBSET Point
  PROVE  /\ TitlesOf(Merged(ps)) = TitlesOf(ps)
         /\ \A p \in Merged(ps) :
              /\ p \in ps
              /\ \A q \in ps : q.title = p.title => q.conf <= p.conf
              /\ \A q \in Merged(ps) : q.title = p.title => q = p
PROOF
<1>1. ASSUME NEW t \in TitlesOf(ps)
      PROVE  /\ Best(ps, t) \in ps
             /\ Best(ps, t).title = t
             /\ \A q \in ps : q.title = t => q.conf <= Best(ps, t).conf
  <2> DEFINE C == {p.conf : p \in {q \in ps : q.title = t}}
  <2>1. C \in SUBSET Confidences /\ C # {}
    BY <1>1 DEF TitlesOf, Point
  <2>2. PICK c \in C : \A d \in C : d <= c
    <3> HIDE DEF C
    <3> QED BY <2>1, LargestConfidence
  <2>3. \E p \in ps : p.title = t /\ \A q \in ps : q.title = t => q.conf <= p.conf
    BY <2>2
  <2> QED BY <2>3 DEF Best
<1> QED BY <1>1 DEF Merged, TitlesOf

-----------------------------------------------------------------------------
\* The points of a point's agent that share its title are present with it.
Complete ==
  \A p \in points :
    /\ p.by \in applied
    /\ p \in report[p.by]
    /\ \A r \in report[p.by] : r.title = p.title => r \in points

\* FinalPointsJustified before the end.
Justified ==
  \A p \in points :
    /\ \A q \in points : q.title = p.title => q = p
    /\ agent[p.by] = "success"
    /\ \E r \in report[p.by] : Core(r) = Core(p)
    /\ \A r \in report[p.by] : r.title = p.title => r.conf <= p.conf

\* The inductive invariant.
Inv ==
  /\ TypeOK
  /\ \A a \in Agents : /\ report[a] \subseteq Report(a)
                       /\ report[a] # {} => agent[a] = "success"
  /\ OneSourcePerTitle
  /\ stage = "agents" => points = {} /\ applied = {}
  /\ stage = "reduce" => \A a \in sent : agent[a] # "calling"
  /\ stage \in {"reduce", "merge"} => Complete
  /\ stage \in {"expand", "done"} => Justified
  /\ stage = "expand" => points # {}

LEMMA InitInv == Init => Inv
PROOF
<1> SUFFICES ASSUME Init PROVE Inv
  OBVIOUS
<1>1. sent \in SUBSET Agents
  BY DEF Init
<1>2. attempts \in [Agents -> 0..MaxRetries] /\ report \in [Agents -> SUBSET Point]
  BY MaxRetriesAssumption DEF Init
<1>3. TypeOK
  BY <1>1, <1>2 DEF Init, TypeOK
<1> QED BY <1>3 DEF Init, Inv, OneSourcePerTitle

\* The actions of the agents leave everything the reducers made alone.
LEMMA AgentStep ==
  ASSUME Inv, NEW a \in Agents, Answer(a) \/ Retry(a) \/ GiveUp(a)
  PROVE  Inv'
PROOF
<1> USE MaxRetriesAssumption
<1>1. CASE Answer(a)
  <2> PICK ps \in SUBSET Report(a) : report' = [report EXCEPT ![a] = ps]
    BY <1>1 DEF Answer
  <2>1. TypeOK'
    BY <1>1 DEF Inv, TypeOK, Answer, expansionVars, Report
  <2>2. \A b \in Agents : /\ report'[b] \subseteq Report(b)
                          /\ report'[b] # {} => agent'[b] = "success"
    BY <1>1 DEF Inv, TypeOK, Answer
  <2> QED BY <1>1, <2>1, <2>2 DEF Inv, Answer, OneSourcePerTitle
<1>2. CASE Retry(a)
  <2>1. TypeOK'
    BY <1>2 DEF Inv, TypeOK, Retry, expansionVars
  <2> QED BY <1>2, <2>1 DEF Inv, Retry, OneSourcePerTitle
<1>3. CASE GiveUp(a)
  <2>1. TypeOK'
    BY <1>3 DEF Inv, TypeOK, GiveUp, expansionVars
  <2>2. \A b \in Agents : /\ report'[b] \subseteq Report(b)
                          /\ report'[b] # {} => agent'[b] = "success"
    BY <1>3 DEF Inv, TypeOK, GiveUp
  <2> QED BY <1>3, <2>1, <2>2 DEF Inv, GiveUp, OneSourcePerTitle
<1> QED BY <1>1, <1>2, <1>3

\* The reducers keep the findings of one agent per title, whichever of their
\* three results they return.
LEMMA ReduceStep ==
  ASSUME Inv, NEW a \in Agents, Reduce(a)
  PROVE  Inv'
PROOF
<1> DEFINE fresh == {p \in report[a] : p.title \notin TitlesOf(points)}
<1>1. /\ stage = "reduce" /\ a \in sent /\ a \notin applied
      /\ applied' = applied \cup {a}
      /\ stage' \in {"reduce", "merge"}
      /\ UNCHANGED <<sent, agent, attempts, report, failedNodes, failures, reported>>
  BY DEF Reduce, agentVars, expansionVars
<1>2. points' \in {points, report[a], points \cup fresh}
  <2>1. points' = Accumulate(points, report[a])
    BY DEF Reduce
  <2> QED BY <2>1, AccumulateResult
<1>3. Complete
  BY <1>1 DEF Inv
<1>4. \A p \in report[a] : p \in Point /\ p.by = a
  BY <1>1 DEF Inv, Report
<1>5. TypeOK'
  <2>1. points' \in SUBSET Point
    BY <1>2, <1>4 DEF Inv, TypeOK
  <2>2. results' \in [Agents -> {"none", "success", "failed"}]
    <3>1. agent[a] \in {"success", "failed"}
      BY <1>1 DEF Inv, TypeOK
    <3> QED BY <3>1 DEF Inv, TypeOK, Reduce
  <2> QED BY <1>1, <2>1, <2>2 DEF Inv, TypeOK
<1>6. OneSourcePerTitle'
  <2>1. CASE points' = points
    BY <2>1 DEF Inv, OneSourcePerTitle
  <2>2. CASE points' = report[a]
    BY <2>2, <1>4 DEF OneSourcePerTitle
  <2>3. CASE points' = points \cup fresh
    BY <2>3, <1>4 DEF Inv, OneSourcePerTitle, TitlesOf
  <2> QED BY <1>2, <2>1, <2>2, <2>3
<1>7. Complete'
  <2> SUFFICES ASSUME NEW p \in points'
               PROVE  /\ p.by \in applied \cup {a}
                      /\ p \in report[p.by]
                      /\ \A r \in report[p.by] : r.title = p.title => r \in points'
    BY <1>1 DEF Complete
  <2>1. CASE points' = points
    BY <2>1, <1>3 DEF Complete
  <2>2. CASE points' = report[a]
    BY <2>2, <1>4
  <2>3. CASE points' = points \cup fresh
    <3>1. CASE p \in points
      BY <2>3, <3>1, <1>3 DEF Complete
    <3>2. CASE p \in fresh
      BY <2>3, <3>2, <1>4
    <3> QED BY <2>3, <3>1, <3>2
  <2> QED BY <1>2, <2>1, <2>2, <2>3
<1> QED BY <1>1, <1>5, <1>6, <1>7 DEF Inv

\* After MergeNode every title is there once, with the best point of the only
\* agent it came from.
LEMMA MergeStep ==
  ASSUME Inv, Merge
  PROVE  Inv'
PROOF
<1>1. /\ stage = "merge" /\ Complete
      /\ UNCHANGED <<sent, applied, results, agent, attempts, report, failedNodes,
                     failures, reported>>
  BY DEF Merge, agentVars, expansionVars, Inv
<1>2. points \in SUBSET Point
  BY DEF Inv, TypeOK
<1>3. points' = Merged(points)
  <2>1. points' = Accumulate(points, Merged(points))
    BY DEF Merge
  <2>2. CASE points = {}
    <3>1. Merged(points) = {}
      BY <2>2 DEF Merged, TitlesOf
    <3> QED BY <2>1, <2>2, <3>1, AccumulateEmpty
  <2>3. CASE points # {}
    <3>1. Merged(points) # {}
      BY <2>3 DEF Merged, TitlesOf
    <3> QED BY <2>1, <3>1, <1>2, MergedPoints, AccumulateUpdates
  <2> QED BY <2>2, <2>3
<1>4. /\ points' \subseteq points
      /\ \A p \in points' :
           /\ \A q \in points : q.title = p.title => q.conf <= p.conf
           /\ \A q \in points' : q.title = p.title => q = p
  BY <1>2, <1>3, MergedPoints
<1>5. TypeOK'
  BY <1>1, <1>4 DEF Inv, TypeOK, Merge
<1>6. Justified'
  <2> SUFFICES ASSUME NEW p \in points'
               PROVE  /\ \A q \in points' : q.title = p.title => q = p
                      /\ agent[p.by] = "success"
                      /\ \E r \in report[p.by] : Core(r) = Core(p)
                      /\ \A r \in report[p.by] : r.title = p.title => r.conf <= p.conf
    BY <1>1 DEF Justified
  <2>1. p \in points /\ p \in report[p.by] /\ p.by \in Agents
    BY <1>1, <1>2, <1>4 DEF Complete, Point
  <2>2. agent[p.by] = "success"
    BY <2>1 DEF Inv
  <2>3. \A r \in report[p.by] : r.title = p.title => r.conf <= p.conf
    BY <1>1, <1>4, <2>1 DEF Complete
  <2> QED BY <1>4, <2>1, <2>2, <2>3
<1>7. OneSourcePerTitle'
  BY <1>4 DEF OneSourcePerTitle
<1> QED BY <1>1, <1>5, <1>6, <1>7 DEF Inv, Merge

\* ExpansionNode's list is taken for an update, so it replaces the points by
\* themselves with their content.
LEMMA ExpandResult ==
  ASSUME Inv, Expand
  PROVE  /\ failures' \subseteq TitlesOf(points)
         /\ \E ok : /\ failures' = TitlesOf(points) \ ok
                    /\ points' = {[p EXCEPT !.expanded = p.title \in ok] : p \in points}
PROOF
<1>1. PICK ok \in SUBSET TitlesOf(Expandable(points)) :
        /\ points' = Accumulate(points, Expanded(points, ok))
        /\ failures' = TitlesOf(points) \ ok
  BY DEF Expand
<1>2. points # {} /\ points \in SUBSET Point
  BY DEF Expand, Inv, TypeOK
<1>3. Expanded(points, ok) # {}
  BY <1>2 DEF Expanded
<1>4. TitlesOf(Expanded(points, ok)) \subseteq TitlesOf(points)
  BY <1>2 DEF Expanded, TitlesOf, Point
<1>5. points' = Expanded(points, ok)
  BY <1>1, <1>3, <1>4, AccumulateUpdates
<1> QED BY <1>1, <1>5 DEF Expanded

LEMMA ExpandStep ==
  ASSUME Inv, Expand
  PROVE  /\ Inv'
         /\ {Core(p) : p \in points'} = {Core(p) : p \in points}
         /\ \A p \in points' : p.expanded <=> p.title \notin failures'
PROOF
<1>1. /\ stage = "expand" /\ stage' = "done" /\ Justified
      /\ UNCHANGED <<sent, applied, results, reported, agent, attempts, report, failedNodes>>
  BY DEF Expand, agentVars, Inv
<1>2. points \in SUBSET Point
  BY DEF Inv, TypeOK
<1>3. PICK ok : /\ failures' = TitlesOf(points) \ ok
                /\ points' = {[p EXCEPT !.expanded = p.title \in ok] : p \in points}
  BY ExpandResult
<1> DEFINE Done(p) == [p EXCEPT !.expanded = p.title \in ok]
<1>4. ASSUME NEW p \in points
      PROVE  /\ Done(p) \in Point
             /\ Done(p).title = p.title /\ Done(p).conf = p.conf /\ Done(p).by = p.by
             /\ Done(p).expanded <=> p.title \in ok
             /\ Core(Done(p)) = Core(p)
  <2>1. p \in Point /\ (p.title \in ok) \in BOOLEAN
    BY <1>2
  <2>2. Done(p) \in Point
    BY <2>1 DEF Point
  <2>3. Done(p).title = p.title /\ Done(p).conf = p.conf /\ Done(p).by = p.by
    BY <2>1 DEF Point
  <2>4. Done(p).expanded <=> p.title \in ok
    BY <2>1 DEF Point
  <2>5. Core(Done(p)) = Core(p)
    BY <2>3 DEF Core
  <2> QED BY <2>2, <2>3, <2>4, <2>5
<1>5. ASSUME NEW q \in points'
      PROVE  \E p \in points : /\ q = Done(p)
                               /\ q.title = p.title /\ q.by = p.by /\ q.conf = p.conf
                               /\ q.expanded <=> q.title \in ok
                               /\ Core(q) = Core(p)
  <2>1. PICK p \in points : q = Done(p)
    BY <1>3
  <2>2. /\ q.title = p.title /\ q.by = p.by /\ q.conf = p.conf
        /\ q.expanded <=> q.title \in ok
        /\ Core(q) = Core(p)
    BY <1>4, <2>1
  <2> QED BY <2>1, <2>2
<1>6. points' \in SUBSET Point
  BY <1>3, <1>4
<1>7. TypeOK'
  <2>1. failures' \in SUBSET Titles
    BY <1>2, ExpandResult DEF TitlesOf, Point
  <2> QED BY <1>1, <1>6, <2>1 DEF Inv, TypeOK
<1>8. OneSourcePerTitle'
  BY <1>5 DEF Inv, OneSourcePerTitle
<1>9. Justified'
  <2> SUFFICES ASSUME NEW q \in points'
               PROVE  /\ \A r \in points' : r.title = q.title => r = q
                      /\ agent[q.by] = "success"
                      /\ \E r \in report[q.by] : Core(r) = Core(q)
                      /\ \A r \in report[q.by] : r.title = q.title => r.conf <= q.conf
    BY <1>1 DEF Justified
  <2>1. PICK p \in points : /\ q = Done(p)
                            /\ q.title = p.title /\ q.by = p.by /\ q.conf = p.conf
                            /\ Core(q) = Core(p)
    BY <1>5
  <2>2. ASSUME NEW r \in points', r.title = q.title PROVE r = q
    <3>1. PICK o \in points : r = Done(o) /\ r.title = o.title
      BY <1>5
    <3>2. o = p
      BY <2>1, <2>2, <3>1, <1>1 DEF Justified
    <3> QED BY <2>1, <3>1, <3>2
  <2> QED BY <2>1, <2>2, <1>1 DEF Justified
<1>10. {Core(p) : p \in points'} = {Core(p) : p \in points}
  <2>1. \A q \in points' : \E p \in points : Core(q) = Core(p)
    BY <1>5
  <2>2. \A p \in points : \E q \in points' : Core(q) = Core(p)
    BY <1>3, <1>4
  <2> QED BY <2>1, <2>2
<1>11. ASSUME NEW q \in points' PROVE q.expanded <=> q.title \notin failures'
  <2>1. q.title \in TitlesOf(points) /\ (q.expanded <=> q.title \in ok)
    BY <1>5 DEF TitlesOf
  <2> QED BY <2>1, <1>3
<1> QED BY <1>1, <1>7, <1>8, <1>9, <1>10, <1>11 DEF Inv

LEMMA NextInv == Inv /\ [Next]_vars => Inv'
PROOF
<1> SUFFICES ASSUME Inv, [Next]_vars PROVE Inv'
  OBVIOUS
<1>1. ASSUME NEW a \in Agents, Answer(a) \/ Retry(a) \/ GiveUp(a) PROVE Inv'
  BY <1>1, AgentStep
<1>2. ASSUME NEW a \in Agents, Reduce(a) PROVE Inv'
  BY <1>2, ReduceStep
<1>3. CASE Barrier
  <2>1. TypeOK' /\ OneSourcePerTitle'
    BY <1>3 DEF Inv, TypeOK, Barrier, agentVars, expansionVars, OneSourcePerTitle
  <2>2. points' = {} /\ stage' = "reduce"
    BY <1>3 DEF Barrier, Inv
  <2> QED BY <1>3, <2>1, <2>2 DEF Inv, Barrier, agentVars, Complete
<1>4. CASE Merge
  BY <1>4, MergeStep
<1>5. CASE Expand
  BY <1>5, ExpandStep
<1>6. CASE Raise
  <2>1. TypeOK' /\ OneSourcePerTitle'
    BY <1>6 DEF Inv, TypeOK, Raise, agentVars, expansionVars, OneSourcePerTitle
  <2> QED BY <1>6, <2>1 DEF Inv, Raise, agentVars
<1>7. CASE UNCHANGED vars
  BY <1>7 DEF Inv, TypeOK, OneSourcePerTitle, Complete, Justified, vars
<1> QED BY <1>1, <1>2, <1>3, <1>4, <1>5, <1>6, <1>7 DEF Next, Step, Finished

-----------------------------------------------------------------------------
\* Every state of the graph keeps its types, in particular no agent makes more
\* calls than MAX_LLM_RETRIES allows.
THEOREM TypeCorrect == Spec => []TypeOK
PROOF
<1>1. Inv => TypeOK
  BY DEF Inv
<1> QED BY InitInv, NextInv, <1>1, PTL DEF Spec

\* The findings of two agents with one title are never in the state together
\* (the reducer _accumulate_knowledge_points).
THEOREM OneSourceOnly == Spec => []OneSourcePerTitle
PROOF
<1>1. Inv => OneSourcePerTitle
  BY DEF Inv
<1> QED BY InitInv, NextInv, <1>1, PTL DEF Spec

\* A finished graph returns each title once, from an agent that succeeded, with
\* that agent's highest confidence (MergeNode after the reducers).
THEOREM ResultsAreJustified == Spec => []FinalPointsJustified
PROOF
<1>1. Inv => FinalPointsJustified
  BY DEF Inv, FinalPointsJustified, Justified
<1> QED BY InitInv, NextInv, <1>1, PTL DEF Spec

\* The expansion keeps every point and marks exactly those it expanded
\* (ExpansionNode's list going through the reducer as an update).
THEOREM ExpansionIsAnUpdate == Spec => ExpansionKeepsPoints
PROOF
<1> DEFINE Kept ==
      stage = "expand" /\ stage' = "done" =>
        /\ {Core(p) : p \in points'} = {Core(p) : p \in points}
        /\ \A p \in points' : p.expanded <=> p.title \notin failures'
<1>1. ASSUME Inv, [Next]_vars PROVE [Kept]_vars
  <2> SUFFICES ASSUME stage = "expand", stage' = "done", Next
               PROVE  Kept
    BY <1>1
  <2>1. Expand
    BY DEF Next, Step, Answer, Retry, GiveUp, Reduce, Barrier, Merge, Raise, Finished, vars
  <2> QED BY <1>1, <2>1, ExpandStep
<1> QED BY InitInv, NextInv, <1>1, PTL DEF Spec, ExpansionKeepsPoints

-----------------------------------------------------------------------------
\* While no two agents report one title, the reducers only add.
Disjoint ==
  \A a, b \in sent : a # b => TitlesOf(report[a]) \cap TitlesOf(report[b]) = {}

Asked == UNION {TitlesOf(report[a]) : a \in sent}

\* What is kept at each stage; agent_results follows the reducers.
Kept ==
  /\ stage \in {"reduce", "merge"} /\ Disjoint =>
       points = UNION {report[a] : a \in applied}
  /\ stage \in {"expand", "done"} /\ Disjoint => TitlesOf(points) = Asked
  /\ stage \in {"merge", "expand", "done"} => applied = sent
  /\ stage # "raised" =>
       \A a \in Agents : results[a] = IF a \in applied THEN agent[a] ELSE "none"
  /\ stage \in {"agents", "reduce"} => applied \in SUBSET sent

LEMMA TitlesOfUnion ==
  TitlesOf(UNION {report[a] : a \in sent}) = Asked
PROOF BY DEF TitlesOf, Asked

\* A list with new titles only is appended, whichever branch the reducer takes.
LEMMA AccumulateNew ==
  ASSUME NEW ps, NEW ns, TitlesOf(ps) \cap TitlesOf(ns) = {}
  PROVE  Accumulate(ps, ns) = ps \cup ns
PROOF
<1>1. {p \in ns : p.title \notin TitlesOf(ps)} = ns
  BY DEF TitlesOf
<1> QED BY <1>1 DEF Accumulate

LEMMA KeptReduce ==
  ASSUME Inv, Kept, NEW a \in Agents, Reduce(a) PROVE Kept'
PROOF
<1>1. /\ stage = "reduce" /\ a \in sent /\ a \notin applied /\ applied \subseteq sent
      /\ applied' = applied \cup {a} /\ points' = Accumulate(points, report[a])
      /\ results' = [results EXCEPT ![a] = agent[a]]
      /\ stage' = IF applied' = sent THEN "merge" ELSE "reduce"
      /\ UNCHANGED <<sent, agent, report>>
  BY DEF Reduce, agentVars, Kept
<1>2. ASSUME Disjoint PROVE points' = UNION {report[b] : b \in applied \cup {a}}
  <2>1. points = UNION {report[b] : b \in applied}
    BY <1>1, <1>2 DEF Kept
  <2>2. \A b \in applied : TitlesOf(report[b]) \cap TitlesOf(report[a]) = {}
    BY <1>1, <1>2 DEF Disjoint
  <2>3. TitlesOf(points) \cap TitlesOf(report[a]) = {}
    BY <2>1, <2>2 DEF TitlesOf
  <2> QED BY <1>1, <2>1, <2>3, AccumulateNew
<1>3. Disjoint' = Disjoint
  BY <1>1 DEF Disjoint
<1>4. \A b \in Agents : results'[b] = IF b \in applied' THEN agent'[b] ELSE "none"
  BY <1>1 DEF Kept, Inv, TypeOK
<1> QED BY <1>1, <1>2, <1>3, <1>4 DEF Kept

LEMMA KeptMerge ==
  ASSUME Inv, Kept, Merge PROVE Kept'
PROOF
<1>1. /\ stage = "merge" /\ stage' \in {"expand", "done"} /\ applied = sent
      /\ points \in SUBSET Point
      /\ UNCHANGED <<sent, applied, results, agent, report>>
  BY DEF Merge, agentVars, Kept, Inv, TypeOK
<1>2. Disjoint => TitlesOf(points) = Asked
  BY <1>1, TitlesOfUnion DEF Kept
<1>3. TitlesOf(points') = TitlesOf(points)
  <2>1. points' = Accumulate(points, Merged(points))
    BY DEF Merge
  <2>2. TitlesOf(Merged(points)) = TitlesOf(points)
    BY <1>1, MergedPoints
  <2>3. CASE Merged(points) = {}
    BY <2>1, <2>3, AccumulateEmpty
  <2>4. CASE Merged(points) # {}
    BY <2>1, <2>2, <2>4, AccumulateUpdates
  <2> QED BY <2>3, <2>4
<1>4. Disjoint' = Disjoint /\ Asked' = Asked
  BY <1>1 DEF Disjoint, Asked
<1> QED BY <1>1, <1>2, <1>3, <1>4 DEF Kept

LEMMA KeptExpand ==
  ASSUME Inv, Kept, Expand PROVE Kept'
PROOF
<1>1. /\ stage = "expand" /\ stage' = "done" /\ applied = sent
      /\ points \in SUBSET Point
      /\ UNCHANGED <<sent, applied, results, agent, report>>
  BY DEF Expand, agentVars, Kept, Inv, TypeOK
<1>2. TitlesOf(points') = TitlesOf(points)
  <2>1. PICK ok : points' = {[p EXCEPT !.expanded = p.title \in ok] : p \in points}
    BY ExpandResult
  <2>2. \A p \in points : [p EXCEPT !.expanded = p.title \in ok].title = p.title
    BY <1>1 DEF Point
  <2>3. QED BY <2>1, <2>2 DEF TitlesOf
<1>3. Disjoint' = Disjoint /\ Asked' = Asked
  BY <1>1 DEF Disjoint, Asked
<1> QED BY <1>1, <1>2, <1>3 DEF Kept

LEMMA KeptStep ==
  ASSUME Inv, Kept, [Next]_vars PROVE Kept'
PROOF
<1>1. ASSUME NEW a \in Agents, Answer(a) \/ Retry(a) \/ GiveUp(a) PROVE Kept'
  <2>1. stage = "agents" /\ applied = {} /\ UNCHANGED <<stage, sent, applied, results>>
    BY <1>1 DEF Inv, Answer, Retry, GiveUp
  <2> QED BY <2>1 DEF Kept
<1>2. ASSUME NEW a \in Agents, Reduce(a) PROVE Kept'
  BY <1>2, KeptReduce
<1>3. CASE Barrier
  <2>1. /\ stage = "agents" /\ stage' = "reduce" /\ applied = {} /\ points = {}
        /\ UNCHANGED <<sent, applied, points, results, agent, report>>
    BY <1>3 DEF Inv, Barrier, agentVars
  <2> QED BY <2>1 DEF Kept
<1>4. CASE Merge
  BY <1>4, KeptMerge
<1>5. CASE Expand
  BY <1>5, KeptExpand
<1>6. CASE Raise
  BY <1>6 DEF Raise, Kept
<1>7. CASE UNCHANGED vars
  BY <1>7 DEF vars, Kept, Disjoint, Asked
<1> QED BY <1>1, <1>2, <1>3, <1>4, <1>5, <1>6, <1>7 DEF Next, Step, Finished

\* Agents that report different titles lose nothing, in whatever order they end:
\* all titles the reducers, MergeNode and ExpansionNode were given come out, and
\* agent_results says of each agent how it ended.
THEOREM DisjointReportsSurvive == Spec => []DisjointReportsKept
PROOF
<1>1. Init => Kept
  BY DEF Init, Kept
<1>2. Inv /\ Kept /\ [Next]_vars => Kept'
  BY KeptStep
<1>3. Kept => DisjointReportsKept
  BY DEF Kept, DisjointReportsKept, Disjoint, Asked
<1> QED BY InitInv, NextInv, <1>1, <1>2, <1>3, PTL DEF Spec
===============================================================================
