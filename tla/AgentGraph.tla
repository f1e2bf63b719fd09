------------------------------ MODULE AgentGraph ------------------------------
(* The LangGraph workflow of the AI stage (agents/graph.py, node.py,           *)
(* state.py).  The analysis agents run concurrently, each with its own LLM     *)
(* retries.  When the last one has returned, the reducers of AnalysisState     *)
(* take the results in the order of the Send list, MergeNode removes duplicate *)
(* titles, and ExpansionNode adds content to what is left.  The whole graph    *)
(* runs under wait_for: a timeout, or an exception no node catches, ends it    *)
(* with nothing.                                                               *)
(*                                                                             *)
(* Lists of knowledge points are sets here: the order inside a list decides    *)
(* nothing but the display.  Agents are numbered as in ANALYSIS_NODES.         *)
EXTENDS Naturals, FiniteSets

CONSTANTS
  NAgents,       \* the length of ANALYSIS_NODES
  MaxRetries,    \* MAX_LLM_RETRIES
  Titles,        \* the titles the agents may report
  Confidences,   \* the confidences they may report, as natural numbers
  LowConfidence  \* ExpansionNode's threshold (0.7)

ASSUME NAgentsAssumption == NAgents \in Nat \ {0}
ASSUME MaxRetriesAssumption == MaxRetries \in Nat
ASSUME ConfidencesAssumption ==
  Confidences \subseteq Nat /\ IsFiniteSet(Confidences) /\ LowConfidence \in Nat

Agents == 1..NAgents

\* A knowledge point: by is the agent that found it, expanded tells whether
\* ExpansionNode generated content for it.
Point == [title : Titles, conf : Confidences, by : Agents, expanded : BOOLEAN]

\* What an agent may report: an empty answer and one that does not parse give
\* the empty list.
Report(a) == {p \in Point : p.by = a /\ ~p.expanded}

VARIABLES
  stage,       \* which node the graph is at
  sent,        \* the agents _route_to_agents sends the state to
  agent,       \* agent[a]: how far its call is
  attempts,    \* attempts[a]: failed LLM calls so far
  report,      \* report[a]: the points its node returned
  failedNodes, \* the categories recorded as failed in Redis
  applied,     \* the agents whose result went through the reducers
  points,      \* state["knowledge_points"]
  results,     \* state["agent_results"]: status by agent
  failures,    \* the titles ExpansionNode could not expand
  reported     \* state["expansion_failures"] as the caller of run reads it

vars == <<stage, sent, agent, attempts, report, failedNodes, applied, points,
          results, failures, reported>>
agentVars == <<agent, attempts, report, failedNodes>>
expansionVars == <<failures, reported>>

\* Type invariant: only an agent that was sent fails or is reduced, and no
\* agent tries more often than MaxRetries.
TypeOK ==
  /\ stage \in {"agents", "reduce", "merge", "expand", "done", "raised"}
  /\ sent \in SUBSET Agents
  /\ agent \in [Agents -> {"calling", "success", "failed"}]
  /\ attempts \in [Agents -> 0..MaxRetries]
  /\ report \in [Agents -> SUBSET Point]
  /\ failedNodes \in SUBSET sent
  /\ applied \in SUBSET sent
  /\ points \in SUBSET Point
  /\ results \in [Agents -> {"none", "success", "failed"}]
  /\ failures \in SUBSET Titles
  /\ reported \in SUBSET Titles

-----------------------------------------------------------------------------
TitlesOf(ps) == {p.title : p \in ps}

\* Mutants: the reducer compares title and category, replaces everything, or
\* knows no updates.
AccumulateByCategory(previous, new) ==
  LET fresh == {p \in new : ~ \E q \in previous : q.title = p.title /\ q.by = p.by}
  IN  IF new # {} /\ fresh = {} THEN new ELSE previous \cup fresh
AccumulateLast(previous, new) == IF new = {} THEN previous ELSE new
AccumulateNoUpdate(previous, new) ==
  previous \cup {p \in new : p.title \notin TitlesOf(previous)}

\* _accumulate_knowledge_points: the points of new with a title of previous
\* are left out, unless that leaves nothing; then new is taken for an update
\* and replaces previous.
Accumulate(previous, new) ==
  LET fresh == {p \in new : p.title \notin TitlesOf(previous)}
  IN  CASE new = {}                        -> previous
        [] new # {} /\ previous = {}       -> new
        [] previous # {} /\ new # {} /\ fresh = {}  -> new
        [] previous # {} /\ fresh # {}     -> previous \cup fresh

\* Mutant: the comparison the wrong way round.
Worst(ps, t) ==
  CHOOSE p \in ps : p.title = t /\ \A q \in ps : q.title = t => q.conf >= p.conf

\* MergeNode: of the points with one title, one with the highest confidence.
Best(ps, t) ==
  CHOOSE p \in ps : p.title = t /\ \A q \in ps : q.title = t => q.conf <= p.conf

Merged(ps) == {Best(ps, t) : t \in TitlesOf(ps)}

\* ExpansionNode: the points whose title is in ok get the content generated.
Expanded(ps, ok) ==
  {[p EXCEPT !.expanded = p.title \in ok] : p \in ps}

\* The points ExpansionNode generates content for: its confidence filter
\* appends to the list in both branches.
Expandable(ps) == ps

-----------------------------------------------------------------------------
\* _route_to_agents sends the state to every agent, or to the one whose
\* category was asked for.
Init ==
  /\ stage = "agents"
  /\ sent \in {Agents} \cup {{a} : a \in Agents}
  /\ agent = [a \in Agents |-> "calling"]
  /\ attempts = [a \in Agents |-> 0]
  /\ report = [a \in Agents |-> {}]
  /\ failedNodes = {}
  /\ applied = {}
  /\ points = {}
  /\ results = [a \in Agents |-> "none"]
  /\ failures = {}
  /\ reported = {}

\* An LLM call of agent a answers, and the answer is parsed.
Answer(a) ==
  /\ stage = "agents"
  /\ a \in sent /\ agent[a] = "calling"
  /\ \E ps \in SUBSET Report(a) : report' = [report EXCEPT ![a] = ps]
  /\ agent' = [agent EXCEPT ![a] = "success"]
  /\ UNCHANGED <<stage, sent, attempts, failedNodes, applied, points, results>>
  /\ UNCHANGED expansionVars

\* An LLM call of agent a fails and is repeated after a pause.
Retry(a) ==
  /\ stage = "agents"
  /\ a \in sent /\ agent[a] = "calling"
  /\ attempts[a] < MaxRetries
  /\ attempts' = [attempts EXCEPT ![a] = @ + 1]
  /\ UNCHANGED <<stage, sent, agent, report, failedNodes, applied, points, results>>
  /\ UNCHANGED expansionVars

\* The last call allowed fails: the node records its category in Redis, if
\* Redis answers, and returns an error instead of points.
GiveUp(a) ==
  /\ stage = "agents"
  /\ a \in sent /\ agent[a] = "calling"
  /\ attempts[a] = MaxRetries
  /\ agent' = [agent EXCEPT ![a] = "failed"]
  /\ failedNodes' \in {failedNodes, failedNodes \cup {a}}
  /\ UNCHANGED <<stage, sent, attempts, report, applied, points, results>>
  /\ UNCHANGED expansionVars

\* Mutant: the graph waits for a success of every agent.
BarrierNeedsSuccess ==
  /\ stage = "agents"
  /\ \A a \in sent : agent[a] = "success"
  /\ stage' = "reduce"
  /\ UNCHANGED <<sent, applied, points, results>>
  /\ UNCHANGED agentVars
  /\ UNCHANGED expansionVars

\* The superstep ends when every agent has returned.
Barrier ==
  /\ stage = "agents"
  /\ \A a \in sent : agent[a] # "calling"
  /\ stage' = "reduce"
  /\ UNCHANGED <<sent, applied, points, results>>
  /\ UNCHANGED agentVars
  /\ UNCHANGED expansionVars

\* The reducers take the result of the next agent in the order of the Send
\* list.
Reduce(a) ==
  /\ stage = "reduce"
  /\ a \in sent \ applied
  /\ \A b \in sent \ applied : a <= b
  /\ applied' = applied \cup {a}
  /\ points' = Accumulate(points, report[a])
  /\ results' = [results EXCEPT ![a] = agent[a]]
  /\ stage' = IF applied' = sent THEN "merge" ELSE "reduce"
  /\ UNCHANGED sent
  /\ UNCHANGED agentVars
  /\ UNCHANGED expansionVars

\* MergeNode writes its list back through the reducer; _route_to_expansion
\* ends the graph when no point is left.
Merge ==
  /\ stage = "merge"
  /\ points' = Accumulate(points, Merged(points))
  /\ stage' = IF points' = {} THEN "done" ELSE "expand"
  /\ UNCHANGED <<sent, applied, results>>
  /\ UNCHANGED agentVars
  /\ UNCHANGED expansionVars

\* ExpansionNode: each point gets its content or is kept as it was; the list
\* goes back through the reducer.  The key expansion_failures is no channel of
\* AnalysisState, and the graph drops it.
Expand ==
  /\ stage = "expand"
  /\ \E ok \in SUBSET TitlesOf(Expandable(points)) :
       /\ points' = Accumulate(points, Expanded(points, ok))
       /\ failures' = TitlesOf(points) \ ok
  /\ stage' = "done"
  /\ UNCHANGED <<sent, applied, results, reported>>
  /\ UNCHANGED agentVars

\* The 600 s are over, or a node raised something else than an LLMError: run
\* raises and the state of the graph is lost.  What the nodes wrote to Redis
\* stays.
Raise ==
  /\ stage \notin {"done", "raised"}
  /\ stage' = "raised"
  /\ points' = {}
  /\ results' = [a \in Agents |-> "none"]
  /\ UNCHANGED <<sent, applied>>
  /\ UNCHANGED agentVars
  /\ UNCHANGED expansionVars

Finished == stage \in {"done", "raised"} /\ UNCHANGED vars

Step ==
  \/ \E a \in Agents : Answer(a) \/ Retry(a) \/ GiveUp(a) \/ Reduce(a)
  \/ Barrier
  \/ Merge
  \/ Expand

Next == Step \/ Raise \/ Finished

Spec == Init /\ [][Next]_vars

\* The event loop keeps running, and every LLM call returns or times out on
\* its own.  No fairness is assumed of the timeout of the whole graph.
FairSpec == Spec /\ WF_vars(Step)

-----------------------------------------------------------------------------
(* Properties                                                                *)

Core(p) == [title |-> p.title, conf |-> p.conf, by |-> p.by]

\* Two points with one title always come from one agent, in every state
\* between the first reducer call and the end: whatever the reducer drops or
\* replaces, it never leaves the same finding of two agents side by side.
OneSourcePerTitle ==
  \A p, q \in points : p.title = q.title => p.by = q.by

\* What a finished graph returns: each title once, reported by an agent that
\* succeeded, with the highest confidence that agent gave it.
FinalPointsJustified ==
  stage = "done" =>
    \A p \in points :
      /\ \A q \in points : q.title = p.title => q = p
      /\ agent[p.by] = "success"
      /\ \E r \in report[p.by] : Core(r) = Core(p)
      /\ \A r \in report[p.by] : r.title = p.title => r.conf <= p.conf

\* As long as no two agents report one title, nothing is lost: the titles
\* returned are those the successful agents reported, and agent_results tells
\* of every agent that was asked how it ended.
DisjointReportsKept ==
  (/\ stage = "done"
   /\ \A a, b \in sent : a # b => TitlesOf(report[a]) \cap TitlesOf(report[b]) = {})
  => /\ TitlesOf(points) = UNION {TitlesOf(report[a]) : a \in sent}
     /\ \A a \in Agents : results[a] = IF a \in sent THEN agent[a] ELSE "none"

\* The step that expands loses no point and changes nothing in it but the
\* content: the list comes back through the same reducer as the agents' and
\* must be taken for the update it is.
ExpansionKeepsPoints ==
  [][stage = "expand" /\ stage' = "done" =>
       /\ {Core(p) : p \in points'} = {Core(p) : p \in points}
       /\ \A p \in points' : p.expanded <=> p.title \notin failures']_vars

\* A graph that was started ends, whatever calls fail, and without the help
\* of the timeout.
Terminates == <>(stage \in {"done", "raised"})

-----------------------------------------------------------------------------
(* Statements of the docs and comments                                       *)

\* agents/state.py:24: points accumulate over the agents and are never
\* overwritten.  Every title a successful agent reported is in the result.
NothingLost ==
  stage = "done" => \A a \in sent : TitlesOf(report[a]) \subseteq TitlesOf(points)

\* agents/node.py:1270: of the points with one title, the one with the higher
\* confidence is kept.
HighestConfidenceKept ==
  stage = "done" =>
    \A p \in points, a \in sent :
      \A r \in report[a] : r.title = p.title => r.conf <= p.conf

\* agents/node.py:1326: no content is generated for a point of low confidence.
LowConfidenceSkipped ==
  \A p \in points : p.conf < LowConfidence => ~p.expanded

\* tasks/analysis_orchestrator.py:2109: the failed expansions reach the
\* caller, who puts them into agent_results.
ExpansionFailuresReported == stage = "done" => reported = failures
===============================================================================
