------------------------------ MODULE Evaluation ------------------------------
(***************************************************************************)
(* The evaluation framework (codeinsight/evaluation): the scoring of what   *)
(* the agents extract against annotated cases, the engine that runs the     *)
(* cases one by one, the A/B runner that lends the engine its              *)
(* configurations, the bridge that spends a bounded number of analyses, the *)
(* file of snapshots and the command (scripts/evaluate.py) that appends to  *)
(* it and looks for regressions.                                            *)
(*                                                                         *)
(* Testers are coroutines on one engine and one bridge; every await of the  *)
(* agent is a point where another may run. Batches are calls of             *)
(* extract_batch on the same bridge. Jobs are evaluate.py processes: they   *)
(* have engines of their own, in mock mode, and share the file.             *)
(*                                                                         *)
(* An F1 is a fraction <<num, den>> in a report, ten-thousandths in a       *)
(* snapshot (the code rounds there to four digits).                         *)
(***************************************************************************)
EXTENDS Integers, Sequences, SequencesExt

CONSTANTS
  CaseOrder,     \* the test cases in the order the data sets list them
  Language,      \* case -> language of its data set
  Category,      \* case -> category of its data set
  Expected,      \* case -> the annotated points
  Answers,       \* case -> the answers an analysis of it may give
  Similar,       \* the pairs of titles with SequenceMatcher's ratio >= 0.8
  Testers,       \* coroutines that run evaluations on the shared engine
  Plan,          \* tester -> the two configurations of its A/B test, or <<>>
  FirstConfig,   \* the configuration the engine is made with
  Batches,       \* batch -> how many cases it holds
  Jobs,          \* job -> the configuration of an evaluate.py process
  MaxCases,      \* EvalAgentConfig.max_cases, 0 for no limit
  Permits,       \* asyncio.Semaphore(3) of extract_batch
  FallAllowed    \* --threshold-f1-drop, in ten-thousandths

ASSUME EvaluationAssumption ==
  /\ MaxCases \in Int /\ Permits \in Nat \ {0}
  /\ \A b \in DOMAIN Batches : Batches[b] \in Nat
  /\ \A u \in Testers : Plan[u] = <<>> \/ Plan[u] = <<Plan[u][1], Plan[u][2]>>

\* Cases, annotated points and answers are lists.
ASSUME CasesAssumption ==
  /\ CaseOrder \in Seq(ToSet(CaseOrder))
  /\ \A c \in ToSet(CaseOrder) : \A points \in Answers[c] \union {Expected[c]} :
       points \in Seq(ToSet(points))

VARIABLES
  config,        \* engine.config
  tester,        \* tester -> where its evaluation is
  bridge,        \* [processed, begun]: the counter and the analyses started
  batch,         \* batch -> [task, queue, free]
  history,       \* the lines of snapshots.jsonl
  job            \* job -> [pc, line, alarm]

evaluationVars == <<config, tester, bridge, batch, history, job>>

CategoryNames == <<"DP", "AD", "AL", "ET", "DK">>

(***************************************************************************)
(* Matching and scoring.                                                    *)
(***************************************************************************)
\* ExactTitleMatcher: two absent titles are equal too.
ExactTitle(point, want) == point.title = want.title

\* FuzzyTitleMatcher: the aliases are those of the annotated point.
FuzzyTitle(point, want) ==
  /\ point.title # "" /\ want.title # ""
  /\ \/ point.title = want.title
     \/ point.title \in want.aliases
     \/ <<point.title, want.title>> \in Similar

IsMatch(point, want) ==
  /\ point.category = want.category
  /\ ExactTitle(point, want) \/ FuzzyTitle(point, want)

Nothing == [tp |-> 0, matched |-> {}]

Least(S) == CHOOSE i \in S : \A j \in S : i <= j

\* The positions of the points of a category.
InCategory(points, name) == {i \in DOMAIN points : points[i].category = name}

\* What an extracted point does to the pairs found so far, given the annotated
\* points it may still take: it takes the first one.
Take(sofar, free) ==
  IF free = {} THEN sofar
  ELSE [tp |-> sofar.tp + 1, matched |-> sofar.matched \union {Least(free)}]

\* The annotated points of a category that match the n-th extracted point.
Matching(extracted, expected, name, n) ==
  {i \in InCategory(expected, name) :
     n \in InCategory(extracted, name) /\ IsMatch(extracted[n], expected[i])}

\* The matched set is filled and never asked.
PairAgain(extracted, expected, name) ==
  LET paired[n \in 0..Len(extracted)] ==
        IF n = 0 THEN Nothing
        ELSE Take(paired[n - 1], Matching(extracted, expected, name, n))
  IN paired

\* The pairs found in a category after the first n extracted points, each of
\* which takes the first annotated point that is free and matches.
Pair(extracted, expected, name) ==
  LET paired[n \in 0..Len(extracted)] ==
        IF n = 0 THEN Nothing
        ELSE Take(paired[n - 1],
                  Matching(extracted, expected, name, n) \ paired[n - 1].matched)
  IN paired

\* <<TP, FP, FN>> of the points of one category.
Confusion(extracted, expected, name) ==
  LET found == Pair(extracted, expected, name)[Len(extracted)]
  IN <<found.tp, Cardinality(InCategory(extracted, name)) - found.tp,
       Cardinality(InCategory(expected, name)) - Cardinality(found.matched)>>

\* The sums over the five categories: a point of no category is in no sum.
Evaluate(extracted, expected) ==
  LET part == [k \in 1..5 |-> Confusion(extracted, expected, CategoryNames[k])]
  IN [i \in 1..3 |-> part[1][i] + part[2][i] + part[3][i] + part[4][i] + part[5][i]]

\* 2PR / (P + R) with P = TP / (TP + FP) and R = TP / (TP + FN), each 0 over 0 being 0.
F1(counts) ==
  IF counts[1] = 0 THEN <<0, 1>>
  ELSE <<2 * counts[1], 2 * counts[1] + counts[2] + counts[3]>>

(***************************************************************************)
(* Reports and snapshots. A result is [case, answer, counts].               *)
(***************************************************************************)
SumOf(fractions) ==
  FoldLeft(LAMBDA x, y : <<x[1] * y[2] + y[1] * x[2], x[2] * y[2]>>, <<0, 1>>, fractions)
Over(x, n) == <<x[1], x[2] * n>>

F1s(results) == [i \in DOMAIN results |-> F1(results[i].counts)]

\* _merge_metric_results: the mean over the cases.
MeanF1(results) ==
  IF results = <<>> THEN <<0, 1>> ELSE Over(SumOf(F1s(results)), Len(results))

Extracted(results) == FoldLeft(LAMBDA n, r : n + Len(r.answer), 0, results)

\* The summary weighs a case by the points extracted for it.
OverallF1(results) ==
  IF Extracted(results) = 0 THEN MeanF1(results)
  ELSE Over(SumOf([i \in DOMAIN results |->
              <<F1(results[i].counts)[1] * Len(results[i].answer), F1(results[i].counts)[2]>>]),
            Extracted(results))

\* The means by language or by category.
MeansBy(key, results) ==
  [k \in {key[r.case] : r \in ToSet(results)} |->
     MeanF1(SelectSeq(results, LAMBDA r : key[r.case] = k))]

Report(results, settings) ==
  [version    |-> settings.version,
   overall    |-> OverallF1(results),
   byLanguage |-> MeansBy(Language, results),
   byCategory |-> MeansBy(Category, results)]

Rounded(x) == (20000 * x[1] + x[2]) \div (2 * x[2])
RoundedBy(means) == [k \in DOMAIN means |-> Rounded(means[k])]

Snapshot(report) ==
  [version    |-> report.version,
   overall    |-> Rounded(report.overall),
   byLanguage |-> RoundedBy(report.byLanguage),
   byCategory |-> RoundedBy(report.byCategory)]

\* The falls detect_regressions reports between the last two lines of the file.
FallsBetween(old, new) ==
  {old[k] - new[k] : k \in {k \in DOMAIN old \intersect DOMAIN new : old[k] - new[k] >= FallAllowed}}

Regressions(lines) ==
  IF Len(lines) < 2 THEN {}
  ELSE LET old == lines[Len(lines) - 1]
           new == lines[Len(lines)]
           fall == old.overall - new.overall
       IN {f \in {fall} : old.overall > 0 /\ f > 0 /\ f >= FallAllowed}
            \union FallsBetween(old.byLanguage, new.byLanguage)
            \union FallsBetween(old.byCategory, new.byCategory)

\* evaluate.py ends with 1 when a fall is critical: a tenth or more.
Critical(falls) == \E f \in falls : f >= 1000

\* The cases the filters of a configuration let through, as positions in
\* CaseOrder; no filter is {}.
Selected(settings, c) ==
  /\ settings.languages = {} \/ Language[c] \in settings.languages
  /\ settings.categories = {} \/ Category[c] \in settings.categories
LoadTestCases(settings) == {i \in DOMAIN CaseOrder : Selected(settings, CaseOrder[i])}

\* The first of the cases still to do, and those after it.
NextCase(todo) == CaseOrder[Least(todo)]
OtherCases(todo) == todo \ {Least(todo)}

Scored(c, answer) == [case |-> c, answer |-> answer, counts |-> Evaluate(answer, Expected[c])]

(***************************************************************************)
(* The bridge: extract counts the call, then asks whether it is one too     *)
(* many; the caller goes on to an analysis when it is not.                  *)
(***************************************************************************)
\* The limit is left to the check extract_batch makes before the semaphore.
ExtractUnchecked(b) == [processed |-> b.processed + 1, begun |-> b.begun + 1]

Extract(b) ==
  LET n == b.processed + 1
  IN [processed |-> n, begun |-> IF MaxCases > 0 /\ n > MaxCases THEN b.begun ELSE b.begun + 1]

Spent(b) == MaxCases > 0 /\ b.processed >= MaxCases

Runs(before, after) == after.begun > before.begun

(***************************************************************************)
(* Initial state.                                                          *)
(***************************************************************************)
NewBatch(n) == [task |-> [i \in 1..n |-> "new"], queue |-> <<>>, free |-> Permits]

EvaluationInit ==
  /\ config = FirstConfig
  /\ tester = [u \in Testers |->
       [pc |-> "idle", plan |-> Plan[u], found |-> FirstConfig, todo |-> {},
        results |-> <<>>, reports |-> <<>>, alone |-> TRUE]]
  /\ bridge = [processed |-> 0, begun |-> 0]
  /\ batch = [b \in DOMAIN Batches |-> NewBatch(Batches[b])]
  /\ history = <<>>
  /\ job = [j \in DOMAIN Jobs |-> [pc |-> "idle", line |-> 0, alarm |-> FALSE]]

(***************************************************************************)
(* EvalEngine.run and ABTestRunner.run.                                    *)
(***************************************************************************)
Active(u) == tester[u].pc \in {"case", "graph"}

\* The A/B runner keeps the engine's configuration and puts its first one
\* there; run reads the filters and loads the cases before its first await.
\* "alone" is ours: whether no other tester was on the engine meanwhile.
BeginTest(u) ==
  LET settings == IF Plan[u] = <<>> THEN config ELSE Plan[u][1]
      others == {v \in Testers \ {u} : Active(v)}
  IN /\ tester[u].pc = "idle"
     /\ config' = settings
     /\ tester' = [v \in Testers |->
          CASE v = u -> [tester[u] EXCEPT !.pc = "case", !.found = config,
                           !.todo = LoadTestCases(settings), !.alone = others = {}]
            [] v \in others -> [tester[v] EXCEPT !.alone = FALSE]
            [] OTHER -> tester[v]]
     /\ UNCHANGED <<bridge, batch, history, job>>

\* A call past the limit is answered with no points, and scored so.
CallAgent(u) ==
  LET t == tester[u]
  IN /\ t.pc = "case" /\ t.todo # {}
     /\ bridge' = Extract(bridge)
     /\ tester' = [tester EXCEPT ![u] =
          IF Runs(bridge, bridge') THEN [t EXCEPT !.pc = "graph"]
          ELSE [t EXCEPT !.todo = OtherCases(@),
                            !.results = Append(@, Scored(NextCase(t.todo), <<>>))]]
     /\ UNCHANGED <<config, batch, history, job>>

AgentAnswers(u) ==
  LET t == tester[u]
  IN /\ t.pc = "graph"
     /\ \E answer \in Answers[NextCase(t.todo)] :
          tester' = [tester EXCEPT ![u] =
            [t EXCEPT !.pc = "case", !.todo = OtherCases(@),
                      !.results = Append(@, Scored(NextCase(t.todo), answer))]]
     /\ UNCHANGED <<config, bridge, batch, history, job>>

\* Nothing catches the exception: not run, and not the A/B runner.
AgentFails(u) ==
  /\ tester[u].pc = "graph"
  /\ tester' = [tester EXCEPT ![u].pc = "failed"]
  /\ UNCHANGED <<config, bridge, batch, history, job>>

\* The second half begins before the report of the first is made.
FinishRunEarly(u) ==
  LET t == tester[u]
      settings == IF Len(t.plan) = 2 THEN t.plan[2] ELSE IF t.plan = <<>> THEN config ELSE t.found
      report == Report(t.results, settings)
      done == [t EXCEPT !.results = <<>>, !.reports = Append(@, report)]
  IN /\ t.pc = "case" /\ t.todo = {}
     /\ history' = Append(history, Snapshot(report))
     /\ config' = settings
     /\ tester' = [tester EXCEPT ![u] =
          IF Len(t.plan) = 2
          THEN [done EXCEPT !.plan = Tail(@), !.todo = LoadTestCases(settings)]
          ELSE [done EXCEPT !.pc = "done"]]
     /\ UNCHANGED <<bridge, batch, job>>

\* The report takes the engine's configuration as it is by now, and the
\* history reporter writes its version down. An A/B test then goes on with
\* its second configuration, or gives the engine its own back.
FinishRun(u) ==
  LET t == tester[u]
      report == Report(t.results, config)
      done == [t EXCEPT !.results = <<>>, !.reports = Append(@, report)]
  IN /\ t.pc = "case" /\ t.todo = {}
     /\ history' = Append(history, Snapshot(report))
     /\ IF Len(t.plan) = 2
        THEN /\ config' = t.plan[2]
             /\ tester' = [tester EXCEPT ![u] =
                  [done EXCEPT !.plan = Tail(@), !.todo = LoadTestCases(t.plan[2])]]
        ELSE /\ config' = IF t.plan = <<>> THEN config ELSE t.found
             /\ tester' = [tester EXCEPT ![u] = [done EXCEPT !.pc = "done"]]
     /\ UNCHANGED <<bridge, batch, job>>

(***************************************************************************)
(* AgentBridge.extract_batch.                                              *)
(***************************************************************************)
\* A task with a permit: extract runs, and gives the permit back at once when
\* the call is one too many.
Admit(s, i) ==
  LET after == Extract(s.bridge)
      runs == Runs(s.bridge, after)
  IN [bridge |-> after,
      batch  |-> [s.batch EXCEPT !.task[i] = IF runs THEN "graph" ELSE "skipped",
                                 !.free = IF runs THEN @ - 1 ELSE @]]

\* gather starts the tasks in order, each up to its first wait.
FirstStep(s, i) ==
  IF Spent(s.bridge) THEN [s EXCEPT !.batch.task[i] = "skipped"]
  ELSE IF s.batch.free = 0
       THEN [s EXCEPT !.batch.task[i] = "waiting", !.batch.queue = Append(@, i)]
       ELSE Admit(s, i)

Started(b) ==
  LET started[i \in 0..Batches[b]] ==
        IF i = 0 THEN [bridge |-> bridge, batch |-> batch[b]] ELSE FirstStep(started[i - 1], i)
  IN started

StartBatch(b) ==
  LET after == Started(b)[Batches[b]]
  IN /\ \A i \in 1..Batches[b] : batch[b].task[i] = "new"
     /\ bridge' = after.bridge
     /\ batch' = [batch EXCEPT ![b] = after.batch]
     /\ UNCHANGED <<config, tester, history, job>>

\* The semaphore wakes its first waiter; what that task read of the counter
\* before it waited is not read again.
Resume(b) ==
  /\ batch[b].queue # <<>> /\ batch[b].free > 0
  /\ LET after == Admit([bridge |-> bridge, batch |-> [batch[b] EXCEPT !.queue = Tail(@)]],
                        Head(batch[b].queue))
     IN /\ bridge' = after.bridge
        /\ batch' = [batch EXCEPT ![b] = after.batch]
  /\ UNCHANGED <<config, tester, history, job>>

\* An analysis ends with points or with an exception: both end the task.
GraphEnds(b, i) ==
  /\ batch[b].task[i] = "graph"
  /\ batch' = [batch EXCEPT ![b].task[i] = "done", ![b].free = @ + 1]
  /\ UNCHANGED <<config, tester, bridge, history, job>>

(***************************************************************************)
(* scripts/evaluate.py with --save-snapshot.                               *)
(***************************************************************************)
MockResults(settings) ==
  LET cases == SelectSeq(CaseOrder, LAMBDA c : Selected(settings, c))
  IN [i \in DOMAIN cases |-> Scored(cases[i], Expected[cases[i]])]

\* The run awaits nothing: the report is made and its line appended.
RunJob(j) ==
  /\ job[j].pc = "idle"
  /\ history' = Append(history, Snapshot(Report(MockResults(Jobs[j]), Jobs[j])))
  /\ job' = [job EXCEPT ![j].pc = "saved", ![j].line = Len(history')]
  /\ UNCHANGED <<config, tester, bridge, batch>>

\* The file is read again: another process may have appended meanwhile.
DetectJob(j) ==
  /\ job[j].pc = "saved"
  /\ job' = [job EXCEPT ![j].pc = "done", ![j].alarm = Critical(Regressions(history))]
  /\ UNCHANGED <<config, tester, bridge, batch, history>>

Ended ==
  /\ \A u \in Testers : tester[u].pc \in {"done", "failed"}
  /\ \A b \in DOMAIN Batches : \A i \in 1..Batches[b] : batch[b].task[i] \in {"done", "skipped"}
  /\ \A j \in DOMAIN Jobs : job[j].pc = "done"

EvaluationNext ==
  \/ \E u \in Testers : BeginTest(u)
  \/ \E u \in Testers : CallAgent(u)
  \/ \E u \in Testers : AgentAnswers(u)
  \/ \E u \in Testers : AgentFails(u)
  \/ \E u \in Testers : FinishRun(u)
  \/ \E b \in DOMAIN Batches : StartBatch(b)
  \/ \E b \in DOMAIN Batches : Resume(b)
  \/ \E b \in DOMAIN Batches : \E i \in 1..Batches[b] : GraphEnds(b, i)
  \/ \E j \in DOMAIN Jobs : RunJob(j)
  \/ \E j \in DOMAIN Jobs : DetectJob(j)
  \/ Ended /\ UNCHANGED evaluationVars

EvaluationSpec == EvaluationInit /\ [][EvaluationNext]_evaluationVars

(***************************************************************************)
(* Properties.                                                             *)
(***************************************************************************)
\* The matchings of an answer with the annotated points of a case, each a set
\* of pairs of positions that match, with no position twice.
Matchings(answer, expected) ==
  LET Pairs == {p \in (DOMAIN answer) \X (DOMAIN expected) :
                  answer[p[1]].category \in ToSet(CategoryNames)
                    /\ IsMatch(answer[p[1]], expected[p[2]])}
  IN {M \in SUBSET Pairs : \A p, q \in M : p # q => p[1] # q[1] /\ p[2] # q[2]}

BestTP ==
  [c \in ToSet(CaseOrder) |->
     [answer \in Answers[c] \union {<<>>, Expected[c]} |->
        LET sizes == {Cardinality(M) : M \in Matchings(answer, Expected[c])}
        IN CHOOSE n \in sizes : \A k \in sizes : k <= n]]

\* The scoring pairs greedily, in the order of the answer. It never claims
\* more than the best pairing, at least half as much, and it gives the
\* annotated answer itself every point it can have
\* (KnowledgePointEvaluator._calculate_confusion_matrix).
GreedyIsFair ==
  \A u \in Testers : \A r \in ToSet(tester[u].results) :
    LET best == BestTP[r.case][r.answer]
    IN /\ r.counts[1] <= best
       /\ best <= 2 * r.counts[1]
       /\ r.answer = Expected[r.case] => r.counts[1] = best /\ r.counts[2] = 0 /\ r.counts[3] = 0

\* Whoever calls the bridge, alone or in a batch, no more than max_cases
\* analyses start, no batch has more than its permits of them at a time, and
\* no case of a batch is skipped while the limit is not used up
\* (AgentBridge.extract, extract_batch).
LimitIsExact ==
  /\ MaxCases > 0 => bridge.begun <= MaxCases
  /\ \A b \in DOMAIN Batches :
       /\ Cardinality({i \in 1..Batches[b] : batch[b].task[i] = "graph"}) <= Permits
       /\ (\E i \in 1..Batches[b] : batch[b].task[i] = "skipped") => bridge.begun = MaxCases

\* A tester that had the engine for itself reports under the configurations
\* it asked for, in their order, and as long as none failed or shared it, the
\* idle engine has the configuration it was made with (ABTestRunner.run,
\* EvalEngine._build_report).
AloneMeansOwn ==
  /\ \A u \in Testers : tester[u].alone =>
       \A i \in DOMAIN tester[u].reports :
         tester[u].reports[i].version =
           IF Plan[u] = <<>> THEN tester[u].found.version ELSE Plan[u][i].version
  /\ (\A u \in Testers : tester[u].alone /\ tester[u].pc \in {"idle", "done"}) =>
       config = FirstConfig

(***************************************************************************)
(* Expectations of the repository's text that the code does not meet.       *)
(***************************************************************************)
\* agent_bridge.py:6: in mock mode F1 is always 1.0.
MockIsPerfect == \A j \in DOMAIN Jobs : job[j].pc = "saved" => history[job[j].line].overall = 10000

\* engine.py:595: the original configuration is restored after an A/B test.
ConfigComesBack == (\A u \in Testers : ~Active(u)) => config = FirstConfig

\* history.py:53: the file is thread-safe and supports regression detection:
\* a job's alarm is about the line it wrote.
AlarmIsOwn ==
  \A j \in DOMAIN Jobs : job[j].alarm => Critical(Regressions(SubSeq(history, 1, job[j].line)))

\* agent_bridge.py:79: the counter is the number of processed cases.
CounterIsProcessed == bridge.processed = bridge.begun

\* engine.py:330: large and small cases weigh fairly: the overall F1 is 1.0
\* only when each case's is.
EveryCaseWeighs ==
  \A u \in Testers : tester[u].pc = "case" /\ tester[u].todo = {} =>
    (Rounded(OverallF1(tester[u].results)) = 10000 =>
       \A f \in ToSet(F1s(tester[u].results)) : Rounded(f) = 10000)
==============================================================================
