-------------------------- MODULE AnalysisRunProofs --------------------------
(***************************************************************************)
(* Proofs about AnalysisRun for every number of files, runs and tags: the  *)
(* type invariant, the shape of what is committed while a version is in    *)
(* progress, and the refinement of VersionLedger.                          *)
(***************************************************************************)
EXTENDS AnalysisRun, TLAPS

(* The inductive strengthening. *)

\* Rows of runs that have not started are untouched.
FreshRows ==
  \A v \in RunIds : v > runs => db.status[v] = "absent" /\ db.stages[v] = {}

\* Outside its session a run has no writes of its own.
NoSession == pc \notin SessionSteps => tx = db

\* The session has created no version yet, and none is in progress.
AtSetup ==
  pc = "setup" => /\ runs \in RunIds /\ tx = db /\ run.vid = 0
                  /\ db.status[runs] = "absent" /\ db.stages[runs] = {}
                  /\ InProgressVersions(db) = {}

\* Inside the session the run owns the only version that may be in progress,
\* and it has written no other version's status.
SameElsewhere(s, t) ==
  \A v \in RunIds : v # run.vid =>
    s.status[v] = t.status[v] /\ s.stages[v] = t.stages[v] /\ s.tag[v] = t.tag[v]
Owned == SessionSteps \ {"setup"}
OwnsVersion ==
  pc \in Owned => /\ run.vid \in RunIds
                  /\ InProgressVersions(db) \subseteq {run.vid}
                  /\ db.status[run.vid] \in {"absent", "analyzing_structures"}
                  /\ SameElsewhere(tx, db)
                  /\ run.vid <= runs

\* The current version is the run's own, or a completed one.
NamesVisible(s) ==
  \E w \in RunIds : s.tag[w] = s.current /\ (w = run.vid \/ s.status[w] = "completed")

\* What the session holds when it reaches a step that commits.
BeforeStructures == {"scan", "diff", "parse", "structures"}
AfterScan == {"diff", "parse", "structures", "mark", "frameworks", "ai", "store"}
ReadyToCommit ==
  /\ pc \in BeforeStructures =>
       /\ tx.repo = IF db.status[run.vid] = "absent" THEN "analyzing" ELSE db.repo
       /\ tx.stages[run.vid] \in {{}, {"ast"}}
  /\ pc \in AfterScan \cup {"commit"} => NamesVisible(tx)
  /\ pc = "complete" /\ tx.status[run.vid] # "absent" => NamesVisible(tx)
  /\ pc \in AfterScan => run.tag \in Tag /\ tx.gen \in RunIds
  /\ pc = "structures" => tx.stages[run.vid] = {"ast"}
  /\ pc = "commit" => tx.status[run.vid] = "completed" /\ tx.repo = "completed"

\* fail() and cancel() meet a version that is absent, checkpointed or
\* completed; cancel()'s second transaction finds no version in progress.
Handling ==
  /\ pc \in {"closing", "fail", "cancel"} =>
       /\ InProgressVersions(db) \subseteq {run.vid}
       /\ run.vid # 0 => db.status[run.vid] \in {"absent", "analyzing_structures", "completed"}
       /\ run.vid <= runs
  /\ pc = "cancelRepo" => InProgressVersions(db) = {}

IInv == /\ TypeOK /\ CommittedShape /\ FreshRows /\ NoSession /\ AtSetup
        /\ OwnsVersion /\ ReadyToCommit /\ Handling

USE DEF RunIds, Tag, NoTag, SessionSteps, Steps, Owned, BeforeStructures, AfterScan, SameElsewhere

\* The one version in progress is the newest one in progress.
LEMMA NewestOfOne ==
  ASSUME NEW S, S \subseteq RunIds, S # {}, \A v, w \in S : v = w
  PROVE  Max(S) \in S
<1>1. PICK v \in S : TRUE
  OBVIOUS
<1>2. \A y \in S : v >= y
  BY ConstantsAssumption
<1>3. QED
  BY <1>1, <1>2 DEF Max

----------------------------------------------------------------------------
(* Type correctness of the helpers. *)

LEMMA SaveSnapshotType ==
  ASSUME NEW s \in Database, NEW t \in Tag, s.gen \in RunIds
  PROVE  /\ SaveSnapshot(s, t) \in Database
         /\ SaveSnapshot(s, t).status = s.status /\ SaveSnapshot(s, t).tag = s.tag
         /\ SaveSnapshot(s, t).stages = s.stages /\ SaveSnapshot(s, t).repo = s.repo
         /\ SaveSnapshot(s, t).current = s.current /\ SaveSnapshot(s, t).gen = s.gen
<1>1. SaveSnapshot(s, t) \in Database
  BY DEF SaveSnapshot, Database
<1>2. QED
  BY DEF SaveSnapshot, Database

----------------------------------------------------------------------------
(* Type correctness and the shape of what is committed. *)

LEMMA InitIInv == Init => IInv
<1> SUFFICES ASSUME Init PROVE IInv
  OBVIOUS
<1>1. InProgressVersions(db) = {}
  BY DEF Init, NewRepository, InProgressVersions, WithStatus, InProgressStatus
<1>2. TypeOK
  <2>1. NewRepository \in Database
    BY ConstantsAssumption DEF NewRepository, Database, VersionStatus, Tree, Empty
  <2>2. NoRun \in RunFields
    BY DEF NoRun, RunFields, Mode
  <2>3. unacked \in BOOLEAN
    BY Zenon DEF Init
  <2>4. edits \in 0..MaxEdits /\ runs \in 0..MaxRuns /\ pc \in Steps
    BY ConstantsAssumption DEF Init
  <2>5. QED
    BY <2>1, <2>2, <2>3, <2>4, Zenon DEF Init, TypeOK
<1>3. CommittedShape
  BY <1>1 DEF CommittedShape
<1>4. FreshRows /\ NoSession /\ AtSetup /\ OwnsVersion /\ ReadyToCommit /\ Handling
  BY <1>2 DEF Init, NewRepository, FreshRows, NoSession, AtSetup, OwnsVersion,
              ReadyToCommit, Handling
<1>5. QED
  BY <1>2, <1>3, <1>4 DEF IInv

\* A worker starts: by the shape of what is committed the version to resume
\* is unique.
LEMMA BeginPreserves ==
  ASSUME IInv, NEW m \in Mode, BeginRun(m), UNCHANGED <<disk, edits, db>>,
         unacked' \in BOOLEAN, reply' \in {"none", "accepted", "not_modified"}
  PROVE  IInv'
<1> DEFINE open == InProgressVersions(db)
<1> USE DEF IInv
<1>1. open \subseteq RunIds /\ \A v, w \in open : v = w
  BY DEF InProgressVersions, WithStatus, CommittedShape
<1>2. open # {} => /\ Max(open) \in open /\ open = {Max(open)}
                   /\ Max(open) \in RunIds /\ Max(open) <= runs
  BY <1>1, NewestOfOne, ConstantsAssumption
     DEF FreshRows, TypeOK, InProgressVersions, WithStatus, InProgressStatus
<1>3. TypeOK'
  <2>1. runs' \in 0..MaxRuns /\ pc' \in Steps /\ tx' = db
    BY ConstantsAssumption DEF TypeOK, BeginRun
  <2>2. run' \in RunFields
    <3>1. NoRun \in RunFields /\ NoRun.vid = 0
      BY DEF NoRun, RunFields, Mode
    <3>2. open # {} => db.tag[Max(open)] \in Tag \cup {NoTag}
      BY <1>2 DEF TypeOK, Database
    <3>3. QED
      BY <1>2, <3>1, <3>2 DEF BeginRun, RunFields
  <2>3. QED
    BY <2>1, <2>2 DEF TypeOK
<1>4. CommittedShape'
  BY DEF CommittedShape, InProgressVersions, WithStatus
<1>5. FreshRows' /\ NoSession'
  BY DEF FreshRows, NoSession, BeginRun, TypeOK
<1>6. AtSetup'
  BY ConstantsAssumption
     DEF AtSetup, BeginRun, NoRun, FreshRows, TypeOK, InProgressVersions, WithStatus
<1>7. OwnsVersion' /\ ReadyToCommit' /\ Handling'
  <2>1. CASE open = {}
    BY <2>1 DEF OwnsVersion, ReadyToCommit, Handling, BeginRun
  <2>2. CASE open # {}
    <3>1. db.status[Max(open)] = "analyzing_structures"
            /\ db.stages[Max(open)] = {"ast"}
      BY <1>2, <2>2 DEF CommittedShape
    <3>2. run'.vid = Max(open) /\ pc' = "scan" /\ tx' = db
      BY <2>2 DEF BeginRun, NoRun
    <3>3. QED
      BY <1>2, <2>2, <3>1, <3>2
         DEF OwnsVersion, ReadyToCommit, Handling, BeginRun, InProgressVersions, WithStatus, TypeOK
  <2>3. QED
    BY <2>1, <2>2
<1>8. QED
  BY <1>3, <1>4, <1>5, <1>6, <1>7

\* What every step between the setup and the commit has in common: it writes
\* the session, and there the status of its own version only.
LEMMA SessionStep ==
  ASSUME IInv, pc \in Owned, pc' \in Owned, tx' \in Database, run' \in RunFields,
         run'.vid = run.vid, UNCHANGED <<disk, edits, db, runs, unacked, reply>>,
         SameElsewhere(tx', tx),
         ReadyToCommit'
  PROVE  IInv'
<1> USE DEF IInv
<1>1. TypeOK'
  BY DEF TypeOK
<1>2. CommittedShape' /\ FreshRows'
  BY DEF CommittedShape, FreshRows, InProgressVersions, WithStatus
<1>3. NoSession' /\ AtSetup' /\ Handling'
  BY DEF NoSession, AtSetup, Handling
<1>4. OwnsVersion'
  BY DEF OwnsVersion, InProgressVersions, WithStatus
<1>5. QED
  BY <1>1, <1>2, <1>3, <1>4

\* A step that leaves the tags and the other versions' rows alone does not
\* change what the current version names.
LEMMA NamesStay ==
  ASSUME NamesVisible(tx), tx'.tag = tx.tag, tx'.current = tx.current, SameElsewhere(tx', tx),
         run'.vid = run.vid
  PROVE  NamesVisible(tx)'
<1>1. PICK w \in RunIds : tx.tag[w] = tx.current /\ (w = run.vid \/ tx.status[w] = "completed")
  BY DEF NamesVisible
<1>2. tx'.tag[w] = tx'.current /\ (w = run'.vid \/ tx'.status[w] = "completed")
  BY <1>1
<1>3. QED
  BY <1>2 DEF NamesVisible

LEMMA SetupPreserves == ASSUME IInv, DoAnalysisSetup PROVE IInv'
<1> USE DEF IInv
<1>1. /\ pc = "setup" /\ pc' = "scan" /\ runs \in RunIds /\ tx = db
      /\ run' = [run EXCEPT !.vid = runs]
      /\ tx' = [tx EXCEPT !.status[runs] = "pending", !.repo = "analyzing"]
      /\ UNCHANGED <<disk, edits, db, runs, unacked, reply>>
  BY DEF DoAnalysisSetup, InSession, AtSetup
<1>2. /\ tx' \in Database /\ run' \in RunFields /\ run'.vid = runs
      /\ tx'.repo = "analyzing" /\ tx'.stages = db.stages
      /\ tx'.tag = db.tag
      /\ \A v \in RunIds : v # runs => tx'.status[v] = db.status[v] /\ tx'.stages[v] = db.stages[v]
  <2>1. "pending" \in VersionStatus
    BY DEF VersionStatus, InProgressStatus
  <2>2. tx \in Database /\ run \in RunFields
    BY DEF TypeOK
  <2>3. QED
    BY <1>1, <2>1, <2>2 DEF Database, RunFields
<1>3. TypeOK'
  BY <1>1, <1>2 DEF TypeOK
<1>4. CommittedShape' /\ FreshRows'
  BY <1>1 DEF CommittedShape, FreshRows, InProgressVersions, WithStatus
<1>5. NoSession' /\ AtSetup' /\ Handling'
  BY <1>1 DEF NoSession, AtSetup, Handling
<1>6. OwnsVersion'
  BY <1>1, <1>2 DEF OwnsVersion, AtSetup, InProgressVersions, WithStatus, TypeOK
<1>7. ReadyToCommit'
  BY <1>1, <1>2 DEF ReadyToCommit, AtSetup
<1>8. QED
  BY <1>3, <1>4, <1>5, <1>6, <1>7

LEMMA ScanPreserves == ASSUME IInv, NEW t \in Tag, ScanFiles(t) PROVE IInv'
<1> DEFINE scanned == [tx EXCEPT !.status[run.vid] = "scanning", !.tag[run.vid] = t,
                                 !.current = t, !.files = disk, !.gen = runs,
                                 !.ast = {}, !.edges = {}, !.deps = {}]
<1> USE DEF IInv
<1>1. /\ pc = "scan" /\ pc' = "diff" /\ tx' = SaveSnapshot(scanned, t)
      /\ run' = [run EXCEPT !.tag = t]
      /\ UNCHANGED <<disk, edits, db, runs, unacked, reply>>
  BY DEF ScanFiles, InSession
<1>2. run.vid \in RunIds /\ runs \in RunIds /\ tx \in Database /\ run \in RunFields /\ disk \in Tree
  BY <1>1, ConstantsAssumption DEF OwnsVersion, TypeOK
<1>3. /\ scanned \in Database /\ scanned.gen \in RunIds
      /\ scanned.repo = tx.repo /\ scanned.stages = tx.stages
      /\ scanned.tag[run.vid] = t /\ scanned.current = t
      /\ SameElsewhere(scanned, tx)
  <2>1. "scanning" \in VersionStatus
    BY DEF VersionStatus, InProgressStatus
  <2>2. QED
    BY <1>2, <2>1 DEF Database
<1>4. /\ tx' \in Database /\ tx'.repo = tx.repo /\ tx'.stages = tx.stages /\ tx'.gen \in RunIds
      /\ tx'.tag[run.vid] = tx'.current
      /\ SameElsewhere(tx', tx)
  <2> HIDE DEF scanned
  <2>1. QED
    BY <1>1, <1>3, SaveSnapshotType
<1>5. run' \in RunFields /\ run'.vid = run.vid /\ run'.tag \in Tag
  BY <1>1, <1>2 DEF RunFields
<1>6. ReadyToCommit'
  BY <1>1, <1>2, <1>3, <1>4, <1>5 DEF ReadyToCommit, RunFields, NamesVisible
<1>7. QED
  BY <1>1, <1>4, <1>5, <1>6, SessionStep

LEMMA DiffPreserves ==
  ASSUME IInv, DiffFails \/ \E p \in SUBSET Present(tx.files) : ComputeIncrementalDiff(p)
  PROVE  IInv'
<1> USE DEF IInv
<1>1. /\ pc = "diff" /\ pc' = "parse" /\ tx' = tx
      /\ UNCHANGED <<disk, edits, db, runs, unacked, reply>>
  BY DEF DiffFails, ComputeIncrementalDiff, InSession
<1>2. run' \in RunFields /\ run'.vid = run.vid /\ run'.tag = run.tag
  <2>1. run \in RunFields
    BY DEF TypeOK
  <2>2. CASE DiffFails
    BY <2>1, <2>2 DEF DiffFails, RunFields
  <2>3. ASSUME NEW p \in SUBSET Present(tx.files), ComputeIncrementalDiff(p)
        PROVE  run' \in RunFields /\ run'.vid = run.vid /\ run'.tag = run.tag
    <3>1. PICK b \in BOOLEAN, q \in SUBSET File :
             run' = [run EXCEPT !.full = b, !.toParse = q]
      BY <2>3 DEF ComputeIncrementalDiff, Present
    <3>2. QED
      BY <2>1, <3>1 DEF RunFields
  <2>4. QED
    BY <2>2, <2>3
<1>3. ReadyToCommit'
  BY <1>1, <1>2, NamesStay DEF ReadyToCommit
<1>4. QED
  BY <1>1, <1>2, <1>3, SessionStep DEF TypeOK

\* The milestones save a snapshot and mark a stage of the run's own version.
LEMMA MilestoneStep ==
  ASSUME IInv, pc \in AfterScan, pc' \in Owned, NEW s \in Database,
         s.gen = tx.gen, s.tag = tx.tag, s.current = tx.current, s.repo = tx.repo,
         SameElsewhere(s, tx),
         tx' = SaveSnapshot(s, run.tag),
         pc' = "structures" => /\ s.stages[run.vid] = {"ast"} /\ pc = "parse",
         pc' \notin {"diff", "parse", "commit", "scan"},
         UNCHANGED <<disk, edits, db, run, runs, unacked, reply>>
  PROVE  IInv'
<1> USE DEF IInv
<1>1. run.tag \in Tag /\ s.gen \in RunIds
  BY DEF ReadyToCommit
<1>2. /\ tx' \in Database /\ tx'.gen = s.gen /\ tx'.tag = s.tag /\ tx'.status = s.status
      /\ tx'.current = s.current /\ tx'.repo = s.repo /\ tx'.stages = s.stages
  BY <1>1, SaveSnapshotType
<1>3. NamesVisible(tx)'
  BY <1>2, NamesStay DEF ReadyToCommit
<1>4. ReadyToCommit'
  BY <1>1, <1>2, <1>3 DEF ReadyToCommit
<1>5. QED
  BY <1>2, <1>4, SessionStep DEF TypeOK

LEMMA ParsePreserves == ASSUME IInv, ParseAst PROVE IInv'
<1> DEFINE todo == IF run.full THEN File ELSE run.toParse
           parsed == {f \in todo \cap Parsable : tx.files[f] # Missing /\ disk[f] # Missing}
           written == [tx EXCEPT !.ast = (@ \ todo) \cup parsed]
           marked == MarkStage(written, run.vid, "ast", "parsing")
<1> USE DEF IInv
<1>1. /\ pc = "parse" /\ pc' = "structures" /\ tx' = SaveSnapshot(marked, run.tag)
      /\ UNCHANGED <<disk, edits, db, run, runs, unacked, reply>>
  BY DEF ParseAst, InSession
<1>2. run.vid \in RunIds /\ tx \in Database /\ run \in RunFields
  BY <1>1 DEF OwnsVersion, TypeOK
<1>3. /\ written \in Database /\ written.status = tx.status /\ written.tag = tx.tag
      /\ written.stages = tx.stages /\ written.repo = tx.repo
      /\ written.current = tx.current /\ written.gen = tx.gen
  <2>1. (tx.ast \ todo) \cup parsed \in SUBSET File
    BY <1>2, ConstantsAssumption DEF Database, RunFields
  <2> HIDE DEF todo, parsed
  <2>2. QED
    BY <1>2, <2>1 DEF Database
<1>4. "ast" \in Stage /\ "parsing" \in VersionStatus
  BY DEF Stage, VersionStatus, InProgressStatus
<1>5. tx.stages[run.vid] \in {{}, {"ast"}}
  BY <1>1 DEF ReadyToCommit
<1> HIDE DEF written
<1>6. /\ marked \in Database /\ SameElsewhere(marked, tx)
      /\ marked.stages[run.vid] = {"ast"}
      /\ marked.tag = tx.tag /\ marked.repo = tx.repo /\ marked.current = tx.current /\ marked.gen = tx.gen
  BY <1>2, <1>3, <1>4, <1>5 DEF MarkStage, Database
<1> HIDE DEF marked
<1>7. QED
  BY <1>1, <1>2, <1>6, MilestoneStep DEF Database

LEMMA MarkPreserves == ASSUME IInv, MarkStructures PROVE IInv'
<1> DEFINE marked == MarkStage(tx, run.vid, "structures", "analyzing_structures")
<1> USE DEF IInv
<1>1. /\ pc = "mark" /\ pc' \in {"ai", "frameworks"} /\ tx' = SaveSnapshot(marked, run.tag)
      /\ UNCHANGED <<disk, edits, db, run, runs, unacked, reply>>
  BY DEF MarkStructures, InSession
<1>2. run.vid \in RunIds /\ tx \in Database
  BY <1>1 DEF OwnsVersion, TypeOK
<1>3. "structures" \in Stage /\ "analyzing_structures" \in VersionStatus
  BY DEF Stage, VersionStatus, InProgressStatus
<1>4. /\ marked \in Database
      /\ SameElsewhere(marked, tx)
      /\ marked.tag = tx.tag /\ marked.repo = tx.repo /\ marked.current = tx.current /\ marked.gen = tx.gen
  BY <1>2, <1>3 DEF MarkStage, Database
<1> HIDE DEF marked
<1>5. QED
  BY <1>1, <1>2, <1>4, MilestoneStep DEF Database

LEMMA FrameworksPreserves == ASSUME IInv, DetectFrameworks PROVE IInv'
<1> DEFINE detected == [tx EXCEPT !.routes = tx.gen]
           marked == MarkStage(detected, run.vid, "frameworks", "analyzing_structures")
<1> USE DEF IInv
<1>1. /\ pc = "frameworks" /\ pc' = "ai" /\ tx' = SaveSnapshot(marked, run.tag)
      /\ UNCHANGED <<disk, edits, db, run, runs, unacked, reply>>
  BY DEF DetectFrameworks, InSession
<1>2. run.vid \in RunIds /\ tx \in Database
  BY <1>1 DEF OwnsVersion, TypeOK
<1>3. "frameworks" \in Stage /\ "analyzing_structures" \in VersionStatus
  BY DEF Stage, VersionStatus, InProgressStatus
<1>4. /\ detected \in Database /\ detected.status = tx.status /\ detected.tag = tx.tag
      /\ detected.repo = tx.repo /\ detected.current = tx.current /\ detected.gen = tx.gen
      /\ detected.stages = tx.stages
  BY <1>2 DEF Database
<1> HIDE DEF detected
<1>5. /\ marked \in Database /\ SameElsewhere(marked, tx)
      /\ marked.tag = tx.tag /\ marked.repo = tx.repo /\ marked.current = tx.current /\ marked.gen = tx.gen
  <2>1. marked \in Database
    BY <1>2, <1>3, <1>4 DEF MarkStage, Database
  <2>2. SameElsewhere(marked, detected)
    BY <1>2, <1>4 DEF MarkStage, Database
  <2>3. /\ marked.tag = detected.tag /\ marked.repo = detected.repo
        /\ marked.current = detected.current /\ marked.gen = detected.gen
    BY <1>4 DEF MarkStage, Database
  <2>4. QED
    BY <1>4, <2>1, <2>2, <2>3
<1> HIDE DEF marked
<1>6. QED
  BY <1>1, <1>2, <1>5, MilestoneStep DEF Database

\* The AI step and the two outcomes of save_snapshot.
LEMMA StorePreserves ==
  ASSUME IInv, AnalyzeModules \/ StoreResults \/ StoreFails
  PROVE  IInv'
<1> USE DEF IInv
<1>1. /\ pc \in {"ai", "store"} /\ run.vid \in RunIds /\ tx \in Database /\ db \in Database
      /\ UNCHANGED <<disk, edits, db, run, runs, unacked, reply>>
  BY DEF AnalyzeModules, StoreResults, StoreFails, InSession, OwnsVersion, TypeOK
<1>2. \A st \in VersionStatus :
        LET s == [tx EXCEPT !.status[run.vid] = st]
        IN  /\ s \in Database /\ s.tag = tx.tag /\ s.repo = tx.repo
            /\ s.current = tx.current /\ s.gen = tx.gen
            /\ SameElsewhere(s, tx)
  BY <1>1 DEF Database
<1>3. CASE AnalyzeModules
  <2>1. pc = "ai" /\ pc' = "store" /\ tx' = [tx EXCEPT !.status[run.vid] = "analyzing_modules"]
    BY <1>3 DEF AnalyzeModules, InSession
  <2>2. "analyzing_modules" \in VersionStatus
    BY DEF VersionStatus, InProgressStatus
  <2>3. NamesVisible(tx)'
    BY <1>1, <1>2, <2>1, <2>2, NamesStay DEF ReadyToCommit
  <2>4. ReadyToCommit'
    BY <1>1, <1>2, <2>1, <2>2, <2>3 DEF ReadyToCommit
  <2>5. QED
    BY <1>1, <1>2, <2>1, <2>2, <2>4, SessionStep DEF TypeOK
<1>4. CASE StoreResults
  <2>1. /\ pc = "store" /\ pc' = "complete"
        /\ tx' = SaveSnapshot([tx EXCEPT !.status[run.vid] = "storing"], run.tag)
    BY <1>4 DEF StoreResults, InSession
  <2>2. "storing" \in VersionStatus
    BY DEF VersionStatus, InProgressStatus
  <2>3. QED
    BY <1>1, <1>2, <2>1, <2>2, MilestoneStep
<1>5. CASE StoreFails
  <2>1. pc = "store" /\ pc' = "complete" /\ tx' = db
    BY <1>5 DEF StoreFails, InSession
  <2>2. SameElsewhere(tx', tx)
    BY <1>1, <2>1 DEF OwnsVersion
  <2>3. db.status[run.vid] # "absent" => NamesVisible(db)
    BY <1>1
       DEF OwnsVersion, CommittedShape, InProgressVersions, WithStatus, InProgressStatus,
           NamesVisible
  <2>5. ReadyToCommit'
    BY <1>1, <2>1, <2>3 DEF ReadyToCommit, NamesVisible
  <2>4. QED
    BY <1>1, <2>1, <2>2, <2>5, SessionStep DEF TypeOK
<1>6. QED
  BY <1>3, <1>4, <1>5

LEMMA CompletePreserves == ASSUME IInv, Complete PROVE IInv'
<1> USE DEF IInv
<1>1. /\ pc = "complete" /\ pc' = "commit"
      /\ tx' = [tx EXCEPT !.status[run.vid] = "completed", !.repo = "completed"]
      /\ UNCHANGED <<disk, edits, db, run, runs, unacked, reply>>
      /\ run.vid \in RunIds /\ tx \in Database /\ NamesVisible(tx)
  BY DEF Complete, InSession, OwnsVersion, TypeOK, ReadyToCommit
<1>2. "completed" \in VersionStatus \cap FinalStatus
  BY DEF VersionStatus, FinalStatus
<1>3. /\ tx' \in Database /\ tx'.status[run.vid] = "completed" /\ tx'.repo = "completed"
      /\ tx'.tag = tx.tag /\ tx'.current = tx.current
      /\ SameElsewhere(tx', tx)
  BY <1>1, <1>2 DEF Database
<1>4. NamesVisible(tx)'
  BY <1>1, <1>3, NamesStay
<1>5. ReadyToCommit'
  BY <1>1, <1>3, <1>4 DEF ReadyToCommit
<1>6. QED
  BY <1>1, <1>3, <1>5, SessionStep DEF TypeOK

\* The two steps that commit the session.  Any version in progress after the
\* commit is the run's own.
LEMMA BuildPreserves == ASSUME IInv, BuildStructures PROVE IInv'
<1> DEFINE todo == IF run.full THEN File ELSE run.toParse
           built == [tx EXCEPT !.edges = (@ \ todo) \cup (todo \cap tx.ast),
                               !.deps = IF run.full THEN tx.ast ELSE @ \ todo,
                               !.status[run.vid] = "analyzing_structures"]
<1> USE DEF IInv
<1>1. /\ pc = "structures" /\ pc' = "mark" /\ tx' = built /\ db' \in {built, db}
      /\ UNCHANGED <<disk, edits, run, runs, unacked, reply>>
      /\ run.vid \in RunIds /\ run.vid <= runs /\ tx \in Database /\ run \in RunFields
  BY DEF BuildStructures, InSession, OwnsVersion, TypeOK
<1>2. /\ built \in Database /\ built.status[run.vid] = "analyzing_structures"
      /\ built.repo = tx.repo /\ built.tag = tx.tag /\ built.current = tx.current
      /\ built.stages = tx.stages /\ built.gen = tx.gen
      /\ SameElsewhere(built, tx)
  <2>1. /\ (tx.edges \ todo) \cup (todo \cap tx.ast) \in SUBSET File
        /\ (IF run.full THEN tx.ast ELSE tx.deps \ todo) \in SUBSET File
    BY <1>1 DEF Database, RunFields
  <2>2. "analyzing_structures" \in VersionStatus
    BY DEF VersionStatus, InProgressStatus
  <2> HIDE DEF todo
  <2>3. QED
    BY <1>1, <2>1, <2>2 DEF Database
<1> HIDE DEF built
<1>7. NamesVisible(tx)'
  BY <1>1, <1>2, NamesStay DEF ReadyToCommit
<1>3. ReadyToCommit'
  BY <1>1, <1>2, <1>7 DEF ReadyToCommit
<1>4. CASE db' = db
  BY <1>1, <1>2, <1>3, <1>4, SessionStep DEF OwnsVersion, TypeOK
<1>5. CASE db' = built
  <2>1. TypeOK'
    BY <1>1, <1>2, <1>5 DEF TypeOK
  <2>2. InProgressVersions(db)' \subseteq {run.vid}
    BY <1>1, <1>2, <1>5 DEF InProgressVersions, WithStatus, OwnsVersion
  <2>3. CommittedShape'
    <3>1. tx.repo \in {"analyzing", "failed"}
      <4>1. db.status[run.vid] # "absent" => run.vid \in InProgressVersions(db)
        BY <1>1 DEF OwnsVersion, InProgressVersions, WithStatus, InProgressStatus
      <4>2. QED
        BY <1>1, <4>1 DEF ReadyToCommit, CommittedShape
    <3>2. db'.stages[run.vid] = {"ast"} /\ db'.status[run.vid] = "analyzing_structures"
      BY <1>1, <1>2, <1>5 DEF ReadyToCommit
    <3>3. \E w \in RunIds : db'.tag[w] = db'.current /\ (w = run.vid \/ db'.status[w] = "completed")
      BY <1>1, <1>5, <1>7 DEF NamesVisible
    <3>4. QED
      BY <1>2, <1>5, <2>2, <3>1, <3>2, <3>3 DEF CommittedShape
  <2>4. FreshRows'
    <3>1. ASSUME NEW v \in RunIds, v > runs
          PROVE  db'.status[v] = "absent" /\ db'.stages[v] = {}
      <4>1. v # run.vid
        BY <1>1, <3>1, ConstantsAssumption DEF TypeOK
      <4>2. db'.status[v] = db.status[v] /\ db'.stages[v] = db.stages[v]
        BY <1>1, <1>2, <1>5, <4>1 DEF OwnsVersion
      <4>3. QED
        BY <3>1, <4>2 DEF FreshRows
    <3>2. QED
      BY <1>1, <3>1 DEF FreshRows
  <2>5. NoSession' /\ AtSetup' /\ Handling'
    BY <1>1 DEF NoSession, AtSetup, Handling
  <2>6. OwnsVersion'
    BY <1>1, <1>2, <1>5, <2>2 DEF OwnsVersion
  <2>7. QED
    BY <1>3, <2>1, <2>3, <2>4, <2>5, <2>6
<1>6. QED
  BY <1>1, <1>4, <1>5

LEMMA CommitPreserves == ASSUME IInv, CommitRun PROVE IInv'
<1> USE DEF IInv
<1>1. /\ pc = "commit" /\ pc' = "closing" /\ tx' = tx /\ db' = tx
      /\ UNCHANGED <<disk, edits, run, runs, unacked, reply>>
      /\ run.vid \in RunIds /\ run.vid <= runs /\ SameElsewhere(tx, db)
      /\ tx.status[run.vid] = "completed"
  BY DEF CommitRun, InSession, OwnsVersion, ReadyToCommit
<1>2. InProgressVersions(db)' = {}
  BY <1>1 DEF InProgressVersions, WithStatus, OwnsVersion, InProgressStatus
<1>3. TypeOK'
  BY <1>1 DEF TypeOK
<1>4. CommittedShape'
  BY <1>2 DEF CommittedShape
<1>5. FreshRows'
  BY <1>1, ConstantsAssumption DEF FreshRows, TypeOK
<1>6. NoSession' /\ AtSetup' /\ OwnsVersion' /\ ReadyToCommit'
  BY <1>1 DEF NoSession, AtSetup, OwnsVersion, ReadyToCommit
<1>7. Handling'
  BY <1>1, <1>2 DEF Handling
<1>8. QED
  BY <1>3, <1>4, <1>5, <1>6, <1>7

\* Steps that give up the session: an exception, an interruption, the end.
LEMMA LeavePreserves ==
  ASSUME IInv, CompleteRaises \/ RunRaises \/ Interrupt \/ EndRun
  PROVE  IInv'
<1> USE DEF IInv
<1>1. /\ pc \in SessionSteps \cup {"closing"} /\ tx' = db
      /\ UNCHANGED <<disk, edits, db, runs, unacked, reply>>
  BY DEF CompleteRaises, RunRaises, Interrupt, EndRun, InSession, NoSession
<1>2. \/ pc' \in {"fail", "cancel"} /\ run' = run
      \/ pc' = "idle" /\ run' = NoRun
  BY DEF CompleteRaises, RunRaises, Interrupt, EndRun, InSession
<1>3. TypeOK'
  <2>1. NoRun \in RunFields
    BY DEF NoRun, RunFields, Mode
  <2>2. QED
    BY <1>1, <1>2, <2>1 DEF TypeOK
<1>4. CommittedShape' /\ FreshRows'
  BY <1>1 DEF CommittedShape, FreshRows, InProgressVersions, WithStatus
<1>5. NoSession' /\ AtSetup' /\ OwnsVersion' /\ ReadyToCommit'
  BY <1>1, <1>2 DEF NoSession, AtSetup, OwnsVersion, ReadyToCommit
<1>6. Handling'
  <2>1. CASE pc = "setup"
    BY <1>1, <1>2, <2>1, ConstantsAssumption
       DEF Handling, AtSetup, InProgressVersions, WithStatus, TypeOK
  <2>3. CASE pc \in Owned
    BY <1>1, <1>2, <2>3 DEF Handling, OwnsVersion, InProgressVersions, WithStatus
  <2>4. CASE pc = "closing"
    BY <1>1, <1>2, <2>4 DEF Handling, InProgressVersions, WithStatus
  <2>5. QED
    BY <1>1, <2>1, <2>3, <2>4
<1>7. QED
  BY <1>3, <1>4, <1>5, <1>6

\* The handlers' first transaction: afterwards no version is in progress.
LEMMA AbandonPreserves == ASSUME IInv, FailVersion \/ CancelVersion PROVE IInv'
<1> USE DEF IInv
<1>1. /\ pc \in {"fail", "cancel"} /\ pc' \in {"failRepo", "cancelRepo", "idle"} /\ tx' = db'
      /\ UNCHANGED <<disk, edits, runs, unacked, reply>> /\ run' \in {run, NoRun}
  BY DEF FailVersion, CancelVersion
<1>2. PICK final \in {"failed", "cancelled"} : CommitStatus(final)
  BY DEF FailVersion, CancelVersion
<1>3. /\ db' \in Database /\ db'.stages = db.stages
      /\ \A v \in RunIds : db'.status[v] = IF RowCommitted /\ v = run.vid THEN final ELSE db.status[v]
  <2>1. db \in Database /\ final \in VersionStatus /\ run.vid \in RunIds \cup {0}
    BY DEF TypeOK, RunFields, VersionStatus, FinalStatus
  <2>2. CASE RowCommitted
    BY <1>2, <2>1, <2>2 DEF CommitStatus, RowCommitted, Database
  <2>3. CASE ~RowCommitted
    BY <1>2, <2>1, <2>3 DEF CommitStatus
  <2>4. QED
    BY <2>2, <2>3
<1>4. InProgressVersions(db)' = {}
  <2>1. ASSUME NEW v \in RunIds, db'.status[v] \in InProgressStatus PROVE FALSE
    <3>1. ~(RowCommitted /\ v = run.vid)
      BY <1>3, <2>1 DEF InProgressStatus
    <3>2. db.status[v] \in InProgressStatus
      BY <1>3, <2>1, <3>1
    <3>3. v = run.vid
      BY <1>1, <3>2 DEF Handling, InProgressVersions, WithStatus
    <3>4. RowCommitted
      BY <3>2, <3>3, ConstantsAssumption DEF RowCommitted, InProgressStatus
    <3>5. QED
      BY <3>1, <3>3, <3>4
  <2>2. QED
    BY <2>1 DEF InProgressVersions, WithStatus
<1>5. TypeOK'
  <2>1. NoRun \in RunFields
    BY DEF NoRun, RunFields, Mode
  <2>2. QED
    BY <1>1, <1>3, <2>1 DEF TypeOK
<1>6. CommittedShape'
  BY <1>4 DEF CommittedShape
<1>7. FreshRows'
  BY <1>1, <1>3, ConstantsAssumption DEF FreshRows, Handling, TypeOK, RowCommitted
<1>8. NoSession' /\ AtSetup' /\ OwnsVersion' /\ ReadyToCommit'
  BY <1>1 DEF NoSession, AtSetup, OwnsVersion, ReadyToCommit
<1>9. Handling'
  BY <1>1, <1>4 DEF Handling
<1>10. QED
  BY <1>5, <1>6, <1>7, <1>8, <1>9

\* The handlers' second transaction: "failed" may meet a version in progress.
LEMMA SettlePreserves == ASSUME IInv, FailRepo \/ CancelRepo PROVE IInv'
<1> USE DEF IInv
<1>1. PICK final \in {"failed", "cancelled"} :
         db' = [db EXCEPT !.repo = final] /\ (final = "failed" \/ pc = "cancelRepo")
  BY DEF FailRepo, CancelRepo
<1>2. /\ pc \in {"failRepo", "cancelRepo"} /\ pc' = "idle" /\ run' = NoRun /\ tx' = db'
      /\ UNCHANGED <<disk, edits, runs, unacked, reply>>
  BY DEF FailRepo, CancelRepo
<1>3. /\ db' \in Database /\ db'.status = db.status /\ db'.stages = db.stages
      /\ db'.tag = db.tag /\ db'.current = db.current /\ db'.repo = final
  BY <1>1 DEF TypeOK, Database, FinalStatus
<1>4. InProgressVersions(db') = InProgressVersions(db)
  BY <1>3 DEF InProgressVersions, WithStatus
<1>5. TypeOK'
  <2>1. NoRun \in RunFields
    BY DEF NoRun, RunFields, Mode
  <2>2. QED
    BY <1>2, <1>3, <2>1 DEF TypeOK
<1>6. CommittedShape' /\ FreshRows'
  <2>1. InProgressVersions(db) # {} => final = "failed"
    BY <1>1 DEF Handling
  <2>2. QED
    BY <1>2, <1>3, <1>4, <2>1 DEF CommittedShape, FreshRows
<1>7. NoSession' /\ AtSetup' /\ OwnsVersion' /\ ReadyToCommit' /\ Handling'
  BY <1>2 DEF NoSession, AtSetup, OwnsVersion, ReadyToCommit, Handling
<1>8. QED
  BY <1>5, <1>6, <1>7

\* A transaction of a handler that fails leaves what is committed alone.
LEMMA HandlerFailsPreserves == ASSUME IInv, HandlerFails PROVE IInv'
<1> USE DEF IInv
<1>1. /\ pc' \in {"failRepo", "idle"} /\ run' \in {run, NoRun} /\ tx' = db
      /\ UNCHANGED <<disk, edits, db, runs, unacked, reply>>
  BY DEF HandlerFails
<1>2. TypeOK'
  <2>1. NoRun \in RunFields
    BY DEF NoRun, RunFields, Mode
  <2>2. QED
    BY <1>1, <2>1 DEF TypeOK
<1>3. CommittedShape' /\ FreshRows'
  BY <1>1 DEF CommittedShape, FreshRows, InProgressVersions, WithStatus
<1>4. NoSession' /\ AtSetup' /\ OwnsVersion' /\ ReadyToCommit' /\ Handling'
  BY <1>1 DEF NoSession, AtSetup, OwnsVersion, ReadyToCommit, Handling
<1>5. QED
  BY <1>2, <1>3, <1>4

\* A switch names a completed version, which is not the run's own.
LEMMA SwitchPreserves == ASSUME IInv, NEW v \in RunIds, SwitchVersion(v) PROVE IInv'
<1> USE DEF IInv
<1>1. /\ db.status[v] = "completed" /\ pc # "commit"
      /\ db' = [db EXCEPT !.current = db.tag[v]] /\ tx' = [tx EXCEPT !.current = db.tag[v]]
      /\ UNCHANGED <<disk, edits, pc, run, runs, unacked, reply>>
  BY DEF SwitchVersion
<1>2. /\ db' \in Database /\ db'.status = db.status /\ db'.stages = db.stages
      /\ db'.tag = db.tag /\ db'.repo = db.repo /\ db'.current = db.tag[v]
      /\ tx' \in Database /\ tx'.status = tx.status /\ tx'.stages = tx.stages
      /\ tx'.tag = tx.tag /\ tx'.repo = tx.repo /\ tx'.current = db.tag[v] /\ tx'.gen = tx.gen
  BY <1>1 DEF TypeOK, Database
<1>3. InProgressVersions(db') = InProgressVersions(db)
  BY <1>2 DEF InProgressVersions, WithStatus
<1>4. TypeOK' /\ FreshRows' /\ NoSession'
  BY <1>1, <1>2 DEF TypeOK, FreshRows, NoSession
<1>5. CommittedShape'
  BY <1>1, <1>2, <1>3 DEF CommittedShape
<1>6. AtSetup' /\ OwnsVersion' /\ Handling'
  BY <1>1, <1>2, <1>3 DEF AtSetup, OwnsVersion, Handling, NoSession
<1>7. ReadyToCommit'
  <2>1. pc \in Owned => NamesVisible(tx)'
    BY <1>1, <1>2 DEF OwnsVersion, NamesVisible
  <2>2. QED
    BY <1>1, <1>2, <2>1 DEF ReadyToCommit
<1>8. QED
  BY <1>4, <1>5, <1>6, <1>7

LEMMA CrashPreserves == ASSUME IInv, Crash PROVE IInv'
<1> USE DEF IInv
<1>1. /\ pc' = "idle" /\ run' = NoRun /\ tx' = db /\ unacked' = TRUE
      /\ UNCHANGED <<disk, edits, db, runs, reply>>
  BY DEF Crash
<1>2. TypeOK'
  <2>1. NoRun \in RunFields
    BY DEF NoRun, RunFields, Mode
  <2>2. unacked' \in BOOLEAN
    BY <1>1, Zenon
  <2>3. disk' \in Tree /\ edits' \in 0..MaxEdits /\ db' \in Database /\ tx' \in Database
    BY <1>1 DEF TypeOK
  <2>4. pc' \in Steps /\ runs' \in 0..MaxRuns /\ reply' \in {"none", "accepted", "not_modified"}
    BY <1>1 DEF TypeOK
  <2>5. QED
    BY <1>1, <2>1, <2>2, <2>3, <2>4, Zenon DEF TypeOK
<1>3. CommittedShape' /\ FreshRows'
  BY <1>1 DEF CommittedShape, FreshRows, InProgressVersions, WithStatus
<1>4. NoSession' /\ AtSetup' /\ OwnsVersion' /\ ReadyToCommit' /\ Handling'
  BY <1>1 DEF NoSession, AtSetup, OwnsVersion, ReadyToCommit, Handling
<1>5. QED
  BY <1>2, <1>3, <1>4

\* Steps that touch nothing a run depends on, stuttering included.
LEMMA OtherPreserves ==
  ASSUME IInv, UNCHANGED <<db, tx, pc, run, runs, unacked>>,
         disk' \in Tree, edits' \in 0..MaxEdits,
         reply' \in {"none", "accepted", "not_modified"}
  PROVE  IInv'
<1> USE DEF IInv
<1>1. TypeOK'
  BY DEF TypeOK
<1>2. CommittedShape' /\ FreshRows' /\ NoSession' /\ AtSetup'
  BY DEF CommittedShape, FreshRows, NoSession, AtSetup, InProgressVersions, WithStatus
<1>3. OwnsVersion' /\ ReadyToCommit' /\ Handling'
  BY DEF OwnsVersion, ReadyToCommit, Handling, InProgressVersions, WithStatus, NamesVisible
<1>4. QED
  BY <1>1, <1>2, <1>3

LEMMA NextIInv == IInv /\ [Next]_vars => IInv'
<1> SUFFICES ASSUME IInv, [Next]_vars PROVE IInv'
  OBVIOUS
<1>1. ASSUME NEW f \in File, NEW c \in Content \cup {Missing}, EditFile(f, c) PROVE IInv'
  <2>1. disk' \in Tree /\ edits' \in 0..MaxEdits
    BY <1>1, ConstantsAssumption DEF EditFile, IInv, TypeOK, Tree
  <2>2. QED
    BY <1>1, <2>1, OtherPreserves DEF EditFile, IInv, TypeOK
<1>2. CASE SubmitUnchanged
  BY <1>2, OtherPreserves DEF SubmitUnchanged, IInv, TypeOK
<1>3. ASSUME NEW m \in Mode, Submit(m) PROVE IInv'
  <2>1. BeginRun(m) /\ UNCHANGED <<disk, edits, db, unacked>> /\ reply' = "accepted"
    BY <1>3 DEF Submit
  <2>2. unacked' \in BOOLEAN
    BY <2>1 DEF IInv, TypeOK
  <2>3. QED
    BY <2>1, <2>2, BeginPreserves
<1>4. ASSUME NEW m \in Mode, Redeliver(m) PROVE IInv'
  <2>1. BeginRun(m) /\ unacked' = FALSE /\ UNCHANGED <<disk, edits, db, reply>>
    BY <1>4 DEF Redeliver
  <2>2. unacked' \in BOOLEAN
    BY <2>1, Zenon
  <2>3. reply' \in {"none", "accepted", "not_modified"}
    BY <2>1 DEF IInv, TypeOK
  <2>4. QED
    BY <2>1, <2>2, <2>3, BeginPreserves
<1>5. CASE RunStep
  BY <1>5, SetupPreserves, ScanPreserves, DiffPreserves, ParsePreserves, BuildPreserves,
     MarkPreserves, FrameworksPreserves, StorePreserves, CompletePreserves, CommitPreserves,
     LeavePreserves, AbandonPreserves, SettlePreserves
     DEF RunStep
<1>6. CASE Interrupt
  BY <1>6, LeavePreserves
<1>7. CASE Crash
  BY <1>7, CrashPreserves
<1>8. CASE UNCHANGED vars
  BY <1>8, OtherPreserves DEF vars, IInv, TypeOK
<1>9. CASE HandlerFails \/ \E v \in RunIds : SwitchVersion(v)
  BY <1>9, HandlerFailsPreserves, SwitchPreserves
<1>10. QED
  BY <1>1, <1>2, <1>3, <1>4, <1>5, <1>6, <1>7, <1>8, <1>9 DEF Next

THEOREM InductiveInvariant == Spec => []IInv
  BY InitIInv, NextIInv, PTL DEF Spec

\* Type correctness of every reachable state, for any number of files, runs
\* and tags.
THEOREM TypeCorrect == Spec => []TypeOK
<1>1. IInv => TypeOK
  BY DEF IInv
<1>2. QED
  BY <1>1, InductiveInvariant, PTL

\* Whatever fails, is cancelled, times out or crashes, the handlers' own
\* transactions included, at most one version is committed in progress; it
\* stands at analyzing_structures with its AST milestone recorded, so that
\* get_in_progress_version can only answer "frameworks", and the repository is
\* shown neither as completed nor as cancelled.
THEOREM ResumableShape == Spec => []CommittedShape
<1>1. IInv => CommittedShape
  BY DEF IInv
<1>2. QED
  BY <1>1, InductiveInvariant, PTL

----------------------------------------------------------------------------
(* AnalysisRun implements VersionLedger. *)

LedgerVars == <<db.status, db.repo>>

\* While a version may be written, the ledger sees no other checkpoint.
LEMMA OwnerMayWrite ==
  ASSUME IInv, pc \in Owned PROVE run.vid \in RunIds /\ Ledger!MayWrite(run.vid)
BY DEF IInv, OwnsVersion, Ledger!MayWrite, Ledger!Checkpointed, InProgressVersions,
       WithStatus, InProgressStatus

LEMMA CommitIsPublish == ASSUME IInv, CommitRun PROVE Ledger!Publish(run.vid)
<1>1. /\ pc \in Owned /\ db' = tx /\ tx \in Database /\ db \in Database
      /\ tx.status[run.vid] = "completed" /\ tx.repo = "completed" /\ SameElsewhere(tx, db)
      /\ run.vid \in RunIds
  BY DEF CommitRun, InSession, IInv, OwnsVersion, ReadyToCommit, TypeOK
<1>2. tx.status \in [RunIds -> VersionStatus] /\ db.status \in [RunIds -> VersionStatus]
  BY <1>1 DEF Database
<1>3. tx.status = [db.status EXCEPT ![run.vid] = "completed"]
  BY <1>1, <1>2
<1>4. QED
  BY <1>1, <1>3, OwnerMayWrite DEF Ledger!Publish

LEMMA BuildIsCheckpoint ==
  ASSUME IInv, BuildStructures PROVE Ledger!Checkpoint(run.vid) \/ UNCHANGED LedgerVars
<1> DEFINE built == [tx EXCEPT !.edges = (@ \ (IF run.full THEN File ELSE run.toParse))
                                  \cup ((IF run.full THEN File ELSE run.toParse) \cap tx.ast),
                               !.deps = IF run.full THEN tx.ast ELSE @ \ run.toParse,
                               !.status[run.vid] = "analyzing_structures"]
<1>1. /\ pc = "structures" /\ db' \in {built, db} /\ tx \in Database /\ db \in Database
      /\ SameElsewhere(tx, db) /\ run.vid \in RunIds
      /\ tx.repo = IF db.status[run.vid] = "absent" THEN "analyzing" ELSE db.repo
  BY DEF BuildStructures, InSession, IInv, OwnsVersion, ReadyToCommit, TypeOK
<1>2. CASE db' = db
  BY <1>2 DEF LedgerVars
<1>3. CASE db' = built
  <2>1. tx.status \in [RunIds -> VersionStatus] /\ db.status \in [RunIds -> VersionStatus]
    BY <1>1 DEF Database
  <2>2. db'.status = [tx.status EXCEPT ![run.vid] = "analyzing_structures"] /\ db'.repo = tx.repo
    BY <1>1, <1>3 DEF Database
  <2>3. [tx.status EXCEPT ![run.vid] = "analyzing_structures"]
          = [db.status EXCEPT ![run.vid] = "analyzing_structures"]
    BY <1>1, <2>1
  <2>4. QED
    BY <1>1, <2>2, <2>3, OwnerMayWrite DEF Ledger!Checkpoint
<1>4. QED
  BY <1>1, <1>2, <1>3

LEMMA HandlerIsAbandon ==
  ASSUME IInv, FailVersion \/ CancelVersion
  PROVE  Ledger!Next \/ UNCHANGED LedgerVars
<1>1. PICK final \in {"failed", "cancelled"} : CommitStatus(final)
  BY DEF FailVersion, CancelVersion
<1>2. pc \in {"fail", "cancel"} /\ db \in Database /\ run.vid \in RunIds \cup {0}
  BY DEF FailVersion, CancelVersion, IInv, TypeOK, RunFields
<1>3. CASE RowCommitted
  <2>1. run.vid \in RunIds /\ db.status[run.vid] \in {"analyzing_structures", "completed"}
    BY <1>2, <1>3 DEF IInv, Handling, RowCommitted
  <2>2. db'.status = [db.status EXCEPT ![run.vid] = final] /\ db'.repo = db.repo
    BY <1>1, <1>2, <1>3 DEF CommitStatus, Database
  <2>3. Ledger!Abandon(run.vid, final)
    BY <2>1, <2>2 DEF Ledger!Abandon
  <2>4. QED
    BY <1>1, <2>1, <2>3 DEF Ledger!Next
<1>4. CASE ~RowCommitted
  BY <1>1, <1>4 DEF CommitStatus, LedgerVars
<1>5. QED
  BY <1>3, <1>4

LEMMA HandlerIsSettle ==
  ASSUME IInv, NEW final \in {"failed", "cancelled"}, pc \in {"failRepo", "cancelRepo"},
         db' = [db EXCEPT !.repo = final], final = "failed" \/ pc = "cancelRepo"
  PROVE  Ledger!Settle(final)
<1>1. db'.status = db.status /\ db'.repo = final
  BY DEF IInv, TypeOK, Database
<1>2. pc = "cancelRepo" => Ledger!Checkpointed = {}
  BY DEF IInv, Handling, Ledger!Checkpointed, InProgressVersions, WithStatus, InProgressStatus
<1>3. QED
  BY <1>1, <1>2 DEF Ledger!Settle

LEMMA StepRefinesLedger ==
  ASSUME IInv, [Next]_vars PROVE [Ledger!Next]_LedgerVars
<1>1. CASE UNCHANGED db
  BY <1>1 DEF LedgerVars
<1>2. CASE CommitRun
  <2>1. run.vid \in RunIds
    BY <1>2 DEF CommitRun, InSession, IInv, OwnsVersion
  <2>2. QED
    BY <1>2, <2>1, CommitIsPublish DEF Ledger!Next
<1>3. CASE BuildStructures
  <2>1. run.vid \in RunIds
    BY <1>3 DEF BuildStructures, InSession, IInv, OwnsVersion
  <2>2. QED
    BY <1>3, <2>1, BuildIsCheckpoint DEF Ledger!Next
<1>4. CASE FailVersion \/ CancelVersion
  BY <1>4, HandlerIsAbandon
<1>5. CASE FailRepo \/ CancelRepo
  <2>1. PICK final \in {"failed", "cancelled"} :
           /\ pc \in {"failRepo", "cancelRepo"} /\ db' = [db EXCEPT !.repo = final]
           /\ final = "failed" \/ pc = "cancelRepo"
    BY <1>5 DEF FailRepo, CancelRepo
  <2>2. QED
    BY <2>1, HandlerIsSettle DEF Ledger!Next
<1>7. CASE \E v \in RunIds : SwitchVersion(v)
  BY <1>7 DEF SwitchVersion, LedgerVars, IInv, TypeOK, Database
<1>6. QED
  BY <1>1, <1>2, <1>3, <1>4, <1>5, <1>7
     DEF Next, RunStep, vars, EditFile, SubmitUnchanged, Submit, Redeliver, DoAnalysisSetup,
         ScanFiles, ComputeIncrementalDiff, DiffFails, ParseAst, MarkStructures,
         DetectFrameworks, AnalyzeModules, StoreResults, StoreFails, Complete,
         CompleteRaises, EndRun, RunRaises, HandlerFails, Interrupt, Crash

\* Every commit of a run is a step of VersionLedger: the statuses another
\* session reads are checkpointed, published, abandoned and settled in that
\* order only, for any number of runs and any interleaving of failures, those
\* of fail() and cancel() themselves included; only fail() settles a
\* repository whose version is still open.
THEOREM RefinesLedger == Spec => LedgerSpec
<1>1. Init => Ledger!Init
  BY DEF Init, NewRepository, Ledger!Init
<1>2. IInv /\ [Next]_vars => [Ledger!Next]_LedgerVars
  BY StepRefinesLedger
<1>3. QED
  BY <1>1, <1>2, InductiveInvariant, PTL DEF Spec, LedgerSpec, Ledger!Spec, LedgerVars

----------------------------------------------------------------------------
(* A run that does not succeed leaves the analysis data alone. *)

LEMMA DataStep ==
  ASSUME IInv, [Next]_vars
  PROVE  /\ Data(db') # Data(db) => run.vid \in RunIds /\ db'.status[run.vid] \in Visible
         /\ db'.current # db.current =>
              \E v \in RunIds : db'.tag[v] = db'.current /\ db'.status[v] \in Visible
<1> USE DEF Visible
<1>1. CASE CommitRun
  <2>1. /\ db' = tx /\ NamesVisible(tx) /\ tx.status[run.vid] = "completed" /\ run.vid \in RunIds
    BY <1>1 DEF CommitRun, InSession, IInv, OwnsVersion, ReadyToCommit
  <2>2. QED
    BY <2>1 DEF NamesVisible
<1>2. CASE BuildStructures
  <2>1. /\ tx \in Database /\ run.vid \in RunIds /\ NamesVisible(tx)
    BY <1>2 DEF BuildStructures, InSession, IInv, OwnsVersion, ReadyToCommit, TypeOK
  <2>2. CASE db' = db
    BY <2>2
  <2>3. CASE db' # db
    <3>1. /\ db'.tag = tx.tag /\ db'.current = tx.current
          /\ db'.status = [tx.status EXCEPT ![run.vid] = "analyzing_structures"]
      BY <1>2, <2>1, <2>3 DEF BuildStructures, InSession, Database
    <3>2. /\ db'.status[run.vid] = "analyzing_structures"
          /\ \A w \in RunIds : w # run.vid => db'.status[w] = tx.status[w]
      BY <2>1, <3>1 DEF Database
    <3>3. PICK w \in RunIds : tx.tag[w] = tx.current /\ (w = run.vid \/ tx.status[w] = "completed")
      BY <2>1 DEF NamesVisible
    <3>4. db'.tag[w] = db'.current /\ db'.status[w] \in Visible
      BY <3>1, <3>2, <3>3
    <3>5. QED
      BY <2>1, <3>2, <3>4
  <2>4. QED
    BY <2>2, <2>3
<1>3. CASE FailVersion \/ CancelVersion \/ FailRepo \/ CancelRepo
  <2>1. db \in Database
    BY DEF IInv, TypeOK
  <2>2. Data(db') = Data(db) /\ db'.current = db.current
    BY <1>3, <2>1
       DEF FailVersion, CancelVersion, FailRepo, CancelRepo, CommitStatus, Data, Database
  <2>3. QED
    BY <2>2
<1>4. ASSUME NEW v \in RunIds, SwitchVersion(v) PROVE
         /\ Data(db') = Data(db)
         /\ db'.tag[v] = db'.current /\ db'.status[v] \in Visible
  BY <1>4 DEF SwitchVersion, IInv, TypeOK, Database, Data
<1>5. CASE UNCHANGED db
  BY <1>5
<1>6. QED
  BY <1>1, <1>2, <1>3, <1>4, <1>5
     DEF Next, RunStep, vars, EditFile, SubmitUnchanged, Submit, Redeliver, DoAnalysisSetup,
         ScanFiles, ComputeIncrementalDiff, DiffFails, ParseAst, MarkStructures,
         DetectFrameworks, AnalyzeModules, StoreResults, StoreFails, Complete,
         CompleteRaises, EndRun, RunRaises, HandlerFails, Interrupt, Crash

\* Files, nodes, edges, dependencies, routes and snapshots change only in a
\* commit that shows the run's version as checkpointed or completed: failing,
\* cancelling or crashing never alters analysis data, and the current version
\* only moves to a visible one, by a commit or by a switch.
THEOREM DataFollowsVersion == Spec => DataMovesWithVersion
<1>1. IInv /\ [Next]_vars =>
        [/\ Data(db') # Data(db) => run.vid \in RunIds /\ db'.status[run.vid] \in Visible
         /\ db'.current # db.current =>
              \E v \in RunIds : db'.tag[v] = db'.current /\ db'.status[v] \in Visible]_vars
  BY DataStep
<1>2. QED
  BY <1>1, InductiveInvariant, PTL DEF Spec, DataMovesWithVersion

----------------------------------------------------------------------------
(* A completed repository serves a finished version. *)

LEMMA ServedStep ==
  ASSUME IInv, RepoCompletedIsCurrent, [Next]_vars PROVE RepoCompletedIsCurrent'
<1>1. db \in Database /\ tx \in Database /\ run.vid \in RunIds \cup {0}
  BY DEF IInv, TypeOK, RunFields
<1>2. CASE CommitRun
  BY <1>2 DEF CommitRun, InSession, IInv, OwnsVersion, ReadyToCommit, RepoCompletedIsCurrent,
              FinalStatus, NamesVisible
<1>3. CASE BuildStructures
  <2>1. CASE db' = db
    BY <2>1 DEF RepoCompletedIsCurrent
  <2>2. CASE db' # db
    <3>1. IInv'
      BY NextIInv
    <3>2. db'.status[run.vid] = "analyzing_structures" /\ run.vid \in RunIds
      BY <1>1, <1>3, <2>2 DEF BuildStructures, InSession, IInv, OwnsVersion, Database
    <3>3. run.vid \in InProgressVersions(db')
      BY <3>2 DEF InProgressVersions, WithStatus, InProgressStatus
    <3>4. db'.repo # "completed"
      BY <3>1, <3>3 DEF IInv, CommittedShape
    <3>5. QED
      BY <3>4 DEF RepoCompletedIsCurrent
  <2>3. QED
    BY <2>1, <2>2
<1>4. CASE FailVersion \/ CancelVersion
  <2>1. PICK final \in {"failed", "cancelled"} : CommitStatus(final)
    BY <1>4 DEF FailVersion, CancelVersion
  <2>2. CASE RowCommitted
    <3>1. /\ db'.repo = db.repo /\ db'.tag = db.tag /\ db'.current = db.current
          /\ db'.status = [db.status EXCEPT ![run.vid] = final]
      BY <1>1, <2>1, <2>2 DEF CommitStatus, Database
    <3>2. \A v \in RunIds : db.status[v] \in FinalStatus => db'.status[v] \in FinalStatus
      BY <1>1, <3>1 DEF Database, FinalStatus
    <3>3. QED
      BY <3>1, <3>2 DEF RepoCompletedIsCurrent
  <2>3. CASE ~RowCommitted
    BY <2>1, <2>3 DEF CommitStatus, RepoCompletedIsCurrent
  <2>4. QED
    BY <2>2, <2>3
<1>5. CASE FailRepo \/ CancelRepo
  <2>1. db'.repo \in {"failed", "cancelled"}
    BY <1>1, <1>5 DEF FailRepo, CancelRepo, Database
  <2>2. QED
    BY <2>1 DEF RepoCompletedIsCurrent
<1>6. CASE UNCHANGED db
  BY <1>6 DEF RepoCompletedIsCurrent
<1>8. ASSUME NEW v \in RunIds, SwitchVersion(v) PROVE RepoCompletedIsCurrent'
  <2>1. db'.tag[v] = db'.current /\ db'.status[v] \in FinalStatus
    BY <1>1, <1>8 DEF SwitchVersion, Database, FinalStatus
  <2>2. QED
    BY <2>1 DEF RepoCompletedIsCurrent
<1>7. QED
  BY <1>2, <1>3, <1>4, <1>5, <1>6, <1>8
     DEF Next, RunStep, vars, EditFile, SubmitUnchanged, Submit, Redeliver, DoAnalysisSetup,
         ScanFiles, ComputeIncrementalDiff, DiffFails, ParseAst, MarkStructures,
         DetectFrameworks, AnalyzeModules, StoreResults, StoreFails, Complete,
         CompleteRaises, EndRun, RunRaises, HandlerFails, Interrupt, Crash

\* Whatever mixture of checkpoints, failures, cancellations, crashes and
\* switches came before, a repository a reader sees as completed has as its current version
\* one that no run will write again.
THEOREM CompletedServesFinal == Spec => []RepoCompletedIsCurrent
<1>1. Init => RepoCompletedIsCurrent
  BY DEF Init, NewRepository, RepoCompletedIsCurrent
<1>2. IInv /\ RepoCompletedIsCurrent /\ [Next]_vars => RepoCompletedIsCurrent'
  BY ServedStep
<1>3. QED
  BY <1>1, <1>2, InductiveInvariant, PTL DEF Spec

----------------------------------------------------------------------------
(* The newest visible version's snapshot joins with the files. *)

\* The snapshot of v was taken of the generation that is in `files`, or the
\* scan found nothing, and no snapshot was needed.
Joined(s, v) == s.tag[v] \in Tag /\ (s.files = Empty \/ s.gen \in s.snap[s.tag[v]])

\* The version in progress is the newest one, the run's own is, and what the
\* session has scanned is joined already.
NewestIsJoined == \A v \in RunIds : Newest(db, v) => Joined(db, v)
OpenIsNewest   == \A v \in InProgressVersions(db) : Newest(db, v)
OwnIsNewest    == pc \in Owned => \A w \in RunIds : db.status[w] # "absent" => w <= run.vid
SessionJoined  ==
  pc \in AfterScan \/ (pc \in {"complete", "commit"} /\ tx.status[run.vid] # "absent") =>
    Joined(tx, run.vid)
ScanInv == NewestIsJoined /\ OpenIsNewest /\ OwnIsNewest /\ SessionJoined

\* The fields it speaks of.
SameScan(s, t) == s.tag = t.tag /\ s.files = t.files /\ s.gen = t.gen /\ s.snap = t.snap
SameRows(s, t) == \A v \in RunIds : s.status[v] = "absent" <=> t.status[v] = "absent"

\* No file is present exactly in the empty tree.
LEMMA NothingPresent == ASSUME NEW tree \in Tree, Present(tree) = {} PROVE tree = Empty
BY DEF Tree, Present, Empty

\* Saving under the version's own tag joins it; saving under any tag keeps it.
LEMMA SaveIsJoined ==
  ASSUME NEW s \in Database, NEW t \in Tag, NEW v \in RunIds, s.gen \in RunIds,
         Joined(s, v) \/ s.tag[v] = t
  PROVE  Joined(SaveSnapshot(s, t), v)
<1>1. CASE Present(s.files) = {}
  <2>1. s.files = Empty
    BY <1>1, NothingPresent DEF Database
  <2>2. SaveSnapshot(s, t) = s
    BY <1>1 DEF SaveSnapshot
  <2>3. QED
    BY <2>1, <2>2 DEF Joined
<1>2. CASE Present(s.files) # {}
  <2>1. SaveSnapshot(s, t) = [s EXCEPT !.snap[t] = @ \cup {s.gen}]
    BY <1>2 DEF SaveSnapshot
  <2>2. /\ SaveSnapshot(s, t).tag = s.tag /\ SaveSnapshot(s, t).files = s.files
        /\ SaveSnapshot(s, t).gen = s.gen
        /\ SaveSnapshot(s, t).snap = [s.snap EXCEPT ![t] = @ \cup {s.gen}]
    BY <2>1 DEF Database
  <2>3. s.snap \in [Tag -> SUBSET RunIds]
    BY DEF Database
  <2>4. s.tag[v] \in Tag
    BY DEF Joined
  <2>5. CASE s.tag[v] = t
    BY <2>2, <2>3, <2>4, <2>5 DEF Joined
  <2>6. CASE s.tag[v] # t
    BY <2>2, <2>3, <2>4, <2>6 DEF Joined
  <2>7. QED
    BY <2>5, <2>6
<1>3. QED
  BY <1>1, <1>2

LEMMA ScanJoins == ASSUME IInv, ScanInv, NEW t \in Tag, ScanFiles(t) PROVE ScanInv'
<1> DEFINE scanned == [tx EXCEPT !.status[run.vid] = "scanning", !.tag[run.vid] = t,
                                 !.current = t, !.files = disk, !.gen = runs,
                                 !.ast = {}, !.edges = {}, !.deps = {}]
<1>1. /\ tx' = SaveSnapshot(scanned, t) /\ db' = db /\ pc = "scan" /\ pc' = "diff"
      /\ run' = [run EXCEPT !.tag = t]
  BY DEF ScanFiles, InSession
<1>2. /\ run.vid \in RunIds /\ runs \in RunIds /\ tx \in Database /\ disk \in Tree
      /\ run \in RunFields
  BY <1>1, ConstantsAssumption DEF IInv, OwnsVersion, TypeOK
<1>3. scanned \in Database /\ scanned.gen \in RunIds /\ scanned.tag[run.vid] = t
  <2>1. "scanning" \in VersionStatus
    BY DEF VersionStatus, InProgressStatus
  <2>2. QED
    BY <1>2, <2>1 DEF Database
<1>4. run'.vid = run.vid
  BY <1>1, <1>2 DEF RunFields
<1> HIDE DEF scanned
<1>5. Joined(tx', run.vid)
  BY <1>1, <1>2, <1>3, SaveIsJoined
<1>6. NewestIsJoined' /\ OpenIsNewest'
  BY <1>1 DEF ScanInv, NewestIsJoined, OpenIsNewest, Newest, Joined, InProgressVersions, WithStatus
<1>7. QED
  BY <1>1, <1>4, <1>5, <1>6 DEF ScanInv, OwnIsNewest, SessionJoined, Joined

\* A milestone changes the run's own version and saves the snapshot once more.
LEMMA MilestoneJoins ==
  ASSUME IInv, ScanInv, ParseAst \/ MarkStructures \/ DetectFrameworks \/ StoreResults
  PROVE  ScanInv'
<1>1. /\ tx \in Database /\ run \in RunFields /\ run.vid \in RunIds /\ run.tag \in Tag
      /\ tx.gen \in RunIds /\ db' = db /\ run' = run
      /\ pc \in AfterScan /\ pc' \in AfterScan \cup {"complete"}
  BY DEF IInv, TypeOK, OwnsVersion, ReadyToCommit, ParseAst, MarkStructures, DetectFrameworks,
         StoreResults, InSession
<1>2. PICK s : tx' = SaveSnapshot(s, run.tag) /\ s \in Database /\ SameScan(s, tx)
  <2>0. /\ \A st \in {"ast", "structures", "frameworks"} : st \in Stage
        /\ {"parsing", "analyzing_structures", "storing"} \subseteq VersionStatus
    BY DEF Stage, VersionStatus, InProgressStatus
  <2>1. ASSUME NEW s \in Database, NEW st \in Stage, NEW status \in VersionStatus
        PROVE  /\ MarkStage(s, run.vid, st, status) \in Database
               /\ SameScan(MarkStage(s, run.vid, st, status), s)
    BY <1>1, <2>1 DEF MarkStage, Database, SameScan
  <2>2. CASE ParseAst
    <3>1. PICK a \in SUBSET File :
            tx' = SaveSnapshot(MarkStage([tx EXCEPT !.ast = a], run.vid, "ast", "parsing"), run.tag)
      <4> DEFINE todo == IF run.full THEN File ELSE run.toParse
                 parsed == {f \in todo \cap Parsable : tx.files[f] # Missing /\ disk[f] # Missing}
      <4>1. (tx.ast \ todo) \cup parsed \in SUBSET File
        BY <1>1, ConstantsAssumption DEF Database, RunFields
      <4>2. tx' = SaveSnapshot(MarkStage([tx EXCEPT !.ast = (tx.ast \ todo) \cup parsed],
                                         run.vid, "ast", "parsing"), run.tag)
        BY <1>1, <2>2 DEF ParseAst, InSession, Database
      <4>3. QED
        BY <4>1, <4>2
    <3>2. [tx EXCEPT !.ast = a] \in Database /\ SameScan([tx EXCEPT !.ast = a], tx)
      BY <1>1 DEF Database, SameScan
    <3> DEFINE s == [tx EXCEPT !.ast = a]
    <3> HIDE DEF s
    <3>3. MarkStage(s, run.vid, "ast", "parsing") \in Database
          /\ SameScan(MarkStage(s, run.vid, "ast", "parsing"), s)
      BY <2>0, <2>1, <3>2 DEF s
    <3>4. tx' = SaveSnapshot(MarkStage(s, run.vid, "ast", "parsing"), run.tag) /\ SameScan(s, tx)
      BY <3>1, <3>2 DEF s
    <3>5. QED
      BY <3>3, <3>4 DEF SameScan
  <2>3. CASE MarkStructures
    BY <1>1, <2>0, <2>1, <2>3 DEF MarkStructures, InSession
  <2>4. CASE DetectFrameworks
    <3>1. [tx EXCEPT !.routes = tx.gen] \in Database /\ SameScan([tx EXCEPT !.routes = tx.gen], tx)
      BY <1>1 DEF Database, SameScan
    <3> DEFINE s == [tx EXCEPT !.routes = tx.gen]
    <3>2. tx' = SaveSnapshot(MarkStage(s, run.vid, "frameworks", "analyzing_structures"), run.tag)
      BY <1>1, <2>4 DEF DetectFrameworks, InSession, Database
    <3> HIDE DEF s
    <3>3. MarkStage(s, run.vid, "frameworks", "analyzing_structures") \in Database
          /\ SameScan(MarkStage(s, run.vid, "frameworks", "analyzing_structures"), s) /\ SameScan(s, tx)
      BY <2>0, <2>1, <3>1 DEF s
    <3>4. QED
      BY <3>2, <3>3 DEF SameScan
  <2>5. CASE StoreResults
    <3>1. LET s == [tx EXCEPT !.status[run.vid] = "storing"] IN s \in Database /\ SameScan(s, tx)
      BY <1>1, <2>0 DEF Database, SameScan
    <3>2. QED
      BY <2>5, <3>1 DEF StoreResults, InSession
  <2>6. QED
    BY <2>2, <2>3, <2>4, <2>5
<1>3. Joined(tx, run.vid)
  BY <1>1 DEF ScanInv, SessionJoined
<1>4. Joined(s, run.vid) /\ s.gen \in RunIds
  BY <1>1, <1>2, <1>3 DEF SameScan, Joined
<1>5. Joined(tx', run.vid)
  BY <1>1, <1>2, <1>4, SaveIsJoined
<1>6. NewestIsJoined' /\ OpenIsNewest'
  BY <1>1 DEF ScanInv, NewestIsJoined, OpenIsNewest, Newest, Joined, InProgressVersions, WithStatus
<1>7. QED
  BY <1>1, <1>5, <1>6 DEF ScanInv, OwnIsNewest, SessionJoined, Joined

\* A commit publishes a version newer than every other.
LEMMA PublishJoins ==
  ASSUME IInv, ScanInv, pc \in Owned, run.vid \in RunIds, tx' \in Database,
         Joined(tx', run.vid), tx'.status[run.vid] # "absent", SameElsewhere(tx', db),
         db' = tx', run' = run, pc' \in {"mark", "closing"}
  PROVE  ScanInv'
<1>1. \A w \in RunIds : db'.status[w] # "absent" => w <= run.vid
  BY ConstantsAssumption DEF ScanInv, OwnIsNewest
<1>2. ASSUME NEW v \in RunIds, Newest(db', v) PROVE v = run.vid
  <2>1. v <= run.vid /\ run.vid <= v
    BY <1>1, <1>2 DEF Newest
  <2>2. QED
    BY <2>1, ConstantsAssumption
<1>3. NewestIsJoined'
  BY <1>2 DEF NewestIsJoined, Newest, Joined
<1>4. InProgressVersions(db') \subseteq {run.vid}
  BY DEF IInv, OwnsVersion, InProgressVersions, WithStatus
<1>5. OpenIsNewest'
  <2>1. Newest(db', run.vid)
    BY <1>1 DEF Newest
  <2>2. QED
    BY <1>4, <2>1 DEF OpenIsNewest, Newest, InProgressVersions, WithStatus
<1>6. OwnIsNewest' /\ SessionJoined'
  BY <1>1 DEF OwnIsNewest, SessionJoined, Joined
<1>7. QED
  BY <1>3, <1>5, <1>6 DEF ScanInv

LEMMA CommitsJoin == ASSUME IInv, ScanInv, BuildStructures \/ CommitRun PROVE ScanInv'
<1>1. /\ pc \in {"structures", "commit"} /\ tx \in Database /\ db \in Database
      /\ run.vid \in RunIds /\ run' = run /\ SameElsewhere(tx, db)
  BY DEF BuildStructures, CommitRun, InSession, IInv, OwnsVersion, TypeOK
<1>2. CASE BuildStructures
  <2>1. PICK e \in SUBSET File, d \in SUBSET File :
          /\ tx' = [tx EXCEPT !.edges = e, !.deps = d, !.status[run.vid] = "analyzing_structures"]
          /\ db' \in {tx', db} /\ pc = "structures" /\ pc' = "mark"
    <3> DEFINE todo == IF run.full THEN File ELSE run.toParse
               e == (tx.edges \ todo) \cup (todo \cap tx.ast)
               d == IF run.full THEN tx.ast ELSE tx.deps \ todo
    <3>1. e \in SUBSET File /\ d \in SUBSET File
      BY <1>1 DEF IInv, TypeOK, Database, RunFields
    <3>2. /\ tx' = [tx EXCEPT !.edges = e, !.deps = d, !.status[run.vid] = "analyzing_structures"]
          /\ db' \in {tx', db} /\ pc = "structures" /\ pc' = "mark"
      BY <1>1, <1>2 DEF BuildStructures, InSession, Database
    <3> HIDE DEF e, d
    <3>3. QED
      BY <3>1, <3>2
  <2>2. /\ tx' \in Database /\ SameScan(tx', tx) /\ SameElsewhere(tx', tx)
        /\ tx'.status[run.vid] = "analyzing_structures"
    <3>1. "analyzing_structures" \in VersionStatus
      BY DEF VersionStatus, InProgressStatus
    <3>2. QED
      BY <1>1, <2>1, <3>1 DEF Database, SameScan
  <2>3. Joined(tx', run.vid)
    BY <2>1, <2>2 DEF ScanInv, SessionJoined, SameScan, Joined
  <2>4. CASE db' = tx'
    BY <1>1, <2>1, <2>2, <2>3, <2>4, PublishJoins
  <2>5. CASE db' = db
    <3>1. NewestIsJoined' /\ OpenIsNewest'
      BY <2>5 DEF ScanInv, NewestIsJoined, OpenIsNewest, Newest, Joined, InProgressVersions, WithStatus
    <3>2. QED
      BY <1>1, <2>1, <2>3, <2>5, <3>1 DEF ScanInv, OwnIsNewest, SessionJoined, Joined
  <2>6. QED
    BY <2>1, <2>4, <2>5
<1>3. CASE CommitRun
  <2>1. db' = tx /\ tx' = tx /\ pc = "commit" /\ pc' = "closing" /\ tx.status[run.vid] = "completed"
    BY <1>3 DEF CommitRun, InSession, IInv, ReadyToCommit
  <2>2. Joined(tx', run.vid)
    BY <2>1 DEF ScanInv, SessionJoined, Joined
  <2>3. QED
    BY <1>1, <2>1, <2>2, PublishJoins
<1>4. QED
  BY <1>2, <1>3

\* Steps of the session that keep what was scanned, the rollback of
\* save_snapshot to what is committed, and the end of the session.
LEMMA SessionKeepsScan ==
  ASSUME IInv, ScanInv,
         \/ DoAnalysisSetup \/ DiffFails \/ AnalyzeModules \/ StoreFails \/ Complete
         \/ \E p \in SUBSET Present(tx.files) : ComputeIncrementalDiff(p)
         \/ \E m \in Mode : BeginRun(m) /\ UNCHANGED db
  PROVE  ScanInv'
<1>1. db' = db /\ tx \in Database /\ db \in Database /\ run \in RunFields
  BY DEF DoAnalysisSetup, DiffFails, AnalyzeModules, StoreFails, Complete, ComputeIncrementalDiff,
         InSession, IInv, TypeOK
<1>2. NewestIsJoined' /\ OpenIsNewest'
  BY <1>1 DEF ScanInv, NewestIsJoined, OpenIsNewest, Newest, Joined, InProgressVersions, WithStatus
<1>3. CASE \E m \in Mode : BeginRun(m)
  <2> DEFINE open == InProgressVersions(db)
  <2>1. open \subseteq RunIds /\ \A v, w \in open : v = w
    BY DEF IInv, InProgressVersions, WithStatus, CommittedShape
  <2>2. open # {} => Max(open) \in open
    BY <2>1, NewestOfOne
  <2>3. CASE open = {}
    BY <1>1, <1>2, <1>3, <2>3 DEF BeginRun, ScanInv, OwnIsNewest, SessionJoined
  <2>4. CASE open # {}
    <3>1. run'.vid = Max(open) /\ pc' = "scan"
      BY <1>3, <2>4 DEF BeginRun, NoRun
    <3>2. QED
      BY <1>1, <1>2, <2>2, <2>4, <3>1 DEF ScanInv, OpenIsNewest, Newest, OwnIsNewest, SessionJoined
  <2>5. QED
    BY <2>3, <2>4
<1>4. CASE DoAnalysisSetup
  <2>1. pc' = "scan" /\ runs \in RunIds /\ run'.vid = runs
    BY <1>1, <1>4 DEF DoAnalysisSetup, InSession, IInv, AtSetup, RunFields
  <2>2. \A w \in RunIds : db.status[w] # "absent" => w <= runs
    BY <2>1, ConstantsAssumption DEF IInv, FreshRows
  <2>3. QED
    BY <1>1, <1>2, <2>1, <2>2 DEF ScanInv, OwnIsNewest, SessionJoined
<1>5. CASE DiffFails \/ \E p \in SUBSET Present(tx.files) : ComputeIncrementalDiff(p)
  <2>1. pc = "diff" /\ pc' = "parse" /\ tx' = tx
    BY <1>5 DEF DiffFails, ComputeIncrementalDiff, InSession
  <2>2. run'.vid = run.vid
    <3>1. CASE DiffFails
      BY <1>1, <3>1 DEF DiffFails, RunFields
    <3>2. ASSUME NEW p \in SUBSET Present(tx.files), ComputeIncrementalDiff(p)
          PROVE  run'.vid = run.vid
      <4>1. PICK b, q : run' = [run EXCEPT !.full = b, !.toParse = q]
        BY <3>2 DEF ComputeIncrementalDiff
      <4>2. QED
        BY <1>1, <4>1 DEF RunFields
    <3>3. QED
      BY <1>5, <3>1, <3>2
  <2>3. QED
    BY <1>1, <1>2, <2>1, <2>2 DEF ScanInv, OwnIsNewest, SessionJoined, Joined
<1>6. CASE AnalyzeModules \/ Complete
  <2>1. /\ pc \in {"ai", "complete"} /\ pc' \in {"store", "commit"} /\ run' = run
        /\ SameScan(tx', tx)
        /\ pc = "complete" => tx.status[run.vid] # "absent"
    BY <1>1, <1>6 DEF AnalyzeModules, Complete, InSession, Database, SameScan
  <2>2. Joined(tx', run.vid)
    BY <2>1 DEF ScanInv, SessionJoined, SameScan, Joined
  <2>3. QED
    BY <1>1, <1>2, <2>1, <2>2 DEF ScanInv, OwnIsNewest, SessionJoined, Joined
<1>7. CASE StoreFails
  <2>1. pc = "store" /\ pc' = "complete" /\ run' = run /\ tx' = db /\ run.vid \in RunIds
    BY <1>7 DEF StoreFails, InSession, IInv, OwnsVersion
  <2>2. db.status[run.vid] # "absent" => Joined(db, run.vid)
    BY <2>1 DEF ScanInv, OwnIsNewest, Newest, NewestIsJoined
  <2>3. QED
    BY <1>1, <1>2, <2>1, <2>2 DEF ScanInv, OwnIsNewest, SessionJoined, Joined
<1>8. QED
  BY <1>3, <1>4, <1>5, <1>6, <1>7

\* The steps outside the session change no version's visibility and no rows.
LEMMA OutsideKeepsScan ==
  ASSUME IInv, ScanInv, NEW v \in RunIds,
         \/ FailVersion \/ CancelVersion \/ FailRepo \/ CancelRepo \/ HandlerFails
         \/ SwitchVersion(v) \/ CompleteRaises \/ RunRaises \/ Interrupt \/ EndRun \/ Crash
         \/ UNCHANGED <<db, tx, pc, run>>
  PROVE  ScanInv'
<1>1. db \in Database /\ tx \in Database /\ run \in RunFields
  BY DEF IInv, TypeOK
<1>2. CASE FailVersion \/ CancelVersion
  <2>1. PICK final \in {"failed", "cancelled"} : CommitStatus(final)
    BY <1>2 DEF FailVersion, CancelVersion
  <2>2. pc' \notin SessionSteps /\ SameScan(db', db) /\ SameRows(db', db)
        /\ InProgressVersions(db') \subseteq InProgressVersions(db)
    <3>1. pc' \notin SessionSteps
      BY <1>2 DEF FailVersion, CancelVersion
    <3>2. CASE RowCommitted
      <4>1. /\ SameScan(db', db) /\ run.vid \in RunIds /\ db.status[run.vid] # "absent"
            /\ db'.status = [db.status EXCEPT ![run.vid] = final]
        BY <1>1, <2>1, <3>2 DEF CommitStatus, RowCommitted, Database, SameScan, RunFields
      <4>2. \A w \in RunIds : db'.status[w] = IF w = run.vid THEN final ELSE db.status[w]
        BY <1>1, <4>1 DEF Database
      <4>3. SameRows(db', db)
        BY <4>1, <4>2 DEF SameRows
      <4>4. InProgressVersions(db') \subseteq InProgressVersions(db)
        BY <4>2 DEF InProgressVersions, WithStatus, InProgressStatus
      <4>5. QED
        BY <3>1, <4>1, <4>3, <4>4
    <3>3. CASE ~RowCommitted
      BY <2>1, <3>1, <3>3 DEF CommitStatus, SameScan, SameRows
    <3>4. QED
      BY <3>2, <3>3
  <2>3. \A w \in RunIds : (Newest(db', w) <=> Newest(db, w)) /\ (Joined(db', w) <=> Joined(db, w))
    BY <2>2 DEF Newest, SameRows, SameScan, Joined
  <2>4. \A w \in RunIds : Newest(db', w) => Joined(db', w)
    BY <2>3 DEF ScanInv, NewestIsJoined
  <2>5. \A w \in InProgressVersions(db') : Newest(db', w)
    BY <2>2, <2>3 DEF ScanInv, OpenIsNewest, InProgressVersions, WithStatus
  <2>6. QED
    BY <2>2, <2>4, <2>5
       DEF ScanInv, NewestIsJoined, OpenIsNewest, OwnIsNewest, SessionJoined, Newest, Joined,
           InProgressVersions, WithStatus
<1>3. CASE FailRepo \/ CancelRepo
  <2>1. pc' \notin SessionSteps /\ SameScan(db', db) /\ db'.status = db.status
    BY <1>1, <1>3 DEF FailRepo, CancelRepo, Database, SameScan
  <2>2. QED
    BY <2>1 DEF ScanInv, NewestIsJoined, OpenIsNewest, OwnIsNewest, SessionJoined, Newest, Joined,
                SameScan, InProgressVersions, WithStatus
<1>4. CASE SwitchVersion(v)
  <2>1. /\ SameScan(db', db) /\ db'.status = db.status /\ SameScan(tx', tx)
        /\ tx'.status = tx.status /\ pc' = pc /\ run' = run
    BY <1>1, <1>4 DEF SwitchVersion, Database, SameScan
  <2>2. QED
    BY <2>1 DEF ScanInv, NewestIsJoined, OpenIsNewest, OwnIsNewest, SessionJoined, Newest, Joined,
                SameScan, InProgressVersions, WithStatus
<1>5. CASE HandlerFails \/ CompleteRaises \/ RunRaises \/ Interrupt \/ EndRun \/ Crash
  <2>1. pc' \notin SessionSteps /\ db' = db
    BY <1>5 DEF HandlerFails, CompleteRaises, RunRaises, Interrupt, EndRun, Crash, InSession
  <2>2. QED
    BY <2>1 DEF ScanInv, NewestIsJoined, OpenIsNewest, OwnIsNewest, SessionJoined, Newest, Joined,
                InProgressVersions, WithStatus
<1>6. CASE UNCHANGED <<db, tx, pc, run>>
  BY <1>6 DEF ScanInv, NewestIsJoined, OpenIsNewest, OwnIsNewest, SessionJoined, Newest, Joined,
              InProgressVersions, WithStatus
<1>7. QED
  BY <1>2, <1>3, <1>4, <1>5, <1>6

LEMMA ScanInvStep == ASSUME IInv, ScanInv, [Next]_vars PROVE ScanInv'
<1>1. 1 \in RunIds
  BY ConstantsAssumption
<1>2. CASE RunStep
  BY <1>1, <1>2, ScanJoins, MilestoneJoins, CommitsJoin, SessionKeepsScan, OutsideKeepsScan
     DEF RunStep
<1>3. CASE \E m \in Mode : Submit(m) \/ Redeliver(m)
  BY <1>3, SessionKeepsScan DEF Submit, Redeliver
<1>4. CASE \E v \in RunIds : SwitchVersion(v)
  BY <1>4, OutsideKeepsScan
<1>5. CASE HandlerFails \/ Interrupt \/ Crash
  BY <1>1, <1>5, OutsideKeepsScan
<1>6. CASE UNCHANGED <<db, tx, pc, run>>
  BY <1>1, <1>6, OutsideKeepsScan
<1>7. QED
  BY <1>2, <1>3, <1>4, <1>5, <1>6 DEF Next, vars, EditFile, SubmitUnchanged

\* The newest version a reader sees has a snapshot that joins with all of
\* `files`, although snapshots are saved by five steps, one of which may roll
\* all of them back, a resumed run rescans under its old tag, and a switch may
\* name any older version: when that version is completed, the 304 test
\* compares it with the files table row by row.
THEOREM NewestSnapshotJoins == Spec => []NewestSnapshotReadable
<1>1. Init => ScanInv
  BY DEF Init, NewRepository, ScanInv, NewestIsJoined, OpenIsNewest, OwnIsNewest, SessionJoined,
         Newest, InProgressVersions, WithStatus, InProgressStatus
<1>2. IInv /\ ScanInv /\ [Next]_vars => ScanInv'
  BY ScanInvStep
<1>3. ScanInv => NewestSnapshotReadable
  BY DEF ScanInv, NewestIsJoined, Joined, NewestSnapshotReadable, ReadSnapshot
<1>4. QED
  BY <1>1, <1>2, <1>3, InductiveInvariant, PTL DEF Spec
=============================================================================
