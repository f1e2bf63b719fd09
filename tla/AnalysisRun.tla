---------------------------- MODULE AnalysisRun ----------------------------
(***************************************************************************)
(* One repository's analysis runs: AnalysisOrchestrator._run_async and the *)
(* handlers around it, executed by one worker at a time.                   *)
(*                                                                         *)
(* A run works in ONE database session.  `tx` is what that session sees    *)
(* (its own flushed, uncommitted writes), `db` is what is committed and    *)
(* what every other session, and the next run after a crash, sees.  Only   *)
(* BuildStructures in incremental mode and CommitRun copy tx into db;      *)
(* fail() and cancel() open sessions of their own and commit twice.        *)
(*                                                                         *)
(* Abstractions: a file's bytes are its content hash; AST nodes, call      *)
(* edges and module dependencies are the sets of files that have any; the  *)
(* rows of `files` written by one scan form a generation, named by the run *)
(* that scanned; a snapshot of a tag is the set of generations it was      *)
(* taken of (file_id is set to NULL when a generation is deleted, so only  *)
(* the generation now in `files` can be read back from it).                *)
(***************************************************************************)
EXTENDS Integers, FiniteSets, FiniteSetsExt

CONSTANTS
  File,        \* paths the working tree may hold
  Content,     \* content hashes
  Missing,     \* "no such file"
  Parsable,    \* the files ParserFactory has a parser for
  MaxRuns,     \* bound: runs ever started
  MaxTag,      \* bound: version tags, ordered as the strings are
  MaxEdits,    \* bound: edits of the working tree
  FallbackNum, FallbackDen   \* incremental_max_change_ratio = Num / Den

ASSUME ConstantsAssumption ==
  /\ IsFiniteSet(File) /\ Parsable \subseteq File
  /\ Missing \notin Content /\ Content # {}
  /\ MaxRuns \in Nat \ {0} /\ MaxTag \in Nat \ {0} /\ MaxEdits \in Nat
  /\ FallbackNum \in Nat /\ FallbackDen \in Nat \ {0}

VARIABLES
  disk,     \* the working tree: [File -> Content \cup {Missing}]
  edits,    \* edits of the working tree so far
  db,       \* committed state
  tx,       \* the run's session: db plus its own uncommitted writes
  pc,       \* the step the run is about to take, "idle" when none runs
  run,      \* the orchestrator's own fields
  runs,     \* runs started so far: the newest one's number
  unacked,  \* a worker died holding the message: the broker may redeliver it
  reply     \* what submit_analysis last answered

vars == <<disk, edits, db, tx, pc, run, runs, unacked, reply>>

RunIds == 1..MaxRuns       \* a version row is named by the run that created it
Tag    == 1..MaxTag
NoTag  == 0
Tree   == [File -> Content \cup {Missing}]
Empty  == [f \in File |-> Missing]
Present(tree) == {f \in File : tree[f] # Missing}

InProgressStatus ==
  {"pending", "scanning", "parsing", "analyzing_structures", "analyzing_modules", "storing"}
FinalStatus == {"completed", "failed", "cancelled"}
VersionStatus == {"absent"} \cup InProgressStatus \cup FinalStatus
Mode  == {"full", "incremental"}
Stage == {"ast", "structures", "frameworks"}

Database ==
  [ status : [RunIds -> VersionStatus],       \* analysis_versions.status
    tag    : [RunIds -> Tag \cup {NoTag}],    \* analysis_versions.version
    stages : [RunIds -> SUBSET Stage],        \* analysis_versions.stages_completed
    repo   : {"analyzing"} \cup FinalStatus,  \* repositories.status
    current: Tag \cup {NoTag},                \* repositories.current_version
    files  : Tree,                            \* files.content_hash
    gen    : RunIds \cup {0},                 \* the scan that wrote files
    ast    : SUBSET File,                     \* files with ast_nodes
    edges  : SUBSET File,                     \* files with call edges
    deps   : SUBSET File,                     \* files with module dependencies
    routes : RunIds \cup {0},                 \* generation routes, frameworks come from
    snap   : [Tag -> SUBSET RunIds] ]         \* file_analysis_snapshots

\* After create_repository: committed as "analyzing", nothing analysed yet.
NewRepository ==
  [ status |-> [v \in RunIds |-> "absent"], tag |-> [v \in RunIds |-> NoTag],
    stages |-> [v \in RunIds |-> {}], repo |-> "analyzing", current |-> NoTag,
    files |-> Empty, gen |-> 0, ast |-> {}, edges |-> {}, deps |-> {},
    routes |-> 0,
    snap |-> [t \in Tag |-> {}] ]

NoRun == [mode |-> "full", vid |-> 0, tag |-> NoTag, resumed |-> FALSE,
          full |-> TRUE, toParse |-> {}]
RunFields == [mode : Mode, vid : RunIds \cup {0}, tag : Tag \cup {NoTag},
              resumed : BOOLEAN, full : BOOLEAN, toParse : SUBSET File]

\* Steps inside the session's `async with`, in program order.
SessionSteps == {"setup", "scan", "diff", "parse", "structures", "mark", "frameworks",
                 "ai", "store", "complete", "commit"}
Steps == SessionSteps \cup {"idle", "closing", "fail", "failRepo", "cancel", "cancelRepo"}

----------------------------------------------------------------------------
(* What the queries of the DAOs return. *)

WithStatus(s, set) == {v \in RunIds : s.status[v] \in set}

\* Versions not in a final state; the newest one is the run to resume.
InProgressVersions(s) == WithStatus(s, InProgressStatus)

\* SELECT max(analysis_version): over every tag that has snapshot rows.
SnapshotTags(s) == {t \in Tag : s.snap[t] # {}}

\* The snapshot of tag t joined with the rows of `files` by file_id.
ReadSnapshot(s, t) == IF s.gen \in s.snap[t] THEN s.files ELSE Empty

\* Mutant of SaveSnapshot: a tag that already has a snapshot is left alone.
SaveSnapshotOnce(s, t) ==
  IF Present(s.files) = {} \/ s.snap[t] # {} THEN s
  ELSE [s EXCEPT !.snap[t] = @ \cup {s.gen}]

\* save_snapshot writes one row per file, and nothing for an empty tree.
SaveSnapshot(s, t) ==
  IF Present(s.files) = {} THEN s ELSE [s EXCEPT !.snap[t] = @ \cup {s.gen}]

\* stages_completed is a plain JSONB column: the first stage stores a new
\* dict, the later ones mutate the loaded dict in place and assign the same
\* object back, which the unit of work does not see as a change.
MarkStage(s, v, stage, status) ==
  [s EXCEPT !.stages[v] = IF @ = {} THEN {stage} ELSE @, !.status[v] = status]

\* submit_analysis's test for "nothing to do".
NoContentChange(s) ==
  LET done == WithStatus(s, {"completed"})
  IN  /\ done # {}
      /\ WithStatus(s, {"failed"}) = {}
      /\ ReadSnapshot(s, s.tag[Max(done)]) = s.files

----------------------------------------------------------------------------
Init ==
  /\ disk \in Tree /\ edits = 0
  /\ db = NewRepository /\ tx = db
  /\ pc = "idle" /\ run = NoRun /\ runs = 0
  /\ unacked = FALSE /\ reply = "none"

\* The user edits, adds or deletes a file of the working tree at any time.
EditFile(f, c) ==
  /\ edits < MaxEdits /\ disk[f] # c
  /\ disk' = [disk EXCEPT ![f] = c] /\ edits' = edits + 1
  /\ UNCHANGED <<db, tx, pc, run, runs, unacked, reply>>

\* Mutant of BeginRun: always a new version, never a resumed one.
BeginRunAfresh(m) ==
  /\ pc = "idle" /\ runs < MaxRuns
  /\ runs' = runs + 1 /\ tx' = db
  /\ run' = [NoRun EXCEPT !.mode = m] /\ pc' = "setup"

\* A worker starts _run_async: it looks for a version in progress, in a
\* session of its own, and opens the shared session.  The newest version in
\* progress is resumed with skip_to_step = "frameworks" (see CommittedShape:
\* no other status is ever found), which skips the setup.
BeginRun(m) ==
  LET open == InProgressVersions(db)
  IN  /\ pc = "idle" /\ runs < MaxRuns
      /\ runs' = runs + 1 /\ tx' = db
      /\ run' = IF open = {} THEN [NoRun EXCEPT !.mode = m]
                ELSE [NoRun EXCEPT !.mode = m, !.vid = Max(open),
                                   !.tag = db.tag[Max(open)], !.resumed = TRUE]
      /\ pc' = IF open = {} THEN "setup" ELSE "scan"

\* POST /repositories/{id}/analyze answers 304, or triggers a run.
SubmitUnchanged ==
  /\ pc = "idle" /\ NoContentChange(db)
  /\ reply' = "not_modified"
  /\ UNCHANGED <<disk, edits, db, tx, pc, run, runs, unacked>>

Submit(m) ==
  /\ ~NoContentChange(db) /\ BeginRun(m)
  /\ reply' = "accepted"
  /\ UNCHANGED <<disk, edits, db, unacked>>

\* Celery acks late: the message of a dead worker is delivered again, and
\* run_analysis starts without the checks of submit_analysis.
Redeliver(m) ==
  /\ unacked /\ BeginRun(m) /\ unacked' = FALSE
  /\ UNCHANGED <<disk, edits, db, reply>>

\* Every step up to the commit writes the session only.
InSession(step, next, newTx) ==
  /\ pc = step /\ pc' = next /\ tx' = newTx
  /\ UNCHANGED <<disk, edits, runs, unacked, reply>>

DoAnalysisSetup ==
  /\ InSession("setup", "scan",
               [tx EXCEPT !.status[runs] = "pending", !.repo = "analyzing"])
  /\ run' = [run EXCEPT !.vid = runs] /\ UNCHANGED db

\* The scan names the version by day and commit, replaces every row of
\* `files` (AST nodes, call edges and dependencies go with them by ON DELETE
\* CASCADE), publishes the tag as the repository's current version and saves
\* the "scan" snapshot.  UNIQUE(repository_id, version): a tag another row
\* holds raises, which is the step RunRaises.
ScanFiles(t) ==
  LET scanned == [tx EXCEPT !.status[run.vid] = "scanning", !.tag[run.vid] = t,
                            !.current = t, !.files = disk, !.gen = runs,
                            !.ast = {}, !.edges = {}, !.deps = {}]
  IN  /\ pc = "scan" /\ \A v \in RunIds \ {run.vid} : tx.tag[v] # t
      /\ InSession("scan", "diff", SaveSnapshot(scanned, t))
      /\ run' = [run EXCEPT !.tag = t] /\ UNCHANGED db

\* The base tag is read in the session, so it counts this run's own scan
\* snapshot; the base snapshot and the files it is joined with are read in
\* another session, so both are the committed ones.
ComputeIncrementalDiff(propagated) ==
  LET base     == Max(SnapshotTags(tx))
      previous == ReadSnapshot(db, base)
      changed  == {f \in File : tx.files[f] # previous[f]}
      affected == changed \cup propagated
      total    == Cardinality(Present(tx.files))
      noBase   == run.mode = "full" \/ SnapshotTags(tx) = {}
      full     == \/ noBase
                  \/ Cardinality(affected) * FallbackDen
                       > FallbackNum * (IF total = 0 THEN 1 ELSE total)
  IN  /\ noBase \/ changed = {} => propagated = {}
      /\ InSession("diff", "parse", tx)
      /\ run' = [run EXCEPT !.full = full,
                            !.toParse = IF full THEN {} ELSE affected \cap Present(tx.files)]
      /\ UNCHANGED db

\* Any exception while diffing falls back to the full analysis.
DiffFails ==
  /\ run.mode = "incremental"
  /\ InSession("diff", "parse", tx)
  /\ run' = [run EXCEPT !.full = TRUE, !.toParse = {}] /\ UNCHANGED db

\* parse_ast / parse_ast_incremental: nodes of the files to parse are deleted
\* and written again from what the working tree holds NOW; a file that is
\* gone or has no parser is skipped.  Then the "ast" milestone.
ParseAst ==
  LET todo   == IF run.full THEN File ELSE run.toParse
      parsed == {f \in todo \cap Parsable : tx.files[f] # Missing /\ disk[f] # Missing}
      written == [tx EXCEPT !.ast = (@ \ todo) \cup parsed]
  IN  /\ InSession("parse", "structures",
                   SaveSnapshot(MarkStage(written, run.vid, "ast", "parsing"), run.tag))
      /\ UNCHANGED <<run, db>>

\* Mutant of BuildStructures: the status is written after the commit.
BuildStructuresLateStatus ==
  LET todo  == IF run.full THEN File ELSE run.toParse
      built == [tx EXCEPT !.edges = (@ \ todo) \cup (todo \cap tx.ast),
                          !.deps = IF run.full THEN tx.ast ELSE @ \ todo]
      commits == ~run.full /\ run.toParse # {}
  IN  /\ InSession("structures", "mark",
                   [built EXCEPT !.status[run.vid] = "analyzing_structures"])
      /\ db' = IF commits THEN built ELSE db
      /\ UNCHANGED run

\* build_structures / build_structures_incremental.  The incremental builder
\* commits the shared session; it does nothing when nothing is to be parsed.
\* For the dependencies it keeps the import nodes whose file_path is in the
\* list of relative paths, and AST nodes carry absolute ones: it finds none.
BuildStructures ==
  LET todo  == IF run.full THEN File ELSE run.toParse
      built == [tx EXCEPT !.edges = (@ \ todo) \cup (todo \cap tx.ast),
                          !.deps = IF run.full THEN tx.ast ELSE @ \ todo,
                          !.status[run.vid] = "analyzing_structures"]
      commits == ~run.full /\ run.toParse # {}
  IN  /\ InSession("structures", "mark", built)
      /\ db' = IF commits THEN built ELSE db
      /\ UNCHANGED run

\* The milestone after step 4; a resumed run then jumps over step 4.5.
MarkStructures ==
  /\ InSession("mark", IF run.resumed THEN "ai" ELSE "frameworks",
       SaveSnapshot(MarkStage(tx, run.vid, "structures", "analyzing_structures"), run.tag))
  /\ UNCHANGED <<run, db>>

DetectFrameworks ==
  LET detected == [tx EXCEPT !.routes = tx.gen]
  IN  /\ InSession("frameworks", "ai",
           SaveSnapshot(MarkStage(detected, run.vid, "frameworks", "analyzing_structures"),
                        run.tag))
      /\ UNCHANGED <<run, db>>

AnalyzeModules ==
  /\ InSession("ai", "store", [tx EXCEPT !.status[run.vid] = "analyzing_modules"])
  /\ UNCHANGED <<run, db>>

\* save_snapshot; when it fails it rolls the whole session back and goes on.
StoreResults ==
  /\ InSession("store", "complete",
       SaveSnapshot([tx EXCEPT !.status[run.vid] = "storing"], run.tag))
  /\ UNCHANGED <<run, db>>

StoreFails ==
  /\ InSession("store", "complete", db) /\ UNCHANGED <<run, db>>

\* complete() updates the version row it finds; after a rollback of a run
\* that never committed there is none, and version_dao.update raises.
Complete ==
  /\ pc = "complete" /\ tx.status[run.vid] # "absent"
  /\ InSession("complete", "commit",
       [tx EXCEPT !.status[run.vid] = "completed", !.repo = "completed"])
  /\ UNCHANGED <<run, db>>

CompleteRaises ==
  /\ pc = "complete" /\ tx.status[run.vid] = "absent"
  /\ InSession("complete", "fail", db) /\ UNCHANGED <<run, db>>

CommitRun ==
  /\ InSession("commit", "closing", tx) /\ db' = tx /\ UNCHANGED run

\* The session is closed and _run_async returns.
EndRun ==
  /\ pc = "closing" /\ pc' = "idle" /\ run' = NoRun
  /\ UNCHANGED <<disk, edits, db, tx, runs, unacked, reply>>

\* An exception leaves the session without a commit: run() or the eager
\* wrapper calls fail(None, ...).
RunRaises ==
  /\ pc \in SessionSteps /\ pc' = "fail" /\ tx' = db
  /\ UNCHANGED <<disk, edits, db, run, runs, unacked, reply>>

\* The eager wrapper's timeout or the user's cancellation is delivered at the
\* next await, the one that closes the session after the commit included.
Interrupt ==
  /\ pc \in SessionSteps \cup {"closing"} /\ tx' = db
  /\ pc' \in {"fail", "cancel"}
  /\ UNCHANGED <<disk, edits, db, run, runs, unacked, reply>>

\* One update of the version row, if it was ever committed, in its own session.
RowCommitted == run.vid # 0 /\ db.status[run.vid] # "absent"
CommitStatus(status) ==
  db' = IF RowCommitted THEN [db EXCEPT !.status[run.vid] = status] ELSE db

\* fail(None, msg): version row, then repository, in two transactions; a
\* missing version row is logged and ignored, as a failure of either is.
FailVersion ==
  /\ pc = "fail" /\ pc' = "failRepo"
  /\ CommitStatus("failed") /\ tx' = db'
  /\ UNCHANGED <<disk, edits, run, runs, unacked, reply>>

FailRepo ==
  /\ pc = "failRepo" /\ pc' = "idle" /\ run' = NoRun
  /\ db' = [db EXCEPT !.repo = "failed"] /\ tx' = db'
  /\ UNCHANGED <<disk, edits, runs, unacked, reply>>

\* Mutant of CancelVersion: it waits for a row that will never be committed.
CancelVersionWaits ==
  /\ pc = "cancel" /\ RowCommitted /\ pc' = "cancelRepo"
  /\ CommitStatus("cancelled") /\ tx' = db'
  /\ UNCHANGED <<disk, edits, run, runs, unacked, reply>>

\* cancel(None): the same two transactions, but a missing version row ends
\* the handler before the repository is updated.
CancelVersion ==
  /\ pc = "cancel"
  /\ CommitStatus("cancelled") /\ tx' = db'
  /\ IF RowCommitted
     THEN pc' = "cancelRepo" /\ UNCHANGED run
     ELSE pc' = "idle" /\ run' = NoRun
  /\ UNCHANGED <<disk, edits, runs, unacked, reply>>

CancelRepo ==
  /\ pc = "cancelRepo" /\ pc' = "idle" /\ run' = NoRun
  /\ db' = [db EXCEPT !.repo = "cancelled"] /\ tx' = db'
  /\ UNCHANGED <<disk, edits, runs, unacked, reply>>

HandlerSteps == {"fail", "failRepo", "cancel", "cancelRepo"}

\* Mutant of HandlerFails: cancel() logs the exception and goes on, as fail() does.
HandlerFailsOnward ==
  /\ pc \in HandlerSteps /\ tx' = db
  /\ CASE pc = "fail"   -> pc' = "failRepo" /\ UNCHANGED run
       [] pc = "cancel" -> pc' = "cancelRepo" /\ UNCHANGED run
       [] OTHER         -> pc' = "idle" /\ run' = NoRun
  /\ UNCHANGED <<disk, edits, db, runs, unacked, reply>>

\* A transaction of a handler fails.  fail() logs it and goes on from the
\* version to the repository; cancel() raises, and its caller logs that.
HandlerFails ==
  /\ pc \in HandlerSteps /\ tx' = db
  /\ IF pc = "fail" THEN pc' = "failRepo" /\ UNCHANGED run
                    ELSE pc' = "idle" /\ run' = NoRun
  /\ UNCHANGED <<disk, edits, db, runs, unacked, reply>>

\* POST switch-version: current_version names any completed version.  The
\* update waits for the lock of the repository's row, which the run's session
\* holds from its first change of that row to the commit.
SwitchVersion(v) ==
  /\ db.status[v] = "completed" /\ db.tag[v] # db.current
  /\ tx.repo = db.repo /\ tx.current = db.current /\ pc # "commit"
  /\ db' = [db EXCEPT !.current = db.tag[v]]
  /\ tx' = [tx EXCEPT !.current = db.tag[v]]
  /\ UNCHANGED <<disk, edits, pc, run, runs, unacked, reply>>

\* The process dies: uncommitted work is gone, no handler runs.
Crash ==
  /\ pc # "idle" /\ pc' = "idle" /\ run' = NoRun /\ tx' = db
  /\ unacked' = TRUE
  /\ UNCHANGED <<disk, edits, db, runs, reply>>

RunStep ==
  \/ DoAnalysisSetup
  \/ \E t \in Tag : ScanFiles(t)
  \/ \E p \in SUBSET Present(tx.files) : ComputeIncrementalDiff(p)
  \/ DiffFails
  \/ ParseAst \/ BuildStructures \/ MarkStructures \/ DetectFrameworks
  \/ AnalyzeModules \/ StoreResults \/ StoreFails
  \/ Complete \/ CompleteRaises \/ CommitRun \/ EndRun
  \/ RunRaises
  \/ FailVersion \/ FailRepo \/ CancelVersion \/ CancelRepo

Next ==
  \/ \E f \in File, c \in Content \cup {Missing} : EditFile(f, c)
  \/ SubmitUnchanged
  \/ \E m \in Mode : Submit(m)
  \/ \E m \in Mode : Redeliver(m)
  \/ \E v \in RunIds : SwitchVersion(v)
  \/ RunStep
  \/ HandlerFails
  \/ Interrupt
  \/ Crash

Spec == Init /\ [][Next]_vars

\* The event loop or the worker keeps running the run it started.
FairSpec == Spec /\ WF_vars(RunStep)

----------------------------------------------------------------------------
(* What another session, or the next run after a crash, can rely on. *)

\* Type invariant.
TypeOK ==
  /\ disk \in Tree /\ edits \in 0..MaxEdits
  /\ db \in Database /\ tx \in Database
  /\ pc \in Steps /\ run \in RunFields /\ runs \in 0..MaxRuns
  /\ unacked \in BOOLEAN /\ reply \in {"none", "accepted", "not_modified"}

\* A version the next run finds in progress is the only one and stands at
\* analyzing_structures with its AST milestone recorded, so that
\* get_in_progress_version's other branches (pending, scanning, parsing,
\* analyzing_modules, storing) are never taken.  Meanwhile the repository is
\* shown as analyzing, or as failed when fail() could not mark the version,
\* and its current version is that one or a completed one it was switched to.
CommittedShape ==
  LET open == InProgressVersions(db)
  IN  /\ \A v, w \in open : v = w
      /\ \A v \in open :
           /\ db.status[v] = "analyzing_structures" /\ db.stages[v] = {"ast"}
           /\ \E w \in RunIds :
                db.tag[w] = db.current /\ (w = v \/ db.status[w] = "completed")
      /\ open # {} => db.repo \in {"analyzing", "failed"}

\* A repository shown as completed has as its current version one in a final
\* state, never one that is still being analysed.  It need not be the one
\* whose scan wrote `files`: SwitchVersion moves the name alone.
RepoCompletedIsCurrent ==
  db.repo = "completed" =>
    \E v \in RunIds : db.tag[v] = db.current /\ db.status[v] \in FinalStatus

\* The newest version another session can see.
Newest(s, v) ==
  s.status[v] # "absent" /\ \A w \in RunIds : s.status[w] # "absent" => w <= v

\* The rows of `files` belong to the newest visible version: its snapshot,
\* read back by file_id, gives exactly them, whatever runs failed, were rolled
\* back to a savepoint or resumed under their old tag since.  When that
\* version is completed it is the one the 304 test reads, which then compares
\* all the files, and not a snapshot whose file_id are NULL.
NewestSnapshotReadable ==
  \A v \in RunIds : Newest(db, v) => ReadSnapshot(db, db.tag[v]) = db.files

\* Analysis data (files, nodes, edges, routes, snapshots) changes only in a
\* commit that also shows the run's version as checkpointed or completed: a
\* failed, cancelled or crashed run leaves the data of the previous one
\* untouched.  The current version only ever moves to such a version.
Data(s) == <<s.files, s.gen, s.ast, s.edges, s.deps, s.routes, s.snap>>
Visible == {"analyzing_structures", "completed"}
DataMovesWithVersion ==
  [][/\ Data(db') # Data(db) => run.vid \in RunIds /\ db'.status[run.vid] \in Visible
     /\ db'.current # db.current =>
          \E v \in RunIds : db'.tag[v] = db'.current /\ db'.status[v] \in Visible]_vars

\* The committed statuses of versions and repository go through the steps of
\* VersionLedger only: published, checkpointed, abandoned, settled.
Ledger == INSTANCE VersionLedger WITH Version <- RunIds, status <- db.status, repo <- db.repo
LedgerSpec == Ledger!Spec

\* Every run that starts ends: no step is left without an exit.
RunEnds == pc # "idle" ~> pc = "idle"

----------------------------------------------------------------------------
(* What the repository's documents say of a run. *)

\* "each step commit()s on its own ... data is persisted when a step is done":
\* once a step after the AST is reached, the version is committed.
StepResultsDurable ==
  pc \in {"structures", "mark", "frameworks", "ai", "store", "complete"} =>
    db.status[run.vid] # "absent"

\* "ANALYZING_STRUCTURES -> skip the structure analysis, only run the
\* framework detection": what a resumed run publishes has the routes and the
\* frameworks of the files it publishes.
ResumeDetectsFrameworks ==
  [][run.resumed /\ pc = "commit" /\ pc' = "closing" => db'.routes = db'.gen]_vars

\* "only delete the nodes of changed files, keep those of unchanged files".
UnchangedFilesKeepNodes ==
  [][\A f \in db.ast :
       ~run.full /\ f \notin run.toParse /\ db'.files[f] = db.files[f] => f \in db'.ast]_vars

\* build_data_for_files, "build the module dependencies of the given files":
\* an incremental run has those of the files it parsed.
ParsedFilesHaveDeps ==
  pc = "mark" /\ ~run.full => run.toParse \cap tx.ast \subseteq tx.deps

\* stages_completed records the AST, structure and framework stages.
CompletedStagesRecorded ==
  \A v \in RunIds : db.status[v] = "completed" => "structures" \in db.stages[v]

\* "has no content changes since version": 304 is answered only when the
\* working tree is what the last scan stored.
NotModifiedIsTrue ==
  [][SubmitUnchanged => disk = db.files]_vars

\* "the cancellation branch persists the final state": where the database
\* answers, cancelling a run that has created its version leaves it cancelled.
CancelIsPersisted ==
  [][CancelVersion /\ run.vid # 0 => db'.status[run.vid] = "cancelled"]_vars
=============================================================================
