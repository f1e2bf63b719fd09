--------------------------- MODULE KnowledgeStore ---------------------------
(***************************************************************************)
(* The knowledge points of a repository in PostgreSQL and their documents  *)
(* in Meilisearch, written by an analysis run, by the retry of a category  *)
(* and by a switch of the current version at the same time.                *)
(*                                                                         *)
(* The database commits and rolls back and makes writers of a row wait for *)
(* each other; the index does what it is told at once, or fails.  Runs     *)
(* follow one another (TaskLifecycle, AnalysisRun); what a retry creates   *)
(* and reports is module CategoryRetry.                                    *)
(***************************************************************************)
EXTENDS Naturals, FiniteSets

CONSTANTS Point,      \* rows of knowledge_points, by id
          File,
          SnippetOf,  \* point -> the file its code snippets are from, or NoFile
          NoFile,
          CategoryOf, \* point -> its category
          MaxVersion, \* bound: versions of the repository
          PageSize,   \* default limit of KnowledgePointDAO.list
          MaxFaults   \* bound: calls of Meilisearch, snapshots and runs that fail

ASSUME StoreAssumption ==
  /\ NoFile \notin File /\ SnippetOf \in [Point -> File \cup {NoFile}]
  /\ MaxVersion \in Nat /\ PageSize \in Nat /\ MaxFaults \in Nat
  /\ IsFiniteSet(Point)

Version == 1..MaxVersion
None == 0

VARIABLES rows,      \* committed: point -> version, None where there is no row
          status,    \* committed: version -> status
          current,   \* committed: repositories.current_version
          index,     \* documents under the id of a row: point -> version
          copies,    \* versions with documents under ids of their own
          adrift,    \* history: points whose last document call failed or will not be committed
          faults,    \* history: what has failed
          run,       \* the analysis run
          retry,     \* the retry of a category
          switch     \* the call of switch_version or rollback_version

database == <<rows, status, current>>
documents == <<index, copies, adrift, faults>>
vars == <<database, documents, run, retry, switch>>

Statuses == {"absent", "open", "completed", "failed"}
With(s) == {v \in Version : status[v] = s}
Latest(versions) == CHOOSE v \in versions : \A w \in versions : w <= v

(* moved, deleted and created are the open transaction of the run, todo the *)
(* points of the previous version it has still to look at; holds: it has    *)
(* written the row of the repository; lost: it was rolled back and went on. *)
RunFields ==
  [pc : {"structures", "keep", "persist", "copy", "store", "commit"},
   v : Version, prev : Version \cup {None}, affected : SUBSET File, incremental : BOOLEAN,
   holds : BOOLEAN, lost : BOOLEAN, todo : SUBSET Point, moved : SUBSET Point, deleted : SUBSET Point,
   created : SUBSET Point]
NoRun == [pc |-> "idle"]

RetryFields == [pc : {"drop", "graph"}, points : SUBSET Point, todo : SUBSET Point]
NoRetry == [pc |-> "idle"]
SwitchFields == [pc : {"write"}, to : Version, seen : Version \cup {None}]
NoSwitch == [pc |-> "idle"]

Running == run # NoRun
Written == IF Running THEN run.moved \cup run.deleted \cup run.created ELSE {}
Locked  == IF retry.pc = "graph" THEN retry.points ELSE {}

(* The version of a row as the session that wrote it last sees it.          *)
View(p) == IF p \notin Written THEN rows[p]
           ELSE IF p \in run.deleted THEN None ELSE run.v

Init ==
  /\ rows = [p \in Point |-> None]
  /\ status = [v \in Version |-> "absent"] /\ current = None
  /\ index = rows /\ copies = {} /\ adrift = {} /\ faults = 0
  /\ run = NoRun /\ retry = NoRetry /\ switch = NoSwitch

Fault == faults < MaxFaults /\ faults' = faults + 1

(* Meilisearch takes the documents, or the exception is logged.             *)
Sync(points, version) ==
  \/ /\ index' = [p \in Point |-> IF p \in points THEN version ELSE index[p]]
     /\ adrift' = adrift \ points /\ UNCHANGED faults
  \/ /\ Fault /\ adrift' = adrift \cup points /\ UNCHANGED index

----------------------------------------------------------------------------
(* The analysis run                                                         *)

(* Setup and scan: an open version is resumed.  The scan makes it current   *)
(* in the run's transaction.                                                *)
StartRun(incremental, affected) ==
  /\ ~Running
  /\ incremental => With("completed") # {}
  /\ \E v \in IF With("open") # {} THEN {Latest(With("open"))}
              ELSE {w \in Version : \A x \in Version : x < w <=> status[x] # "absent"},
        holds \in IF current # None /\ status[current] = "open" THEN BOOLEAN ELSE {TRUE} :
       run' = [pc |-> "structures", v |-> v, prev |-> None, affected |-> affected,
               incremental |-> incremental, holds |-> holds, lost |-> FALSE, todo |-> {}, moved |-> {},
               deleted |-> {}, created |-> {}]
  /\ UNCHANGED <<database, documents, retry, switch>>

Announced == IF run.holds THEN run.v ELSE current

(* build_structures_incremental commits the session it was given.           *)
Structures ==
  /\ run.pc = "structures"
  /\ IF run.incremental /\ run.affected # {}
     THEN /\ status' = [status EXCEPT ![run.v] = "open"] /\ current' = Announced
          /\ run' = [run EXCEPT !.pc = "keep", !.holds = FALSE]
     ELSE run' = [run EXCEPT !.pc = "keep"] /\ UNCHANGED <<status, current>>
  /\ UNCHANGED <<rows, documents, retry, switch>>

(* An incremental run lists a page of the points of the latest completed    *)
(* version; all of a run's points have one created_at, so any may be on it. *)
ListPrevious ==
  /\ run.pc = "keep" /\ run.prev = None
  /\ IF ~run.incremental THEN run' = [run EXCEPT !.pc = "persist"]
     ELSE LET prev == Latest(With("completed"))
              points == {p \in Point : rows[p] = prev}
          IN \E page \in SUBSET points :
               /\ Cardinality(page) = IF Cardinality(points) < PageSize THEN Cardinality(points)
                                      ELSE PageSize
               /\ run' = [run EXCEPT !.prev = prev, !.todo = page]
  /\ UNCHANGED <<database, documents, retry, switch>>

(* Mutant: a point without a changed file is left where it is.              *)
KeepInPlace(p) ==
  /\ run.pc = "keep" /\ p \in run.todo /\ p \notin Locked
  /\ IF SnippetOf[p] \in run.affected
     THEN run' = [run EXCEPT !.todo = @ \ {p}, !.deleted = @ \cup {p}] /\ Sync({p}, None)
     ELSE run' = [run EXCEPT !.todo = @ \ {p}] /\ UNCHANGED <<index, adrift, faults>>
  /\ UNCHANGED <<database, copies, retry, switch>>

(* Mutant: the row is deleted and its document is not.                      *)
KeepForgetting(p) ==
  /\ run.pc = "keep" /\ p \in run.todo /\ p \notin Locked
  /\ IF SnippetOf[p] \in run.affected
     THEN run' = [run EXCEPT !.todo = @ \ {p}, !.deleted = @ \cup {p}] /\ UNCHANGED <<index, adrift, faults>>
     ELSE run' = [run EXCEPT !.todo = @ \ {p}, !.moved = @ \cup {p}] /\ Sync({p}, run.v)
  /\ UNCHANGED <<database, copies, retry, switch>>

(* A point with a changed file is deleted, any other gets the new version.  *)
Keep(p) ==
  /\ run.pc = "keep" /\ p \in run.todo /\ p \notin Locked
  /\ IF SnippetOf[p] \in run.affected
     THEN run' = [run EXCEPT !.todo = @ \ {p}, !.deleted = @ \cup {p}] /\ Sync({p}, None)
     ELSE run' = [run EXCEPT !.todo = @ \ {p}, !.moved = @ \cup {p}] /\ Sync({p}, run.v)
  /\ UNCHANGED <<database, copies, retry, switch>>

(* Ids that no row, document or task names any more stand for new ones.     *)
Fresh == {p \in Point : rows[p] = None /\ index[p] = None /\ p \notin adrift
                        /\ (retry = NoRetry \/ p \notin retry.points)}

(* The graph has run; batch_create flushes its points and sends their       *)
(* documents.                                                               *)
Persist(points) ==
  /\ run.pc = "persist" \/ (run.pc = "keep" /\ run.prev # None /\ run.todo = {})
  /\ points \subseteq Fresh
  /\ run' = [run EXCEPT !.pc = IF points = {} THEN "store" ELSE "copy", !.created = points]
  /\ IF points = {} THEN UNCHANGED <<index, adrift, faults>> ELSE Sync(points, run.v)
  /\ UNCHANGED <<database, copies, retry, switch>>

(* The agents' points, which have no id, are sent again under random ones.  *)
Copy ==
  /\ run.pc = "copy" /\ run' = [run EXCEPT !.pc = "store"]
  /\ \/ copies' = copies \cup {run.v} /\ UNCHANGED faults
     \/ Fault /\ UNCHANGED copies
  /\ UNCHANGED <<database, index, adrift, retry, switch>>

(* save_snapshot and complete.                                              *)
StoreResults ==
  /\ run.pc = "store" /\ run' = [run EXCEPT !.pc = "commit"]
  /\ UNCHANGED <<database, documents, retry, switch>>

(* save_snapshot fails and rolls the session back; complete finds the       *)
(* version only if it was committed before.                                 *)
SnapshotFails ==
  /\ run.pc = "store" /\ status[run.v] # "absent" /\ Fault
  /\ run' = [run EXCEPT !.pc = "commit", !.holds = FALSE, !.lost = TRUE,
                        !.moved = {}, !.deleted = {}, !.created = {}]
  /\ adrift' = adrift \cup Written
  /\ UNCHANGED <<database, index, copies, retry, switch>>

Commit ==
  /\ run.pc = "commit" /\ run' = NoRun
  /\ rows' = [p \in Point |-> View(p)]
  /\ status' = [status EXCEPT ![run.v] = "completed"] /\ current' = Announced
  /\ UNCHANGED <<documents, retry, switch>>

(* A failure, a cancellation, a dead session or a crash: nothing is         *)
(* committed and no document is taken back.  A crash leaves a visible       *)
(* version open.                                                            *)
RunEndsEarly ==
  /\ Running /\ run' = NoRun /\ Fault
  /\ adrift' = adrift \cup Written
  /\ status' \in IF status[run.v] = "absent" THEN {status}
                 ELSE {status, [status EXCEPT ![run.v] = "failed"]}
  /\ UNCHANGED <<rows, current, index, copies, retry, switch>>

----------------------------------------------------------------------------
(* The retry of a category                                                  *)

(* It reads the rows of the category in the latest completed version.       *)
StartRetry(category) ==
  /\ retry = NoRetry /\ With("completed") # {}
  /\ LET points == {p \in Point : rows[p] = Latest(With("completed")) /\ CategoryOf[p] = category}
     IN points # {} /\ retry' = [pc |-> "drop", points |-> points, todo |-> points]
  /\ UNCHANGED <<database, documents, run, switch>>

(* delete_by_version_and_category takes each document out of the index      *)
(* before it has deleted the row; none of it is committed (CategoryRetry).  *)
Drop(p) ==
  /\ retry.pc = "drop" /\ p \in retry.todo
  /\ retry' = [retry EXCEPT !.todo = @ \ {p}]
  /\ \/ index' = [index EXCEPT ![p] = None] /\ UNCHANGED faults
     \/ Fault /\ UNCHANGED index
  /\ adrift' = adrift \cup {p}
  /\ UNCHANGED <<database, copies, run, switch>>

(* The flush waits for the run, and the rows stay locked while the graph    *)
(* runs.                                                                    *)
FlushRetry ==
  /\ retry.pc = "drop" /\ retry.todo = {} /\ retry.points \cap Written = {}
  /\ retry' = [retry EXCEPT !.pc = "graph"]
  /\ UNCHANGED <<database, documents, run, switch>>

(* The session is closed without a commit, or before with an exception.     *)
EndRetry ==
  /\ retry # NoRetry /\ retry' = NoRetry
  /\ UNCHANGED <<database, documents, run, switch>>

----------------------------------------------------------------------------
(* switch_version and rollback_version                                      *)

(* Mutant: any version that has a row will do.                              *)
SwitchToAny(v) ==
  /\ switch = NoSwitch /\ status[v] # "absent"
  /\ switch' = [pc |-> "write", to |-> v, seen |-> current]
  /\ UNCHANGED <<database, documents, run, retry>>

SwitchVersion(v) ==
  /\ switch = NoSwitch /\ status[v] = "completed"
  /\ switch' = [pc |-> "write", to |-> v, seen |-> current]
  /\ UNCHANGED <<database, documents, run, retry>>

(* The row is written if the session has seen another version, when the     *)
(* run has let go of it.                                                    *)
WriteSwitch ==
  /\ switch # NoSwitch /\ switch' = NoSwitch
  /\ IF switch.seen = switch.to THEN UNCHANGED current
     ELSE (Running => ~run.holds) /\ current' = switch.to
  /\ UNCHANGED <<rows, status, documents, run, retry>>

RunStep ==
  \/ \E incremental \in BOOLEAN, affected \in SUBSET File : StartRun(incremental, affected)
  \/ Structures \/ ListPrevious \/ Copy \/ StoreResults \/ SnapshotFails \/ Commit \/ RunEndsEarly
  \/ \E p \in Point : Keep(p)
  \/ \E points \in SUBSET Point : Persist(points)

RetryStep ==
  \/ \E p \in Point : StartRetry(CategoryOf[p]) \/ Drop(p)
  \/ FlushRetry \/ EndRetry

Next ==
  \/ RunStep
  \/ RetryStep
  \/ WriteSwitch
  \/ \E v \in Version : SwitchVersion(v)

Spec == Init /\ [][Next]_vars
----------------------------------------------------------------------------
(* Properties                                                               *)

(* Types; the written points of a run are of three kinds.                   *)
TypeOK ==
  /\ rows \in [Point -> Version \cup {None}]
  /\ status \in [Version -> Statuses] /\ current \in Version \cup {None}
  /\ index \in [Point -> Version \cup {None}] /\ copies \subseteq Version /\ adrift \subseteq Point
  /\ faults \in 0..MaxFaults
  /\ run \in RunFields \cup {NoRun}
  /\ retry \in RetryFields \cup {NoRetry}
  /\ switch \in SwitchFields \cup {NoSwitch}

(* The document of a point says what its row says, as the session that      *)
(* wrote it last sees it, unless the last call for it failed or belongs to  *)
(* a transaction that is not committed, a retry of its category at the same *)
(* time included (KnowledgePointDAO: every write of a row sends it).        *)
DocumentsFollowRows == \A p \in Point \ adrift : index[p] = View(p)

(* What a run publishes of the version it found is all or nothing: every    *)
(* point of it that fits on a page is moved, or deleted because its file    *)
(* changed; or, when the transaction was rolled back before, it has kept    *)
(* them all (save_snapshot, complete).                                      *)
Publishes == run # NoRun /\ run.pc = "commit" /\ run' = NoRun /\ status'[run.v] = "completed"
KeptOrAffected ==
  [][Publishes /\ run.prev # None =>
       LET was  == {p \in Point : rows[p] = run.prev}
           left == {p \in was : rows'[p] # run.prev}
       IN /\ Cardinality(left) = IF run.lost THEN 0
                                 ELSE IF Cardinality(was) < PageSize THEN Cardinality(was)
                                 ELSE PageSize
          /\ \A p \in left :
               rows'[p] = IF SnippetOf[p] \in run.affected THEN None ELSE run.v]_vars

(* The current version is complete, or it is the one the last run has made  *)
(* visible: a switch never leads to a version that is not complete, however *)
(* late it is written.                                                      *)
CurrentIsUsable ==
  current # None =>
    status[current] = "completed" \/ \A v \in Version : status[v] # "absent" => v <= current

----------------------------------------------------------------------------
(* Statements of the docs and comments                                      *)

(* api/versions.py:179: a rollback brings the repository back to a version. *)
(* A completed version keeps the points it was completed with.              *)
VersionsKeepPoints ==
  [][\A p \in Point : rows[p] # None => rows'[p] = rows[p]]_vars

(* services/meilisearch_client.py:5: the index follows the database; when   *)
(* nobody writes, each document is that of a row.                           *)
IndexFollowsStore == ~Running /\ retry = NoRetry => index = rows

(* analysis_orchestrator.py:2195: the documents have the ids of the rows.   *)
OneDocumentEach == copies = {}

(* api/versions.py:162: after the answer the version is the current one.    *)
SwitchTakesEffect ==
  [][switch # NoSwitch /\ switch' = NoSwitch => current' = switch.to]_vars
=============================================================================
