------------------------ MODULE KnowledgeStoreProofs ------------------------
(* The properties of KnowledgeStore for any points, files, versions, pages  *)
(* and faults.                                                              *)
EXTENDS KnowledgeStore, FiniteSetTheorems, TLAPS

Found == {p \in Point : rows[p] = run.prev}

(* The points the run has looked at or will, and what it has made of them.  *)
TransactionOK ==
  Running =>
    /\ run.todo \cap (run.moved \cup run.deleted) = {} /\ run.moved \cap run.deleted = {}
    /\ run.todo \cup run.moved \cup run.deleted \subseteq Found
    /\ run.prev = None => run.todo \cup run.moved \cup run.deleted = {}
    /\ run.prev # None => status[run.prev] = "completed"
    /\ run.pc # "keep" => run.todo = {}
    /\ run.pc \in {"structures", "keep", "persist"} => run.created = {}
    /\ run.pc = "structures" => run.prev = None
    /\ run.pc # "commit" => ~run.lost
    /\ \A p \in run.created : rows[p] = None
    /\ \A p \in run.moved : SnippetOf[p] \notin run.affected
    /\ \A p \in run.deleted : SnippetOf[p] \in run.affected

(* The points a run has listed are a page of those it found.                *)
PageOK ==
  Running /\ run.prev # None =>
    IF run.lost THEN run.pc = "commit" /\ run.moved = {} /\ run.deleted = {} /\ run.created = {}
    ELSE Cardinality(run.todo \cup run.moved \cup run.deleted) =
           IF Cardinality(Found) < PageSize THEN Cardinality(Found) ELSE PageSize

Highest(v) == \A w \in Version : status[w] # "absent" => w <= v

(* The version of a run is above all others, and the only one that may be   *)
(* open; an open version is the current one, or a switch was made since.    *)
VersionsOK ==
  /\ \A v \in Version : status[v] = "open" =>
       Highest(v) /\ (current = v \/ (current # None /\ status[current] = "completed"))
  /\ Running =>
       /\ status[run.v] \in {"absent", "open"} /\ Highest(run.v)
       /\ \A w \in Version : status[w] = "open" => w = run.v
       /\ ~run.holds => status[run.v] = "open"
  /\ switch # NoSwitch => status[switch.to] = "completed"

(* A latest completed version exists when there is one at all, and an       *)
(* incremental run has found one.                                           *)
CompletedOK ==
  /\ With("completed") # {} =>
       \E v \in With("completed") : \A w \in With("completed") : w <= v
  /\ Running => (run.incremental => With("completed") # {})

IInv ==
  /\ TypeOK /\ TransactionOK /\ PageOK /\ VersionsOK /\ CompletedOK
  /\ DocumentsFollowRows /\ CurrentIsUsable

----------------------------------------------------------------------------
LEMMA RunRecord ==
  ASSUME TypeOK
  PROVE  /\ Running => run \in RunFields
         /\ run.pc # "idle" => Running
         /\ run \in RunFields => Running /\ run.pc # "idle"
PROOF
<1>1. NoRun.pc = "idle"
  BY DEF NoRun
<1>2. \A r \in RunFields : r.pc # "idle"
  BY DEF RunFields
<1> QED BY <1>1, <1>2 DEF TypeOK, Running

(* None of the versions is None, and what is not below another is above.    *)
LEMMA VersionFacts ==
  /\ None \notin Version
  /\ Version \subseteq Nat
PROOF
<1> QED BY StoreAssumption DEF None, Version

(* The highest of the open versions is the only one.                        *)
LEMMA OpenIsLatest ==
  ASSUME VersionsOK, With("open") # {}
  PROVE  /\ Latest(With("open")) \in With("open")
         /\ \A w \in With("open") : w = Latest(With("open"))
PROOF
<1>1. PICK u \in With("open") : TRUE
  OBVIOUS
<1>2. \A w \in With("open") : w <= u
  BY <1>1 DEF VersionsOK, Highest, With
<1>3. Latest(With("open")) \in With("open") /\ \A w \in With("open") : w <= Latest(With("open"))
  BY <1>1, <1>2 DEF Latest
<1>4. \A w \in With("open") : Latest(With("open")) <= w
  BY <1>3 DEF VersionsOK, Highest, With
<1>5. With("open") \subseteq Nat
  BY VersionFacts DEF With
<1>6. \A m, n \in Nat : m <= n /\ n <= m => m = n
  OBVIOUS
<1>7. \A w \in With("open") : w = Latest(With("open"))
  BY <1>3, <1>4, <1>5, <1>6, Zenon
<1> QED BY <1>3, <1>7

LEMMA InitInv == Init => IInv
PROOF
<1> SUFFICES ASSUME Init PROVE IInv
  OBVIOUS
<1> USE StoreAssumption DEF Init
<1>1. ~Running /\ switch = NoSwitch
  BY DEF Running
<1>2. TypeOK
  BY DEF TypeOK, Statuses
<1>3. DocumentsFollowRows
  BY <1>1 DEF DocumentsFollowRows, View, Written
<1>4. VersionsOK
  BY <1>1 DEF VersionsOK
<1>5. CompletedOK
  BY <1>1 DEF CompletedOK, With
<1> QED BY <1>1, <1>2, <1>3, <1>4, <1>5 DEF IInv, TransactionOK, PageOK, CurrentIsUsable

----------------------------------------------------------------------------
(* Steps that leave rows and run alone keep what is said of the run.        *)
LEMMA SameRun ==
  ASSUME TransactionOK, PageOK, rows' = rows, status' = status, run' = run
  PROVE  TransactionOK' /\ PageOK'
PROOF
<1> QED BY DEF TransactionOK, PageOK, Found, Running

(* The run reads or writes no document: the views are what they were.       *)
LEMMA SameDocuments ==
  ASSUME DocumentsFollowRows, index' = index, adrift' = adrift,
         \A p \in Point : View(p)' = View(p)
  PROVE  DocumentsFollowRows'
PROOF
<1> QED BY DEF DocumentsFollowRows

LEMMA SameVersions ==
  ASSUME VersionsOK, CurrentIsUsable, status' = status, current' = current, run' = run,
         switch' = switch
  PROVE  VersionsOK' /\ CurrentIsUsable'
PROOF
<1> QED BY DEF VersionsOK, CurrentIsUsable, Highest, Running

LEMMA SameCompleted ==
  ASSUME CompletedOK, With("completed")' = With("completed"),
         Running' => Running /\ run'.incremental = run.incremental
  PROVE  CompletedOK'
PROOF
<1> QED BY DEF CompletedOK

LEMMA RetrySteps ==
  ASSUME IInv, RetryStep
  PROVE  IInv'
PROOF
<1>1. UNCHANGED <<rows, status, current, copies, run, switch>>
  BY DEF RetryStep, StartRetry, Drop, FlushRetry, EndRetry, database, documents
<1>2. \/ UNCHANGED <<index, adrift, faults>>
      \/ \E p \in Point : Drop(p)
  BY DEF RetryStep, StartRetry, FlushRetry, EndRetry, documents
<1>3. retry' \in RetryFields \cup {NoRetry}
  <2>1. ASSUME NEW p \in Point, StartRetry(CategoryOf[p]) PROVE retry' \in RetryFields
    BY <2>1 DEF StartRetry, RetryFields
  <2>2. ASSUME NEW p \in Point, Drop(p) PROVE retry' \in RetryFields
    <3>1. retry \in RetryFields
      BY <2>2 DEF Drop, IInv, TypeOK, NoRetry
    <3> QED BY <2>2, <3>1 DEF Drop, RetryFields
  <2>3. ASSUME FlushRetry PROVE retry' \in RetryFields
    <3>1. retry \in RetryFields
      BY <2>3 DEF FlushRetry, IInv, TypeOK, NoRetry
    <3> QED BY <2>3, <3>1 DEF FlushRetry, RetryFields
  <2> QED BY <2>1, <2>2, <2>3 DEF RetryStep, EndRetry
<1>4. TypeOK'
  <2>1. index' \in [Point -> Version \cup {None}] /\ adrift' \subseteq Point
        /\ faults' \in 0..MaxFaults
    BY <1>2, StoreAssumption DEF Drop, Fault, IInv, TypeOK
  <2> QED BY <1>1, <1>3, <2>1 DEF IInv, TypeOK
<1>5. DocumentsFollowRows'
  <2>1. \A p \in Point : View(p)' = View(p)
    BY <1>1 DEF View, Written, Running
  <2>2. CASE UNCHANGED <<index, adrift, faults>>
    BY <2>1, <2>2, SameDocuments DEF IInv
  <2>3. ASSUME NEW p \in Point, Drop(p) PROVE DocumentsFollowRows'
    BY <2>1, <2>3 DEF Drop, DocumentsFollowRows, IInv, TypeOK
  <2> QED BY <1>2, <2>2, <2>3
<1>6. CompletedOK'
  BY <1>1, SameCompleted DEF IInv, With, Running
<1> QED BY <1>1, <1>4, <1>5, <1>6, SameRun, SameVersions DEF IInv

LEMMA SwitchSteps ==
  ASSUME IInv, WriteSwitch \/ \E v \in Version : SwitchVersion(v)
  PROVE  IInv'
PROOF
<1>1. UNCHANGED <<rows, status, index, copies, adrift, faults, run, retry>>
  BY DEF WriteSwitch, SwitchVersion, database, documents
<1>2. TransactionOK' /\ PageOK'
  BY <1>1, SameRun DEF IInv
<1>3. DocumentsFollowRows'
  <2>1. \A p \in Point : View(p)' = View(p)
    BY <1>1 DEF View, Written, Running
  <2> QED BY <1>1, <2>1, SameDocuments DEF IInv
<1>6. CompletedOK'
  BY <1>1, SameCompleted DEF IInv, With, Running
<1>4. CASE WriteSwitch
  <2>1. switch \in SwitchFields /\ switch.to \in Version /\ status[switch.to] = "completed"
    BY <1>4 DEF WriteSwitch, IInv, TypeOK, VersionsOK, SwitchFields
  <2>2. switch' = NoSwitch /\ (current' = current \/ current' = switch.to)
    BY <1>4 DEF WriteSwitch
  <2>3. TypeOK'
    BY <1>1, <2>1, <2>2 DEF IInv, TypeOK
  <2>4. CurrentIsUsable'
    BY <1>1, <2>1, <2>2 DEF IInv, CurrentIsUsable
  <2>5. VersionsOK'
    BY <1>1, <2>1, <2>2, VersionFacts DEF IInv, VersionsOK, Highest, Running
  <2> QED BY <1>2, <1>3, <1>6, <2>3, <2>4, <2>5 DEF IInv
<1>5. ASSUME NEW v \in Version, SwitchVersion(v) PROVE IInv'
  <2>1. current' = current /\ switch' = [pc |-> "write", to |-> v, seen |-> current]
        /\ status[v] = "completed"
    BY <1>5 DEF SwitchVersion, database
  <2>2. switch' \in SwitchFields /\ switch'.to = v
    BY <2>1 DEF IInv, TypeOK, SwitchFields
  <2>3. TypeOK'
    BY <1>1, <2>1, <2>2 DEF IInv, TypeOK
  <2>4. CurrentIsUsable'
    BY <1>1, <2>1 DEF IInv, CurrentIsUsable
  <2>5. VersionsOK'
    BY <1>1, <2>1, <2>2 DEF IInv, VersionsOK, Highest, Running
  <2> QED BY <1>2, <1>3, <1>6, <2>3, <2>4, <2>5 DEF IInv
<1> QED BY <1>4, <1>5

----------------------------------------------------------------------------
(* The start of a run, and what its steps have in common.                   *)
LEMMA StartStep ==
  ASSUME IInv, NEW incremental \in BOOLEAN, NEW affected \in SUBSET File,
         StartRun(incremental, affected)
  PROVE  IInv'
PROOF
<1> USE DEF IInv
<1>1. UNCHANGED <<rows, status, current, index, copies, adrift, faults, retry, switch>> /\ ~Running
  BY DEF StartRun, database, documents
<1>2. PICK v \in IF With("open") # {} THEN {Latest(With("open"))}
                 ELSE {w \in Version : \A x \in Version : x < w <=> status[x] # "absent"},
           holds \in IF current # None /\ status[current] = "open" THEN BOOLEAN ELSE {TRUE} :
        run' = [pc |-> "structures", v |-> v, prev |-> None, affected |-> affected,
               incremental |-> incremental, holds |-> holds, lost |-> FALSE, todo |-> {}, moved |-> {},
               deleted |-> {}, created |-> {}]
  BY DEF StartRun
<1>3. v \in Version /\ status[v] \in {"absent", "open"} /\ Highest(v)
      /\ \A w \in Version : status[w] = "open" => w = v
  <2>1. CASE With("open") # {}
    <3>1. v = Latest(With("open"))
      BY <1>2, <2>1
    <3>2. v \in With("open") /\ \A w \in With("open") : w = v
      BY <2>1, <3>1, OpenIsLatest
    <3> QED BY <3>2 DEF With, VersionsOK
  <2>2. CASE With("open") = {}
    <3>1. v \in Version /\ \A x \in Version : x < v <=> status[x] # "absent"
      BY <1>2, <2>2
    <3>2. ~(v < v) /\ \A x \in Version : x < v => x <= v
      BY <3>1, VersionFacts
    <3> QED BY <2>2, <3>1, <3>2 DEF With, Highest
  <2> QED BY <2>1, <2>2
<1>4. holds \in BOOLEAN /\ (~holds => current # None /\ status[current] = "open")
  BY <1>2
<1>5. run' \in RunFields
  BY <1>2, <1>3, <1>4 DEF RunFields
<1>6. ~holds => status[v] = "open"
  BY <1>3, <1>4 DEF TypeOK
<1>7. TypeOK'
  BY <1>1, <1>5 DEF TypeOK
<1>8. TransactionOK' /\ PageOK'
  BY <1>2 DEF TransactionOK, PageOK, Found
<1>9. VersionsOK' /\ CurrentIsUsable'
  BY <1>1, <1>2, <1>3, <1>6 DEF VersionsOK, CurrentIsUsable, Highest
<1>10. DocumentsFollowRows'
  <2>1. \A p \in Point : View(p)' = View(p)
    BY <1>1, <1>2 DEF View, Written
  <2> QED BY <1>1, <2>1, SameDocuments
<1>11. CompletedOK'
  <2>1. With("completed")' = With("completed") /\ (incremental => With("completed") # {})
    BY <1>1 DEF With, StartRun
  <2>2. Running' => run'.incremental = incremental
    BY <1>2
  <2> QED BY <2>1, <2>2 DEF CompletedOK
<1> QED BY <1>7, <1>8, <1>9, <1>10, <1>11

LEMMA StructuresStep ==
  ASSUME IInv, Structures
  PROVE  IInv'
PROOF
<1> USE DEF IInv
<1>1. run \in RunFields /\ Running /\ run.pc = "structures"
  BY RunRecord DEF Structures
<1>2. UNCHANGED <<rows, index, copies, adrift, faults, retry, switch>>
  BY DEF Structures, documents
<1>3. run' \in RunFields /\ run'.pc = "keep" /\ run'.v = run.v /\ run'.prev = run.prev
      /\ run'.affected = run.affected /\ run'.lost = run.lost /\ run'.todo = run.todo
      /\ run'.moved = run.moved /\ run'.deleted = run.deleted /\ run'.created = run.created
      /\ run'.incremental = run.incremental
      /\ (run'.holds = FALSE \/ run'.holds = run.holds)
  <2>1. CASE run' = [run EXCEPT !.pc = "keep", !.holds = FALSE]
    BY <1>1, <2>1 DEF RunFields
  <2>2. CASE run' = [run EXCEPT !.pc = "keep"]
    BY <1>1, <2>2 DEF RunFields
  <2> QED BY <2>1, <2>2 DEF Structures
<1>4. Running'
  BY <1>3 DEF Running, NoRun
<1>5. \/ status' = status /\ current' = current /\ run'.holds = run.holds
      \/ status' = [status EXCEPT ![run.v] = "open"] /\ current' = Announced
  BY <1>1 DEF Structures, RunFields
<1>6. run.v \in Version /\ status \in [Version -> Statuses] /\ current \in Version \cup {None}
  BY <1>1 DEF RunFields, TypeOK
<1>7. TypeOK'
  BY <1>2, <1>3, <1>5, <1>6 DEF TypeOK, Statuses, Announced
<1>8. \A w \in Version : status[w] = "completed" => status'[w] = "completed"
  BY <1>1, <1>5, <1>6 DEF VersionsOK
<1>9. TransactionOK'
  <2>1. Found' = Found
    BY <1>2, <1>3 DEF Found
  <2>2. run.prev # None => run.prev \in Version
    BY <1>1 DEF RunFields
  <2> QED BY <1>1, <1>2, <1>3, <1>4, <1>8, <2>1, <2>2 DEF TransactionOK
<1>10. PageOK'
  BY <1>1, <1>3 DEF PageOK, TransactionOK
<1>11. VersionsOK' /\ CurrentIsUsable'
  <2>1. CASE status' = status /\ current' = current /\ run'.holds = run.holds
    BY <1>1, <1>2, <1>3, <1>4, <2>1 DEF VersionsOK, CurrentIsUsable, Highest
  <2>2. CASE status' = [status EXCEPT ![run.v] = "open"] /\ current' = Announced
    <3>1. status'[run.v] = "open" /\ \A w \in Version : w # run.v => status'[w] = status[w]
      BY <1>6, <2>2 DEF Statuses
    <3>2. \A w \in Version : status[w] # "absent" => w <= run.v
      BY <1>1 DEF VersionsOK, Highest
    <3>3. Highest(run.v)'
      <4>1. ASSUME NEW w \in Version, status'[w] # "absent" PROVE w <= run.v
        BY <3>1, <3>2, <4>1, <1>6, VersionFacts
      <4> QED BY <1>3, <4>1 DEF Highest
    <3>4. \A w \in Version : status'[w] = "open" => w = run.v
      BY <1>1, <3>1 DEF VersionsOK
    <3>5. current' = run.v \/ (current' # None /\ status'[current'] = "completed")
      <4>1. CASE run.holds
        BY <2>2, <4>1 DEF Announced
      <4>2. CASE ~run.holds
        BY <1>1, <1>6, <1>8, <2>2, <4>2 DEF Announced, VersionsOK
      <4> QED BY <4>1, <4>2
    <3>6. VersionsOK'
      <4>1. switch # NoSwitch => status'[switch.to] = "completed"
        BY <1>8 DEF VersionsOK, TypeOK, SwitchFields
      <4> QED BY <1>2, <1>3, <3>1, <3>3, <3>4, <3>5, <4>1 DEF VersionsOK, Highest
    <3>7. CurrentIsUsable'
      BY <3>3, <3>5, <1>3 DEF CurrentIsUsable, Highest
    <3> QED BY <3>6, <3>7
  <2> QED BY <1>5, <2>1, <2>2
<1>12. DocumentsFollowRows'
  <2>1. \A p \in Point : View(p)' = View(p)
    BY <1>1, <1>2, <1>3, <1>4 DEF View, Written
  <2> QED BY <1>2, <2>1, SameDocuments
<1>13. CompletedOK'
  <2>1. With("completed")' = With("completed")
    BY <1>1, <1>5, <1>6 DEF With, VersionsOK, Statuses
  <2> QED BY <1>1, <1>3, <2>1, SameCompleted
<1> QED BY <1>7, <1>9, <1>10, <1>11, <1>12, <1>13

LEMMA ListStep ==
  ASSUME IInv, ListPrevious
  PROVE  IInv'
PROOF
<1> USE DEF IInv
<1>1. run \in RunFields /\ Running /\ run.pc = "keep" /\ run.prev = None
  BY RunRecord DEF ListPrevious
<1>2. UNCHANGED <<rows, status, current, index, copies, adrift, faults, retry, switch>>
  BY DEF ListPrevious, database, documents
<1>3. run.todo = {} /\ run.moved = {} /\ run.deleted = {} /\ run.created = {}
  BY <1>1 DEF TransactionOK
<1>4. CASE ~run.incremental
  <2>1. run' = [run EXCEPT !.pc = "persist"]
    BY <1>4 DEF ListPrevious
  <2>2. run' \in RunFields /\ run'.pc = "persist" /\ run'.v = run.v /\ run'.prev = None
        /\ run'.holds = run.holds /\ run'.todo = {} /\ run'.moved = {} /\ run'.deleted = {}
        /\ run'.created = {} /\ run'.lost = run.lost /\ run'.incremental = run.incremental
    BY <1>1, <1>3, <2>1 DEF RunFields
  <2>3. Running'
    BY <2>2 DEF Running, NoRun
  <2>4. TypeOK'
    BY <1>2, <2>2 DEF TypeOK
  <2>5. TransactionOK' /\ PageOK'
    BY <1>1, <2>2 DEF TransactionOK, PageOK, Found
  <2>6. VersionsOK' /\ CurrentIsUsable'
    BY <1>1, <1>2, <2>2, <2>3 DEF VersionsOK, CurrentIsUsable, Highest
  <2>7. \A p \in Point : View(p)' = View(p)
    BY <1>1, <1>2, <1>3, <2>2, <2>3 DEF View, Written
  <2>8. CompletedOK'
    BY <1>1, <1>2, <2>2, SameCompleted DEF With
  <2> QED BY <1>2, <2>4, <2>5, <2>6, <2>7, <2>8, SameDocuments
<1>5. CASE run.incremental
  <2> DEFINE prev == Latest(With("completed"))
             points == {p \in Point : rows[p] = prev}
  <2>1. PICK page \in SUBSET points :
          /\ Cardinality(page) = IF Cardinality(points) < PageSize THEN Cardinality(points)
                                 ELSE PageSize
          /\ run' = [run EXCEPT !.prev = prev, !.todo = page]
    BY <1>5 DEF ListPrevious
  <2>2. prev \in Version /\ status[prev] = "completed" /\ prev # None
    <3>1. prev \in With("completed")
      BY <1>1, <1>5 DEF CompletedOK, Latest
    <3> QED BY <3>1, VersionFacts DEF With
  <2>3. page \subseteq Point /\ page \subseteq points
    OBVIOUS
  <2>4. run' \in RunFields /\ run'.pc = "keep" /\ run'.v = run.v /\ run'.prev = prev
        /\ run'.holds = run.holds /\ run'.todo = page /\ run'.moved = {} /\ run'.deleted = {}
        /\ run'.created = {} /\ run'.lost = run.lost /\ run'.incremental = run.incremental
    BY <1>1, <1>3, <2>1, <2>2, <2>3 DEF RunFields
  <2>5. Running'
    BY <2>4 DEF Running, NoRun
  <2>6. TypeOK'
    BY <1>2, <2>4 DEF TypeOK
  <2>7. points = Found'
    BY <1>2, <2>4 DEF Found
  <2>8. TransactionOK'
    <3>1. page \cup {} \cup {} \subseteq Found'
      BY <2>3, <2>7
    <3> QED BY <1>1, <1>2, <2>2, <2>4, <3>1 DEF TransactionOK
  <2>9. PageOK'
    <3>1. page \cup {} \cup {} = page
      OBVIOUS
    <3>2. ~run.lost
      BY <1>1 DEF TransactionOK
    <3> QED BY <2>1, <2>4, <2>7, <3>1, <3>2 DEF PageOK
  <2>10. VersionsOK' /\ CurrentIsUsable'
    BY <1>1, <1>2, <2>4, <2>5 DEF VersionsOK, CurrentIsUsable, Highest
  <2>11. \A p \in Point : View(p)' = View(p)
    BY <1>1, <1>2, <1>3, <2>4, <2>5 DEF View, Written
  <2>12. CompletedOK'
    BY <1>1, <1>2, <2>4, SameCompleted DEF With
  <2> QED BY <1>2, <2>6, <2>8, <2>9, <2>10, <2>11, <2>12, SameDocuments
<1> QED BY <1>4, <1>5

----------------------------------------------------------------------------
(* The steps of a run inside its transaction.                               *)
LEMMA RunGoesOn ==
  ASSUME VersionsOK, CurrentIsUsable, CompletedOK, UNCHANGED <<status, current, switch>>,
         Running, Running', run'.v = run.v, run'.incremental = run.incremental,
         run'.holds = run.holds \/ status[run.v] = "open"
  PROVE  VersionsOK' /\ CurrentIsUsable' /\ CompletedOK'
PROOF
<1>1. VersionsOK' /\ CurrentIsUsable'
  BY DEF VersionsOK, CurrentIsUsable, Highest
<1>2. CompletedOK'
  BY SameCompleted DEF With
<1> QED BY <1>1, <1>2

(* A call of Meilisearch for some points leaves them with the version given *)
(* or adrift, and the others alone.                                         *)
LEMMA SyncFacts ==
  ASSUME TypeOK, NEW points \in SUBSET Point, NEW version \in Version \cup {None},
         Sync(points, version)
  PROVE  /\ index' \in [Point -> Version \cup {None}] /\ adrift' \in SUBSET Point
         /\ faults' \in 0..MaxFaults
         /\ \A p \in Point \ adrift' : 
              IF p \in points THEN index'[p] = version ELSE p \notin adrift /\ index'[p] = index[p]
PROOF
<1> USE DEF TypeOK
<1>1. CASE /\ index' = [p \in Point |-> IF p \in points THEN version ELSE index[p]]
           /\ adrift' = adrift \ points /\ UNCHANGED faults
  BY <1>1
<1>2. CASE Fault /\ adrift' = adrift \cup points /\ UNCHANGED index
  BY <1>2, StoreAssumption DEF Fault
<1> QED BY <1>1, <1>2 DEF Sync

LEMMA KeepStep ==
  ASSUME IInv, NEW p \in Point, Keep(p)
  PROVE  IInv'
PROOF
<1> USE DEF IInv
<1>1. run \in RunFields /\ Running /\ run.pc = "keep" /\ p \in run.todo
  BY RunRecord DEF Keep
<1>2. UNCHANGED <<rows, status, current, copies, retry, switch>>
  BY DEF Keep, database
<1>3. run.todo \subseteq Point /\ run.moved \subseteq Point /\ run.deleted \subseteq Point
      /\ run.v \in Version /\ run.lost = FALSE /\ run.created = {} /\ run.prev # None
      /\ p \notin run.moved \cup run.deleted
  BY <1>1 DEF RunFields, TransactionOK
<1> DEFINE gone == SnippetOf[p] \in run.affected
<1>4. /\ run' \in RunFields /\ run'.pc = "keep" /\ run'.v = run.v /\ run'.prev = run.prev
      /\ run'.affected = run.affected /\ run'.incremental = run.incremental
      /\ run'.holds = run.holds /\ run'.lost = run.lost /\ run'.created = run.created
      /\ run'.todo = run.todo \ {p}
      /\ run'.moved = IF gone THEN run.moved ELSE run.moved \cup {p}
      /\ run'.deleted = IF gone THEN run.deleted \cup {p} ELSE run.deleted
  <2>1. CASE gone
    <3>1. run' = [run EXCEPT !.todo = @ \ {p}, !.deleted = @ \cup {p}]
      BY <2>1 DEF Keep
    <3> QED BY <1>1, <1>3, <2>1, <3>1 DEF RunFields
  <2>2. CASE ~gone
    <3>1. run' = [run EXCEPT !.todo = @ \ {p}, !.moved = @ \cup {p}]
      BY <2>2 DEF Keep
    <3> QED BY <1>1, <1>3, <2>2, <3>1 DEF RunFields
  <2> QED BY <2>1, <2>2
<1>5. Running'
  BY <1>4 DEF Running, NoRun
<1>6. Sync({p}, IF gone THEN None ELSE run.v)
  BY DEF Keep
<1>7. /\ index' \in [Point -> Version \cup {None}] /\ adrift' \in SUBSET Point
      /\ faults' \in 0..MaxFaults
      /\ \A q \in Point \ adrift' :
           IF q = p THEN index'[q] = (IF gone THEN None ELSE run.v)
           ELSE q \notin adrift /\ index'[q] = index[q]
  <2> DEFINE version == IF gone THEN None ELSE run.v
  <2>1. {p} \in SUBSET Point /\ version \in Version \cup {None} /\ Sync({p}, version)
    BY <1>3, <1>6
  <2> HIDE DEF version
  <2>2. /\ index' \in [Point -> Version \cup {None}] /\ adrift' \in SUBSET Point
        /\ faults' \in 0..MaxFaults
        /\ \A q \in Point \ adrift' :
             IF q \in {p} THEN index'[q] = version ELSE q \notin adrift /\ index'[q] = index[q]
    BY <2>1, SyncFacts
  <2> QED BY <2>2 DEF version
<1>8. TypeOK'
  BY <1>2, <1>4, <1>7 DEF TypeOK
<1>9. run'.todo \cup run'.moved \cup run'.deleted = run.todo \cup run.moved \cup run.deleted
  BY <1>1, <1>4
<1>10. Found' = Found
  BY <1>2, <1>4 DEF Found
<1>11. TransactionOK'
  <2>1. run'.todo \cap (run'.moved \cup run'.deleted) = {} /\ run'.moved \cap run'.deleted = {}
    BY <1>1, <1>3, <1>4 DEF TransactionOK
  <2>2. (\A q \in run'.moved : SnippetOf[q] \notin run'.affected)
        /\ (\A q \in run'.deleted : SnippetOf[q] \in run'.affected)
    BY <1>1, <1>4 DEF TransactionOK
  <2> QED BY <1>1, <1>2, <1>3, <1>4, <1>9, <1>10, <2>1, <2>2 DEF TransactionOK
<1>12. PageOK'
  BY <1>1, <1>3, <1>4, <1>9, <1>10 DEF PageOK
<1>13. VersionsOK' /\ CurrentIsUsable' /\ CompletedOK'
  BY <1>1, <1>2, <1>4, <1>5, RunGoesOn
<1>14. DocumentsFollowRows'
  <2>1. ASSUME NEW q \in Point, q \notin adrift' PROVE index'[q] = View(q)'
    <3>1. CASE q = p
      BY <1>3, <1>4, <1>5, <1>7, <2>1, <3>1 DEF View, Written
    <3>2. CASE q # p
      <4>1. View(q)' = View(q)
        BY <1>1, <1>2, <1>4, <1>5, <3>2 DEF View, Written
      <4> QED BY <1>7, <2>1, <3>2, <4>1 DEF DocumentsFollowRows
    <3> QED BY <3>1, <3>2
  <2> QED BY <2>1 DEF DocumentsFollowRows
<1> QED BY <1>8, <1>11, <1>12, <1>13, <1>14

LEMMA PersistStep ==
  ASSUME IInv, NEW points \in SUBSET Point, Persist(points)
  PROVE  IInv'
PROOF
<1> USE DEF IInv
<1>1. run \in RunFields /\ Running /\ run.pc \in {"keep", "persist"}
  BY RunRecord DEF Persist
<1>2. UNCHANGED <<rows, status, current, copies, retry, switch>>
  BY DEF Persist, database
<1>3. run.todo = {} /\ run.created = {} /\ run.lost = FALSE /\ run.v \in Version
  BY <1>1 DEF Persist, TransactionOK, RunFields
<1>4. /\ run' \in RunFields /\ run'.pc \in {"store", "copy"} /\ run'.v = run.v
      /\ run'.prev = run.prev /\ run'.affected = run.affected
      /\ run'.incremental = run.incremental /\ run'.holds = run.holds /\ run'.lost = run.lost
      /\ run'.created = points /\ run'.todo = run.todo /\ run'.moved = run.moved
      /\ run'.deleted = run.deleted
  <2>1. run' = [run EXCEPT !.pc = IF points = {} THEN "store" ELSE "copy", !.created = points]
    BY DEF Persist
  <2> QED BY <1>1, <2>1 DEF RunFields
<1>5. Running'
  BY <1>4 DEF Running, NoRun
<1>6. /\ index' \in [Point -> Version \cup {None}] /\ adrift' \in SUBSET Point
      /\ faults' \in 0..MaxFaults
      /\ \A q \in Point \ adrift' :
           IF q \in points THEN index'[q] = run.v ELSE q \notin adrift /\ index'[q] = index[q]
  <2>1. CASE points = {}
    BY <2>1 DEF Persist, TypeOK
  <2>2. CASE points # {}
    <3>1. Sync(points, run.v)
      BY <2>2 DEF Persist
    <3> QED BY <1>3, <3>1, SyncFacts
  <2> QED BY <2>1, <2>2
<1>7. \A q \in points : rows[q] = None
  BY DEF Persist, Fresh
<1>8. TypeOK'
  BY <1>2, <1>4, <1>6 DEF TypeOK
<1>9. TransactionOK' /\ PageOK'
  <2>1. Found' = Found
    BY <1>2, <1>4 DEF Found
  <2>2. TransactionOK'
    BY <1>1, <1>2, <1>3, <1>4, <1>7, <2>1 DEF TransactionOK
  <2> QED BY <1>1, <1>3, <1>4, <2>1, <2>2 DEF PageOK
<1>10. VersionsOK' /\ CurrentIsUsable' /\ CompletedOK'
  BY <1>1, <1>2, <1>4, <1>5, RunGoesOn
<1>11. DocumentsFollowRows'
  <2>1. \A q \in run.moved \cup run.deleted : rows[q] # None
    BY <1>1 DEF TransactionOK, Found
  <2>2. ASSUME NEW q \in Point, q \notin adrift' PROVE index'[q] = View(q)'
    <3>1. CASE q \in points
      BY <1>4, <1>5, <1>6, <1>7, <2>1, <2>2, <3>1 DEF View, Written
    <3>2. CASE q \notin points
      <4>1. View(q)' = View(q)
        BY <1>1, <1>2, <1>3, <1>4, <1>5, <3>2 DEF View, Written
      <4> QED BY <1>6, <2>2, <3>2, <4>1 DEF DocumentsFollowRows
    <3> QED BY <3>1, <3>2
  <2> QED BY <2>2 DEF DocumentsFollowRows
<1> QED BY <1>8, <1>9, <1>10, <1>11

(* Copy, StoreResults: the transaction is what it was.                      *)
LEMMA LaterSteps ==
  ASSUME IInv, Copy \/ StoreResults
  PROVE  IInv'
PROOF
<1> USE DEF IInv
<1>1. run \in RunFields /\ Running /\ run.pc \in {"copy", "store"}
  BY RunRecord DEF Copy, StoreResults
<1>2. UNCHANGED <<rows, status, current, index, adrift, retry, switch>>
  BY DEF Copy, StoreResults, database, documents
<1>3. run.todo = {} /\ run.lost = FALSE /\ run.v \in Version
  BY <1>1 DEF TransactionOK, RunFields
<1>4. /\ run' \in RunFields /\ run'.pc \in {"store", "commit"} /\ run'.v = run.v
      /\ run'.prev = run.prev /\ run'.affected = run.affected
      /\ run'.incremental = run.incremental /\ run'.holds = run.holds /\ run'.lost = run.lost
      /\ run'.created = run.created /\ run'.todo = run.todo /\ run'.moved = run.moved
      /\ run'.deleted = run.deleted
  <2>1. run' = [run EXCEPT !.pc = "store"] \/ run' = [run EXCEPT !.pc = "commit"]
    BY DEF Copy, StoreResults
  <2> QED BY <1>1, <2>1 DEF RunFields
<1>5. Running'
  BY <1>4 DEF Running, NoRun
<1>6. TypeOK'
  <2>1. copies' \subseteq Version /\ faults' \in 0..MaxFaults
    BY <1>3, StoreAssumption DEF Copy, StoreResults, Fault, documents, TypeOK
  <2> QED BY <1>2, <1>4, <2>1 DEF TypeOK
<1>7. TransactionOK' /\ PageOK'
  <2>1. Found' = Found
    BY <1>2, <1>4 DEF Found
  <2>2. TransactionOK'
    BY <1>1, <1>2, <1>3, <1>4, <2>1 DEF TransactionOK
  <2> QED BY <1>1, <1>3, <1>4, <2>1, <2>2 DEF PageOK
<1>8. VersionsOK' /\ CurrentIsUsable' /\ CompletedOK'
  BY <1>1, <1>2, <1>4, <1>5, RunGoesOn
<1>9. \A q \in Point : View(q)' = View(q)
  BY <1>1, <1>2, <1>4, <1>5 DEF View, Written
<1> QED BY <1>2, <1>6, <1>7, <1>8, <1>9, SameDocuments

LEMMA SnapshotFailsStep ==
  ASSUME IInv, SnapshotFails
  PROVE  IInv'
PROOF
<1> USE DEF IInv
<1>1. run \in RunFields /\ Running /\ run.pc = "store"
  BY RunRecord DEF SnapshotFails
<1>2. UNCHANGED <<rows, status, current, index, copies, retry, switch>>
      /\ adrift' = adrift \cup Written /\ status[run.v] # "absent"
  BY DEF SnapshotFails, database
<1>3. run.todo = {} /\ run.v \in Version
  BY <1>1 DEF TransactionOK, RunFields
<1>4. /\ run' \in RunFields /\ run'.pc = "commit" /\ run'.v = run.v
      /\ run'.prev = run.prev /\ run'.incremental = run.incremental /\ run'.lost = TRUE
      /\ run'.created = {} /\ run'.todo = {} /\ run'.moved = {} /\ run'.deleted = {}
  <2>1. run' = [run EXCEPT !.pc = "commit", !.holds = FALSE, !.lost = TRUE,
                           !.moved = {}, !.deleted = {}, !.created = {}]
    BY DEF SnapshotFails
  <2> QED BY <1>1, <1>3, <2>1 DEF RunFields
<1>5. Running'
  BY <1>4 DEF Running, NoRun
<1>6. Written \subseteq Point
  BY <1>1 DEF Written, RunFields
<1>7. TypeOK'
  <2>1. faults' \in 0..MaxFaults
    BY StoreAssumption DEF SnapshotFails, Fault, TypeOK
  <2> QED BY <1>2, <1>4, <1>6, <2>1 DEF TypeOK
<1>8. TransactionOK' /\ PageOK'
  BY <1>1, <1>2, <1>4 DEF TransactionOK, PageOK
<1>9. VersionsOK' /\ CurrentIsUsable' /\ CompletedOK'
  <2>1. status[run.v] = "open"
    BY <1>1, <1>2 DEF VersionsOK
  <2> QED BY <1>1, <1>2, <1>4, <1>5, <2>1, RunGoesOn
<1>10. DocumentsFollowRows'
  BY <1>2, <1>4, <1>5 DEF DocumentsFollowRows, View, Written
<1> QED BY <1>7, <1>8, <1>9, <1>10

(* What is said of a run says nothing when there is none.                   *)
LEMMA NoRunLeft ==
  ASSUME run' = NoRun
  PROVE  /\ ~Running' /\ TransactionOK' /\ PageOK' /\ Written' = {}
         /\ \A p \in Point : View(p)' = rows'[p]
PROOF
<1>1. ~Running'
  BY DEF Running
<1> QED BY <1>1 DEF TransactionOK, PageOK, Written, View

LEMMA CommitStep ==
  ASSUME IInv, Commit
  PROVE  IInv'
PROOF
<1> USE DEF IInv
<1>1. run \in RunFields /\ Running /\ run.v \in Version
  BY RunRecord DEF Commit, RunFields
<1>2. UNCHANGED <<index, copies, adrift, faults, retry, switch>> /\ run' = NoRun
      /\ rows' = [p \in Point |-> View(p)]
      /\ status' = [status EXCEPT ![run.v] = "completed"] /\ current' = Announced
  BY DEF Commit, documents
<1>3. /\ status'[run.v] = "completed"
      /\ \A w \in Version : w # run.v => status'[w] = status[w]
      /\ \A w \in Version : status[w] = "completed" => status'[w] = "completed"
  BY <1>1, <1>2 DEF TypeOK
<1>4. TypeOK'
  <2>1. \A p \in Point : View(p) \in Version \cup {None}
    BY <1>1 DEF View, TypeOK
  <2>2. status' \in [Version -> Statuses] /\ current' \in Version \cup {None}
    BY <1>1, <1>2 DEF TypeOK, Statuses, Announced
  <2> QED BY <1>2, <2>1, <2>2 DEF TypeOK
<1>5. DocumentsFollowRows'
  BY <1>2, NoRunLeft DEF DocumentsFollowRows
<1>6. \A w \in Version : status'[w] # "open"
  BY <1>1, <1>3 DEF VersionsOK
<1>7. VersionsOK'
  <2>1. switch # NoSwitch => status'[switch.to] = "completed"
    BY <1>3 DEF VersionsOK, TypeOK, SwitchFields
  <2> QED BY <1>2, <1>6, <2>1, NoRunLeft DEF VersionsOK
<1>8. CurrentIsUsable'
  <2>1. CASE run.holds
    BY <1>2, <1>3, <2>1 DEF Announced, CurrentIsUsable
  <2>2. CASE ~run.holds
    <3>1. status[run.v] = "open"
      BY <1>1, <2>2 DEF VersionsOK
    <3>2. current = run.v \/ (current # None /\ status[current] = "completed")
      BY <1>1, <3>1 DEF VersionsOK
    <3> QED BY <1>2, <1>3, <2>2, <3>2 DEF Announced, CurrentIsUsable, TypeOK
  <2> QED BY <2>1, <2>2
<1>9. CompletedOK'
  <2>1. run.v \in With("completed")'
    BY <1>1, <1>3 DEF With
  <2>2. \A w \in With("completed")' : w <= run.v
    <3>1. ASSUME NEW w \in Version, status'[w] = "completed" PROVE w <= run.v
      <4>1. CASE w = run.v
        BY <4>1, VersionFacts
      <4>2. CASE w # run.v
        BY <1>1, <1>3, <3>1, <4>2 DEF VersionsOK, Highest
      <4> QED BY <4>1, <4>2
    <3> QED BY <3>1 DEF With
  <2> QED BY <1>2, <2>1, <2>2, NoRunLeft DEF CompletedOK
<1> QED BY <1>2, <1>4, <1>5, <1>7, <1>8, <1>9, NoRunLeft

LEMMA EndsEarlyStep ==
  ASSUME IInv, RunEndsEarly
  PROVE  IInv'
PROOF
<1> USE DEF IInv
<1>1. run \in RunFields /\ Running /\ run.v \in Version
  BY RunRecord DEF RunEndsEarly, RunFields, TypeOK
<1>2. UNCHANGED <<rows, current, index, copies, retry, switch>> /\ run' = NoRun
      /\ adrift' = adrift \cup Written
      /\ (status' = status \/ (status[run.v] # "absent" /\ status' = [status EXCEPT ![run.v] = "failed"]))
  BY DEF RunEndsEarly
<1>3. Written \subseteq Point
  BY <1>1 DEF Written, RunFields
<1>4. TypeOK'
  <2>1. faults' \in 0..MaxFaults
    BY StoreAssumption DEF RunEndsEarly, Fault, TypeOK
  <2>2. status' \in [Version -> Statuses]
    BY <1>1, <1>2 DEF TypeOK, Statuses
  <2> QED BY <1>2, <1>3, <2>1, <2>2 DEF TypeOK
<1>5. DocumentsFollowRows'
  BY <1>1, <1>2, NoRunLeft DEF DocumentsFollowRows, View
<1>6. CASE status' = status
  <2>1. VersionsOK' /\ CurrentIsUsable'
    BY <1>2, <1>6, NoRunLeft DEF VersionsOK, CurrentIsUsable, Highest
  <2>2. CompletedOK'
    BY <1>2, <1>6, NoRunLeft, SameCompleted DEF With
  <2> QED BY <1>2, <1>4, <1>5, <2>1, <2>2, NoRunLeft
<1>7. CASE status[run.v] # "absent" /\ status' = [status EXCEPT ![run.v] = "failed"]
  <2>1. status[run.v] = "open"
    BY <1>1, <1>7 DEF VersionsOK
  <2>2. /\ status'[run.v] = "failed"
        /\ \A w \in Version : w # run.v => status'[w] = status[w]
    BY <1>1, <1>7 DEF TypeOK
  <2>3. \A w \in Version : status'[w] # "absent" => w <= run.v
    BY <1>1, <2>1, <2>2 DEF VersionsOK, Highest
  <2>4. current = run.v \/ (current # None /\ status[current] = "completed")
    BY <1>1, <2>1 DEF VersionsOK
  <2>5. CurrentIsUsable'
    <3>1. CASE current = run.v
      BY <1>2, <2>3, <3>1 DEF CurrentIsUsable
    <3>2. CASE current # None /\ status[current] = "completed"
      BY <1>2, <2>1, <2>2, <3>2 DEF CurrentIsUsable, TypeOK
    <3> QED BY <2>4, <3>1, <3>2
  <2>6. VersionsOK'
    <3>1. \A w \in Version : status'[w] # "open"
      BY <1>1, <2>2 DEF VersionsOK
    <3>2. switch # NoSwitch => status'[switch.to] = "completed"
      BY <2>1, <2>2 DEF VersionsOK, TypeOK, SwitchFields
    <3> QED BY <1>2, <3>1, <3>2, NoRunLeft DEF VersionsOK
  <2>7. CompletedOK'
    <3>1. With("completed")' = With("completed")
      BY <2>1, <2>2 DEF With
    <3> QED BY <1>2, <3>1, NoRunLeft, SameCompleted
  <2> QED BY <1>2, <1>4, <1>5, <2>5, <2>6, <2>7, NoRunLeft
<1> QED BY <1>2, <1>6, <1>7

LEMMA NextInv == IInv /\ [Next]_vars => IInv'
PROOF
<1> SUFFICES ASSUME IInv, [Next]_vars PROVE IInv'
  OBVIOUS
<1>1. CASE RunStep
  BY <1>1, StartStep, StructuresStep, ListStep, KeepStep, PersistStep, LaterSteps,
     SnapshotFailsStep, CommitStep, EndsEarlyStep DEF RunStep
<1>2. CASE RetryStep
  BY <1>2, RetrySteps
<1>3. CASE WriteSwitch \/ \E v \in Version : SwitchVersion(v)
  BY <1>3, SwitchSteps
<1>4. CASE UNCHANGED vars
  <2>1. UNCHANGED <<rows, status, current, index, copies, adrift, faults, run, retry, switch>>
    BY <1>4 DEF vars, database, documents
  <2>2. TypeOK' /\ TransactionOK' /\ PageOK'
    BY <2>1, SameRun DEF IInv, TypeOK
  <2>3. VersionsOK' /\ CurrentIsUsable' /\ CompletedOK'
    BY <2>1, SameVersions, SameCompleted DEF IInv, With, Running
  <2>4. \A p \in Point : View(p)' = View(p)
    BY <2>1 DEF View, Written, Running
  <2> QED BY <2>1, <2>2, <2>3, <2>4, SameDocuments DEF IInv
<1> QED BY <1>1, <1>2, <1>3, <1>4 DEF Next

LEMMA Invariance == Spec => []IInv
PROOF
<1> QED BY InitInv, NextInv, PTL DEF Spec

(* Every variable keeps its type.                                           *)
THEOREM TypeCorrect == Spec => []TypeOK
PROOF
<1>1. IInv => TypeOK
  BY DEF IInv
<1> QED BY <1>1, Invariance, PTL

(* Each document says what its row says, but for those a failed call or a   *)
(* transaction that is not committed has set adrift.                        *)
THEOREM DocumentsAreRows == Spec => []DocumentsFollowRows
PROOF
<1>1. IInv => DocumentsFollowRows
  BY DEF IInv
<1> QED BY <1>1, Invariance, PTL

(* The current version is complete, or the newest that is visible, however  *)
(* switches and runs interleave.                                            *)
THEOREM CurrentStaysUsable == Spec => []CurrentIsUsable
PROOF
<1>1. IInv => CurrentIsUsable
  BY DEF IInv
<1> QED BY <1>1, Invariance, PTL

(* Only a commit publishes.                                                 *)
LEMMA PublishesCommits ==
  ASSUME IInv, Next, Publishes
  PROVE  Commit
PROOF
<1>1. run.pc = "commit" /\ run' = NoRun /\ run' # run /\ status'[run.v] = "completed"
  BY DEF Publishes
<1>2. run \in RunFields /\ run.v \in Version /\ status[run.v] \in {"absent", "open"} /\ Running
  BY <1>1, RunRecord DEF IInv, VersionsOK, RunFields
<1>3. ~RunEndsEarly
  BY <1>1, <1>2 DEF RunEndsEarly, IInv, TypeOK
<1>4. ~RetryStep /\ ~WriteSwitch /\ ~(\E v \in Version : SwitchVersion(v))
  BY <1>1 DEF RetryStep, StartRetry, Drop, FlushRetry, EndRetry, WriteSwitch, SwitchVersion
<1>5. /\ ~Structures /\ ~ListPrevious /\ ~Copy /\ ~StoreResults /\ ~SnapshotFails
      /\ \A p \in Point : ~Keep(p)
      /\ \A points \in SUBSET Point : ~Persist(points)
  BY <1>1 DEF Structures, ListPrevious, Copy, StoreResults, SnapshotFails, Keep, Persist
<1>6. \A incremental \in BOOLEAN, affected \in SUBSET File : ~StartRun(incremental, affected)
  BY <1>2 DEF StartRun
<1> QED BY <1>3, <1>4, <1>5, <1>6 DEF Next, RunStep

(* A run publishes all that it listed of the version before, moved or       *)
(* deleted as their files ask, or nothing of it.                            *)
THEOREM PublishesWhole == Spec => KeptOrAffected
PROOF
<1> DEFINE was == {p \in Point : rows[p] = run.prev}
           left == {p \in was : rows'[p] # run.prev}
           Whole ==
             /\ Cardinality(left) = IF run.lost THEN 0
                                    ELSE IF Cardinality(was) < PageSize THEN Cardinality(was)
                                    ELSE PageSize
             /\ \A p \in left :
                  rows'[p] = IF SnippetOf[p] \in run.affected THEN None ELSE run.v
<1>1. ASSUME IInv, Next, Publishes, run.prev # None PROVE Whole
  <2>1. Commit
    BY <1>1, PublishesCommits
  <2>2. run \in RunFields /\ Running /\ run.pc = "commit" /\ run.todo = {}
    BY <1>1, <2>1, RunRecord DEF Commit, IInv, TransactionOK
  <2>3. rows' = [p \in Point |-> View(p)]
    BY <2>1 DEF Commit
  <2>4. run.v # run.prev
    BY <1>1, <2>2 DEF IInv, TransactionOK, VersionsOK
  <2>5. was = Found
    BY DEF Found
  <2>6. left = run.moved \cup run.deleted
    <3>1. run.moved \cup run.deleted \subseteq was
      BY <1>1, <2>2, <2>5 DEF IInv, TransactionOK
    <3>2. ASSUME NEW p \in was PROVE p \in left <=> p \in run.moved \cup run.deleted
      <4>1. p \notin run.created
        BY <1>1, <2>2, <3>2 DEF IInv, TransactionOK
      <4>2. rows'[p] = View(p) /\ rows[p] = run.prev
        BY <2>3, <3>2
      <4> QED BY <1>1, <2>2, <2>4, <3>2, <4>1, <4>2 DEF View, Written
    <3> QED BY <3>1, <3>2
  <2>7. ASSUME NEW p \in left
        PROVE  rows'[p] = IF SnippetOf[p] \in run.affected THEN None ELSE run.v
    <3>1. rows'[p] = View(p) /\ p \in run.moved \cup run.deleted
      BY <2>3, <2>6, <2>7
    <3>2. (p \in run.deleted <=> SnippetOf[p] \in run.affected)
      BY <1>1, <2>2, <3>1 DEF IInv, TransactionOK
    <3> QED BY <2>2, <3>1, <3>2 DEF View, Written
  <2>8. CASE run.lost
    <3>1. left = {}
      BY <1>1, <2>2, <2>6, <2>8 DEF IInv, PageOK
    <3> QED BY <2>7, <2>8, <3>1, FS_EmptySet
  <2>9. CASE ~run.lost
    <3>1. run.todo \cup run.moved \cup run.deleted = left
      BY <2>2, <2>6
    <3>2. Cardinality(left) = IF Cardinality(was) < PageSize THEN Cardinality(was) ELSE PageSize
      BY <1>1, <2>2, <2>5, <2>9, <3>1 DEF IInv, PageOK
    <3> QED BY <2>7, <2>9, <3>2
  <2> QED BY <2>8, <2>9
<1>2. IInv /\ [Next]_vars => [Publishes /\ run.prev # None => Whole]_vars
  BY <1>1
<1> QED BY <1>2, Invariance, PTL DEF KeptOrAffected, Spec
=============================================================================
