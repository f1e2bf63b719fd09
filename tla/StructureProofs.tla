--------------------------- MODULE StructureProofs ---------------------------
(***************************************************************************)
(* Proofs about the structure pipeline: first IncrementalDiff, for any     *)
(* files, hashes, edges, depth and threshold below one; then               *)
(* StructureStore, for any repositories of syntax trees, edits and numbers *)
(* of runs: what the parsers return, the rows, the edges, the call chains  *)
(* and the dependencies.                                                   *)
(***************************************************************************)
EXTENDS IncrementalDiff, StructureStore, FiniteSetTheorems, SequenceTheorems, TLAPS

Searching == pc = "propagate" \/ Incremental

\* The snapshot read is that of the stored rows, or nothing.
BaseOK == previous \in {stored, Empty} /\ (~versioned => previous = Empty)

\* What has been visited, and that no stored root is dropped from the queue
\* before its neighbours are in.
SearchOK ==
  /\ pc = "load" => propagated = {}
  /\ Searching => visited = Roots \cup propagated
  /\ Searching /\ MaxDepth > 0 =>
       \A r \in Roots : <<r, 0>> \in queue \/ Neighbours(r) \subseteq visited

\* How an incremental verdict is reached.
VerdictOK ==
  /\ pc = "propagate" => versioned
  /\ Incremental => /\ versioned /\ queue = {} /\ ~TooMany
                    /\ toParse = Affected \cap Present(current)

IInv == TypeOK /\ BaseOK /\ SearchOK /\ VerdictOK

\* The sets compared are sets of paths, so they can be counted.
LEMMA Countable ==
  ASSUME NEW S, S \subseteq Path
  PROVE  IsFiniteSet(S) /\ Cardinality(S) \in Nat
<1>1. IsFiniteSet(Path)
  BY ConstantsAssumption, FS_Union DEF Path
<1> QED BY <1>1, FS_Subset, FS_CardinalityType

\* Nothing but the inputs decides what has changed and who is whose neighbour.
LEMMA InputsDecide ==
  ASSUME UNCHANGED inputs
  PROVE  /\ Roots' = Roots /\ Changed' = Changed
         /\ Present(current)' = Present(current)
         /\ \A f : Neighbours(f)' = Neighbours(f)
BY DEF inputs, Roots, Changed, Added, Modified, Deleted, Present, Neighbours,
       ImportNeighbours, CallNeighbours

LEMMA NeighboursArePaths == ASSUME NEW path PROVE Neighbours(path) \subseteq Path
BY ConstantsAssumption DEF Neighbours, ImportNeighbours, CallNeighbours, Path

LEMMA InitHolds == Init => IInv
<1> SUFFICES ASSUME Init PROVE IInv  OBVIOUS
<1>1. previous \in Tree
  BY DEF Init, Tree, Empty
<1>2. diff \in [total : Nat, skipped : Int, full : BOOLEAN]
  BY DEF Init, NoVerdict, Verdict
<1>3. TypeOK
  BY <1>1, <1>2 DEF Init, TypeOK
<1> QED BY <1>3 DEF Init, IInv, BaseOK, SearchOK, VerdictOK, Searching, Incremental

LEMMA NoHistoryKeeps == IInv /\ NoHistory => IInv'
<1> SUFFICES ASSUME IInv, NoHistory PROVE IInv'  OBVIOUS
<1>1. Cardinality(Present(current)) \in Nat
  BY Countable DEF Present, Path
<1>2. diff' \in [total : Nat, skipped : Int, full : BOOLEAN] /\ diff'.full
  BY <1>1 DEF NoHistory, Verdict
<1>3. TypeOK'
  BY <1>2 DEF IInv, TypeOK, NoHistory, inputs
<1> QED BY <1>2, <1>3 DEF IInv, NoHistory, inputs, BaseOK, SearchOK, VerdictOK,
                          Searching, Incremental, Empty

LEMMA LoadSnapshotKeeps == IInv /\ LoadSnapshot => IInv'
<1> SUFFICES ASSUME IInv, LoadSnapshot PROVE IInv'  OBVIOUS
<1>1. Roots \subseteq File /\ Roots' = Roots
  BY InputsDecide DEF LoadSnapshot, Roots, Added, Modified, Present
<1>2. TypeOK'
  BY <1>1, ConstantsAssumption DEF IInv, TypeOK, LoadSnapshot, inputs, Path
<1>3. BaseOK'
  BY DEF IInv, BaseOK, LoadSnapshot, inputs, Empty
<1>4. SearchOK'
  BY <1>1 DEF IInv, SearchOK, LoadSnapshot, Searching, Incremental
<1>5. VerdictOK'
  BY DEF IInv, VerdictOK, LoadSnapshot, inputs, Incremental
<1> QED BY <1>2, <1>3, <1>4, <1>5 DEF IInv

LEMMA VisitKeeps ==
  ASSUME IInv, NEW path \in Path, NEW depth \in 0..MaxDepth, Visit(path, depth)
  PROVE  IInv'
<1> DEFINE new == IF depth >= MaxDepth THEN {} ELSE Neighbours(path) \ visited
<1>1. /\ UNCHANGED <<inputs, pc, diff, toParse>> /\ pc = "propagate"
      /\ queue' = (queue \ {<<path, depth>>}) \cup (new \X {depth + 1})
      /\ visited' = visited \cup new /\ propagated' = propagated \cup new
  BY DEF Visit
<1>2. /\ new \subseteq Path
      /\ depth >= MaxDepth => new = {}
      /\ depth < MaxDepth => Neighbours(path) \subseteq visited \cup new
  BY NeighboursArePaths, ConstantsAssumption
<1> HIDE DEF new
<1>3. TypeOK'
  <2>1. new \X {depth + 1} \subseteq Path \X (0..MaxDepth)
    BY <1>2, ConstantsAssumption
  <2> QED BY <1>1, <1>2, <2>1 DEF IInv, TypeOK, inputs
<1>4. BaseOK'
  BY <1>1 DEF IInv, BaseOK, inputs, Empty
<1>5. Roots' = Roots /\ \A f : Neighbours(f)' = Neighbours(f)
  BY <1>1, InputsDecide
<1>6. SearchOK'
  <2>1. visited' = Roots' \cup propagated'
    BY <1>1, <1>5 DEF IInv, SearchOK, Searching
  <2>2. ASSUME MaxDepth > 0, NEW r \in Roots'
        PROVE  <<r, 0>> \in queue' \/ Neighbours(r)' \subseteq visited'
    <3>1. <<r, 0>> \in queue \/ Neighbours(r) \subseteq visited
      BY <1>1, <1>5, <2>2 DEF IInv, SearchOK, Searching
    <3>2. CASE Neighbours(r) \subseteq visited
      BY <3>2, <1>1, <1>5
    <3>3. CASE <<r, 0>> \in queue /\ <<r, 0>> # <<path, depth>>
      BY <3>3, <1>1
    <3>4. CASE r = path /\ depth = 0
      BY <3>4, <2>2, <1>1, <1>2, <1>5, ConstantsAssumption
    <3> QED BY <3>1, <3>2, <3>3, <3>4
  <2> QED BY <2>1, <2>2, <1>1 DEF SearchOK
<1>7. VerdictOK'
  BY <1>1 DEF IInv, VerdictOK, Incremental, inputs
<1> QED BY <1>3, <1>4, <1>6, <1>7 DEF IInv

LEMMA JudgeKeeps == IInv /\ Judge => IInv'
<1> SUFFICES ASSUME IInv, Judge PROVE IInv'  OBVIOUS
<1>1. /\ Roots' = Roots /\ Changed' = Changed
      /\ Present(current)' = Present(current)
      /\ \A f : Neighbours(f)' = Neighbours(f)
  BY InputsDecide DEF Judge
<1>2. Affected' = Affected /\ (TooMany' <=> TooMany)
  BY <1>1 DEF Affected, TooMany, Judge
<1>3. /\ Affected \subseteq Path /\ Present(current) \subseteq File
      /\ Cardinality(Affected) \in Nat /\ Cardinality(Present(current)) \in Nat
  <2>1. /\ Affected \subseteq Path /\ Present(current) \subseteq File
        /\ Present(current) \subseteq Path
    BY DEF IInv, TypeOK, Affected, Changed, Added, Modified, Deleted, Present, Path
  <2> QED BY <2>1, Countable
<1>4. TooMany \in BOOLEAN
  BY DEF TooMany
<1>5. diff' \in [total : Nat, skipped : Int, full : BOOLEAN] /\ diff'.full = TooMany
  <2> DEFINE total == Cardinality(Affected)
             skipped == Cardinality(Present(current)) - Cardinality(Affected)
  <2>1. diff' = [total |-> total, skipped |-> skipped, full |-> TooMany]
    BY DEF Judge, Verdict
  <2>2. total \in Nat /\ skipped \in Int
    BY <1>3
  <2> HIDE DEF total, skipped
  <2> QED BY <2>1, <2>2, <1>4, Zenon
<1>6. toParse' \subseteq File /\ (~TooMany => toParse' = Affected \cap Present(current))
  BY <1>3 DEF Judge
<1>7. TypeOK'
  BY <1>5, <1>6 DEF IInv, TypeOK, Judge, inputs
<1>8. BaseOK'
  BY DEF IInv, BaseOK, Judge, inputs, Empty
<1>9. SearchOK'
  BY <1>1 DEF IInv, SearchOK, Judge, Searching
<1>10. VerdictOK'
  <2>1. pc' = "done" /\ versioned' /\ queue' = {}
    BY DEF IInv, VerdictOK, Judge, inputs
  <2>2. Incremental' => ~TooMany
    BY <1>5 DEF Incremental
  <2> QED BY <2>1, <2>2, <1>1, <1>2, <1>6 DEF VerdictOK
<1> QED BY <1>7, <1>8, <1>9, <1>10 DEF IInv

LEMMA DiffFailsKeeps == IInv /\ DiffFails => IInv'
<1> SUFFICES ASSUME IInv, DiffFails PROVE IInv'  OBVIOUS
<1>1. diff' \in [total : Nat, skipped : Int, full : BOOLEAN] /\ diff'.full
  BY DEF DiffFails, Verdict
<1>2. TypeOK'
  BY <1>1 DEF IInv, TypeOK, DiffFails, inputs
<1> QED BY <1>1, <1>2 DEF IInv, DiffFails, inputs, BaseOK, SearchOK, VerdictOK,
                          Searching, Incremental, Empty

\* A stuttering step changes nothing the invariant reads.
LEMMA StutterKeeps == IInv /\ UNCHANGED vars => IInv'
<1> SUFFICES ASSUME IInv, UNCHANGED vars PROVE IInv'  OBVIOUS
<1>1. UNCHANGED inputs
  BY DEF vars
<1>2. /\ Roots' = Roots /\ Changed' = Changed
      /\ Present(current)' = Present(current)
      /\ \A f : Neighbours(f)' = Neighbours(f)
  BY <1>1, InputsDecide
<1>3. Affected' = Affected /\ (TooMany' <=> TooMany)
  BY <1>2 DEF Affected, TooMany, vars
<1> QED BY <1>2, <1>3 DEF IInv, TypeOK, BaseOK, SearchOK, VerdictOK, Searching,
                          Incremental, Empty, vars, inputs

\* Every reachable state satisfies the strengthened invariant.
THEOREM InductiveInvariant == Spec => []IInv
<1>1. IInv /\ [Next]_vars => IInv'
  <2> SUFFICES ASSUME IInv, [Next]_vars PROVE IInv'  OBVIOUS
  <2>1. CASE NoHistory  BY <2>1, NoHistoryKeeps
  <2>2. CASE LoadSnapshot  BY <2>2, LoadSnapshotKeeps
  <2>3. CASE Judge  BY <2>3, JudgeKeeps
  <2>4. CASE DiffFails  BY <2>4, DiffFailsKeeps
  <2>5. CASE \E path \in Path, depth \in 0..MaxDepth : Visit(path, depth)
    BY <2>5, VisitKeeps
  <2>6. CASE UNCHANGED vars  BY <2>6, StutterKeeps
  <2> QED BY <2>1, <2>2, <2>3, <2>4, <2>5, <2>6 DEF Next
<1> QED BY InitHolds, <1>1, PTL DEF Spec

\* Queue, verdict and selection keep their types: no depth in the queue
\* exceeds the limit.
THEOREM TypeCorrect == Spec => []TypeOK
<1>1. IInv => TypeOK  BY DEF IInv
<1> QED BY <1>1, InductiveInvariant, PTL

\* A file an incremental run leaves out has not changed, and has no dependency
\* on or from an added or modified file.
THEOREM SkippedFilesAreUntouched == Spec => []SkippedIsUntouched
<1>1. IInv => SkippedIsUntouched
  <2> SUFFICES ASSUME IInv, Incremental, NEW f \in Present(current) \ toParse
               PROVE  /\ previous[f] = current[f]
                      /\ MaxDepth > 0 =>
                           \A g \in Roots \cap Present(stored) : f \notin ImportNeighbours(g)
    BY DEF SkippedIsUntouched
  <2>1. /\ f \in File /\ f \notin Affected
        /\ queue = {} /\ visited = Roots \cup propagated
    BY DEF IInv, VerdictOK, SearchOK, Searching, Present
  <2>2. previous[f] = current[f]
    BY <2>1 DEF Affected, Changed, Added, Modified, Present
  <2>3. ASSUME MaxDepth > 0, NEW g \in Roots \cap Present(stored)
        PROVE  f \notin ImportNeighbours(g)
    <3>1. Neighbours(g) \subseteq visited
      BY <2>1, <2>3 DEF IInv, SearchOK, Searching
    <3>2. visited \subseteq Affected
      BY <2>1 DEF Affected, Changed, Roots
    <3> QED BY <2>1, <3>1, <3>2 DEF Neighbours
  <2> QED BY <2>2, <2>3
<1> QED BY <1>1, InductiveInvariant, PTL

\* Every file counts as changed against a base that could not be read, and
\* that is over any threshold below one.
THEOREM UnreadableBaseFallsBack == Spec => []IncrementalHasBase
<1>1. IInv => IncrementalHasBase
  <2> SUFFICES ASSUME IInv, Incremental, Present(current) # {}, previous # stored
               PROVE  FALSE
    BY DEF IncrementalHasBase, IInv, VerdictOK
  <2>1. previous = Empty
    BY DEF IInv, BaseOK
  <2>2. Present(current) \subseteq Affected /\ Affected \subseteq Path
    BY <2>1 DEF IInv, TypeOK, Affected, Changed, Added, Modified, Deleted, Present,
                Empty, Path
  <2> DEFINE affected == Cardinality(Affected)
             total    == Cardinality(Present(current))
  <2>3. affected \in Nat /\ total \in Nat /\ total # 0 /\ total <= affected
    <3>1. /\ IsFiniteSet(Affected) /\ affected \in Nat
          /\ IsFiniteSet(Present(current)) /\ total \in Nat
      BY <2>2, Countable
    <3>2. total # 0
      BY <3>1, FS_EmptySet
    <3>3. total <= affected
      BY <2>2, <3>1, FS_Subset
    <3> QED BY <3>1, <3>2, <3>3
  <2>4. ~ (affected * FallbackDen > FallbackNum * total)
    BY DEF IInv, VerdictOK, TooMany
  <2> HIDE DEF affected, total
  <2>5. /\ total * FallbackDen > total * FallbackNum
        /\ affected * FallbackDen >= total * FallbackDen
    <3>1. \A n, x, y \in Nat : x <= y => n * x <= n * y
      OBVIOUS
    <3>2. \A n \in Nat \ {0}, x, y \in Nat : x < y => n * x < n * y
      OBVIOUS
    <3> QED BY <2>3, <3>1, <3>2, ConstantsAssumption
  <2> QED BY <2>3, <2>4, <2>5, ConstantsAssumption
<1> QED BY <1>1, InductiveInvariant, PTL

----------------------------------------------------------------------------
(* The search finds exactly what is within the maximal depth. *)

\* Every non-empty set of naturals has a least element.
LEMMA LeastNatural ==
  ASSUME NEW S \in SUBSET Nat, S # {} PROVE \E n \in S : \A m \in S : n <= m
<1> DEFINE Below(n) == {k \in Nat : k < n}
           Lowers == {Below(n) : n \in S}
<1>1. IsWellFoundedOn(StrictSubsetOrdering(Nat), FiniteSubsetsOf(Nat))
  BY FS_StrictSubsetOrderingWellFounded
<1>2. ASSUME NEW n \in Nat PROVE Below(n) \in FiniteSubsetsOf(Nat)
  <2>1. \A k \in Below(n) : k <= n
    OBVIOUS
  <2>2. IsFiniteSet(Below(n))
    BY <2>1, FS_BoundedSetOfNaturals
  <2> QED BY <2>2 DEF FiniteSubsetsOf
<1>3. Lowers \subseteq FiniteSubsetsOf(Nat) /\ Lowers # {}
  BY <1>2
<1>4. PICK l \in Lowers : \A o \in Lowers : <<o, l>> \notin StrictSubsetOrdering(Nat)
  <2> HIDE DEF Lowers
  <2> QED BY <1>1, <1>3, WFMin
<1>5. PICK n \in S : l = Below(n)
  OBVIOUS
<1>6. ASSUME NEW m \in S, ~(n <= m) PROVE FALSE
  <2>1. m \in Below(n) /\ m \notin Below(m) /\ Below(m) \subseteq Below(n)
    BY <1>6
  <2>2. <<Below(m), Below(n)>> \in StrictSubsetOrdering(Nat)
    BY <2>1 DEF StrictSubsetOrdering
  <2> QED BY <2>2, <1>4, <1>5
<1> QED BY <1>6

\* The recursive definition of Reached defines what it says.
LEMMA ReachedUnfolds ==
  ASSUME NEW roots, NEW neighbours
  PROVE  LET reached == Reached(roots, neighbours)
         IN  /\ reached[0] = roots
             /\ \A n \in 1..MaxDepth :
                  reached[n] = reached[n - 1] \cup UNION {neighbours[f] : f \in reached[n - 1]}
<1> DEFINE Step(S) == S \cup UNION {neighbours[f] : f \in S}
           Unfolds(g, m) == g = [n \in 0..m |-> IF n = 0 THEN roots ELSE Step(g[n - 1])]
           Bad == {m \in Nat : ~ \E g : Unfolds(g, m)}
<1>1. ASSUME NEW m \in Nat, NEW g, Unfolds(g, m) PROVE \E h : Unfolds(h, m + 1)
  <2> DEFINE h == [n \in 0..(m + 1) |-> IF n = 0 THEN roots ELSE Step(g[n - 1])]
  <2> HIDE DEF Step
  <2>1. \A n \in 0..m : h[n] = g[n]
    BY <1>1
  <2>2. \A n \in 0..(m + 1) : n # 0 => n - 1 \in 0..m
    OBVIOUS
  <2>3. Unfolds(h, m + 1)
    BY <2>1, <2>2
  <2> QED BY <2>3
<1>2. Unfolds([n \in 0..0 |-> roots], 0)
  OBVIOUS
<1>3. Bad = {}
  <2> SUFFICES ASSUME Bad # {} PROVE FALSE  OBVIOUS
  <2>1. PICK b \in Bad : \A m \in Bad : b <= m
    <3> HIDE DEF Bad
    <3>1. Bad \in SUBSET Nat
      BY DEF Bad
    <3> QED BY <3>1, LeastNatural
  <2>2. b # 0
    BY <1>2
  <2>3. b - 1 \in Nat /\ b - 1 \notin Bad /\ (b - 1) + 1 = b
    <3>1. b \in Nat
      OBVIOUS
    <3> HIDE DEF Bad
    <3> QED BY <2>1, <2>2, <3>1
  <2>4. PICK g : Unfolds(g, b - 1)
    BY <2>3
  <2> HIDE DEF Unfolds
  <2>5. \E h : Unfolds(h, b)
    BY <1>1, <2>3, <2>4
  <2> QED BY <2>5
<1>4. \E g : Unfolds(g, MaxDepth)
  BY <1>3, ConstantsAssumption
<1>5. Reached(roots, neighbours) = CHOOSE g : Unfolds(g, MaxDepth)
  BY DEF Reached
<1>6. Unfolds(Reached(roots, neighbours), MaxDepth)
  <2> HIDE DEF Unfolds
  <2> QED BY <1>4, <1>5
<1> HIDE DEF Step
<1>7. /\ Reached(roots, neighbours)[0] = roots
      /\ \A n \in 1..MaxDepth : Reached(roots, neighbours)[n] = Step(Reached(roots, neighbours)[n - 1])
  <2> DEFINE reached == Reached(roots, neighbours)
  <2> HIDE DEF reached
  <2>1. reached = [n \in 0..MaxDepth |-> IF n = 0 THEN roots ELSE Step(reached[n - 1])]
    BY <1>6 DEF reached
  <2>2. 0 \in 0..MaxDepth /\ \A n \in 1..MaxDepth : n \in 0..MaxDepth /\ n # 0
    BY ConstantsAssumption
  <2>3. reached[0] = roots /\ \A n \in 1..MaxDepth : reached[n] = Step(reached[n - 1])
    BY <2>1, <2>2
  <2> QED BY <2>3 DEF reached
<1> QED BY <1>7 DEF Step

\* Induction up to a bound, with a set for the induction hypothesis.
LEMMA UpTo ==
  ASSUME NEW m \in Nat, NEW S, 0 \in S, \A n \in S \cap Nat : n < m => n + 1 \in S
  PROVE  0..m \subseteq S
<1> DEFINE Bad == {n \in 0..m : n \notin S}
<1> SUFFICES ASSUME Bad # {} PROVE FALSE  OBVIOUS
<1>1. PICK b \in Bad : \A n \in Bad : b <= n
  <2>1. Bad \in SUBSET Nat
    OBVIOUS
  <2> HIDE DEF Bad
  <2> QED BY <2>1, LeastNatural
<1>2. b # 0 /\ b - 1 \in 0..m /\ b - 1 \notin Bad /\ b - 1 < m /\ (b - 1) + 1 = b
  BY <1>1
<1>3. b - 1 \in S \cap Nat
  BY <1>2
<1> QED BY <1>1, <1>2, <1>3

\* What is within n dependencies: the roots, and with each step the neighbours.
LEMMA WithinFacts ==
  /\ Within[0] = Roots
  /\ \A n \in Nat : n < MaxDepth =>
       Within[n + 1] = Within[n] \cup UNION {Dependencies[f] : f \in Within[n]}
  /\ \A n \in 0..MaxDepth : Within[n] \subseteq File
  /\ \A n \in 0..MaxDepth : Within[n] \subseteq Within[MaxDepth]
<1>1. /\ Within[0] = Roots
      /\ \A n \in 1..MaxDepth :
           Within[n] = Within[n - 1] \cup UNION {Dependencies[f] : f \in Within[n - 1]}
  BY ReachedUnfolds DEF Within
<1>2. ASSUME NEW n \in Nat, n < MaxDepth
      PROVE  Within[n + 1] = Within[n] \cup UNION {Dependencies[f] : f \in Within[n]}
  <2>1. n + 1 \in 1..MaxDepth /\ (n + 1) - 1 = n
    BY <1>2, ConstantsAssumption
  <2> QED BY <1>1, <2>1
<1>3. \A n \in 0..MaxDepth : Within[n] \subseteq File
  <2> DEFINE S == {n \in Nat : Within[n] \subseteq File}
  <2>1. 0 \in S
    BY <1>1 DEF Roots, Added, Modified, Present
  <2>2. ASSUME NEW n \in S \cap Nat, n < MaxDepth PROVE n + 1 \in S
    <3>1. \A f \in File : Dependencies[f] \subseteq File
      BY DEF Dependencies, ImportNeighbours
    <3> QED BY <1>2, <2>2, <3>1
  <2>3. 0..MaxDepth \subseteq S
    <3> HIDE DEF S
    <3> QED BY <2>1, <2>2, UpTo, ConstantsAssumption
  <2> QED BY <2>3
<1>4. \A n \in 0..MaxDepth : Within[n] \subseteq Within[MaxDepth]
  <2> DEFINE S == {k \in Nat : k <= MaxDepth => Within[MaxDepth - k] \subseteq Within[MaxDepth]}
  <2>1. 0 \in S
    BY ConstantsAssumption
  <2>2. ASSUME NEW k \in S \cap Nat, k < MaxDepth PROVE k + 1 \in S
    <3> DEFINE n == MaxDepth - (k + 1)
    <3>1. n \in Nat /\ n < MaxDepth /\ n + 1 = MaxDepth - k
      BY <2>2, ConstantsAssumption
    <3>2. Within[n] \subseteq Within[n + 1]
      <4> HIDE DEF n
      <4> QED BY <1>2, <3>1
    <3>3. Within[n] \subseteq Within[MaxDepth]
      <4>1. Within[MaxDepth - k] \subseteq Within[MaxDepth]
        BY <2>2, ConstantsAssumption
      <4> HIDE DEF n, S
      <4> QED BY <3>1, <3>2, <4>1
    <3> QED BY <3>3
  <2>3. 0..MaxDepth \subseteq S
    <3> HIDE DEF S
    <3> QED BY <2>1, <2>2, UpTo, ConstantsAssumption
  <2>4. ASSUME NEW n \in 0..MaxDepth PROVE Within[n] \subseteq Within[MaxDepth]
    <3>1. MaxDepth - n \in 0..MaxDepth /\ MaxDepth - (MaxDepth - n) = n
      BY ConstantsAssumption
    <3> QED BY <2>3, <3>1
  <2> QED BY <2>4
<1> QED BY <1>1, <1>2, <1>3, <1>4

\* Of the neighbours of a path those that are files are its dependencies: call
\* edges lead to absolute paths, which have no row and lead nowhere.
LEMMA FileNeighbours ==
  /\ \A f \in File : Neighbours(f) \cap File = Dependencies[f]
  /\ \A p \in Path \ File : Neighbours(p) = {}
<1>1. \A f : CallNeighbours(f) \cap File = {}
  BY ConstantsAssumption DEF CallNeighbours
<1>2. \A f : ImportNeighbours(f) \subseteq File
  BY DEF ImportNeighbours
<1> QED BY <1>1, <1>2 DEF Neighbours, Dependencies, Present

\* Nothing but the inputs decides what is within the maximal depth.
LEMMA WithinStays ==
  ASSUME UNCHANGED inputs PROVE Within' = Within /\ Dependencies' = Dependencies /\ Roots' = Roots
<1>1. Roots' = Roots
  BY InputsDecide
<1>2. Dependencies' = Dependencies
  BY DEF inputs, Dependencies, Present, ImportNeighbours
<1> QED BY <1>1, <1>2 DEF Within

\* The search's own invariant: a queued file is at exactly the depth it is
\* queued with, and one that has left the queue has its dependencies visited,
\* unless it is as far away as the search goes.
Queued(v) == \E d \in 0..MaxDepth : <<v, d>> \in queue
ExactOK ==
  Searching =>
    /\ Roots \cap propagated = {}
    /\ \A p \in Path, d \in 0..MaxDepth : <<p, d>> \in queue =>
         /\ p \in visited
         /\ p \in File => p \in Within[d] /\ \A n \in 0..MaxDepth : n < d => p \notin Within[n]
    /\ visited \cap File \subseteq Within[MaxDepth]
    /\ \A v \in visited \cap File, n \in 0..MaxDepth :
         n < MaxDepth /\ v \in Within[n] => Queued(v) \/ Dependencies[v] \subseteq visited

\* Once everything nearer than n has left the queue, all files within n are
\* visited.
LEMMA NearFilesVisited ==
  ASSUME IInv, ExactOK, Searching, NEW n \in 0..MaxDepth,
         \A p \in Path, d \in 0..MaxDepth : <<p, d>> \in queue => d >= n
  PROVE  \A k \in 0..n : Within[k] \subseteq visited
<1> DEFINE S == {k \in Nat : Within[k] \subseteq visited}
<1>1. 0 \in S
  BY WithinFacts DEF IInv, SearchOK
<1>2. ASSUME NEW k \in S \cap Nat, k < n PROVE k + 1 \in S
  <2>1. k < MaxDepth /\ k \in 0..MaxDepth
    BY <1>2, ConstantsAssumption
  <2>2. ASSUME NEW v \in Within[k] PROVE Dependencies[v] \subseteq visited
    <3>1. v \in File /\ v \in visited
      BY <1>2, <2>1, WithinFacts
    <3>2. ~Queued(v)
      <4> SUFFICES ASSUME NEW d \in 0..MaxDepth, <<v, d>> \in queue PROVE FALSE
        BY DEF Queued
      <4>1. v \in Path /\ k < d
        BY <1>2, <2>1, <3>1, ConstantsAssumption DEF Path
      <4> QED BY <2>1, <3>1, <4>1 DEF ExactOK
    <3> QED BY <2>1, <3>1, <3>2 DEF ExactOK
  <2> QED BY <1>2, <2>1, <2>2, WithinFacts
<1>3. 0..n \subseteq S
  <2>1. n \in Nat
    BY ConstantsAssumption
  <2> HIDE DEF S
  <2> QED BY <1>1, <1>2, <2>1, UpTo
<1> QED BY <1>3

LEMMA VisitExact ==
  ASSUME IInv, ExactOK, NEW path \in Path, NEW depth \in 0..MaxDepth, Visit(path, depth)
  PROVE  ExactOK'
<1> DEFINE new == IF depth >= MaxDepth THEN {} ELSE Neighbours(path) \ visited
<1>1. /\ UNCHANGED <<inputs, pc, diff, toParse>> /\ pc = "propagate" /\ Searching
      /\ <<path, depth>> \in queue
      /\ queue' = (queue \ {<<path, depth>>}) \cup (new \X {depth + 1})
      /\ visited' = visited \cup new /\ propagated' = propagated \cup new
  BY DEF Visit, IsHead, Searching
<1>2. \A p \in Path, d \in 0..MaxDepth : <<p, d>> \in queue => d >= depth
  <2> SUFFICES ASSUME NEW p \in Path, NEW d \in 0..MaxDepth, <<p, d>> \in queue
               PROVE  depth <= d
    BY ConstantsAssumption
  <2>1. IsHead(<<path, depth>>)
    BY DEF Visit
  <2> QED BY <2>1 DEF IsHead
<1>3. Within[depth] \subseteq visited /\ \A n \in 0..depth : Within[n] \subseteq visited
  BY <1>1, <1>2, NearFilesVisited
<1>4. Within' = Within /\ Dependencies' = Dependencies /\ Roots' = Roots
  BY <1>1, WithinStays
<1>5. /\ new \cap visited = {} /\ new \subseteq Path
      /\ depth >= MaxDepth => new = {}
      /\ depth < MaxDepth /\ path \in File => Dependencies[path] \subseteq visited \cup new
  BY NeighboursArePaths, FileNeighbours, ConstantsAssumption
<1>6. ASSUME NEW v \in new, v \in File
      PROVE  /\ depth < MaxDepth /\ v \in Within[depth + 1] /\ v \in Within[MaxDepth]
             /\ \A n \in 0..MaxDepth : n < depth + 1 => v \notin Within[n]
  <2>1. depth < MaxDepth /\ depth + 1 \in 0..MaxDepth /\ depth \in Nat
    BY <1>6, ConstantsAssumption
  <2>2. path \in File /\ v \in Dependencies[path]
    BY <1>6, FileNeighbours
  <2>3. path \in Within[depth]
    BY <1>1, <2>2 DEF ExactOK
  <2>4. v \in Within[depth + 1]
    BY <2>1, <2>2, <2>3, WithinFacts
  <2>5. \A n \in 0..MaxDepth : n < depth + 1 => n \in 0..depth
    BY <2>1
  <2> QED BY <1>3, <1>5, <1>6, <2>1, <2>4, <2>5, WithinFacts
<1> HIDE DEF new
<1>7. Roots \cap propagated' = {}
  BY <1>1, <1>5 DEF ExactOK, IInv, SearchOK
<1>8. ASSUME NEW p \in Path, NEW d \in 0..MaxDepth, <<p, d>> \in queue'
      PROVE  /\ p \in visited'
             /\ p \in File => p \in Within[d] /\ \A n \in 0..MaxDepth : n < d => p \notin Within[n]
  <2>1. CASE <<p, d>> \in queue
    BY <1>1, <2>1 DEF ExactOK
  <2>2. CASE p \in new /\ d = depth + 1
    BY <1>1, <1>6, <2>2
  <2> QED BY <1>1, <1>8, <2>1, <2>2
<1>9. visited' \cap File \subseteq Within[MaxDepth]
  BY <1>1, <1>6 DEF ExactOK
<1>10. ASSUME NEW v \in visited' \cap File, NEW n \in 0..MaxDepth,
              n < MaxDepth, v \in Within[n]
       PROVE  Queued(v)' \/ Dependencies[v] \subseteq visited'
  <2>1. CASE v \in new
    <3>1. <<v, depth + 1>> \in queue' /\ depth + 1 \in 0..MaxDepth
      BY <1>1, <1>6, <2>1, ConstantsAssumption
    <3> QED BY <3>1 DEF Queued
  <2>2. CASE v \in visited /\ Dependencies[v] \subseteq visited
    BY <1>1, <2>2
  <2>3. CASE v \in visited /\ ~(Dependencies[v] \subseteq visited)
    <3>1. PICK d \in 0..MaxDepth : <<v, d>> \in queue
      BY <1>1, <1>10, <2>3 DEF ExactOK, Queued
    <3>2. CASE v # path \/ d # depth
      <4>1. <<v, d>> \in queue'
        BY <1>1, <3>1, <3>2
      <4> QED BY <4>1 DEF Queued
    <3>3. CASE v = path /\ d = depth
      <4>1. ~(n < depth)
        BY <1>1, <1>10, <3>1, <3>3 DEF ExactOK
      <4>2. depth < MaxDepth
        BY <1>10, <4>1, ConstantsAssumption
      <4> QED BY <1>1, <1>5, <1>10, <3>3, <4>2
    <3> QED BY <3>2, <3>3
  <2> QED BY <1>1, <1>10, <2>1, <2>2, <2>3
<1> QED BY <1>4, <1>7, <1>8, <1>9, <1>10 DEF ExactOK

LEMMA LoadExact == ASSUME IInv, LoadSnapshot PROVE ExactOK'
<1>1. /\ UNCHANGED inputs /\ propagated' = {} /\ queue' = Roots \X {0} /\ visited' = Roots
  BY DEF LoadSnapshot, IInv, SearchOK
<1>2. Within' = Within /\ Dependencies' = Dependencies /\ Roots' = Roots
  BY <1>1, WithinStays
<1>3. 0 \in 0..MaxDepth /\ Roots \subseteq File /\ Within[0] = Roots
  BY WithinFacts, ConstantsAssumption
<1>4. \A v \in Roots : Queued(v)'
  BY <1>1, <1>3 DEF Queued
<1>5. \A p \in Path, d \in 0..MaxDepth : <<p, d>> \in queue' => p \in Roots /\ d = 0
  BY <1>1
<1>6. \A n \in 0..MaxDepth : ~(n < 0)
  BY ConstantsAssumption
<1> QED BY <1>1, <1>2, <1>3, <1>4, <1>5, <1>6, WithinFacts DEF ExactOK

LEMMA ExactStep == IInv /\ ExactOK /\ [Next]_vars => ExactOK'
<1> SUFFICES ASSUME IInv, ExactOK, [Next]_vars PROVE ExactOK'  OBVIOUS
<1>1. CASE NoHistory \/ DiffFails
  BY <1>1 DEF NoHistory, DiffFails, Verdict, ExactOK, Searching, Incremental
<1>2. CASE LoadSnapshot
  BY <1>2, LoadExact
<1>3. CASE Judge \/ UNCHANGED vars
  <2>1. UNCHANGED <<inputs, queue, visited, propagated>>
    BY <1>3 DEF Judge, vars
  <2>2. Within' = Within /\ Dependencies' = Dependencies /\ Roots' = Roots
    BY <2>1, WithinStays
  <2>3. Searching' => Searching
    BY <1>3 DEF Judge, vars, Searching, Incremental
  <2> QED BY <2>1, <2>2, <2>3 DEF ExactOK, Queued
<1>4. CASE \E path \in Path, depth \in 0..MaxDepth : Visit(path, depth)
  BY <1>4, VisitExact
<1> QED BY <1>1, <1>2, <1>3, <1>4 DEF Next

\* Along dependencies an incremental run analyses exactly the files that are at
\* most MaxDepth steps away from an added or modified one: the search, which
\* marks a file when it is queued and never looks at it again, misses none of
\* them and adds no other, for every graph and whichever head the queue yields.
THEOREM SearchFindsWithin == Spec => []SearchIsExact
<1>1. Init => ExactOK
  BY DEF Init, ExactOK, Searching, Incremental
<1>2. IInv /\ ExactOK => SearchIsExact
  <2> SUFFICES ASSUME IInv, ExactOK, Incremental
               PROVE  /\ propagated \cap File = Within[MaxDepth] \ Roots
                      /\ toParse = (Within[MaxDepth] \cup Changed) \cap Present(current)
    BY DEF SearchIsExact
  <2>1. Searching /\ queue = {} /\ visited = Roots \cup propagated
    BY DEF Searching, IInv, VerdictOK, SearchOK
  <2>2. MaxDepth \in 0..MaxDepth
    BY ConstantsAssumption
  <2>3. \A k \in 0..MaxDepth : Within[k] \subseteq visited
    BY <2>1, <2>2, NearFilesVisited
  <2>4. visited \cap File = Within[MaxDepth]
    BY <2>1, <2>2, <2>3, WithinFacts DEF ExactOK
  <2>5. propagated \cap File = Within[MaxDepth] \ Roots
    BY <2>1, <2>4 DEF ExactOK
  <2>6. Present(current) \subseteq File /\ Roots \subseteq Changed
    BY DEF Present, Roots, Changed
  <2>7. toParse = Affected \cap Present(current)
    BY DEF IInv, VerdictOK
  <2> QED BY <2>5, <2>6, <2>7 DEF Affected
<1> QED BY <1>1, <1>2, InductiveInvariant, ExactStep, PTL DEF Spec

----------------------------------------------------------------------------
(* Sets in order.                                                          *)

\* In a finite set the number of elements before an element tells it from
\* the others, and every number up to the last is taken.
LEMMA RanksAreDistinct ==
  ASSUME NEW S, IsFiniteSet(S), NEW before \in SUBSET (S \X S),
         \A j \in S : <<j, j>> \notin before,
         \A i, j, k \in S : <<i, j>> \in before /\ <<j, k>> \in before => <<i, k>> \in before,
         \A j, k \in S : j = k \/ <<j, k>> \in before \/ <<k, j>> \in before,
         NEW rank, rank = [k \in S |-> Cardinality({j \in S : <<j, k>> \in before})]
  PROVE  rank \in Bijection(S, 0..(Cardinality(S) - 1))
<1> DEFINE Below(k) == {j \in S : <<j, k>> \in before}
           n == Cardinality(S)
<1>1. \A k \in S : /\ IsFiniteSet(Below(k)) /\ Cardinality(Below(k)) \in Nat
                   /\ Cardinality(Below(k)) < n
  <2> SUFFICES ASSUME NEW k \in S
               PROVE  /\ IsFiniteSet(Below(k)) /\ Cardinality(Below(k)) \in Nat
                      /\ Cardinality(Below(k)) < n
    OBVIOUS
  <2>1. Below(k) \in SUBSET S /\ Below(k) # S
    OBVIOUS
  <2> HIDE DEF Below
  <2>2. IsFiniteSet(Below(k)) /\ Cardinality(Below(k)) <= n /\ Cardinality(Below(k)) # n
    BY <2>1, FS_Subset
  <2>3. Cardinality(Below(k)) \in Nat /\ n \in Nat
    BY <2>2, FS_CardinalityType
  <2> QED BY <2>2, <2>3
<1>2. ASSUME NEW j \in S, NEW k \in S, <<j, k>> \in before
      PROVE  Cardinality(Below(j)) < Cardinality(Below(k))
  <2>1. Below(j) \in SUBSET Below(k) /\ Below(j) # Below(k)
    BY <1>2
  <2>2. IsFiniteSet(Below(k)) /\ Cardinality(Below(k)) \in Nat /\ Cardinality(Below(j)) \in Nat
    BY <1>1
  <2> HIDE DEF Below
  <2>3. Cardinality(Below(j)) <= Cardinality(Below(k)) /\ Cardinality(Below(j)) # Cardinality(Below(k))
    BY <2>1, <2>2, FS_Subset
  <2> QED BY <2>2, <2>3
<1>3. n \in Nat
  BY FS_CardinalityType
<1>4. rank \in [S -> 0..(n - 1)]
  <2>1. \A k \in S : Cardinality(Below(k)) \in 0..(n - 1)
    <3> HIDE DEF Below, n
    <3> QED BY <1>1, <1>3
  <2> QED BY <2>1
<1>5. \A j, k \in S : rank[j] = rank[k] => j = k
  <2> SUFFICES ASSUME NEW j \in S, NEW k \in S, rank[j] = rank[k] PROVE j = k  OBVIOUS
  <2>1. Cardinality(Below(j)) = Cardinality(Below(k)) /\ Cardinality(Below(j)) \in Nat
    BY <1>1
  <2> HIDE DEF Below
  <2>2. <<j, k>> \notin before /\ <<k, j>> \notin before
    BY <2>1, <1>2
  <2> QED BY <2>2
<1>6. rank \in Injection(S, 0..(n - 1))
  BY <1>4, <1>5 DEF Injection, IsInjective
<1>7. IsFiniteSet(0..(n - 1)) /\ Cardinality(0..(n - 1)) = n
  <2> HIDE DEF n
  <2> QED BY <1>3, FS_Interval
<1> HIDE DEF n
<1>8. Cardinality(S) = n
  BY DEF n
<1>9. rank \in Surjection(S, 0..(n - 1))
  BY <1>6, <1>7, <1>8, FS_Injection
<1> QED BY <1>6, <1>9 DEF Bijection, n

\* Taking the element of every rank enumerates the set.
LEMMA RanksEnumerate ==
  ASSUME NEW S, IsFiniteSet(S), NEW rank \in Bijection(S, 0..(Cardinality(S) - 1)),
         NEW place \in [1..Cardinality(S) -> S],
         \A n \in 1..Cardinality(S) : rank[place[n]] = n - 1
  PROVE  place \in Bijection(1..Cardinality(S), S)
<1> DEFINE c == Cardinality(S)
<1>1. c \in Nat
  BY FS_CardinalityType
<1> HIDE DEF c
<1>2. /\ rank \in [S -> 0..(c - 1)] /\ \A j, k \in S : rank[j] = rank[k] => j = k
      /\ place \in [1..c -> S] /\ \A n \in 1..c : rank[place[n]] = n - 1
  BY DEF Bijection, Injection, IsInjective, c
<1>3. \A m, n \in 1..c : place[m] = place[n] => m = n
  BY <1>1, <1>2
<1>4. \A k \in S : rank[k] + 1 \in 1..c /\ place[rank[k] + 1] = k
  <2> SUFFICES ASSUME NEW k \in S PROVE rank[k] + 1 \in 1..c /\ place[rank[k] + 1] = k  OBVIOUS
  <2>1. rank[k] \in 0..(c - 1)
    BY <1>2
  <2>2. rank[k] + 1 \in 1..c /\ (rank[k] + 1) - 1 = rank[k]
    BY <2>1, <1>1
  <2>3. rank[place[rank[k] + 1]] = rank[k] /\ place[rank[k] + 1] \in S
    BY <2>2, <1>2
  <2> QED BY <2>2, <2>3, <1>2
<1>5. place \in Injection(1..c, S) /\ place \in Surjection(1..c, S)
  BY <1>2, <1>3, <1>4 DEF Injection, Surjection, IsInjective
<1> QED BY <1>5 DEF Bijection, c

\* Chosen lays the places out in some order, each once.
LEMMA ChosenEnumerates ==
  ASSUME NEW seq, NEW places \in SUBSET Int, IsFiniteSet(places)
  PROVE  \E place \in Bijection(1..Cardinality(places), places) :
           Chosen(seq, places) = [n \in 1..Cardinality(places) |-> seq[place[n]]]
<1> DEFINE Rank(k) == Cardinality({j \in places : j < k})
           c == Cardinality(places)
           before == {p \in places \X places : p[1] < p[2]}
           rank == [k \in places |-> Cardinality({j \in places : <<j, k>> \in before})]
           Place(n) == CHOOSE k \in places : Rank(k) = n - 1
           place == [n \in 1..c |-> Place(n)]
<1>1. \A k \in places : rank[k] = Rank(k)
  <2> SUFFICES ASSUME NEW k \in places PROVE rank[k] = Rank(k)  OBVIOUS
  <2>1. {j \in places : <<j, k>> \in before} = {j \in places : j < k}
    OBVIOUS
  <2> QED BY <2>1
<1>2. rank \in Bijection(places, 0..(c - 1))
  <2>1. /\ before \in SUBSET (places \X places)
        /\ \A j \in places : <<j, j>> \notin before
        /\ \A i, j, k \in places : <<i, j>> \in before /\ <<j, k>> \in before => <<i, k>> \in before
        /\ \A j, k \in places : j = k \/ <<j, k>> \in before \/ <<k, j>> \in before
    OBVIOUS
  <2> HIDE DEF before
  <2> QED BY <2>1, RanksAreDistinct
<1>3. c \in Nat
  BY FS_CardinalityType
<1> HIDE DEF rank, c, Rank
<1>4. \A n \in 1..c : Place(n) \in places /\ rank[Place(n)] = n - 1
  <2> SUFFICES ASSUME NEW n \in 1..c PROVE Place(n) \in places /\ rank[Place(n)] = n - 1
    OBVIOUS
  <2>1. n - 1 \in 0..(c - 1)
    BY <1>3
  <2>2. \E k \in places : Rank(k) = n - 1
    BY <2>1, <1>1, <1>2 DEF Bijection, Surjection
  <2> QED BY <2>2, <1>1
<1> HIDE DEF Place
<1>5. place \in [1..c -> places] /\ \A n \in 1..c : rank[place[n]] = n - 1
  BY <1>4
<1>6. place \in Bijection(1..c, places)
  <2> HIDE DEF place
  <2> QED BY <1>2, <1>5, RanksEnumerate DEF c
<1>7. Chosen(seq, places) = [n \in 1..c |-> seq[place[n]]]
  BY DEF Chosen, Place, Rank, c
<1> HIDE DEF place
<1> QED BY <1>6, <1>7 DEF c

Wanted(rs, types, fs) == {k \in DOMAIN rs : rs[k].type \in types /\ rs[k].file \in fs}

\* So does OfTypes with the places of the rows it is asked for.
LEMMA OfTypesEnumerates ==
  ASSUME NEW rs, rs \in Seq(Range(rs)), \A k \in DOMAIN rs : rs[k].first \in Int,
         NEW types, NEW fs
  PROVE  /\ IsFiniteSet(Wanted(rs, types, fs))
         /\ \E place \in Bijection(1..Cardinality(Wanted(rs, types, fs)), Wanted(rs, types, fs)) :
              OfTypes(rs, types, fs)
                = [n \in 1..Cardinality(Wanted(rs, types, fs)) |-> rs[place[n]]]
<1> DEFINE W == Wanted(rs, types, fs)
           Before(j, k) == rs[j].first < rs[k].first \/ (rs[j].first = rs[k].first /\ j < k)
           Rank(k) == Cardinality({j \in W : Before(j, k)})
           c == Cardinality(W)
           before == {p \in W \X W : Before(p[1], p[2])}
           rank == [k \in W |-> Cardinality({j \in W : <<j, k>> \in before})]
           Place(n) == CHOOSE k \in W : Rank(k) = n - 1
           place == [n \in 1..c |-> Place(n)]
<1>0. W \in SUBSET Nat /\ \A k \in W : rs[k].first \in Int
  BY DEF Wanted
<1>1. IsFiniteSet(W)
  <2>1. W \in SUBSET (1..Len(rs)) /\ Len(rs) \in Nat
    BY DEF Wanted
  <2> HIDE DEF W
  <2>2. 1 \in Int /\ Len(rs) \in Int
    BY <2>1
  <2>3. IsFiniteSet(1..Len(rs))
    BY <2>2, FS_Interval
  <2> QED BY <2>1, <2>3, FS_Subset
<1>2. \A k \in W : rank[k] = Rank(k)
  <2> HIDE DEF W
  <2> SUFFICES ASSUME NEW k \in W PROVE rank[k] = Rank(k)  OBVIOUS
  <2>1. {j \in W : <<j, k>> \in before} = {j \in W : Before(j, k)}
    OBVIOUS
  <2> QED BY <2>1
<1>3. rank \in Bijection(W, 0..(c - 1))
  <2> HIDE DEF W
  <2>1. /\ before \in SUBSET (W \X W)
        /\ \A j \in W : <<j, j>> \notin before
    BY <1>0
  <2>3. \A j, k \in W : j = k \/ <<j, k>> \in before \/ <<k, j>> \in before
    <3> SUFFICES ASSUME NEW j \in W, NEW k \in W, j # k
                 PROVE  <<j, k>> \in before \/ <<k, j>> \in before
      OBVIOUS
    <3>1. Before(j, k) \/ Before(k, j)
      BY <1>0
    <3> HIDE DEF Before
    <3> QED BY <3>1
  <2>2. \A i, j, k \in W : <<i, j>> \in before /\ <<j, k>> \in before => <<i, k>> \in before
    <3> SUFFICES ASSUME NEW i \in W, NEW j \in W, NEW k \in W,
                        <<i, j>> \in before, <<j, k>> \in before
                 PROVE  <<i, k>> \in before
      OBVIOUS
    <3>1. Before(i, j) /\ Before(j, k)
      OBVIOUS
    <3>2. Before(i, k)
      BY <3>1, <1>0
    <3> HIDE DEF Before
    <3> QED BY <3>2
  <2> HIDE DEF before
  <2> QED BY <1>1, <2>1, <2>2, <2>3, RanksAreDistinct
<1>4. c \in Nat
  BY <1>1, FS_CardinalityType
<1> HIDE DEF rank, c, Rank, W
<1>5. \A n \in 1..c : Place(n) \in W /\ rank[Place(n)] = n - 1
  <2> SUFFICES ASSUME NEW n \in 1..c PROVE Place(n) \in W /\ rank[Place(n)] = n - 1
    OBVIOUS
  <2>1. n - 1 \in 0..(c - 1)
    BY <1>4
  <2>2. \E k \in W : Rank(k) = n - 1
    BY <2>1, <1>2, <1>3 DEF Bijection, Surjection
  <2> QED BY <2>2, <1>2
<1> HIDE DEF Place
<1>6. place \in [1..c -> W] /\ \A n \in 1..c : rank[place[n]] = n - 1
  BY <1>5
<1>7. place \in Bijection(1..c, W)
  <2> HIDE DEF place
  <2> QED BY <1>1, <1>3, <1>6, RanksEnumerate DEF c
<1>8. OfTypes(rs, types, fs) = [n \in 1..c |-> rs[place[n]]]
  BY DEF OfTypes, Place, Rank, W, Wanted, c
<1> HIDE DEF place
<1> QED BY <1>1, <1>7, <1>8 DEF c, W

\* Laid out once each, as many elements fall in a set as before.
LEMMA PlacesCount ==
  ASSUME NEW n \in Nat, NEW S, IsFiniteSet(S), NEW place \in Bijection(1..n, S), NEW T \in SUBSET S
  PROVE  Cardinality({k \in 1..n : place[k] \in T}) = Cardinality(T)
<1> DEFINE D == {k \in 1..n : place[k] \in T}
           at == [k \in D |-> place[k]]
<1>1. /\ place \in [1..n -> S] /\ \A j, k \in 1..n : place[j] = place[k] => j = k
      /\ \A x \in S : \E k \in 1..n : place[k] = x
  BY DEF Bijection, Injection, Surjection, IsInjective
<1>2. at \in Bijection(D, T)
  <2>1. at \in [D -> T] /\ \A j, k \in D : at[j] = at[k] => j = k
    BY <1>1
  <2>2. \A x \in T : \E k \in D : at[k] = x
    BY <1>1
  <2> HIDE DEF at, D
  <2> QED BY <2>1, <2>2 DEF Bijection, Injection, Surjection, IsInjective
<1>3. IsFiniteSet(D)
  BY FS_Interval, FS_Subset
<1> HIDE DEF D
<1>4. Cardinality(T) = Cardinality(D)
  BY <1>2, <1>3, FS_Bijection DEF ExistsBijection
<1> QED BY <1>4 DEF D

\* What Chosen and OfTypes return: a sequence of what stands at the places.
LEMMA LaidOut ==
  ASSUME NEW seq, NEW S, NEW n \in Nat, NEW place \in Bijection(1..n, S),
         NEW out, DOMAIN out = 1..n, out = [k \in DOMAIN out |-> out[k]],
         \A k \in 1..n : out[k] = seq[place[k]]
  PROVE  /\ out \in Seq(Range(out)) /\ Len(out) = n /\ DOMAIN out = 1..n
         /\ Range(out) = {seq[k] : k \in S}
<1>1. place \in [1..n -> S] /\ \A x \in S : \E k \in 1..n : place[k] = x
  BY DEF Bijection, Surjection
<1>2. DOMAIN out = 1..n /\ \A k \in 1..n : out[k] \in Range(out)
  BY DEF Range
<1>3. out \in Seq(Range(out))
  BY <1>2
<1>4. Len(out) = n
  BY <1>2, <1>3
<1>5. Range(out) = {seq[k] : k \in S}
  BY <1>1 DEF Range
<1> QED BY <1>2, <1>3, <1>4, <1>5

LEMMA ChosenIsSeq ==
  ASSUME NEW seq, NEW places \in SUBSET Int, IsFiniteSet(places)
  PROVE  /\ Chosen(seq, places) \in Seq(Range(Chosen(seq, places)))
         /\ Len(Chosen(seq, places)) = Cardinality(places)
         /\ Range(Chosen(seq, places)) = {seq[k] : k \in places}
<1>1. Cardinality(places) \in Nat
  BY FS_CardinalityType
<1> DEFINE out == Chosen(seq, places)
           c == Cardinality(places)
<1>2. PICK place \in Bijection(1..c, places) : out = [n \in 1..c |-> seq[place[n]]]
  BY ChosenEnumerates
<1> HIDE DEF out, c
<1>3. /\ out \in Seq(Range(out)) /\ Len(out) = c
      /\ Range(out) = {seq[k] : k \in places}
  <2>1. c \in Nat
    BY <1>1 DEF c
  <2>2. DOMAIN out = 1..c /\ out = [k \in DOMAIN out |-> out[k]] /\ \A k \in 1..c : out[k] = seq[place[k]]
    BY <1>2
  <2> QED BY <2>1, <2>2, LaidOut
<1> QED BY <1>3 DEF out, c

LEMMA ChosenFromSeq ==
  ASSUME NEW seq, seq \in Seq(Range(seq)), NEW places \in SUBSET (DOMAIN seq)
  PROVE  /\ Chosen(seq, places) \in Seq(Range(Chosen(seq, places)))
         /\ Range(Chosen(seq, places)) \subseteq Range(seq)
<1>1. DOMAIN seq = 1..Len(seq) /\ Len(seq) \in Nat
  OBVIOUS
<1>2. IsFiniteSet(DOMAIN seq) /\ DOMAIN seq \subseteq Int
  BY <1>1, FS_Interval
<1>3. IsFiniteSet(places)
  BY <1>2, FS_Subset
<1>4. /\ Chosen(seq, places) \in Seq(Range(Chosen(seq, places)))
      /\ Range(Chosen(seq, places)) = {seq[k] : k \in places}
  BY <1>2, <1>3, ChosenIsSeq
<1> QED BY <1>4 DEF Range

LEMMA OfTypesIsSeq ==
  ASSUME NEW rs, rs \in Seq(Range(rs)), \A k \in DOMAIN rs : rs[k].first \in Int,
         NEW types, NEW fs
  PROVE  /\ OfTypes(rs, types, fs) \in Seq(Range(OfTypes(rs, types, fs)))
         /\ Range(OfTypes(rs, types, fs)) = {r \in Range(rs) : r.type \in types /\ r.file \in fs}
<1> DEFINE W == Wanted(rs, types, fs)
<1>1. IsFiniteSet(W) /\ Cardinality(W) \in Nat
  BY OfTypesEnumerates, FS_CardinalityType
<1>2. /\ OfTypes(rs, types, fs) \in Seq(Range(OfTypes(rs, types, fs)))
      /\ Range(OfTypes(rs, types, fs)) = {rs[k] : k \in W}
  <2> DEFINE out == OfTypes(rs, types, fs)
             c == Cardinality(W)
  <2>1. PICK place \in Bijection(1..c, W) : out = [n \in 1..c |-> rs[place[n]]]
    BY OfTypesEnumerates
  <2> HIDE DEF out, c, W
  <2>2. c \in Nat
    BY <1>1 DEF c
  <2>3. DOMAIN out = 1..c /\ out = [k \in DOMAIN out |-> out[k]] /\ \A k \in 1..c : out[k] = rs[place[k]]
    BY <2>1
  <2>4. out \in Seq(Range(out)) /\ Range(out) = {rs[k] : k \in W}
    BY <2>2, <2>3, LaidOut
  <2> QED BY <2>4 DEF out
<1>3. {rs[k] : k \in W} = {r \in Range(rs) : r.type \in types /\ r.file \in fs}
  BY DEF Wanted, Range
<1> QED BY <1>2, <1>3

\* A set of places of a sequence has a last one.
LEMMA GreatestPlace ==
  ASSUME NEW n \in Nat, NEW S \in SUBSET (1..n), S # {}
  PROVE  \E k \in S : \A j \in S : j <= k
<1> DEFINE Bounds == {b \in Nat : \A j \in S : j <= b}
<1>1. n \in Bounds
  OBVIOUS
<1>2. PICK b \in Bounds : \A c \in Bounds : b <= c
  <2>1. Bounds \in SUBSET Nat /\ Bounds # {}
    BY <1>1
  <2> HIDE DEF Bounds
  <2> QED BY <2>1, LeastNatural
<1>3. CASE b \in S
  BY <1>3, <1>2
<1>4. CASE b \notin S
  <2>1. \A j \in S : j <= b - 1 /\ j >= 1
    <3> SUFFICES ASSUME NEW j \in S PROVE j <= b - 1 /\ j >= 1  OBVIOUS
    <3>1. j \in Nat /\ j >= 1 /\ j <= b /\ j # b /\ b \in Nat
      BY <1>4, <1>2
    <3> QED BY <3>1
  <2>2. b - 1 \in Nat
    <3>1. PICK j \in S : TRUE
      OBVIOUS
    <3>2. j \in Nat /\ j >= 1 /\ j <= b - 1 /\ b \in Nat
      BY <2>1, <3>1, <1>2
    <3> QED BY <3>2
  <2>3. b - 1 \in Bounds
    BY <2>1, <2>2
  <2>4. b <= b - 1
    BY <2>3, <1>2
  <2> QED BY <2>2, <2>4
<1> QED BY <1>3, <1>4

\* Two sequences one after the other.
LEMMA Joined ==
  ASSUME NEW s, NEW t, s \in Seq(Range(s)), t \in Seq(Range(t))
  PROVE  /\ s \o t \in Seq(Range(s \o t)) /\ Len(s \o t) = Len(s) + Len(t)
         /\ \A k \in 1..Len(s) : (s \o t)[k] = s[k]
         /\ \A k \in 1..Len(t) : Len(s) + k \in 1..Len(s \o t) /\ (s \o t)[Len(s) + k] = t[k]
         /\ \A k \in 1..Len(s \o t) : k \in 1..Len(s) \/ k - Len(s) \in 1..Len(t)
         /\ Range(s \o t) = Range(s) \cup Range(t)
<1> DEFINE U == Range(s) \cup Range(t)
<1>1. s \in Seq(U) /\ t \in Seq(U)
  OBVIOUS
<1>2. Len(s) \in Nat /\ Len(t) \in Nat /\ DOMAIN s = 1..Len(s) /\ DOMAIN t = 1..Len(t)
  BY <1>1
<1>3. /\ s \o t \in Seq(U) /\ Len(s \o t) = Len(s) + Len(t)
      /\ \A i \in 1..(Len(s) + Len(t)) : (s \o t)[i] = IF i <= Len(s) THEN s[i] ELSE t[i - Len(s)]
  <2> HIDE DEF U
  <2> QED BY <1>1, ConcatProperties
<1>4. DOMAIN (s \o t) = 1..(Len(s) + Len(t))
  BY <1>3
<1> DEFINE st == s \o t
<1> HIDE DEF st
<1>5. /\ \A k \in 1..Len(s) : st[k] = s[k]
      /\ \A k \in 1..Len(t) : Len(s) + k \in 1..(Len(s) + Len(t)) /\ st[Len(s) + k] = t[k]
      /\ \A k \in 1..(Len(s) + Len(t)) : k \in 1..Len(s) \/ k - Len(s) \in 1..Len(t)
  <2>1. \A k \in 1..Len(s) : k \in 1..(Len(s) + Len(t)) /\ k <= Len(s)
    BY <1>2
  <2>2. \A k \in 1..Len(t) : Len(s) + k \in 1..(Len(s) + Len(t)) /\ ~(Len(s) + k <= Len(s)) /\ (Len(s) + k) - Len(s) = k
    BY <1>2
  <2>3. \A k \in 1..(Len(s) + Len(t)) : k \in 1..Len(s) \/ k - Len(s) \in 1..Len(t)
    BY <1>2
  <2> QED BY <2>1, <2>2, <2>3, <1>3 DEF st
<1>6. Range(st) = U
  <2>1. \A x \in Range(st) : x \in U
    BY <1>3, <1>4 DEF Range, st
  <2>2. \A x \in Range(s) : x \in Range(st)
    BY <1>2, <1>4, <1>5 DEF Range, st
  <2>3. \A x \in Range(t) : x \in Range(st)
    BY <1>2, <1>4, <1>5 DEF Range, st
  <2> QED BY <2>1, <2>2, <2>3
<1> HIDE DEF U
<1> QED BY <1>3, <1>4, <1>5, <1>6 DEF st, U

----------------------------------------------------------------------------
(* The parsers.                                                            *)

\* A node of a parser, or a row before its parent is resolved, lies inside its
\* parent.
Contained(r) == r.parent # Nobody => r.parent.first <= r.first /\ r.last <= r.parent.last

\* Lists put one after the other are a list of what they hold.
LEMMA Flattened ==
  ASSUME NEW S, NEW seqs \in Seq(Seq(S))
  PROVE  FlattenSeq(seqs) \in Seq(S)
<1> DEFINE N == Len(seqs)
           Entry(i, g) == IF i = 1 THEN seqs[i] ELSE g[i - 1] \o seqs[i]
           Unfolds(g, m) == g = [i \in 1..m |-> Entry(i, g)]
           Good == {m \in Nat : \E g : Unfolds(g, m)}
<1>1. N \in Nat /\ DOMAIN seqs = 1..N /\ \A i \in 1..N : seqs[i] \in Seq(S)
  OBVIOUS
<1>2. CASE N = 0
  <2>1. FlattenSeq(seqs) = <<>>
    BY <1>2 DEF FlattenSeq
  <2> QED BY <2>1
<1>3. CASE N # 0
  <2>1. \A x, y : Entry(1, x) = Entry(1, y)
    OBVIOUS
  <2>2. ASSUME NEW m \in Nat, NEW g, Unfolds(g, m) PROVE \E h : Unfolds(h, m + 1)
    <3> DEFINE h == [i \in 1..(m + 1) |-> Entry(i, g)]
    <3>1. \A i \in 1..m : h[i] = g[i]
      <4> HIDE DEF Entry
      <4> QED BY <2>2
    <3>2. \A i \in 1..(m + 1) : i # 1 => i - 1 \in 1..m
      OBVIOUS
    <3>3. \A i \in 1..(m + 1) : Entry(i, g) = Entry(i, h)
      <4> HIDE DEF h
      <4> QED BY <3>1, <3>2
    <3>4. Unfolds(h, m + 1)
      <4> HIDE DEF Entry
      <4> QED BY <3>3
    <3> QED BY <3>4
  <2>3. 0 \in Good
    <3> DEFINE g == [i \in {} |-> i]
    <3>1. 1..0 = {}
      OBVIOUS
    <3>2. g = [i \in 1..0 |-> Entry(i, g)]
      <4> HIDE DEF Entry
      <4> QED BY <3>1
    <3> QED BY <3>2
  <2>4. \A m \in Good \cap Nat : m < N => m + 1 \in Good
    <3> SUFFICES ASSUME NEW m \in Good \cap Nat PROVE m + 1 \in Good
      OBVIOUS
    <3>1. PICK g : Unfolds(g, m)
      OBVIOUS
    <3> HIDE DEF Unfolds
    <3> QED BY <3>1, <2>2
  <2>5. \E g : Unfolds(g, N)
    <3>1. 0..N \subseteq Good
      <4> HIDE DEF Good, N
      <4> QED BY <1>1, <2>3, <2>4, UpTo
    <3>2. N \in 0..N
      BY <1>1
    <3> QED BY <3>1, <3>2
  <2> DEFINE flat == CHOOSE g : Unfolds(g, N)
  <2>6. Unfolds(flat, N)
    <3> HIDE DEF Unfolds
    <3> QED BY <2>5
  <2>7. FlattenSeq(seqs) = flat[N]
    <3> HIDE DEF flat
    <3>1. N # 0
      BY <1>3
    <3>2. flat = CHOOSE g : Unfolds(g, N)
      BY DEF flat
    <3> QED BY <3>1, <3>2 DEF FlattenSeq
  <2> HIDE DEF flat
  <2>8. \A i \in 1..N : flat[i] = Entry(i, flat)
    <3> HIDE DEF Entry
    <3> QED BY <2>6
  <2> DEFINE Lists == {m \in Nat : m \in 1..N => flat[m] \in Seq(S)}
  <2>9. \A m \in Lists \cap Nat : m < N => m + 1 \in Lists
    <3> SUFFICES ASSUME NEW m \in Lists \cap Nat, m < N PROVE flat[m + 1] \in Seq(S)
      OBVIOUS
    <3>1. m + 1 \in 1..N /\ seqs[m + 1] \in Seq(S)
      BY <1>1
    <3>3. CASE m = 0
      <4>1. flat[m + 1] = Entry(m + 1, flat)
        BY <2>8, <3>1
      <4> QED BY <3>1, <3>3, <4>1
    <3>4. CASE m # 0
      <4>1. flat[m] \in Seq(S)
        BY <1>1, <3>1, <3>4
      <4>2. flat[m + 1] = flat[m] \o seqs[m + 1]
        <5>1. m + 1 # 1 /\ (m + 1) - 1 = m
          BY <3>4
        <5>2. flat[m + 1] = Entry(m + 1, flat)
          BY <2>8, <3>1
        <5> QED BY <5>1, <5>2
      <4> QED BY <3>1, <4>1, <4>2, ConcatProperties
    <3> QED BY <3>3, <3>4
  <2>10. 0..N \subseteq Lists
    <3>1. 0 \in Lists
      OBVIOUS
    <3> HIDE DEF Lists, N
    <3> QED BY <1>1, <2>9, <3>1, UpTo
  <2>11. N \in Lists /\ N \in 1..N
    BY <1>1, <1>3, <2>10
  <2> QED BY <2>7, <2>11
<1> QED BY <1>2, <1>3

\* What is below a step comes later in the file, or is the same element.
Rank(src, step) == 2 * (Len(src.elems) - step[2]) + (IF step[1] = "visit" THEN 1 ELSE 0)

\* A parent is around an element.
IsAround(src, base, i, parent) ==
  parent # Nobody => /\ parent.first <= src.elems[i].first - base
                     /\ src.elems[i].last - base <= parent.last

\* The nodes that can be made of a tree and lie inside of their parents.
Made(src, base) ==
  {n \in {NodeOf(src, base, type, e, name, parent) :
            type \in TypesIn(src), e \in Range(src.elems), name \in NamesIn(src), parent \in Parents(src)} :
     Contained(n)}

\* Two values of a step below a parent: they are one, and the nodes in it lie
\* inside of their parents.
Alike(src, base, i, parent, a, b) ==
  a = b /\ (IsAround(src, base, i, parent) => a \in Seq(Made(src, base)))

\* Two walks of a tree agree on the steps of a smaller rank.
Agree(src, base, f, g, rank) ==
  /\ IsTree(src) /\ base \in Int /\ rank \in Int
  /\ \A t \in Steps(src) : Rank(src, t) < rank => Alike(src, base, t[2], t[3], f[t], g[t])

\* The node of an element can be a parent, and is around what it is made of.
LEMMA NodeInside ==
  ASSUME NEW src, IsTree(src), NEW base \in Int, NEW i \in DOMAIN src.elems,
         NEW type \in TypesIn(src), NEW name \in NamesIn(src), NEW parent \in Parents(src)
  PROVE  LET node == NodeOf(src, base, type, src.elems[i], name, parent)
         IN /\ node.type = type
            /\ RefOf(node) \in Parents(src)
            /\ IsAround(src, base, i, RefOf(node))
            /\ IsAround(src, base, i, parent) => <<node>> \in Seq(Made(src, base))
<1> DEFINE e == src.elems[i]
           node == NodeOf(src, base, type, e, name, parent)
<1>1. e.first \in Int /\ e.last \in Int /\ e \in Range(src.elems)
  BY DEF IsTree, Range
<1>2. /\ node.type = type /\ node.name = name /\ node.star = IsStarred(src, e)
      /\ node.first = e.first - base /\ node.last = e.last - base
      /\ node.parent = ParentOf(src, type, parent)
  BY DEF NodeOf
<1>3. IsStarred(src, e) \in BOOLEAN
  BY DEF IsStarred
<1>4. RefOf(node) = [type |-> type, name |-> name, star |-> IsStarred(src, e),
                     first |-> e.first - base, last |-> e.last - base]
  BY <1>2 DEF RefOf
<1>5. e.first - base \in Int /\ e.last - base \in Int
  BY <1>1
<1> HIDE DEF node
<1>6. RefOf(node) \in Parents(src)
  BY <1>3, <1>4, <1>5 DEF Parents
<1>7. IsAround(src, base, i, RefOf(node))
  <2>1. RefOf(node).first = e.first - base /\ RefOf(node).last = e.last - base
    BY <1>4
  <2> QED BY <2>1, <1>5 DEF IsAround
<1>8. ASSUME IsAround(src, base, i, parent) PROVE <<node>> \in Seq(Made(src, base))
  <2>1. Contained(node)
    BY <1>2, <1>8 DEF Contained, IsAround, ParentOf
  <2>2. node \in Made(src, base)
    BY <1>1, <2>1 DEF Made, node
  <2> QED BY <2>2
<1> QED BY <1>2, <1>6, <1>7, <1>8 DEF node

\* An element below another comes after it, and what is around the one is
\* around the other.
LEMMA KidsInside ==
  ASSUME NEW src, IsTree(src), NEW base \in Int, NEW i \in DOMAIN src.elems,
         NEW k \in DOMAIN src.elems[i].kids
  PROVE  LET j == src.elems[i].kids[k]
         IN /\ j \in DOMAIN src.elems /\ i \in Int /\ j \in Int /\ Len(src.elems) \in Int
            /\ 2 * (Len(src.elems) - j) + 1 < 2 * (Len(src.elems) - i)
            /\ \A parent \in Parents(src) : IsAround(src, base, i, parent) => IsAround(src, base, j, parent)
<1> DEFINE j == src.elems[i].kids[k]
<1>1. /\ DOMAIN src.elems = 1..Len(src.elems) /\ Len(src.elems) \in Nat
  BY DEF IsTree
<1>2. src.elems[i].kids \in Seq(DOMAIN src.elems) /\ j \in Range(src.elems[i].kids)
  BY DEF IsTree, Range
<1>3. j \in DOMAIN src.elems
  BY <1>2
<1>4. i < j /\ src.elems[i].first <= src.elems[j].first /\ src.elems[j].last <= src.elems[i].last
  BY <1>2 DEF IsTree
<1>5. /\ src.elems[i].first \in Int /\ src.elems[i].last \in Int
      /\ src.elems[j].first \in Int /\ src.elems[j].last \in Int
  BY <1>3 DEF IsTree
<1>6. ASSUME NEW parent \in Parents(src), IsAround(src, base, i, parent)
      PROVE  IsAround(src, base, j, parent)
  <2>1. parent.first \in Int /\ parent.last \in Int
    BY DEF Parents
  <2> HIDE DEF j
  <2> QED BY <1>4, <1>5, <1>6, <2>1 DEF IsAround
<1>7. 2 * (Len(src.elems) - j) + 1 < 2 * (Len(src.elems) - i)
  <2> HIDE DEF j
  <2> QED BY <1>1, <1>3, <1>4
<1> QED BY <1>1, <1>3, <1>6, <1>7

\* Functions given by their values.
LEMMA SameValues ==
  ASSUME NEW D, NEW a, NEW b, a = [k \in D |-> a[k]], b = [k \in D |-> b[k]]
  PROVE  /\ (\A k \in D : a[k] = b[k]) => a = b
         /\ \A S : (\A k \in D : a[k] \in S) => a \in [D -> S]
OBVIOUS

LEMMA NamesThere ==
  ASSUME NEW src, NEW i \in DOMAIN src.elems
  PROVE  src.elems[i].name \in NamesIn(src) /\ NodeName(src, src.elems[i]) \in NamesIn(src)
<1> DEFINE e == src.elems[i]
           Pairs == {{x.name, NodeName(src, x)} : x \in Range(src.elems)}
<1>1. e \in Range(src.elems)
  BY DEF Range
<1>2. {e.name, NodeName(src, e)} \in Pairs
  BY <1>1
<1> HIDE DEF Pairs
<1>3. e.name \in UNION Pairs /\ NodeName(src, e) \in UNION Pairs
  BY <1>2
<1> QED BY <1>3 DEF NamesIn, Pairs

\* What is appended for the elements of a list below an element.
LEMMA ListAlike ==
  ASSUME NEW src, IsTree(src), NEW base \in Int, NEW i \in DOMAIN src.elems,
         NEW parent \in Parents(src), NEW a, NEW b,
         a = [k \in DOMAIN src.elems[i].kids |-> a[k]], b = [k \in DOMAIN src.elems[i].kids |-> b[k]],
         \A k \in DOMAIN src.elems[i].kids : Alike(src, base, src.elems[i].kids[k], parent, a[k], b[k])
  PROVE  Alike(src, base, i, parent, FlattenSeq(a), FlattenSeq(b))
<1> DEFINE kids == src.elems[i].kids
           M == Made(src, base)
<1>1. a = b
  <2>1. \A k \in DOMAIN kids : a[k] = b[k]
    BY DEF Alike
  <2> QED BY <2>1, SameValues
<1>2. ASSUME IsAround(src, base, i, parent) PROVE a \in Seq(Seq(M))
  <2>1. kids \in Seq(DOMAIN src.elems)
    BY DEF IsTree
  <2>2. DOMAIN kids = 1..Len(kids) /\ Len(kids) \in Nat
    BY <2>1
  <2>3. \A k \in DOMAIN kids : a[k] \in Seq(M)
    BY <1>2, KidsInside DEF Alike
  <2> HIDE DEF M
  <2>4. a \in [DOMAIN kids -> Seq(M)]
    BY <2>3, SameValues
  <2> HIDE DEF kids
  <2> QED BY <2>2, <2>4
<1> QED BY <1>1, <1>2, Flattened DEF Alike

\* A node, and what a smaller step appends inside of it.
LEMMA NodeAndInside ==
  ASSUME NEW src, NEW base, NEW f, NEW g, NEW rank, Agree(src, base, f, g, rank),
         NEW i \in DOMAIN src.elems, NEW parent \in Parents(src),
         NEW node, RefOf(node) \in Parents(src), IsAround(src, base, i, RefOf(node)),
         IsAround(src, base, i, parent) => <<node>> \in Seq(Made(src, base)),
         2 * (Len(src.elems) - i) < rank
  PROVE  /\ Alike(src, base, i, parent, <<node>>, <<node>>)
         /\ Alike(src, base, i, parent, <<node>> \o f[<<"inside", i, RefOf(node)>>],
                                        <<node>> \o g[<<"inside", i, RefOf(node)>>])
<1> DEFINE t == <<"inside", i, RefOf(node)>>
<1>1. t \in Steps(src) /\ t[1] = "inside" /\ t[2] = i /\ t[3] = RefOf(node)
  BY DEF Steps
<1>2. Rank(src, t) < rank
  <2>1. Len(src.elems) \in Int /\ i \in Int
    BY DEF Agree, IsTree
  <2> QED BY <1>1, <2>1 DEF Rank
<1>3. f[t] = g[t] /\ f[t] \in Seq(Made(src, base))
  BY <1>1, <1>2 DEF Agree, Alike
<1> QED BY <1>3, ConcatProperties DEF Alike

\* A step at an element, below a parent.
LEMMA StepAlike ==
  ASSUME NEW src, NEW base, NEW f, NEW g, NEW rank, Agree(src, base, f, g, rank),
         NEW i \in DOMAIN src.elems, NEW parent \in Parents(src),
         NEW kind \in {"visit", "inside", "object"},
         2 * (Len(src.elems) - i) + (IF kind = "visit" THEN 1 ELSE 0) < rank
  PROVE  Alike(src, base, i, parent, f[<<kind, i, parent>>], g[<<kind, i, parent>>])
<1> DEFINE t == <<kind, i, parent>>
<1>1. t \in Steps(src) /\ t[1] = kind /\ t[2] = i /\ t[3] = parent
  BY DEF Steps
<1>2. Rank(src, t) < rank
  BY <1>1 DEF Rank
<1> QED BY <1>1, <1>2 DEF Agree

\* From here on, one lemma for each operator of the walk: two walks that agree
\* on smaller steps give it one value.
LEMMA NodeAlike ==
  ASSUME NEW src, NEW base, NEW f, NEW g, NEW rank, Agree(src, base, f, g, rank),
         NEW i \in DOMAIN src.elems, NEW parent \in Parents(src),
         NEW type \in TypesIn(src), 2 * (Len(src.elems) - i) < rank
  PROVE  LET node == Node(src, base, type, i, parent)
         IN /\ node.type = type
            /\ RefOf(node) \in Parents(src)
            /\ IsAround(src, base, i, RefOf(node))
            /\ Alike(src, base, i, parent, <<node>>, <<node>>)
            /\ Alike(src, base, i, parent, <<node>> \o f[<<"inside", i, RefOf(node)>>],
                                           <<node>> \o g[<<"inside", i, RefOf(node)>>])
<1>1. NodeName(src, src.elems[i]) \in NamesIn(src)
  BY NamesThere
<1>2. IsTree(src) /\ base \in Int
  BY DEF Agree
<1> DEFINE node == Node(src, base, type, i, parent)
<1>3. /\ node.type = type /\ RefOf(node) \in Parents(src) /\ IsAround(src, base, i, RefOf(node))
      /\ IsAround(src, base, i, parent) => <<node>> \in Seq(Made(src, base))
  BY <1>1, <1>2, NodeInside DEF Node
<1> HIDE DEF node
<1>4. /\ Alike(src, base, i, parent, <<node>>, <<node>>)
      /\ Alike(src, base, i, parent, <<node>> \o f[<<"inside", i, RefOf(node)>>],
                                     <<node>> \o g[<<"inside", i, RefOf(node)>>])
  BY <1>3, NodeAndInside
<1> QED BY <1>3, <1>4 DEF node

LEMMA MemberAlike ==
  ASSUME NEW src, NEW base, NEW f, NEW g, NEW rank, Agree(src, base, f, g, rank),
         NEW i \in DOMAIN src.elems, NEW parent \in Parents(src), 2 * (Len(src.elems) - i) + 1 < rank
  PROVE  Alike(src, base, i, parent, Member(src, base, i, parent, f), Member(src, base, i, parent, g))
<1>1. "method" \in TypesIn(src)
  BY DEF TypesIn
<1>2. 2 * (Len(src.elems) - i) < rank
  BY DEF Agree, IsTree
<1>3. Alike(src, base, i, parent, <<>>, <<>>)
  BY DEF Alike
<1> QED BY <1>1, <1>2, <1>3, NodeAlike DEF Member

\* The elements below have a smaller rank.
LEMMA KidsBelow ==
  ASSUME NEW src, IsTree(src), NEW rank \in Int, NEW i \in DOMAIN src.elems,
         NEW k \in DOMAIN src.elems[i].kids, 2 * (Len(src.elems) - i) <= rank
  PROVE  LET j == src.elems[i].kids[k]
         IN j \in DOMAIN src.elems /\ 2 * (Len(src.elems) - j) + 1 < rank
<1> DEFINE j == src.elems[i].kids[k]
<1>1. /\ j \in DOMAIN src.elems /\ i \in Int /\ j \in Int /\ Len(src.elems) \in Int
      /\ 2 * (Len(src.elems) - j) + 1 < 2 * (Len(src.elems) - i)
  BY 0 \in Int, KidsInside
<1> HIDE DEF j
<1>2. 2 * (Len(src.elems) - j) + 1 < rank
  BY <1>1
<1> QED BY <1>1, <1>2 DEF j

LEMMA MembersAlike ==
  ASSUME NEW src, NEW base, NEW f, NEW g, NEW rank, Agree(src, base, f, g, rank),
         NEW i \in DOMAIN src.elems, NEW parent \in Parents(src), 2 * (Len(src.elems) - i) + 1 < rank
  PROVE  Alike(src, base, i, parent, Members(src, base, i, parent, f), Members(src, base, i, parent, g))
<1> DEFINE body == src.elems[i].kids
           List(w) == [k \in DOMAIN body |-> Member(src, base, body[k], parent, w)]
<1>1. IsTree(src) /\ base \in Int /\ rank \in Int /\ 2 * (Len(src.elems) - i) <= rank
  BY DEF Agree, IsTree
<1>2. ASSUME NEW k \in DOMAIN body
      PROVE  Alike(src, base, body[k], parent, List(f)[k], List(g)[k])
  <2>1. body[k] \in DOMAIN src.elems /\ 2 * (Len(src.elems) - body[k]) + 1 < rank
    BY <1>1, KidsBelow
  <2>2. Alike(src, base, body[k], parent, Member(src, base, body[k], parent, f),
                                          Member(src, base, body[k], parent, g))
    BY <2>1, MemberAlike
  <2> QED BY <2>2
<1>3. Alike(src, base, i, parent, FlattenSeq(List(f)), FlattenSeq(List(g)))
  <2>1. List(f) = [k \in DOMAIN body |-> List(f)[k]] /\ List(g) = [k \in DOMAIN body |-> List(g)[k]]
    OBVIOUS
  <2> HIDE DEF List
  <2> QED BY <1>1, <1>2, <2>1, ListAlike
<1>4. Alike(src, base, i, parent, Member(src, base, i, parent, f), Member(src, base, i, parent, g))
  BY MemberAlike
<1>5. CASE src.elems[i].kind = "body"
  <2>1. /\ Members(src, base, i, parent, f) = FlattenSeq(List(f))
        /\ Members(src, base, i, parent, g) = FlattenSeq(List(g))
    BY <1>5 DEF Members
  <2> HIDE DEF List
  <2> QED BY <1>3, <2>1
<1>6. CASE src.elems[i].kind # "body"
  BY <1>4, <1>6 DEF Members
<1> QED BY <1>5, <1>6

LEMMA InnerAlike ==
  ASSUME NEW src, NEW base, NEW f, NEW g, NEW rank, Agree(src, base, f, g, rank),
         NEW i \in DOMAIN src.elems, NEW parent \in Parents(src), 2 * (Len(src.elems) - i) + 1 < rank
  PROVE  Alike(src, base, i, parent, Inner(src, base, i, parent, f), Inner(src, base, i, parent, g))
<1> DEFINE P == ParserOf[src.lang]
           e == src.elems[i]
<1>1. 2 * (Len(src.elems) - i) < rank
  BY DEF Agree, IsTree
<1>2. CASE e.kind \in P.nested
  <2>1. TypeOf(src, e) \in TypesIn(src)
    BY <1>2 DEF TypesIn, Range
  <2> DEFINE node == Node(src, base, TypeOf(src, e), i, parent)
  <2>2. Alike(src, base, i, parent, <<node>> \o f[<<"inside", i, RefOf(node)>>],
                                    <<node>> \o g[<<"inside", i, RefOf(node)>>])
    BY <1>1, <2>1, NodeAlike
  <2> QED BY <1>2, <2>2 DEF Inner
<1>3. CASE e.kind \notin P.nested /\ parent.type \in P.holders
  BY <1>3, MembersAlike DEF Inner
<1>4. CASE e.kind \notin P.nested /\ parent.type \notin P.holders /\ e.kind = "call"
  <2>1. "call" \in TypesIn(src)
    BY DEF TypesIn
  <2>2. Alike(src, base, i, parent, <<Node(src, base, "call", i, parent)>>,
                                    <<Node(src, base, "call", i, parent)>>)
    BY <1>1, <2>1, NodeAlike
  <2> QED BY <1>4, <2>2 DEF Inner
<1>5. CASE e.kind \notin P.nested /\ parent.type \notin P.holders /\ e.kind # "call"
  <2>1. Alike(src, base, i, parent, f[<<"visit", i, parent>>], g[<<"visit", i, parent>>])
    BY StepAlike
  <2> QED BY <1>5, <2>1 DEF Inner
<1> QED BY <1>2, <1>3, <1>4, <1>5

LEMMA ObjectMethodAlike ==
  ASSUME NEW src, NEW base, NEW f, NEW g, NEW rank, Agree(src, base, f, g, rank),
         NEW i \in DOMAIN src.elems, NEW parent \in Parents(src), NEW name \in NamesIn(src),
         2 * (Len(src.elems) - i) + 1 < rank
  PROVE  Alike(src, base, i, parent, ObjectMethod(src, base, i, name, parent, f),
                                     ObjectMethod(src, base, i, name, parent, g))
<1>1. 2 * (Len(src.elems) - i) < rank /\ IsTree(src) /\ base \in Int
  BY DEF Agree, IsTree
<1>2. "object_method" \in TypesIn(src)
  BY DEF TypesIn
<1> QED BY <1>1, <1>2, NodeInside, NodeAndInside DEF ObjectMethod

LEMMA PropertyAlike ==
  ASSUME NEW src, NEW base, NEW f, NEW g, NEW rank, Agree(src, base, f, g, rank),
         NEW i \in DOMAIN src.elems, NEW parent \in Parents(src), 2 * (Len(src.elems) - i) + 1 < rank
  PROVE  Alike(src, base, i, parent, Property(src, base, i, parent, f), Property(src, base, i, parent, g))
<1> DEFINE e == src.elems[i]
           value == e.kids[1]
           Holds(kind) == e.kind = "pair" /\ e.kids # <<>> /\ src.elems[value].kind = kind
<1>1. /\ IsTree(src) /\ base \in Int /\ rank \in Int /\ Len(src.elems) \in Int
      /\ 2 * (Len(src.elems) - i) <= rank
  BY DEF Agree, IsTree
<1>2. e.name \in NamesIn(src)
  BY NamesThere
<1>3. CASE e.kind = "method"
  <2>1. Alike(src, base, i, parent, ObjectMethod(src, base, i, e.name, parent, f),
                                    ObjectMethod(src, base, i, e.name, parent, g))
    BY <1>2, ObjectMethodAlike
  <2>2. /\ Property(src, base, i, parent, f) = ObjectMethod(src, base, i, e.name, parent, f)
        /\ Property(src, base, i, parent, g) = ObjectMethod(src, base, i, e.name, parent, g)
    BY <1>3 DEF Property
  <2> QED BY <2>1, <2>2
<1>4. ASSUME e.kids # <<>>
      PROVE  /\ value \in DOMAIN src.elems /\ 2 * (Len(src.elems) - value) + 1 < rank
             /\ \A a, b : Alike(src, base, value, parent, a, b) => Alike(src, base, i, parent, a, b)
  <2>1. e.kids \in Seq(DOMAIN src.elems)
    BY <1>1 DEF IsTree
  <2>2. 1 \in DOMAIN e.kids
    <3> HIDE DEF e
    <3> QED BY <1>4, <2>1
  <2>3. value \in DOMAIN src.elems /\ 2 * (Len(src.elems) - value) + 1 < rank
    BY <1>1, <2>2, KidsBelow
  <2>4. IsAround(src, base, i, parent) => IsAround(src, base, value, parent)
    BY <1>1, <2>2, KidsInside
  <2> QED BY <2>3, <2>4 DEF Alike
<1>5. CASE Holds("lambda")
  <2>1. Alike(src, base, value, parent, ObjectMethod(src, base, value, e.name, parent, f),
                                        ObjectMethod(src, base, value, e.name, parent, g))
    BY <1>2, <1>4, <1>5, ObjectMethodAlike
  <2>2. /\ Property(src, base, i, parent, f) = ObjectMethod(src, base, value, e.name, parent, f)
        /\ Property(src, base, i, parent, g) = ObjectMethod(src, base, value, e.name, parent, g)
    BY <1>5 DEF Property
  <2> QED BY <1>4, <1>5, <2>1, <2>2
<1>6. CASE Holds("object")
  <2>1. Alike(src, base, value, parent, f[<<"object", value, parent>>], g[<<"object", value, parent>>])
    <3>1. "object" # "visit" /\ "object" \in {"visit", "inside", "object"}
      OBVIOUS
    <3>2. 2 * (Len(src.elems) - value) + 0 < rank
      <4>1. value \in DOMAIN src.elems /\ 2 * (Len(src.elems) - value) + 1 < rank
        BY <1>4, <1>6
      <4>2. value \in Int
        <5>1. DOMAIN src.elems \subseteq Int
          BY <1>1 DEF IsTree
        <5> HIDE DEF value
        <5> QED BY <4>1, <5>1
      <4> HIDE DEF value
      <4> QED BY <1>1, <4>1, <4>2
    <3> QED BY <1>4, <1>6, <3>1, <3>2, StepAlike
  <2>2. /\ Property(src, base, i, parent, f) = f[<<"object", value, parent>>]
        /\ Property(src, base, i, parent, g) = g[<<"object", value, parent>>]
    BY <1>6 DEF Property
  <2> QED BY <1>4, <1>6, <2>1, <2>2
<1>7. CASE e.kind # "method" /\ ~Holds("lambda") /\ ~Holds("object")
  <2>1. Property(src, base, i, parent, f) = <<>> /\ Property(src, base, i, parent, g) = <<>>
    BY <1>7 DEF Property
  <2> QED BY <2>1 DEF Alike
<1> QED BY <1>3, <1>5, <1>6, <1>7

LEMMA ExtractedAlike ==
  ASSUME NEW src, NEW base, NEW f, NEW g, NEW rank, Agree(src, base, f, g, rank),
         NEW i \in DOMAIN src.elems, NEW parent \in Parents(src), 2 * (Len(src.elems) - i) < rank
  PROVE  Alike(src, base, i, parent, Extracted(src, base, i, parent, f), Extracted(src, base, i, parent, g))
<1> DEFINE P == ParserOf[src.lang]
           e == src.elems[i]
           node == Node(src, base, TypeOf(src, e), i, parent)
           below == IF node.type \in P.parents THEN RefOf(node) ELSE parent
           List(p, w) == [k \in DOMAIN e.kids |-> w[<<"visit", e.kids[k], p>>]]
           M == Made(src, base)
<1>1. IsTree(src) /\ base \in Int /\ rank \in Int /\ 2 * (Len(src.elems) - i) <= rank
  BY DEF Agree, IsTree
<1>2. ASSUME NEW p \in Parents(src)
      PROVE  Alike(src, base, i, p, FlattenSeq(List(p, f)), FlattenSeq(List(p, g)))
  <2>1. ASSUME NEW k \in DOMAIN e.kids
        PROVE  Alike(src, base, e.kids[k], p, List(p, f)[k], List(p, g)[k])
    <3>1. e.kids[k] \in DOMAIN src.elems /\ 2 * (Len(src.elems) - e.kids[k]) + 1 < rank
      BY <1>1, KidsBelow
    <3>2. Alike(src, base, e.kids[k], p, f[<<"visit", e.kids[k], p>>], g[<<"visit", e.kids[k], p>>])
      BY <3>1, StepAlike
    <3> QED BY <3>2
  <2>2. /\ List(p, f) = [k \in DOMAIN e.kids |-> List(p, f)[k]]
        /\ List(p, g) = [k \in DOMAIN e.kids |-> List(p, g)[k]]
    OBVIOUS
  <2> HIDE DEF List
  <2> QED BY <1>1, <2>1, <2>2, ListAlike
<1>3. ASSUME IsTaken(P, e)
      PROVE  /\ RefOf(node) \in Parents(src) /\ IsAround(src, base, i, RefOf(node))
             /\ Alike(src, base, i, parent, <<node>>, <<node>>)
  <2>1. TypeOf(src, e) \in TypesIn(src)
    BY <1>3 DEF TypesIn, Range
  <2> QED BY <2>1, NodeAlike
<1> HIDE DEF node, List, M
<1>4. ASSUME NEW a, NEW b, NEW c, NEW d,
             Alike(src, base, i, parent, a, b), Alike(src, base, i, parent, c, d)
      PROVE  Alike(src, base, i, parent, a \o c, b \o d)
  BY <1>4, ConcatProperties DEF Alike
<1>5. ASSUME NEW p \in Parents(src), IsAround(src, base, i, parent) => IsAround(src, base, i, p),
             NEW a, NEW b, Alike(src, base, i, p, a, b)
      PROVE  Alike(src, base, i, parent, a, b)
  BY <1>5 DEF Alike
<1>6. CASE IsTaken(P, e)
  <2>1. below \in Parents(src) /\ (IsAround(src, base, i, parent) => IsAround(src, base, i, below))
    BY <1>3, <1>6
  <2>2. Alike(src, base, i, parent, FlattenSeq(List(below, f)), FlattenSeq(List(below, g)))
    <3> HIDE DEF below
    <3> QED BY <1>2, <1>5, <2>1
  <2>3. Alike(src, base, i, parent, <<node>> \o FlattenSeq(List(below, f)),
                                    <<node>> \o FlattenSeq(List(below, g)))
    <3> HIDE DEF below
    <3> QED BY <1>3, <1>4, <1>6, <2>2
  <2>4. Alike(src, base, i, parent, f[<<"inside", i, below>>], g[<<"inside", i, below>>])
    <3>1. 2 * (Len(src.elems) - i) + 0 < rank /\ "inside" # "visit"
      BY <1>1 DEF IsTree
    <3>2. Alike(src, base, i, below, f[<<"inside", i, below>>], g[<<"inside", i, below>>])
      <4> HIDE DEF below
      <4> QED BY <2>1, <3>1, StepAlike
    <3> HIDE DEF below
    <3> QED BY <1>5, <2>1, <3>2
  <2>5. Alike(src, base, i, parent,
          (<<node>> \o f[<<"inside", i, below>>]) \o FlattenSeq(List(below, f)),
          (<<node>> \o g[<<"inside", i, below>>]) \o FlattenSeq(List(below, g)))
    <3> HIDE DEF below
    <3>1. Alike(src, base, i, parent, <<node>> \o f[<<"inside", i, below>>],
                                      <<node>> \o g[<<"inside", i, below>>])
      BY <1>3, <1>4, <1>6, <2>4
    <3> QED BY <1>4, <2>2, <3>1
  <2>6. CASE node.type \in P.opens
    <3>1. /\ Extracted(src, base, i, parent, f)
               = (<<node>> \o f[<<"inside", i, below>>]) \o FlattenSeq(List(below, f))
          /\ Extracted(src, base, i, parent, g)
               = (<<node>> \o g[<<"inside", i, below>>]) \o FlattenSeq(List(below, g))
      BY <1>6, <2>6 DEF Extracted, List, node
    <3> HIDE DEF below
    <3> QED BY <2>5, <3>1
  <2>7. CASE node.type \notin P.opens
    <3>1. /\ Extracted(src, base, i, parent, f) = <<node>> \o FlattenSeq(List(below, f))
          /\ Extracted(src, base, i, parent, g) = <<node>> \o FlattenSeq(List(below, g))
      BY <1>6, <2>7 DEF Extracted, List, node
    <3> HIDE DEF below
    <3> QED BY <2>3, <3>1
  <2> QED BY <2>6, <2>7
<1>7. CASE ~IsTaken(P, e) /\ e.kind = "object" /\ P.objects # "no"
  <2>1. Alike(src, base, i, parent, f[<<"object", i, parent>>], g[<<"object", i, parent>>])
    <3>1. 2 * (Len(src.elems) - i) + 0 < rank /\ "object" # "visit"
      BY <1>1 DEF IsTree
    <3> QED BY <3>1, StepAlike
  <2>2. /\ Extracted(src, base, i, parent, f) = f[<<"object", i, parent>>] \o FlattenSeq(List(parent, f))
        /\ Extracted(src, base, i, parent, g) = g[<<"object", i, parent>>] \o FlattenSeq(List(parent, g))
    BY <1>7 DEF Extracted, List
  <2> QED BY <1>2, <1>4, <2>1, <2>2
<1>8. CASE ~IsTaken(P, e) /\ ~(e.kind = "object" /\ P.objects # "no")
  <2>1. /\ Extracted(src, base, i, parent, f) = FlattenSeq(List(parent, f))
        /\ Extracted(src, base, i, parent, g) = FlattenSeq(List(parent, g))
    BY <1>8 DEF Extracted, List
  <2> QED BY <1>2, <2>1
<1> QED BY <1>6, <1>7, <1>8

\* Walks that agree on the smaller steps append the same at a step.
LEMMA AppendedAlike ==
  ASSUME NEW src, NEW base, NEW f, NEW g, NEW step \in Steps(src),
         Agree(src, base, f, g, Rank(src, step))
  PROVE  Alike(src, base, step[2], step[3], Appended(src, base, step, f), Appended(src, base, step, g))
<1> DEFINE i == step[2]
           parent == step[3]
           kids == src.elems[i].kids
           rank == Rank(src, step)
           InnerList(w) == [k \in DOMAIN kids |-> Inner(src, base, kids[k], parent, w)]
           PropertyList(w) == [k \in DOMAIN kids |-> Property(src, base, kids[k], parent, w)]
<1>1. /\ step[1] \in {"visit", "inside", "object"} /\ i \in DOMAIN src.elems /\ parent \in Parents(src)
      /\ IsTree(src) /\ base \in Int /\ rank \in Int
  BY DEF Steps, Agree
<1>2. i \in Int /\ Len(src.elems) \in Int
  <2>1. DOMAIN src.elems \subseteq Int /\ Len(src.elems) \in Int
    BY <1>1 DEF IsTree
  <2> QED BY <1>1, <2>1
<1>3. CASE step[1] = "visit"
  <2>1. 2 * (Len(src.elems) - i) < rank
    BY <1>2, <1>3 DEF Rank
  <2>2. Alike(src, base, i, parent, Extracted(src, base, i, parent, f), Extracted(src, base, i, parent, g))
    BY <1>1, <2>1, ExtractedAlike
  <2> QED BY <1>3, <2>2 DEF Appended
<1>4. ASSUME step[1] # "visit", NEW k \in DOMAIN kids
      PROVE  kids[k] \in DOMAIN src.elems /\ 2 * (Len(src.elems) - kids[k]) + 1 < rank
  <2>1. 2 * (Len(src.elems) - i) <= rank
    BY <1>2, <1>4 DEF Rank
  <2> QED BY <1>1, <2>1, KidsBelow
<1>5. CASE step[1] = "inside"
  <2>1. ASSUME NEW k \in DOMAIN kids
        PROVE  Alike(src, base, kids[k], parent, InnerList(f)[k], InnerList(g)[k])
    <3>1. Alike(src, base, kids[k], parent, Inner(src, base, kids[k], parent, f),
                                            Inner(src, base, kids[k], parent, g))
      BY <1>1, <1>4, <1>5, InnerAlike
    <3> QED BY <3>1
  <2>2. /\ InnerList(f) = [k \in DOMAIN kids |-> InnerList(f)[k]]
        /\ InnerList(g) = [k \in DOMAIN kids |-> InnerList(g)[k]]
    OBVIOUS
  <2>3. /\ Appended(src, base, step, f) = FlattenSeq(InnerList(f))
        /\ Appended(src, base, step, g) = FlattenSeq(InnerList(g))
    BY <1>5 DEF Appended
  <2> HIDE DEF InnerList
  <2>4. Alike(src, base, i, parent, FlattenSeq(InnerList(f)), FlattenSeq(InnerList(g)))
    BY <1>1, <2>1, <2>2, ListAlike
  <2> QED BY <2>3, <2>4
<1>6. CASE step[1] = "object"
  <2>1. ASSUME NEW k \in DOMAIN kids
        PROVE  Alike(src, base, kids[k], parent, PropertyList(f)[k], PropertyList(g)[k])
    <3>1. Alike(src, base, kids[k], parent, Property(src, base, kids[k], parent, f),
                                            Property(src, base, kids[k], parent, g))
      BY <1>1, <1>4, <1>6, PropertyAlike
    <3> QED BY <3>1
  <2>2. /\ PropertyList(f) = [k \in DOMAIN kids |-> PropertyList(f)[k]]
        /\ PropertyList(g) = [k \in DOMAIN kids |-> PropertyList(g)[k]]
    OBVIOUS
  <2>3. /\ Appended(src, base, step, f) = FlattenSeq(PropertyList(f))
        /\ Appended(src, base, step, g) = FlattenSeq(PropertyList(g))
    BY <1>6 DEF Appended
  <2> HIDE DEF PropertyList
  <2>4. Alike(src, base, i, parent, FlattenSeq(PropertyList(f)), FlattenSeq(PropertyList(g)))
    BY <1>1, <2>1, <2>2, ListAlike
  <2> QED BY <2>3, <2>4
<1> QED BY <1>1, <1>3, <1>5, <1>6

LEMMA RanksBounded ==
  ASSUME NEW src, IsTree(src), NEW step \in Steps(src)
  PROVE  Rank(src, step) \in Nat /\ Rank(src, step) < 2 * Len(src.elems) /\ Len(src.elems) \in Nat
<1>1. DOMAIN src.elems = 1..Len(src.elems) /\ Len(src.elems) \in Nat
  BY DEF IsTree
<1>2. step[2] \in DOMAIN src.elems
  BY DEF Steps
<1> QED BY <1>1, <1>2 DEF Rank

LEMMA AgreeBelow ==
  ASSUME NEW src, NEW base, NEW f, NEW g, NEW n \in Int, NEW m \in Int, m <= n, Agree(src, base, f, g, n)
  PROVE  Agree(src, base, f, g, m)
<1>1. \A t \in Steps(src) : Rank(src, t) < m => Rank(src, t) < n
  BY RanksBounded DEF Agree
<1> QED BY <1>1 DEF Agree

\* There is such a walk: a first guess is right for the smallest steps, and
\* appending by a guess is right for the steps one larger.
LEMMA WalkUnfolds ==
  ASSUME NEW src, IsTree(src), NEW base \in Int
  PROVE  LET w == Walk(src, base)
         IN \A step \in Steps(src) : w[step] = Appended(src, base, step, w)
<1> DEFINE Body(w) == [step \in Steps(src) |-> Appended(src, base, step, w)]
           IsFunction(w) == w = [step \in Steps(src) |-> w[step]]
           Right == {n \in Nat : \E w : IsFunction(w) /\ Agree(src, base, w, Body(w), n)}
           L == 2 * Len(src.elems)
<1>1. L \in Nat
  <2>1. Len(src.elems) \in Nat
    BY DEF IsTree
  <2> QED BY <2>1
<1>2. 0 \in Right
  <2> DEFINE guess == [step \in Steps(src) |-> <<>>]
  <2>1. IsFunction(guess)
    OBVIOUS
  <2>2. \A t \in Steps(src) : ~(Rank(src, t) < 0)
    BY RanksBounded
  <2> HIDE DEF guess, Body
  <2>3. Agree(src, base, guess, Body(guess), 0)
    BY <2>2 DEF Agree
  <2> HIDE DEF IsFunction
  <2> QED BY <2>1, <2>3
<1>3. ASSUME NEW n \in Nat, NEW w, Agree(src, base, w, Body(w), n)
      PROVE  IsFunction(Body(w)) /\ Agree(src, base, Body(w), Body(Body(w)), n + 1)
  <2>1. IsFunction(Body(w))
    OBVIOUS
  <2>2. ASSUME NEW t \in Steps(src), Rank(src, t) < n + 1
        PROVE  Alike(src, base, t[2], t[3], Body(w)[t], Body(Body(w))[t])
    <3>1. Rank(src, t) \in Int /\ Rank(src, t) <= n
      BY <2>2, RanksBounded
    <3>2. Agree(src, base, w, Body(w), Rank(src, t))
      <4> HIDE DEF Body
      <4> QED BY <1>3, <3>1, AgreeBelow
    <3>3. Alike(src, base, t[2], t[3], Appended(src, base, t, w), Appended(src, base, t, Body(w)))
      <4> HIDE DEF Body
      <4> QED BY <3>2, AppendedAlike
    <3>4. \A v : Body(v)[t] = Appended(src, base, t, v)
      OBVIOUS
    <3> HIDE DEF Body
    <3> QED BY <3>3, <3>4
  <2> HIDE DEF Body
  <2>3. Agree(src, base, Body(w), Body(Body(w)), n + 1)
    BY <2>2 DEF Agree
  <2> QED BY <2>1, <2>3
<1>4. \A n \in Right \cap Nat : n < L => n + 1 \in Right
  <2> SUFFICES ASSUME NEW n \in Right \cap Nat PROVE n + 1 \in Right
    OBVIOUS
  <2> HIDE DEF Body, IsFunction
  <2>1. PICK w : Agree(src, base, w, Body(w), n)
    OBVIOUS
  <2>2. IsFunction(Body(w)) /\ Agree(src, base, Body(w), Body(Body(w)), n + 1)
    BY <1>3, <2>1
  <2> QED BY <2>2
<1>5. L \in Right
  <2>1. 0..L \subseteq Right
    <3> HIDE DEF Right, L
    <3> QED BY <1>1, <1>2, <1>4, UpTo
  <2>2. L \in 0..L
    BY <1>1
  <2> QED BY <2>1, <2>2
<1>6. PICK w : IsFunction(w) /\ Agree(src, base, w, Body(w), L)
  <2> HIDE DEF Body, IsFunction, L
  <2> QED BY <1>5
<1>7. \A t \in Steps(src) : w[t] = Body(w)[t]
  <2> HIDE DEF Body
  <2> QED BY <1>6, RanksBounded DEF Agree, Alike
<1>8. w = Body(w)
  <2>1. IsFunction(Body(w))
    OBVIOUS
  <2> HIDE DEF Body
  <2> QED BY <1>6, <1>7, <2>1, SameValues
<1> DEFINE walk == CHOOSE v : v = Body(v)
<1>9. walk = Body(walk)
  <2> HIDE DEF Body
  <2> QED BY <1>8
<1>10. Walk(src, base) = walk
  BY DEF Walk
<1> HIDE DEF walk
<1>11. \A step \in Steps(src) : walk[step] = Appended(src, base, step, walk)
  <2>1. \A v : \A step \in Steps(src) : Body(v)[step] = Appended(src, base, step, v)
    OBVIOUS
  <2> HIDE DEF Body
  <2> QED BY <1>9, <2>1
<1> QED BY <1>10, <1>11

\* What is appended below a parent lies inside of its parents.
LEMMA WalkInside ==
  ASSUME NEW src, IsTree(src), NEW base \in Int, NEW step \in Steps(src),
         IsAround(src, base, step[2], step[3])
  PROVE  Walk(src, base)[step] \in Seq(Made(src, base))
<1> DEFINE w == Walk(src, base)
           Good == {n \in Nat : Agree(src, base, w, w, n)}
           L == 2 * Len(src.elems)
<1>1. L \in Nat /\ Rank(src, step) < L
  BY RanksBounded
<1>2. 0 \in Good
  <2>1. \A t \in Steps(src) : ~(Rank(src, t) < 0)
    BY RanksBounded
  <2> QED BY <2>1 DEF Agree
<1>3. \A n \in Good \cap Nat : n < L => n + 1 \in Good
  <2> SUFFICES ASSUME NEW n \in Nat, Agree(src, base, w, w, n) PROVE Agree(src, base, w, w, n + 1)
    OBVIOUS
  <2> HIDE DEF w
  <2>1. ASSUME NEW t \in Steps(src), Rank(src, t) < n + 1
        PROVE  Alike(src, base, t[2], t[3], w[t], w[t])
    <3>1. Rank(src, t) \in Int /\ Rank(src, t) <= n
      BY <2>1, RanksBounded
    <3>2. Agree(src, base, w, w, Rank(src, t))
      BY <3>1, AgreeBelow
    <3>3. Alike(src, base, t[2], t[3], Appended(src, base, t, w), Appended(src, base, t, w))
      BY <3>2, AppendedAlike
    <3>4. w[t] = Appended(src, base, t, w)
      BY WalkUnfolds DEF w
    <3> QED BY <3>3, <3>4
  <2> QED BY <2>1 DEF Agree
<1>4. 0..L \subseteq Good
  <2> HIDE DEF Good, L
  <2> QED BY <1>1, <1>2, <1>3, UpTo
<1>5. Agree(src, base, w, w, L)
  <2>1. L \in 0..L
    BY <1>1
  <2> QED BY <1>4, <2>1
<1> HIDE DEF w
<1>6. w[step] \in Seq(Made(src, base))
  BY <1>1, <1>5 DEF Agree, Alike
<1> QED BY <1>6 DEF w

\* parse_file, of every parser and for every syntax tree, returns a list of
\* nodes with line numbers, and the parent of a node is around it.
THEOREM ParsedNodes ==
  ASSUME NEW src, IsTree(src)
  PROVE  /\ ParseFile(src) \in Seq(Range(ParseFile(src)))
         /\ \A n \in Range(ParseFile(src)) : n.first \in Int /\ Contained(n)
<1> DEFINE M == UNION {Made(src, b.base) : b \in Range(src.blocks)}
           Top(b) == [k \in DOMAIN b.top |-> Walk(src, b.base)[<<"visit", b.top[k], Nobody>>]]
           Lists == [b \in DOMAIN src.blocks |-> FlattenSeq(Top(src.blocks[b]))]
<1>1. Nobody \in Parents(src)
  BY DEF Nobody, Parents, TypesIn, NamesIn
<1>2. ASSUME NEW b \in Range(src.blocks) PROVE FlattenSeq(Top(b)) \in Seq(M)
  <2>1. b.base \in Int /\ b.top \in Seq(DOMAIN src.elems) /\ Made(src, b.base) \subseteq M
    BY DEF IsTree
  <2>2. \A k \in DOMAIN b.top : Top(b)[k] \in Seq(M)
    <3> SUFFICES ASSUME NEW k \in DOMAIN b.top PROVE Top(b)[k] \in Seq(M)
      OBVIOUS
    <3> DEFINE step == <<"visit", b.top[k], Nobody>>
    <3>1. b.top[k] \in DOMAIN src.elems
      BY <2>1
    <3>2. step \in Steps(src) /\ step[2] = b.top[k] /\ step[3] = Nobody
      BY <1>1, <3>1 DEF Steps
    <3>3. IsAround(src, b.base, step[2], step[3])
      BY <3>2 DEF IsAround
    <3>4. Top(b)[k] = Walk(src, b.base)[step]
      OBVIOUS
    <3> HIDE DEF step, Top, M
    <3>5. Walk(src, b.base)[step] \in Seq(Made(src, b.base))
      BY <2>1, <3>2, <3>3, WalkInside
    <3> QED BY <2>1, <3>4, <3>5
  <2>3. Top(b) = [k \in DOMAIN b.top |-> Top(b)[k]]
    OBVIOUS
  <2> HIDE DEF Top, M
  <2>4. Top(b) \in [DOMAIN b.top -> Seq(M)]
    BY <2>2, <2>3, SameValues
  <2>5. Top(b) \in Seq(Seq(M))
    <3>1. DOMAIN b.top = 1..Len(b.top) /\ Len(b.top) \in Nat
      BY <2>1
    <3> QED BY <2>4, <3>1
  <2> QED BY <2>5, Flattened
<1>3. FlattenSeq(Lists) \in Seq(M)
  <2>1. DOMAIN src.blocks = 1..Len(src.blocks) /\ Len(src.blocks) \in Nat
    BY DEF IsTree
  <2>2. \A b \in DOMAIN src.blocks : src.blocks[b] \in Range(src.blocks)
    BY DEF Range
  <2>3. \A b \in DOMAIN src.blocks : Lists[b] \in Seq(M)
    <3> HIDE DEF M, Top
    <3> QED BY <1>2, <2>2
  <2>4. Lists = [b \in DOMAIN src.blocks |-> Lists[b]]
    OBVIOUS
  <2> HIDE DEF Lists, M
  <2>5. Lists \in [DOMAIN src.blocks -> Seq(M)]
    BY <2>3, <2>4, SameValues
  <2>6. Lists \in Seq(Seq(M))
    BY <2>1, <2>5
  <2> QED BY <2>6, Flattened
<1>4. ParseFile(src) = <<>> \/ ParseFile(src) = FlattenSeq(Lists)
  BY DEF ParseFile
<1> HIDE DEF Lists
<1>5. ParseFile(src) \in Seq(M)
  <2> HIDE DEF M
  <2>1. CASE ParseFile(src) = <<>>
    BY <2>1
  <2>2. CASE ParseFile(src) = FlattenSeq(Lists)
    BY <1>3, <2>2
  <2> QED BY <1>4, <2>1, <2>2
<1>6. ASSUME NEW n \in M PROVE n.first \in Int /\ Contained(n)
  <2>1. PICK b \in Range(src.blocks) : n \in Made(src, b.base)
    BY <1>6
  <2>2. b.base \in Int
    BY DEF IsTree
  <2>3. PICK type \in TypesIn(src), e \in Range(src.elems), name \in NamesIn(src), parent \in Parents(src) :
          n = NodeOf(src, b.base, type, e, name, parent)
    BY <2>1 DEF Made
  <2>4. n.first = e.first - b.base
    BY <2>3 DEF NodeOf
  <2>5. e.first \in Int
    BY DEF IsTree, Range
  <2>6. Contained(n)
    BY <2>1 DEF Made
  <2> QED BY <2>2, <2>4, <2>5, <2>6
<1> HIDE DEF M
<1> DEFINE parsed == ParseFile(src)
<1>7. Range(parsed) \subseteq M /\ parsed \in Seq(Range(parsed))
  <2>1. DOMAIN parsed = 1..Len(parsed) /\ Len(parsed) \in Nat /\ \A k \in DOMAIN parsed : parsed[k] \in M
    BY <1>5
  <2>2. parsed = [k \in DOMAIN parsed |-> parsed[k]]
    BY <1>5
  <2> HIDE DEF parsed
  <2>3. \A k \in DOMAIN parsed : parsed[k] \in Range(parsed)
    BY DEF Range
  <2>4. parsed \in [DOMAIN parsed -> Range(parsed)]
    BY <2>2, <2>3, SameValues
  <2> QED BY <2>1, <2>4 DEF Range
<1> QED BY <1>6, <1>7

----------------------------------------------------------------------------
(* What is stored of a file.                                               *)

\* The keys of a list of nodes, and that it has no key twice.
KeysOf(nodes) == {KeyOf(nodes[k]) : k \in DOMAIN nodes}
NoKeyTwice(nodes) == \A j, k \in DOMAIN nodes : KeyOf(nodes[j]) = KeyOf(nodes[k]) => j = k

\* What the table should have of a file with some content.
KeysIn(src) == {KeyOf(n) : n \in {x \in Range(ParseFile(src)) : x.type \in StoredTypes}}

\* Deduplication keeps every key and leaves none twice.
LEMMA DeduplicatedKeys ==
  ASSUME NEW nodes, nodes \in Seq(Range(nodes))
  PROVE  /\ Deduplicated(nodes) \in Seq(Range(Deduplicated(nodes)))
         /\ Range(Deduplicated(nodes)) \subseteq Range(nodes)
         /\ KeysOf(Deduplicated(nodes)) = KeysOf(nodes)
         /\ NoKeyTwice(Deduplicated(nodes))
<1> DEFINE Same(k)  == {j \in DOMAIN nodes : SameKey(nodes[j], nodes[k])}
           First(k) == \A j \in Same(k) : k <= j
           LastOf(k) == CHOOSE i \in Same(k) : \A j \in Same(k) : j <= i
           out == [k \in DOMAIN nodes |-> nodes[LastOf(k)]]
           places == {k \in DOMAIN nodes : First(k)}
           u == Chosen(out, places)
           c == Cardinality(places)
<1>1. DOMAIN nodes = 1..Len(nodes) /\ Len(nodes) \in Nat
  OBVIOUS
<1>2. places \in SUBSET Int /\ IsFiniteSet(places)
  <2>1. places \in SUBSET (1..Len(nodes)) /\ IsFiniteSet(1..Len(nodes))
    BY <1>1, FS_Interval
  <2> HIDE DEF places
  <2>2. IsFiniteSet(places)
    BY <2>1, FS_Subset
  <2> QED BY <1>1, <2>1, <2>2
<1>3. \A k \in DOMAIN nodes : LastOf(k) \in Same(k)
  <2> SUFFICES ASSUME NEW k \in DOMAIN nodes PROVE LastOf(k) \in Same(k)  OBVIOUS
  <2>1. Same(k) \in SUBSET (1..Len(nodes)) /\ Same(k) # {}
    BY <1>1 DEF SameKey
  <2> HIDE DEF Same
  <2>2. \E i \in Same(k) : \A j \in Same(k) : j <= i
    BY <2>1, <1>1, GreatestPlace
  <2> QED BY <2>2
<1>4. \A k \in DOMAIN nodes : out[k] \in Range(nodes) /\ KeyOf(out[k]) = KeyOf(nodes[k])
  <2> SUFFICES ASSUME NEW k \in DOMAIN nodes
               PROVE  out[k] \in Range(nodes) /\ KeyOf(out[k]) = KeyOf(nodes[k])
    OBVIOUS
  <2>1. out[k] = nodes[LastOf(k)]
    OBVIOUS
  <2>2. LastOf(k) \in DOMAIN nodes /\ KeyOf(nodes[LastOf(k)]) = KeyOf(nodes[k])
    BY <1>3 DEF SameKey
  <2> HIDE DEF LastOf, out
  <2> QED BY <2>1, <2>2 DEF Range
<1>5. \A k \in DOMAIN nodes : \E j \in places : KeyOf(nodes[j]) = KeyOf(nodes[k])
  <2> SUFFICES ASSUME NEW k \in DOMAIN nodes
               PROVE  \E j \in places : KeyOf(nodes[j]) = KeyOf(nodes[k])
    OBVIOUS
  <2>1. Same(k) \in SUBSET Nat /\ Same(k) # {}
    BY <1>1 DEF SameKey
  <2>2. PICK j \in Same(k) : \A i \in Same(k) : j <= i
    <3> HIDE DEF Same
    <3> QED BY <2>1, LeastNatural
  <2>3. j \in DOMAIN nodes /\ KeyOf(nodes[j]) = KeyOf(nodes[k]) /\ Same(j) = Same(k)
    BY DEF SameKey
  <2>4. First(j)
    BY <2>2, <2>3
  <2> QED BY <2>3, <2>4
<1>6. \A j, k \in places : KeyOf(nodes[j]) = KeyOf(nodes[k]) => j = k
  <2> SUFFICES ASSUME NEW j \in places, NEW k \in places, KeyOf(nodes[j]) = KeyOf(nodes[k])
               PROVE  j = k
    OBVIOUS
  <2>1. j \in Same(k) /\ k \in Same(j)
    BY DEF SameKey
  <2>2. j <= k /\ k <= j
    BY <2>1
  <2> QED BY <2>2, <1>1
<1>7. places \subseteq DOMAIN nodes
  OBVIOUS
<1>8. u = Deduplicated(nodes)
  BY DEF Deduplicated
<1> HIDE DEF out, places
<1>9. PICK place \in Bijection(1..c, places) : u = [n \in 1..c |-> out[place[n]]]
  BY <1>2, ChosenEnumerates
<1>10. /\ u \in Seq(Range(u)) /\ Range(u) = {out[k] : k \in places}
  BY <1>2, ChosenIsSeq
<1> HIDE DEF u, c
<1>11. /\ place \in [1..c -> places] /\ \A j, k \in 1..c : place[j] = place[k] => j = k
  BY DEF Bijection, Injection, IsInjective
<1>12. DOMAIN u = 1..c /\ \A n \in 1..c : u[n] = out[place[n]]
  BY <1>9
<1>13. Range(u) \subseteq Range(nodes)
  BY <1>4, <1>7, <1>10
<1>14. KeysOf(u) = KeysOf(nodes)
  <2>1. KeysOf(u) = {KeyOf(x) : x \in Range(u)} /\ KeysOf(nodes) = {KeyOf(x) : x \in Range(nodes)}
    BY DEF KeysOf, Range
  <2>2. KeysOf(u) \subseteq KeysOf(nodes)
    BY <2>1, <1>13
  <2>3. ASSUME NEW k \in DOMAIN nodes PROVE KeyOf(nodes[k]) \in KeysOf(u)
    <3>1. PICK j \in places : KeyOf(nodes[j]) = KeyOf(nodes[k])
      BY <1>5
    <3>2. out[j] \in Range(u) /\ KeyOf(out[j]) = KeyOf(nodes[k])
      BY <3>1, <1>4, <1>7, <1>10
    <3> QED BY <3>2, <2>1
  <2> QED BY <2>2, <2>3 DEF KeysOf
<1>15. NoKeyTwice(u)
  <2> SUFFICES ASSUME NEW j \in 1..c, NEW k \in 1..c, KeyOf(u[j]) = KeyOf(u[k]) PROVE j = k
    BY <1>12 DEF NoKeyTwice
  <2>1. place[j] \in places /\ place[k] \in places
    BY <1>11
  <2>2. KeyOf(nodes[place[j]]) = KeyOf(nodes[place[k]])
    BY <2>1, <1>12, <1>4, <1>7
  <2> QED BY <2>1, <2>2, <1>6, <1>11
<1> QED BY <1>8, <1>10, <1>13, <1>14, <1>15

\* Every parent in a list of rows is a row of it that contains the child, and
\* comes before it, unless the child is a parent too.
ParentsWithin(rs) ==
  \A k \in DOMAIN rs : rs[k].parent # NoNode =>
    \E j \in DOMAIN rs :
      /\ IdOf(rs[j]) = rs[k].parent /\ rs[j].file = rs[k].file
      /\ rs[j].first <= rs[k].first /\ rs[k].last <= rs[j].last
      /\ j <= k \/ \E i \in DOMAIN rs : rs[i].parent = IdOf(rs[k])


\* A list of rows of one file that the table admits.
RowsFor(f, rs) ==
  /\ rs \in Seq(Range(rs))
  /\ \A k \in DOMAIN rs : rs[k].file = f /\ rs[k].type \in StoredTypes /\ rs[k].first \in Int

Columns == {"file", "type", "name", "star", "first", "last", "qn", "ann", "tags", "parent"}

\* The rows prepared for a file have the keys its content should have, once.
LEMMA AdmittedKeys ==
  ASSUME NEW f, NEW src \in Sources
  PROVE  /\ RowsFor(f, Admitted(f, src))
         /\ \A k \in DOMAIN Admitted(f, src) : /\ Columns \subseteq DOMAIN Admitted(f, src)[k]
                                               /\ Contained(Admitted(f, src)[k])
         /\ KeysOf(Admitted(f, src)) = KeysIn(src)
         /\ NoKeyTwice(Admitted(f, src))
<1> DEFINE parsed == ParseFile(src)
           places == {k \in DOMAIN parsed : parsed[k].type \in StoredTypes}
           nodes == Chosen(parsed, places)
           unique == Deduplicated(nodes)
           Row(n) == [file |-> f, type |-> n.type, name |-> n.name, star |-> n.star,
                      first |-> n.first, last |-> n.last, qn |-> n.qn, ann |-> n.ann,
                      tags |-> TagsOf(src.lang, n), parent |-> n.parent]
           a == [k \in DOMAIN unique |-> Row(unique[k])]
<1>1. a = Admitted(f, src)
  BY DEF Admitted
<1>2. parsed \in Seq(Range(parsed)) /\ \A n \in Range(parsed) : n.first \in Int /\ Contained(n)
  BY SourcesAssumption, ParsedNodes
<1>3. places \in SUBSET Int /\ IsFiniteSet(places)
  <2> HIDE DEF parsed
  <2>1. places \in SUBSET (1..Len(parsed)) /\ Len(parsed) \in Nat
    BY <1>2
  <2>2. IsFiniteSet(1..Len(parsed)) /\ 1..Len(parsed) \in SUBSET Int
    BY <2>1, FS_Interval
  <2> HIDE DEF places
  <2>3. IsFiniteSet(places)
    BY <2>1, <2>2, FS_Subset
  <2> QED BY <2>1, <2>2, <2>3
<1>4. nodes \in Seq(Range(nodes)) /\ Range(nodes) = {parsed[k] : k \in places}
  <2> HIDE DEF places, parsed
  <2> QED BY <1>3, ChosenIsSeq
<1>5. Range(nodes) = {x \in Range(parsed) : x.type \in StoredTypes}
  <2>1. {parsed[k] : k \in places} = {x \in Range(parsed) : x.type \in StoredTypes}
    <3> HIDE DEF parsed
    <3> QED BY DEF Range
  <2> QED BY <1>4, <2>1
<1> HIDE DEF nodes
<1>6. /\ unique \in Seq(Range(unique)) /\ Range(unique) \subseteq Range(nodes)
      /\ KeysOf(unique) = KeysOf(nodes) /\ NoKeyTwice(unique)
  BY <1>4, DeduplicatedKeys
<1>7. KeysOf(nodes) = KeysIn(src)
  <2>1. KeysOf(nodes) = {KeyOf(x) : x \in Range(nodes)}
    BY DEF KeysOf, Range
  <2> QED BY <2>1, <1>5 DEF KeysIn
<1> HIDE DEF parsed, unique
<1>8. DOMAIN a = DOMAIN unique /\ DOMAIN unique = 1..Len(unique) /\ Len(unique) \in Nat
  BY <1>6
<1>9. \A k \in DOMAIN unique : /\ a[k] = Row(unique[k])
                               /\ unique[k] \in Range(unique)
  BY DEF Range
<1>10. \A k \in DOMAIN unique : /\ a[k].file = f /\ KeyOf(a[k]) = KeyOf(unique[k])
                                /\ Columns \subseteq DOMAIN a[k]
                                /\ a[k].type = unique[k].type /\ a[k].first = unique[k].first
                                /\ Contained(unique[k]) => Contained(a[k])
  <2> SUFFICES ASSUME NEW k \in DOMAIN unique
               PROVE  /\ a[k].file = f /\ KeyOf(a[k]) = KeyOf(unique[k])
                      /\ Columns \subseteq DOMAIN a[k]
                      /\ a[k].type = unique[k].type /\ a[k].first = unique[k].first
                      /\ Contained(unique[k]) => Contained(a[k])
    OBVIOUS
  <2>1. a[k] = Row(unique[k])
    BY <1>9
  <2> HIDE DEF a
  <2> QED BY <2>1 DEF KeyOf, Columns, Contained
<1>11. \A k \in DOMAIN unique : a[k].type \in StoredTypes /\ a[k].first \in Int /\ Contained(a[k])
  BY <1>2, <1>5, <1>6, <1>9, <1>10
<1>12. a \in Seq(Range(a))
  <2>1. \A k \in 1..Len(unique) : a[k] \in Range(a)
    BY <1>8 DEF Range
  <2>2. a = [k \in 1..Len(unique) |-> a[k]]
    BY <1>8
  <2> HIDE DEF a
  <2> QED BY <2>1, <2>2, <1>8
<1> HIDE DEF a
<1>13. RowsFor(f, a)
  BY <1>8, <1>10, <1>11, <1>12 DEF RowsFor
<1>14. KeysOf(a) = KeysOf(unique)
  BY <1>8, <1>10 DEF KeysOf
<1>15. NoKeyTwice(a)
  BY <1>6, <1>8, <1>10 DEF NoKeyTwice
<1> QED BY <1>1, <1>6, <1>7, <1>8, <1>10, <1>11, <1>13, <1>14, <1>15

\* Resolving the parents and putting them first changes no key.
LEMMA LinkedKeys ==
  ASSUME NEW f, NEW a, RowsFor(f, a), NoKeyTwice(a), NEW hasUuids,
         \A k \in DOMAIN a : Columns \subseteq DOMAIN a[k] /\ Contained(a[k])
  PROVE  /\ RowsFor(f, Linked(a, hasUuids))
         /\ KeysOf(Linked(a, hasUuids)) = KeysOf(a)
         /\ NoKeyTwice(Linked(a, hasUuids))
         /\ ParentsWithin(Linked(a, hasUuids))
<1> DEFINE ParentId(r) ==
             LET found == {k \in DOMAIN a : SameUuid(a[k], r.parent)}
             IN IF hasUuids /\ r.parent # Nobody /\ found # {}
                THEN IdOf(a[CHOOSE k \in found : TRUE]) ELSE NoNode
           linked == [k \in DOMAIN a |-> [a[k] EXCEPT !.parent = ParentId(a[k])]]
           parents == {k \in DOMAIN linked : \E j \in DOMAIN linked : linked[j].parent = IdOf(linked[k])}
           others == DOMAIN linked \ parents
           p == Chosen(linked, parents)
           q == Chosen(linked, others)
           l == p \o q
<1>1. l = Linked(a, hasUuids)
  BY DEF Linked
<1>0. \A k \in DOMAIN a : ParentId(a[k]) # NoNode =>
        \E j \in DOMAIN a : ParentId(a[k]) = IdOf(a[j]) /\ SameUuid(a[j], a[k].parent) /\ a[k].parent # Nobody
  <2> SUFFICES ASSUME NEW k \in DOMAIN a, ParentId(a[k]) # NoNode
               PROVE  \E j \in DOMAIN a : /\ ParentId(a[k]) = IdOf(a[j])
                                          /\ SameUuid(a[j], a[k].parent) /\ a[k].parent # Nobody
    OBVIOUS
  <2> DEFINE found == {j \in DOMAIN a : SameUuid(a[j], a[k].parent)}
  <2>1. /\ a[k].parent # Nobody /\ found # {}
        /\ ParentId(a[k]) = IdOf(a[CHOOSE j \in found : TRUE])
    OBVIOUS
  <2>2. (CHOOSE j \in found : TRUE) \in found
    BY <2>1
  <2> QED BY <2>1, <2>2
<1> HIDE DEF ParentId
<1>2. DOMAIN a = 1..Len(a) /\ Len(a) \in Nat /\ DOMAIN linked = DOMAIN a
  BY DEF RowsFor
<1>3. \A k \in DOMAIN a : /\ linked[k].file = f /\ linked[k].type \in StoredTypes
                          /\ linked[k].first \in Int /\ KeyOf(linked[k]) = KeyOf(a[k])
  <2> SUFFICES ASSUME NEW k \in DOMAIN a
               PROVE  /\ linked[k].file = f /\ linked[k].type \in StoredTypes
                      /\ linked[k].first \in Int /\ KeyOf(linked[k]) = KeyOf(a[k])
    OBVIOUS
  <2>1. linked[k] = [a[k] EXCEPT !.parent = ParentId(a[k])]
    OBVIOUS
  <2> DEFINE r == a[k]
             s == linked[k]
  <2>2. Columns \subseteq DOMAIN r /\ r.file = f /\ r.type \in StoredTypes /\ r.first \in Int
    BY DEF RowsFor
  <2>3. s = [r EXCEPT !.parent = ParentId(r)]
    BY <2>1
  <2> HIDE DEF r, s
  <2>4. s.file = r.file /\ s.type = r.type /\ s.name = r.name /\ s.star = r.star /\ s.first = r.first
    BY <2>2, <2>3 DEF Columns
  <2>5. KeyOf(s) = KeyOf(r)
    BY <2>4 DEF KeyOf
  <2>6. s.file = f /\ s.type \in StoredTypes /\ s.first \in Int /\ KeyOf(s) = KeyOf(r)
    BY <2>2, <2>4, <2>5
  <2> QED BY <2>6 DEF r, s
<1>same. \A k \in DOMAIN a : /\ linked[k].parent = ParentId(a[k]) /\ IdOf(linked[k]) = IdOf(a[k])
                          /\ linked[k].last = a[k].last /\ linked[k].first = a[k].first
  <2> SUFFICES ASSUME NEW k \in DOMAIN a
               PROVE  /\ linked[k].parent = ParentId(a[k]) /\ IdOf(linked[k]) = IdOf(a[k])
                      /\ linked[k].last = a[k].last /\ linked[k].first = a[k].first
    OBVIOUS
  <2>1. linked[k] = [a[k] EXCEPT !.parent = ParentId(a[k])] /\ Columns \subseteq DOMAIN a[k]
    OBVIOUS
  <2> DEFINE r == a[k]
             s == linked[k]
  <2>2. s = [r EXCEPT !.parent = ParentId(r)] /\ Columns \subseteq DOMAIN r
    BY <2>1
  <2> HIDE DEF r, s
  <2>3. /\ s.parent = ParentId(r) /\ s.last = r.last /\ s.first = r.first
        /\ s.file = r.file /\ s.type = r.type /\ s.name = r.name /\ s.star = r.star
    BY <2>2 DEF Columns
  <2>4. IdOf(s) = IdOf(r)
    BY <2>3 DEF IdOf
  <2> QED BY <2>3, <2>4 DEF r, s
<1>marked. \A k \in DOMAIN a : k \in parents <=> \E j \in DOMAIN a : linked[j].parent = IdOf(linked[k])
  BY <1>2
<1>4. /\ parents \in SUBSET (1..Len(a)) /\ others \in SUBSET (1..Len(a))
      /\ parents \cup others = DOMAIN a /\ parents \cap others = {}
  BY <1>2
<1> HIDE DEF linked, parents, others
<1>5. /\ parents \in SUBSET Int /\ others \in SUBSET Int
      /\ IsFiniteSet(parents) /\ IsFiniteSet(others)
      /\ Cardinality(parents) \in Nat /\ Cardinality(others) \in Nat
  <2>1. IsFiniteSet(1..Len(a)) /\ 1..Len(a) \in SUBSET Int
    BY <1>2, FS_Interval
  <2>2. IsFiniteSet(parents) /\ IsFiniteSet(others)
    BY <1>4, <2>1, FS_Subset
  <2> QED BY <1>4, <2>1, <2>2, FS_CardinalityType
<1>6. /\ p \in Seq(Range(p)) /\ Len(p) = Cardinality(parents) /\ Range(p) = {linked[k] : k \in parents}
      /\ q \in Seq(Range(q)) /\ Len(q) = Cardinality(others) /\ Range(q) = {linked[k] : k \in others}
  BY <1>5, ChosenIsSeq
<1>7. PICK at \in Bijection(1..Cardinality(parents), parents) :
        p = [n \in 1..Cardinality(parents) |-> linked[at[n]]]
  BY <1>5, ChosenEnumerates
<1>8. PICK to \in Bijection(1..Cardinality(others), others) :
        q = [n \in 1..Cardinality(others) |-> linked[to[n]]]
  BY <1>5, ChosenEnumerates
<1> HIDE DEF p, q
<1>9. /\ \A n \in 1..Len(p) : at[n] \in parents /\ p[n] = linked[at[n]]
      /\ \A m, n \in 1..Len(p) : at[m] = at[n] => m = n
      /\ \A n \in 1..Len(q) : to[n] \in others /\ q[n] = linked[to[n]]
      /\ \A m, n \in 1..Len(q) : to[m] = to[n] => m = n
  BY <1>6, <1>7, <1>8 DEF Bijection, Injection, IsInjective
<1>10. /\ l \in Seq(Range(l)) /\ Len(l) = Len(p) + Len(q)
       /\ \A k \in 1..Len(p) : l[k] = p[k]
       /\ \A k \in 1..Len(q) : Len(p) + k \in 1..Len(l) /\ l[Len(p) + k] = q[k]
       /\ \A k \in 1..Len(l) : k \in 1..Len(p) \/ k - Len(p) \in 1..Len(q)
       /\ Range(l) = Range(p) \cup Range(q)
  BY <1>6, Joined
<1>11. Range(l) = {linked[k] : k \in DOMAIN a}
  BY <1>4, <1>6, <1>10
<1> HIDE DEF l
<1>12. DOMAIN l = 1..Len(l)
  BY <1>10
<1>13. RowsFor(f, l)
  <2>1. \A k \in DOMAIN l : l[k] \in Range(l)
    BY DEF Range
  <2>2. \A x \in Range(l) : x.file = f /\ x.type \in StoredTypes /\ x.first \in Int
    BY <1>3, <1>11
  <2> QED BY <2>1, <2>2, <1>10 DEF RowsFor
<1>14. KeysOf(l) = KeysOf(a)
  <2>1. KeysOf(l) = {KeyOf(x) : x \in Range(l)}
    BY DEF KeysOf, Range
  <2>2. KeysOf(l) = {KeyOf(linked[k]) : k \in DOMAIN a}
    BY <2>1, <1>11
  <2> QED BY <2>2, <1>3 DEF KeysOf
<1> DEFINE from == [k \in 1..Len(l) |-> IF k \in 1..Len(p) THEN at[k] ELSE to[k - Len(p)]]
<1>15. \A k \in 1..Len(l) : from[k] \in DOMAIN a /\ l[k] = linked[from[k]]
  <2> SUFFICES ASSUME NEW k \in 1..Len(l) PROVE from[k] \in DOMAIN a /\ l[k] = linked[from[k]]
    OBVIOUS
  <2>1. CASE k \in 1..Len(p)
    <3>1. from[k] = at[k]
      BY <2>1
    <3> QED BY <2>1, <3>1, <1>4, <1>9, <1>10
  <2>2. CASE k \notin 1..Len(p)
    <3>1. from[k] = to[k - Len(p)] /\ k - Len(p) \in 1..Len(q)
      BY <2>2, <1>10
    <3>2. Len(p) + (k - Len(p)) = k
      BY <1>5, <1>6
    <3>3. l[k] = q[k - Len(p)]
      BY <3>1, <3>2, <1>10
    <3> QED BY <3>1, <3>3, <1>4, <1>9
  <2> QED BY <2>1, <2>2
<1>16. \A j, k \in 1..Len(l) : from[j] = from[k] => j = k
  <2> SUFFICES ASSUME NEW j \in 1..Len(l), NEW k \in 1..Len(l), from[j] = from[k] PROVE j = k
    OBVIOUS
  <2>1. CASE j \in 1..Len(p) /\ k \in 1..Len(p)
    BY <2>1, <1>9
  <2>2. CASE j \notin 1..Len(p) /\ k \notin 1..Len(p)
    <3>1. to[j - Len(p)] = to[k - Len(p)] /\ j - Len(p) \in 1..Len(q) /\ k - Len(p) \in 1..Len(q)
      BY <2>2, <1>10
    <3>2. j - Len(p) = k - Len(p)
      BY <3>1, <1>9
    <3> QED BY <3>2, <1>5, <1>6
  <2>3. CASE j \in 1..Len(p) /\ k \notin 1..Len(p)
    <3>1. at[j] = to[k - Len(p)] /\ k - Len(p) \in 1..Len(q)
      BY <2>3, <1>10
    <3> QED BY <3>1, <2>3, <1>4, <1>9
  <2>4. CASE j \notin 1..Len(p) /\ k \in 1..Len(p)
    <3>1. to[j - Len(p)] = at[k] /\ j - Len(p) \in 1..Len(q)
      BY <2>4, <1>10
    <3> QED BY <3>1, <2>4, <1>4, <1>9
  <2> QED BY <2>1, <2>2, <2>3, <2>4
<1>17. NoKeyTwice(l)
  <2> SUFFICES ASSUME NEW j \in 1..Len(l), NEW k \in 1..Len(l), KeyOf(l[j]) = KeyOf(l[k]) PROVE j = k
    BY <1>12 DEF NoKeyTwice
  <2> HIDE DEF from
  <2>1. KeyOf(a[from[j]]) = KeyOf(a[from[k]])
    BY <1>3, <1>15
  <2>2. from[j] = from[k]
    BY <2>1, <1>15 DEF NoKeyTwice
  <2> QED BY <2>2, <1>16
<1>18. \A x \in parents : \E n \in 1..Len(p) : at[n] = x
  BY <1>6, <1>7 DEF Bijection, Surjection
<1>19. \A x \in DOMAIN a : \E n \in 1..Len(l) : l[n] = linked[x]
  <2>1. \A x \in DOMAIN a : linked[x] \in Range(l)
    BY <1>11
  <2> QED BY <2>1, <1>12 DEF Range
<1>20. ParentsWithin(l)
  <2> SUFFICES ASSUME NEW n \in 1..Len(l), l[n].parent # NoNode
               PROVE  \E m \in 1..Len(l) :
                        /\ IdOf(l[m]) = l[n].parent /\ l[m].file = l[n].file
                        /\ l[m].first <= l[n].first /\ l[n].last <= l[m].last
                        /\ m <= n \/ \E i \in 1..Len(l) : l[i].parent = IdOf(l[n])
    BY <1>12 DEF ParentsWithin
  <2> DEFINE k == from[n]
  <2>1. k \in DOMAIN a /\ l[n] = linked[k]
    BY <1>15
  <2>2. n \in 1..Len(p) => k \in parents
    BY <1>9
  <2> HIDE DEF k
  <2>3. PICK c \in DOMAIN a : ParentId(a[k]) = IdOf(a[c]) /\ SameUuid(a[c], a[k].parent) /\ a[k].parent # Nobody
    BY <2>1, <1>0, <1>same
  <2>4. /\ IdOf(linked[c]) = linked[k].parent /\ linked[c].file = linked[k].file
        /\ linked[c].first <= linked[k].first /\ linked[k].last <= linked[c].last
    <3>1. a[k].parent.first <= a[k].first /\ a[k].last <= a[k].parent.last
      BY <2>1, <2>3 DEF Contained
    <3>2. a[c].first = a[k].parent.first /\ a[c].last = a[k].parent.last
      BY <2>3 DEF SameUuid
    <3> QED BY <2>1, <2>3, <3>1, <3>2, <1>3, <1>same
  <2>5. c \in parents
    BY <2>1, <2>3, <2>4, <1>marked
  <2>6. PICK m \in 1..Len(p) : at[m] = c
    BY <2>5, <1>18
  <2>7. m \in 1..Len(l) /\ l[m] = linked[c]
    BY <2>6, <1>5, <1>6, <1>9, <1>10
  <2>8. m <= n \/ \E i \in 1..Len(l) : l[i].parent = IdOf(l[n])
    <3>1. CASE n \in 1..Len(p)
      <4>1. PICK j \in DOMAIN a : linked[j].parent = IdOf(linked[k])
        BY <3>1, <2>1, <2>2, <1>marked
      <4>2. PICK i \in 1..Len(l) : l[i] = linked[j]
        BY <1>19
      <4> QED BY <4>1, <4>2, <2>1
    <3>2. CASE n \notin 1..Len(p)
      <4>1. m <= Len(p) /\ ~(n <= Len(p)) /\ n \in Int /\ m \in Int /\ Len(p) \in Int
        BY <3>2, <2>6, <1>5, <1>6
      <4> QED BY <4>1
    <3> QED BY <3>1, <3>2
  <2> QED BY <2>1, <2>4, <2>7, <2>8
<1> QED BY <1>1, <1>13, <1>14, <1>17, <1>20

\* Nor does one list of rows after another separate a child from its parent.
LEMMA ParentsJoined ==
  ASSUME NEW s, NEW t, s \in Seq(Range(s)), t \in Seq(Range(t)), ParentsWithin(s), ParentsWithin(t)
  PROVE  ParentsWithin(s \o t)
<1> DEFINE st == s \o t
<1>1. /\ st \in Seq(Range(st)) /\ Len(st) = Len(s) + Len(t)
      /\ \A k \in 1..Len(s) : st[k] = s[k]
      /\ \A k \in 1..Len(t) : Len(s) + k \in 1..Len(st) /\ st[Len(s) + k] = t[k]
      /\ \A k \in 1..Len(st) : k \in 1..Len(s) \/ k - Len(s) \in 1..Len(t)
  BY Joined
<1> HIDE DEF st
<1>2. /\ DOMAIN s = 1..Len(s) /\ DOMAIN t = 1..Len(t) /\ DOMAIN st = 1..Len(st)
      /\ Len(s) \in Nat /\ Len(t) \in Nat
  BY <1>1
<1>3. \A k \in 1..Len(s) : k \in 1..Len(st)
  BY <1>1, <1>2
<1>4. ASSUME NEW k \in 1..Len(s), st[k].parent # NoNode
      PROVE  \E j \in 1..Len(st) :
               /\ IdOf(st[j]) = st[k].parent /\ st[j].file = st[k].file
               /\ st[j].first <= st[k].first /\ st[k].last <= st[j].last
               /\ j <= k \/ \E i \in 1..Len(st) : st[i].parent = IdOf(st[k])
  <2>1. st[k] = s[k]
    BY <1>1
  <2>2. PICK j \in 1..Len(s) :
          /\ IdOf(s[j]) = s[k].parent /\ s[j].file = s[k].file
          /\ s[j].first <= s[k].first /\ s[k].last <= s[j].last
          /\ j <= k \/ \E i \in 1..Len(s) : s[i].parent = IdOf(s[k])
    BY <1>2, <1>4, <2>1 DEF ParentsWithin
  <2>3. st[j] = s[j] /\ j \in 1..Len(st)
    BY <1>1, <1>3
  <2>4. j <= k \/ \E i \in 1..Len(st) : st[i].parent = IdOf(st[k])
    BY <1>1, <1>3, <2>1, <2>2
  <2> QED BY <2>1, <2>2, <2>3, <2>4
<1>5. ASSUME NEW n \in 1..Len(t), st[Len(s) + n].parent # NoNode
      PROVE  \E j \in 1..Len(st) :
               /\ IdOf(st[j]) = st[Len(s) + n].parent /\ st[j].file = st[Len(s) + n].file
               /\ st[j].first <= st[Len(s) + n].first /\ st[Len(s) + n].last <= st[j].last
               /\ j <= Len(s) + n \/ \E i \in 1..Len(st) : st[i].parent = IdOf(st[Len(s) + n])
  <2>1. st[Len(s) + n] = t[n]
    BY <1>1
  <2>2. PICK m \in 1..Len(t) :
          /\ IdOf(t[m]) = t[n].parent /\ t[m].file = t[n].file
          /\ t[m].first <= t[n].first /\ t[n].last <= t[m].last
          /\ m <= n \/ \E i \in 1..Len(t) : t[i].parent = IdOf(t[n])
    BY <1>2, <1>5, <2>1 DEF ParentsWithin
  <2>3. st[Len(s) + m] = t[m] /\ Len(s) + m \in 1..Len(st)
    BY <1>1
  <2>4. m <= n => Len(s) + m <= Len(s) + n
    BY <1>2
  <2>5. (\E i \in 1..Len(t) : t[i].parent = IdOf(t[n])) => \E i \in 1..Len(st) : st[i].parent = IdOf(t[n])
    BY <1>1
  <2> QED BY <2>1, <2>2, <2>3, <2>4, <2>5
<1>6. ParentsWithin(st)
  <2> SUFFICES ASSUME NEW k \in 1..Len(st), st[k].parent # NoNode
               PROVE  \E j \in 1..Len(st) :
                        /\ IdOf(st[j]) = st[k].parent /\ st[j].file = st[k].file
                        /\ st[j].first <= st[k].first /\ st[k].last <= st[j].last
                        /\ j <= k \/ \E i \in 1..Len(st) : st[i].parent = IdOf(st[k])
    BY <1>2 DEF ParentsWithin
  <2>1. CASE k \in 1..Len(s)
    BY <2>1, <1>4
  <2>2. CASE k - Len(s) \in 1..Len(t)
    <3>1. Len(s) + (k - Len(s)) = k
      BY <1>2
    <3> QED BY <2>2, <3>1, <1>5
  <2> QED BY <2>1, <2>2, <1>1
<1> QED BY <1>6 DEF st

----------------------------------------------------------------------------
(* The calls.                                                              *)

\* What an edge says of the call it was built for.
LEMMA EdgeFacts ==
  ASSUME NEW call, NEW functions, NEW importRows, NEW e \in EdgesOf(call, functions, importRows)
  PROVE  /\ e.line = call.first /\ e.name = call.name /\ e.star = call.star
         /\ \/ e.caller = IdOf(call)
            \/ \E f \in Range(functions) :
                 /\ e.caller = IdOf(f) /\ f.file = call.file
                 /\ f.first <= call.first /\ call.first <= f.last
         /\ e.callee = NoNode \/ \E f \in Range(functions) : e.callee = IdOf(f)
<1> DEFINE enclosing == EnclosingOf(call, functions)
           caller == IdOf(IF enclosing = {} THEN call ELSE CHOOSE f \in enclosing : TRUE)
           Edge(callee, type) ==
             [caller |-> caller, callee |-> callee, line |-> call.first, name |-> call.name,
              star |-> call.star, type |-> type]
           Static(candidates) == {Edge(IdOf(f), "static") : f \in candidates}
           qualified == ByQualifiedName(call, functions)
           named     == ByName(call, functions)
<1>1. \A f \in enclosing : /\ f \in Range(functions) /\ f.file = call.file
                           /\ f.first <= call.first /\ call.first <= f.last
  BY DEF EnclosingOf, Around, Range
<1>2. \/ caller = IdOf(call)
      \/ \E f \in enclosing : caller = IdOf(f)
  OBVIOUS
<1>3. qualified \subseteq Range(functions) /\ named \subseteq Range(functions)
  BY DEF ByQualifiedName, QualifiedIndex, ByName, Range
<1>4. \/ e \in Static(qualified) \/ e \in Static(named)
      \/ e \in {Edge(NoNode, "dynamic"), Edge(NoNode, "external"), Edge(NoNode, "injected"),
                Edge(NoNode, "unknown")}
  BY DEF EdgesOf
<1> HIDE DEF caller, enclosing, qualified, named
<1>5. \E callee, type :
        /\ e = Edge(callee, type)
        /\ callee = NoNode \/ \E f \in Range(functions) : callee = IdOf(f)
  BY <1>3, <1>4
<1> QED BY <1>1, <1>2, <1>5

\* A plain call has an edge to every function of its name, and to no other.
LEMMA PlainCallFacts ==
  ASSUME NEW call, NEW functions, NEW importRows, ~call.star, call.name \notin DynamicNames,
         NEW g \in Range(functions), g.name = call.name
  PROVE  /\ \A f \in Range(functions) : f.name = call.name =>
              \E e \in EdgesOf(call, functions, importRows) : e.callee = IdOf(f)
         /\ \A e \in EdgesOf(call, functions, importRows) :
              /\ e.type = "static"
              /\ \E f \in Range(functions) : f.name = call.name /\ e.callee = IdOf(f)
<1> DEFINE enclosing == EnclosingOf(call, functions)
           caller == IdOf(IF enclosing = {} THEN call ELSE CHOOSE f \in enclosing : TRUE)
           Edge(callee, type) ==
             [caller |-> caller, callee |-> callee, line |-> call.first, name |-> call.name,
              star |-> call.star, type |-> type]
           named == {f \in Range(functions) : f.name = call.name}
<1>1. ByQualifiedName(call, functions) = {}
  BY DEF ByQualifiedName
<1>2. ByName(call, functions) = named /\ named # {}
  BY DEF ByName
<1>3. EdgesOf(call, functions, importRows) = {Edge(IdOf(f), "static") : f \in named}
  BY <1>1, <1>2 DEF EdgesOf
<1> HIDE DEF caller
<1>4. \A f : Edge(IdOf(f), "static").callee = IdOf(f) /\ Edge(IdOf(f), "static").type = "static"
  OBVIOUS
<1>5. \A f \in named : Edge(IdOf(f), "static") \in EdgesOf(call, functions, importRows)
  BY <1>3
<1>6. \A e \in EdgesOf(call, functions, importRows) : \E f \in named : e = Edge(IdOf(f), "static")
  BY <1>3
<1> HIDE DEF Edge
<1> QED BY <1>4, <1>5, <1>6

\* The functions of the name of a call, and where its edges lead.
Named(rs, c) == {IdOf(f) : f \in {r \in Range(rs) : r.type \in Callable /\ r.name = c.name}}
Found(es, c) == {e.callee : e \in {x \in es : x.line = c.first /\ x.name = c.name /\ ~x.star
                                              /\ x.caller.file = c.file}}

\* Edges built from rows that all are of the files the graph is built for
\* lead from a row to a row, and plain calls to all functions of their name.
LEMMA BuiltEdges ==
  ASSUME NEW rs, rs \in Seq(Range(rs)), \A k \in DOMAIN rs : rs[k].first \in Int,
         NEW fs, \A r \in Range(rs) : r.file \in fs
  PROVE  LET built == AdmittedEdges(BuildCallGraph(rs, fs))
             ids == {IdOf(r) : r \in Range(rs)}
         IN /\ \A e \in built :
                 /\ \E r \in Range(rs) :
                      /\ IdOf(r) = e.caller
                      /\ IF r.type \in Callable THEN r.first <= e.line /\ e.line <= r.last
                         ELSE r.type = "call" /\ r.first = e.line
                 /\ e.callee # NoNode => e.callee \in ids /\ e.callee.type \in Callable
            /\ \A c \in Range(rs) : c.type = "call" /\ ~c.star /\ c.name \notin DynamicNames
                                  /\ Named(rs, c) # {} => Found(built, c) = Named(rs, c)
<1> DEFINE built == AdmittedEdges(BuildCallGraph(rs, fs))
           ids == {IdOf(r) : r \in Range(rs)}
           functions == OfTypes(rs, Callable, fs)
           importRows == OfTypes(rs, {"import"}, fs)
           callRows == OfTypes(rs, {"call"}, fs)
<1>1. Range(functions) = {r \in Range(rs) : r.type \in Callable}
  BY OfTypesIsSeq
<1>2. Range(callRows) = {r \in Range(rs) : r.type = "call"}
  BY OfTypesIsSeq
<1>3. built = {e \in UNION {EdgesOf(call, functions, importRows) : call \in Range(callRows)} : e.type \in EdgeTypes}
  BY DEF AdmittedEdges, BuildCallGraph
<1>4. /\ \A r : IdOf(r).file = r.file /\ IdOf(r).type = r.type
      /\ "call" \notin Callable /\ "static" \in EdgeTypes
  BY DEF IdOf, Callable, EdgeTypes
<1> HIDE DEF built, functions, importRows, callRows
<1>5. ASSUME NEW e \in built
      PROVE  /\ \E r \in Range(rs) :
                  /\ IdOf(r) = e.caller
                  /\ IF r.type \in Callable THEN r.first <= e.line /\ e.line <= r.last
                     ELSE r.type = "call" /\ r.first = e.line
             /\ e.callee # NoNode => e.callee \in ids /\ e.callee.type \in Callable
  <2>1. PICK call \in Range(callRows) : e \in EdgesOf(call, functions, importRows)
    BY <1>3
  <2>2. /\ e.line = call.first
        /\ \/ e.caller = IdOf(call)
           \/ \E f \in Range(functions) :
                /\ e.caller = IdOf(f)
                /\ f.first <= call.first /\ call.first <= f.last
        /\ e.callee = NoNode \/ \E f \in Range(functions) : e.callee = IdOf(f)
    BY <2>1, EdgeFacts
  <2>3. call \in Range(rs) /\ call.type = "call" /\ call.type \notin Callable
    BY <1>2, <1>4
  <2>4. \E r \in Range(rs) :
          /\ IdOf(r) = e.caller
          /\ IF r.type \in Callable THEN r.first <= e.line /\ e.line <= r.last
             ELSE r.type = "call" /\ r.first = e.line
    BY <1>1, <2>2, <2>3
  <2>5. e.callee # NoNode => e.callee \in ids /\ e.callee.type \in Callable
    BY <1>1, <1>4, <2>2
  <2> QED BY <2>4, <2>5
<1>6. ASSUME NEW c \in Range(rs), c.type = "call", ~c.star, c.name \notin DynamicNames,
             NEW g \in Range(rs), g.type \in Callable, g.name = c.name
      PROVE  Found(built, c) = Named(rs, c)
  <2> DEFINE mine == {x \in built : x.line = c.first /\ x.name = c.name /\ ~x.star
                                    /\ x.caller.file = c.file}
             named == {r \in Range(rs) : r.type \in Callable /\ r.name = c.name}
  <2>1. g \in Range(functions) /\ named \subseteq Range(functions)
    BY <1>1, <1>6
  <2>2. ASSUME NEW f \in named PROVE \E e \in mine : e.callee = IdOf(f)
    <3>1. PICK e \in EdgesOf(c, functions, importRows) : e.callee = IdOf(f)
      BY <1>6, <2>1, PlainCallFacts
    <3>2. e.type = "static"
      BY <1>6, <2>1, PlainCallFacts
    <3>3. c \in Range(callRows)
      BY <1>2, <1>6
    <3>4. e \in built
      BY <1>3, <1>4, <3>2, <3>3
    <3>5. /\ e.line = c.first /\ e.name = c.name /\ e.star = c.star
          /\ \/ e.caller = IdOf(c)
             \/ \E h \in Range(functions) : e.caller = IdOf(h) /\ h.file = c.file
      BY EdgeFacts
    <3>6. e.caller.file = c.file
      BY <3>5, <1>4
    <3> QED BY <3>1, <3>4, <3>5, <3>6, <1>6
  <2>3. ASSUME NEW e \in mine PROVE \E f \in named : e.callee = IdOf(f)
    <3>1. PICK call \in Range(callRows) : e \in EdgesOf(call, functions, importRows)
      BY <1>3
    <3>2. e.name = call.name /\ e.star = call.star
      BY <3>1, EdgeFacts
    <3>3. call.name = c.name /\ ~call.star
      BY <3>2
    <3>4. PICK f \in Range(functions) : f.name = call.name /\ e.callee = IdOf(f)
      BY <3>1, <3>3, <2>1, <1>6, PlainCallFacts
    <3> QED BY <3>3, <3>4, <1>1
  <2> HIDE DEF mine, named
  <2>4. {e.callee : e \in mine} = {IdOf(f) : f \in named}
    BY <2>2, <2>3
  <2> QED BY <2>4 DEF mine, named, Named, Found
<1>7. ASSUME NEW c \in Range(rs), c.type = "call", ~c.star, c.name \notin DynamicNames,
             Named(rs, c) # {}
      PROVE  Found(built, c) = Named(rs, c)
  <2>1. PICK g \in Range(rs) : g.type \in Callable /\ g.name = c.name
    BY <1>7 DEF Named
  <2> QED BY <1>6, <1>7, <2>1
<1> QED BY <1>5, <1>7 DEF built

----------------------------------------------------------------------------
(* The call chains.                                                        *)

Nothing(before) == [chain |-> <<>>, visited |-> before]

\* What Followed and DfsChain are defined to be, step by step.
Follows(g, list, before, depth, below) ==
  /\ g[0] = Nothing(before)
  /\ \A n \in 1..Len(list) : g[n] = Follow(g[n - 1], list[n].callee, depth, below)

LEMMA FollowedUnfolds ==
  ASSUME NEW list, Len(list) \in Nat, NEW before, NEW depth, NEW below
  PROVE  Follows(Followed(list, before, depth, below), list, before, depth, below)
<1> DEFINE L == Len(list)
           Step(x, n) == Follow(x, list[n].callee, depth, below)
           base == Nothing(before)
           Unfolds(g, m) == g = [n \in 0..m |-> IF n = 0 THEN base ELSE Step(g[n - 1], n)]
           Good == {m \in Nat : \E g : Unfolds(g, m)}
<1>1. ASSUME NEW m \in Nat, NEW g, Unfolds(g, m) PROVE \E h : Unfolds(h, m + 1)
  <2> DEFINE h == [n \in 0..(m + 1) |-> IF n = 0 THEN base ELSE Step(g[n - 1], n)]
  <2> HIDE DEF Step, base
  <2>1. \A n \in 0..m : h[n] = g[n]
    BY <1>1
  <2>2. \A n \in 0..(m + 1) : n # 0 => n - 1 \in 0..m
    OBVIOUS
  <2>3. Unfolds(h, m + 1)
    BY <2>1, <2>2
  <2> QED BY <2>3
<1>2. 0 \in Good
  <2>1. Unfolds([n \in 0..0 |-> base], 0)
    OBVIOUS
  <2> QED BY <2>1
<1>3. \A m \in Good \cap Nat : m < L => m + 1 \in Good
  <2> SUFFICES ASSUME NEW m \in Good \cap Nat PROVE m + 1 \in Good
    OBVIOUS
  <2>1. PICK g : Unfolds(g, m)
    OBVIOUS
  <2> HIDE DEF Unfolds
  <2> QED BY <2>1, <1>1
<1>4. L \in Good
  <2> HIDE DEF Good, L
  <2>1. L \in Nat BY DEF L
  <2>2. 0..L \subseteq Good BY <2>1, <1>2, <1>3, UpTo
  <2> QED BY <2>1, <2>2
<1>5. \E g : Unfolds(g, L)
  BY <1>4
<1> DEFINE followed == Followed(list, before, depth, below)
<1>6. followed = CHOOSE g : Unfolds(g, L)
  BY DEF Followed, Nothing
<1>7. Unfolds(followed, L)
  <2> HIDE DEF Unfolds, followed
  <2> QED BY <1>5, <1>6
<1>8. followed[0] = base /\ \A n \in 1..L : followed[n] = Step(followed[n - 1], n)
  <2> HIDE DEF followed, Step, base
  <2>1. followed = [n \in 0..L |-> IF n = 0 THEN base ELSE Step(followed[n - 1], n)]
    BY <1>7
  <2>2. 0 \in 0..L /\ \A n \in 1..L : n \in 0..L /\ n # 0
    OBVIOUS
  <2> QED BY <2>1, <2>2
<1> HIDE DEF followed
<1>9. Follows(followed, list, before, depth, below)
  BY <1>8 DEF Follows
<1> QED BY <1>9 DEF followed

\* What a level yields for a node, from what the level below yields.
Level(links, node, before, depth, below) ==
  LET list == CalleesOf(links, node)
  IN IF node \in before THEN Nothing(before)
     ELSE Followed(list, before \cup {node}, depth, below)[Len(list)]

Descends(dfs, links, nodes, maxDepth) ==
  /\ \A node \in nodes : \A before \in SUBSET nodes : dfs[0][node][before] = Nothing(before)
  /\ \A left \in 1..(maxDepth + 1) : \A node \in nodes : \A before \in SUBSET nodes :
       dfs[left][node][before] = Level(links, node, before, maxDepth + 2 - left, dfs[left - 1])

LEMMA DfsUnfolds ==
  ASSUME NEW links, NEW nodes, NEW maxDepth \in Nat
  PROVE  Descends(DfsChain(links, nodes, maxDepth), links, nodes, maxDepth)
<1> DEFINE L == maxDepth + 1
           Entry(node, before, n, below) ==
             IF n = 0 \/ node \in before THEN [chain |-> <<>>, visited |-> before]
             ELSE LET list == CalleesOf(links, node)
                  IN Followed(list, before \cup {node}, maxDepth + 2 - n, below)[Len(list)]
           Table(n, below) == [node \in nodes |-> [before \in SUBSET nodes |-> Entry(node, before, n, below)]]
           Unfolds(g, m) == g = [n \in 0..m |-> Table(n, g[n - 1])]
           Good == {m \in Nat : \E g : Unfolds(g, m)}
<1>1. \A x, y : Table(0, x) = Table(0, y)
  OBVIOUS
<1>2. ASSUME NEW m \in Nat, NEW g, Unfolds(g, m) PROVE \E h : Unfolds(h, m + 1)
  <2> DEFINE h == [n \in 0..(m + 1) |-> Table(n, g[n - 1])]
  <2> HIDE DEF Table
  <2>1. \A n \in 0..m : h[n] = g[n]
    BY <1>2
  <2>2. \A n \in 0..(m + 1) : n # 0 => n - 1 \in 0..m
    OBVIOUS
  <2>3. \A n \in 0..(m + 1) : Table(n, g[n - 1]) = Table(n, h[n - 1])
    BY <1>1, <2>1, <2>2
  <2>4. Unfolds(h, m + 1)
    BY <2>3
  <2> QED BY <2>4
<1>3. 0 \in Good
  <2> DEFINE g == [n \in 0..0 |-> Table(0, 0)]
  <2> HIDE DEF Table
  <2>1. Unfolds(g, 0)
    BY <1>1
  <2> QED BY <2>1
<1>4. \A m \in Good \cap Nat : m < L => m + 1 \in Good
  <2> SUFFICES ASSUME NEW m \in Good \cap Nat PROVE m + 1 \in Good
    OBVIOUS
  <2>1. PICK g : Unfolds(g, m)
    OBVIOUS
  <2> HIDE DEF Unfolds
  <2> QED BY <2>1, <1>2
<1>5. L \in Good
  <2> HIDE DEF Good, L
  <2>1. L \in Nat BY DEF L
  <2>2. 0..L \subseteq Good BY <2>1, <1>3, <1>4, UpTo
  <2> QED BY <2>1, <2>2
<1>6. \E g : Unfolds(g, L)
  BY <1>5
<1> DEFINE dfs == DfsChain(links, nodes, maxDepth)
<1>7. dfs = CHOOSE g : Unfolds(g, L)
  BY DEF DfsChain
<1>8. Unfolds(dfs, L)
  <2> HIDE DEF Unfolds, dfs
  <2> QED BY <1>6, <1>7
<1> HIDE DEF dfs
<1>9. \A n \in 0..L : \A node \in nodes : \A before \in SUBSET nodes :
        dfs[n][node][before] = Entry(node, before, n, dfs[n - 1])
  <2> HIDE DEF Entry
  <2>1. dfs = [n \in 0..L |-> Table(n, dfs[n - 1])]
    <3> HIDE DEF Table
    <3> QED BY <1>8
  <2>2. \A n \in 0..L : dfs[n] = Table(n, dfs[n - 1])
    <3> HIDE DEF Table
    <3> QED BY <2>1
  <2>3. \A n, below : \A node \in nodes : \A before \in SUBSET nodes :
          Table(n, below)[node][before] = Entry(node, before, n, below)
    OBVIOUS
  <2> HIDE DEF Table
  <2> QED BY <2>2, <2>3
<1>10. \A n \in 1..L : n \in 0..L /\ n # 0
  OBVIOUS
<1>11. 0 \in 0..L
  OBVIOUS
<1>12. \A node \in nodes : \A before \in SUBSET nodes : dfs[0][node][before] = Nothing(before)
  <2>1. \A node \in nodes : \A before \in SUBSET nodes : Entry(node, before, 0, dfs[0 - 1]) = Nothing(before)
    BY DEF Nothing
  <2> HIDE DEF Entry
  <2> QED BY <2>1, <1>9, <1>11
<1>13. ASSUME NEW left \in 1..L, NEW node \in nodes, NEW before \in SUBSET nodes
       PROVE  dfs[left][node][before] = Level(links, node, before, maxDepth + 2 - left, dfs[left - 1])
  <2>1. dfs[left][node][before] = Entry(node, before, left, dfs[left - 1]) /\ left # 0
    BY <1>9, <1>10
  <2> QED BY <2>1 DEF Level, Nothing
<1>14. Descends(dfs, links, nodes, maxDepth)
  BY <1>12, <1>13 DEF Descends
<1> QED BY <1>14 DEF dfs

\* Where the edges that leave some nodes lead, and the nodes of a chain.
LedTo(links, S) == {e.callee : e \in {x \in links : x.caller \in S /\ x.callee # NoNode}}
NodesIn(chain) == {c.node : c \in Range(chain)}

\* Every entry is one step from the node the search began with, or one step
\* from an entry of the depth before.
Rooted(chain, links, node, depth) ==
  \A c \in Range(chain) :
    \/ c.depth = depth /\ c.node \in LedTo(links, {node})
    \/ \E d \in Range(chain) : d.depth + 1 = c.depth /\ c.node \in LedTo(links, {d.node})

\* What a search from a node adds to the nodes visited before: its chain leads
\* to them, and holds all they lead to.
Explored(r, links, nodes, node, before, depth) ==
  /\ r.chain \in Seq([depth : Int, node : nodes])
  /\ before \subseteq r.visited /\ r.visited \subseteq nodes /\ node \in r.visited
  /\ NodesIn(r.chain) = LedTo(links, r.visited \ before)
  /\ NodesIn(r.chain) \subseteq r.visited
  /\ r.visited \ before \subseteq {node} \cup NodesIn(r.chain)
  /\ Rooted(r.chain, links, node, depth)

\* The same while the edges of the node are followed, after those that lead to
\* the nodes taken; visited has the node itself.
Walked(r, links, nodes, node, before, taken, depth) ==
  /\ r.chain \in Seq([depth : Int, node : nodes])
  /\ before \subseteq r.visited /\ r.visited \subseteq nodes
  /\ NodesIn(r.chain) = taken \cup LedTo(links, r.visited \ before)
  /\ NodesIn(r.chain) \subseteq r.visited
  /\ r.visited \ before \subseteq NodesIn(r.chain)
  /\ Rooted(r.chain, links, node, depth)

LEMMA LedToTogether ==
  ASSUME NEW links, NEW A, NEW B
  PROVE  LedTo(links, A \cup B) = LedTo(links, A) \cup LedTo(links, B)
BY DEF LedTo

LEMMA ChainsJoined ==
  ASSUME NEW S, NEW s \in Seq(S), NEW x \in S, NEW t \in Seq(S)
  PROVE  /\ Append(s, x) \o t \in Seq(S)
         /\ Range(Append(s, x) \o t) = Range(s) \cup {x} \cup Range(t)
<1> DEFINE a == Append(s, x)
           j == a \o t
<1>1. /\ a \in Seq(S) /\ Len(a) = Len(s) + 1 /\ a[Len(s) + 1] = x
      /\ \A i \in 1..Len(s) : a[i] = s[i]
  BY AppendProperties
<1>2. Len(s) \in Nat /\ Len(t) \in Nat /\ DOMAIN s = 1..Len(s) /\ DOMAIN t = 1..Len(t)
  BY LenProperties
<1> HIDE DEF a
<1>3. /\ j \in Seq(S) /\ Len(j) = Len(a) + Len(t)
      /\ \A i \in 1..(Len(a) + Len(t)) : j[i] = IF i <= Len(a) THEN a[i] ELSE t[i - Len(a)]
  BY <1>1, ConcatProperties
<1> HIDE DEF j
<1>4. DOMAIN j = 1..(Len(s) + 1 + Len(t))
  BY <1>1, <1>2, <1>3, LenProperties
<1>5. /\ \A i \in 1..Len(s) : j[i] = s[i]
      /\ j[Len(s) + 1] = x
      /\ \A i \in 1..Len(t) : j[Len(s) + 1 + i] = t[i]
  <2>1. ASSUME NEW i \in 1..(Len(s) + 1) PROVE j[i] = a[i]
    <3>1. i \in 1..(Len(a) + Len(t)) /\ i <= Len(a)
      BY <1>1, <1>2
    <3> QED BY <1>3, <3>1
  <2>2. ASSUME NEW i \in 1..Len(t) PROVE j[Len(s) + 1 + i] = t[i]
    <3> DEFINE k == Len(s) + 1 + i
    <3>1. k \in 1..(Len(a) + Len(t)) /\ ~(k <= Len(a)) /\ k - Len(a) = i
      BY <1>1, <1>2
    <3> HIDE DEF k
    <3>2. j[k] = t[i]
      BY <1>3, <3>1
    <3> QED BY <3>2 DEF k
  <2>3. \A i \in 1..Len(s) : i \in 1..(Len(s) + 1)
    BY <1>2
  <2>4. Len(s) + 1 \in 1..(Len(s) + 1)
    BY <1>2
  <2> QED BY <1>1, <2>1, <2>2, <2>3, <2>4
<1>6. Range(j) \subseteq Range(s) \cup {x} \cup Range(t)
  <2> SUFFICES ASSUME NEW i \in 1..(Len(s) + 1 + Len(t))
               PROVE  j[i] \in Range(s) \cup {x} \cup Range(t)
    BY <1>4 DEF Range
  <2>1. CASE i <= Len(s)
    BY <1>2, <1>5, <2>1 DEF Range
  <2>2. CASE i = Len(s) + 1
    BY <1>5, <2>2
  <2>3. CASE i > Len(s) + 1
    <3>1. i - Len(s) - 1 \in 1..Len(t) /\ Len(s) + 1 + (i - Len(s) - 1) = i
      BY <1>2, <2>3
    <3>2. j[i] = t[i - Len(s) - 1]
      BY <1>5, <3>1
    <3> QED BY <1>2, <3>1, <3>2 DEF Range
  <2> QED BY <1>2, <2>1, <2>2, <2>3
<1>7. Range(s) \subseteq Range(j) /\ x \in Range(j) /\ Range(t) \subseteq Range(j)
  <2>1. ASSUME NEW i \in 1..Len(s) PROVE s[i] \in Range(j)
    <3>1. i \in DOMAIN j BY <1>2, <1>4
    <3> QED BY <1>5, <3>1 DEF Range
  <2>2. x \in Range(j)
    <3>1. Len(s) + 1 \in DOMAIN j BY <1>2, <1>4
    <3> QED BY <1>5, <3>1 DEF Range
  <2>3. ASSUME NEW i \in 1..Len(t) PROVE t[i] \in Range(j)
    <3>1. Len(s) + 1 + i \in DOMAIN j BY <1>2, <1>4
    <3> QED BY <1>5, <3>1 DEF Range
  <2> QED BY <1>2, <2>1, <2>2, <2>3 DEF Range
<1> QED BY <1>3, <1>6, <1>7 DEF a, j

\* An edge followed: its callee is taken, and what that leads to is explored.
LEMMA FollowWalks ==
  ASSUME NEW links, NEW nodes, NEW node, NEW before, NEW taken, NEW depth \in Int, NEW below,
         NEW r, Walked(r, links, nodes, node, before, taken, depth),
         NEW callee \in nodes, callee \in LedTo(links, {node}),
         Explored(below[callee][r.visited], links, nodes, callee, r.visited, depth + 1)
  PROVE  Walked(Follow(r, callee, depth, below), links, nodes, node, before, taken \cup {callee}, depth)
<1> DEFINE found == below[callee][r.visited]
           entry == [depth |-> depth, node |-> callee]
           chain == Append(r.chain, entry) \o found.chain
           next == Follow(r, callee, depth, below)
           seen == found.visited
<1>1. next.chain = chain /\ next.visited = seen
  BY DEF Follow
<1>2. /\ r.chain \in Seq([depth : Int, node : nodes]) /\ found.chain \in Seq([depth : Int, node : nodes])
      /\ entry \in [depth : Int, node : nodes]
  BY DEF Walked, Explored
<1>3. /\ chain \in Seq([depth : Int, node : nodes])
      /\ Range(chain) = Range(r.chain) \cup {entry} \cup Range(found.chain)
  <2> DEFINE entries == [depth : Int, node : nodes]
             old == r.chain
             new == found.chain
  <2>1. old \in Seq(entries) /\ new \in Seq(entries) /\ entry \in entries
    BY <1>2
  <2> HIDE DEF old, new, entry, entries
  <2>2. /\ Append(old, entry) \o new \in Seq(entries)
        /\ Range(Append(old, entry) \o new) = Range(old) \cup {entry} \cup Range(new)
    BY <2>1, ChainsJoined
  <2> QED BY <2>2 DEF old, new, entries
<1>4. entry.node = callee /\ entry.depth = depth
  OBVIOUS
<1> HIDE DEF next, chain, entry
<1>5. NodesIn(chain) = NodesIn(r.chain) \cup {callee} \cup NodesIn(found.chain)
  BY <1>3, <1>4 DEF NodesIn
<1>6. /\ before \subseteq r.visited /\ r.visited \subseteq nodes
      /\ NodesIn(r.chain) = taken \cup LedTo(links, r.visited \ before)
      /\ NodesIn(r.chain) \subseteq r.visited
      /\ r.visited \ before \subseteq NodesIn(r.chain)
  BY DEF Walked
<1>7. /\ r.visited \subseteq seen /\ seen \subseteq nodes /\ callee \in seen
      /\ NodesIn(found.chain) = LedTo(links, seen \ r.visited)
      /\ NodesIn(found.chain) \subseteq seen
      /\ seen \ r.visited \subseteq {callee} \cup NodesIn(found.chain)
  BY DEF Explored
<1> HIDE DEF seen
<1>8. LedTo(links, seen \ before) = LedTo(links, r.visited \ before) \cup LedTo(links, seen \ r.visited)
  <2>1. seen \ before = (r.visited \ before) \cup (seen \ r.visited)
    BY <1>6, <1>7
  <2> QED BY <2>1, LedToTogether
<1>9. NodesIn(chain) = (taken \cup {callee}) \cup LedTo(links, seen \ before)
  BY <1>5, <1>6, <1>7, <1>8
<1>10. NodesIn(chain) \subseteq seen /\ seen \ before \subseteq NodesIn(chain) /\ before \subseteq seen
  BY <1>5, <1>6, <1>7
<1>11. Rooted(chain, links, node, depth)
  <2> SUFFICES ASSUME NEW c \in Range(chain)
               PROVE  \/ c.depth = depth /\ c.node \in LedTo(links, {node})
                      \/ \E d \in Range(chain) : d.depth + 1 = c.depth /\ c.node \in LedTo(links, {d.node})
    BY DEF Rooted
  <2>1. CASE c \in Range(r.chain)
    <3>1. Rooted(r.chain, links, node, depth)
      BY DEF Walked
    <3> QED BY <1>3, <2>1, <3>1 DEF Rooted
  <2>2. CASE c = entry
    BY <1>4, <2>2
  <2>3. CASE c \in Range(found.chain)
    <3>1. Rooted(found.chain, links, callee, depth + 1)
      BY DEF Explored
    <3>2. CASE c.depth = depth + 1 /\ c.node \in LedTo(links, {callee})
      <4>1. entry \in Range(chain) /\ entry.depth + 1 = c.depth /\ c.node \in LedTo(links, {entry.node})
        BY <1>3, <1>4, <3>2
      <4> QED BY <4>1
    <3>3. CASE \E d \in Range(found.chain) : d.depth + 1 = c.depth /\ c.node \in LedTo(links, {d.node})
      BY <1>3, <3>3
    <3> HIDE DEF found
    <3> QED BY <2>3, <3>1, <3>2, <3>3 DEF Rooted
  <2> QED BY <1>3, <2>1, <2>2, <2>3
<1>12. seen \subseteq nodes
  BY <1>7
<1>13. Walked(next, links, nodes, node, before, taken \cup {callee}, depth)
  BY <1>1, <1>3, <1>9, <1>10, <1>11, <1>12 DEF Walked
<1> QED BY <1>13 DEF next

\* The values of a function of finite domain are no more than the domain.
LEMMA FiniteImage ==
  ASSUME NEW f, IsFiniteSet(DOMAIN f)
  PROVE  /\ IsFiniteSet({f[x] : x \in DOMAIN f})
         /\ Cardinality({f[x] : x \in DOMAIN f}) <= Cardinality(DOMAIN f)
<1> DEFINE T == {f[x] : x \in DOMAIN f}
           g == [x \in DOMAIN f |-> f[x]]
<1>1. g \in Surjection(DOMAIN f, T)
  BY DEF Surjection
<1> HIDE DEF g, T
<1>2. IsFiniteSet(T) /\ Cardinality(T) <= Cardinality(DOMAIN f)
  BY <1>1, FS_Surjection
<1> QED BY <1>2 DEF T

\* The list of a caller's edges has them all.
LEMMA CalleesListed ==
  ASSUME NEW links, IsFiniteSet(links), NEW node
  PROVE  LET list == CalleesOf(links, node)
         IN /\ Len(list) \in Nat
            /\ {list[n].callee : n \in 1..Len(list)} = LedTo(links, {node})
<1> DEFINE out == {e \in links : e.caller = node /\ e.callee # NoNode}
           size == Cardinality(out)
           Lists(f) == f \in [1..size -> out] /\ IsInjective(f)
           list == CalleesOf(links, node)
<1>1. IsFiniteSet(out)
  BY FS_Subset
<1> HIDE DEF out
<1>2. size \in Nat /\ ExistsBijection(1..size, out)
  BY <1>1, FS_CardinalityType
<1>3. \E f : Lists(f)
  BY <1>2 DEF ExistsBijection, Bijection, Injection, IsInjective
<1>4. list = CHOOSE f \in [1..size -> out] : IsInjective(f)
  BY DEF CalleesOf, SetToSeq, out
<1> HIDE DEF list, size
<1>5. Lists(list)
  BY <1>3, <1>4
<1>6. IsFiniteSet(1..size) /\ Cardinality(1..size) = size
  <2>1. 1 \in Int /\ size \in Int BY <1>2
  <2>2. Cardinality(1..size) = IF 1 > size THEN 0 ELSE size - 1 + 1
    BY <2>1, FS_Interval
  <2>3. IsFiniteSet(1..size)
    BY <2>1, FS_Interval
  <2> QED BY <1>2, <2>2, <2>3
<1>7. list \in Injection(1..size, out)
  BY <1>5 DEF Injection, IsInjective
<1>8. list \in Surjection(1..size, out)
  BY <1>1, <1>6, <1>7, FS_Injection DEF size
<1>9. DOMAIN list = 1..size /\ Len(list) = size
  <2>1. list \in Seq(out)
    BY <1>2, <1>5
  <2> QED BY <1>2, <1>5, <2>1
<1>10. {list[n] : n \in 1..size} = out
  BY <1>5, <1>8 DEF Surjection
<1>11. {list[n].callee : n \in 1..size} = {e.callee : e \in out}
  BY <1>10
<1>12. {e.callee : e \in out} = LedTo(links, {node})
  BY DEF LedTo, out
<1> QED BY <1>2, <1>9, <1>11, <1>12 DEF list

\* A level explores if the level below does.
LEMMA LevelExplores ==
  ASSUME NEW links, IsFiniteSet(links), NEW nodes, LedTo(links, nodes) \subseteq nodes,
         NEW node \in nodes, NEW before \in SUBSET nodes, NEW depth \in Int, NEW below,
         node \notin before => \A callee \in nodes : \A seen \in SUBSET nodes :
           before \cup {node} \subseteq seen =>
             Explored(below[callee][seen], links, nodes, callee, seen, depth + 1)
  PROVE  Explored(Level(links, node, before, depth, below), links, nodes, node, before, depth)
<1>1. CASE node \in before
  <2> DEFINE r == Nothing(before)
  <2>1. Level(links, node, before, depth, below) = r
    BY <1>1 DEF Level
  <2>2. r.chain = <<>> /\ r.visited = before
    BY DEF Nothing
  <2>3. Range(r.chain) = {} /\ r.chain \in Seq([depth : Int, node : nodes])
    BY <2>2 DEF Range
  <2> HIDE DEF r
  <2>4. NodesIn(r.chain) = {} /\ LedTo(links, r.visited \ before) = {}
    BY <2>2, <2>3 DEF NodesIn, LedTo
  <2> QED BY <1>1, <2>1, <2>2, <2>3, <2>4 DEF Explored, Rooted
<1>2. CASE node \notin before
  <2> DEFINE list == CalleesOf(links, node)
             L == Len(list)
             first == before \cup {node}
             g == Followed(list, first, depth, below)
             taken(n) == {list[i].callee : i \in 1..n}
             Good == {n \in 0..L : Walked(g[n], links, nodes, node, first, taken(n), depth)}
  <2>1. L \in Nat /\ taken(L) = LedTo(links, {node})
    BY CalleesListed
  <2>2. Follows(g, list, first, depth, below)
    BY <2>1, FollowedUnfolds
  <2>3. Level(links, node, before, depth, below) = g[L]
    BY <1>2 DEF Level
  <2>4. first \in SUBSET nodes
    OBVIOUS
  <2>5. LedTo(links, {node}) \subseteq nodes
    BY DEF LedTo
  <2> HIDE DEF list, L, g, first
  <2>6. 0 \in Good
    <3> DEFINE r == g[0]
    <3>1. r.chain = <<>> /\ r.visited = first
      BY <2>2 DEF Follows, Nothing
    <3> HIDE DEF r
    <3>2. Range(r.chain) = {} /\ r.chain \in Seq([depth : Int, node : nodes])
      BY <3>1 DEF Range
    <3>3. NodesIn(r.chain) = {} /\ LedTo(links, r.visited \ first) = {}
      BY <3>1, <3>2 DEF NodesIn, LedTo
    <3>4. taken(0) = {}
      OBVIOUS
    <3> HIDE DEF taken
    <3>5. Walked(r, links, nodes, node, first, taken(0), depth)
      BY <2>4, <3>1, <3>2, <3>3, <3>4 DEF Walked, Rooted
    <3> QED BY <2>1, <3>5 DEF r
  <2>7. \A n \in Good \cap Nat : n < L => n + 1 \in Good
    <3> SUFFICES ASSUME NEW n \in Good \cap Nat, n < L PROVE n + 1 \in Good
      OBVIOUS
    <3>1. n + 1 \in 1..L /\ (n + 1) - 1 = n /\ n + 1 \in 0..L
      BY <2>1
    <3> DEFINE callee == list[n + 1].callee
               r == g[n]
    <3>2. callee \in taken(L)
      BY <3>1
    <3>3. taken(n + 1) = taken(n) \cup {callee}
      <4>1. \A i \in 1..(n + 1) : i \in 1..n \/ i = n + 1
        OBVIOUS
      <4>2. \A i \in 1..n : i \in 1..(n + 1)
        OBVIOUS
      <4>3. n + 1 \in 1..(n + 1)
        OBVIOUS
      <4> QED BY <4>1, <4>2, <4>3
    <3>4. g[n + 1] = Follow(r, callee, depth, below)
      BY <2>2, <3>1 DEF Follows, L
    <3>5. Walked(r, links, nodes, node, first, taken(n), depth)
      OBVIOUS
    <3> HIDE DEF callee, r, taken, Good
    <3>6. callee \in LedTo(links, {node}) /\ callee \in nodes
      BY <2>1, <2>5, <3>2
    <3>7. r.visited \in SUBSET nodes /\ first \subseteq r.visited
      BY <3>5 DEF Walked
    <3>8. Explored(below[callee][r.visited], links, nodes, callee, r.visited, depth + 1)
      BY <1>2, <3>6, <3>7 DEF first
    <3>9. Walked(Follow(r, callee, depth, below), links, nodes, node, first, taken(n) \cup {callee}, depth)
      BY <3>5, <3>6, <3>8, FollowWalks
    <3> QED BY <3>1, <3>3, <3>4, <3>9 DEF Good
  <2>8. L \in Good
    <3> HIDE DEF Good
    <3>1. 0..L \subseteq Good
      BY <2>1, <2>6, <2>7, UpTo
    <3> QED BY <2>1, <3>1
  <2> DEFINE r == g[L]
  <2>9. Walked(r, links, nodes, node, first, LedTo(links, {node}), depth)
    BY <2>1, <2>8
  <2> HIDE DEF r, taken, Good
  <2>10. r.visited \ before = (r.visited \ first) \cup {node} /\ node \in r.visited
    BY <1>2, <2>9 DEF Walked, first
  <2>11. LedTo(links, r.visited \ before) = LedTo(links, r.visited \ first) \cup LedTo(links, {node})
    BY <2>10, LedToTogether
  <2>12. Explored(r, links, nodes, node, before, depth)
    <3>1. NodesIn(r.chain) = LedTo(links, r.visited \ before)
      BY <2>9, <2>11 DEF Walked
    <3>2. r.visited \ before \subseteq {node} \cup NodesIn(r.chain)
      BY <2>9, <2>10 DEF Walked
    <3>3. before \subseteq r.visited
      BY <2>9 DEF Walked, first
    <3> QED BY <2>9, <2>10, <3>1, <3>2, <3>3 DEF Walked, Explored
  <2> QED BY <2>3, <2>12 DEF r
<1> QED BY <1>1, <1>2

\* With as many levels left as nodes are not visited, all of them are met.
LEMMA DfsExplores ==
  ASSUME NEW links, IsFiniteSet(links), NEW nodes, IsFiniteSet(nodes),
         LedTo(links, nodes) \subseteq nodes, NEW maxDepth \in Nat
  PROVE  \A left \in 0..(maxDepth + 1) : \A node \in nodes : \A before \in SUBSET nodes :
           Cardinality(nodes \ before) <= left =>
             Explored(DfsChain(links, nodes, maxDepth)[left][node][before],
                      links, nodes, node, before, maxDepth + 2 - left)
<1> DEFINE dfs == DfsChain(links, nodes, maxDepth)
           L == maxDepth + 1
           Explores(left) ==
             \A node \in nodes : \A before \in SUBSET nodes : Cardinality(nodes \ before) <= left =>
               Explored(dfs[left][node][before], links, nodes, node, before, maxDepth + 2 - left)
           Good == {left \in 0..L : Explores(left)}
<1>1. Descends(dfs, links, nodes, maxDepth)
  BY DfsUnfolds
<1> HIDE DEF dfs
<1>2. \A before \in SUBSET nodes : IsFiniteSet(nodes \ before) /\ Cardinality(nodes \ before) \in Nat
  BY FS_Subset, FS_CardinalityType
<1>3. 0 \in Good
  <2> SUFFICES ASSUME NEW node \in nodes, NEW before \in SUBSET nodes, Cardinality(nodes \ before) <= 0
               PROVE  Explored(dfs[0][node][before], links, nodes, node, before, maxDepth + 2 - 0)
    OBVIOUS
  <2> DEFINE rest == nodes \ before
  <2>1. IsFiniteSet(rest) /\ Cardinality(rest) = 0
    BY <1>2
  <2>2. rest = {}
    <3> HIDE DEF rest
    <3> QED BY <2>1, FS_EmptySet
  <2>3. node \in before
    BY <2>2
  <2>4. dfs[0][node][before] = Level(links, node, before, maxDepth + 2, 0)
    BY <1>1, <2>3 DEF Descends, Level
  <2>5. Explored(Level(links, node, before, maxDepth + 2, 0), links, nodes, node, before, maxDepth + 2)
    <3>1. maxDepth + 2 \in Int
      OBVIOUS
    <3> QED BY <2>3, <3>1, LevelExplores
  <2>6. maxDepth + 2 - 0 = maxDepth + 2
    OBVIOUS
  <2> QED BY <2>4, <2>5, <2>6
<1>4. ASSUME NEW left \in 0..L, left < L, Explores(left) PROVE Explores(left + 1)
  <2> SUFFICES ASSUME NEW node \in nodes, NEW before \in SUBSET nodes,
                      Cardinality(nodes \ before) <= left + 1
               PROVE  Explored(dfs[left + 1][node][before], links, nodes, node, before,
                               maxDepth + 2 - (left + 1))
    OBVIOUS
  <2> DEFINE depth == maxDepth + 2 - (left + 1)
             below == dfs[left]
  <2>1. /\ left + 1 \in 1..(maxDepth + 1) /\ (left + 1) - 1 = left
        /\ depth \in Int /\ depth + 1 = maxDepth + 2 - left
    <3> HIDE DEF Explores, below
    <3> QED BY <1>4
  <2>2. Explores(left)
    BY <1>4
  <2> HIDE DEF depth
  <2>3. dfs[left + 1][node][before] = Level(links, node, before, depth, below)
    BY <1>1, <2>1 DEF Descends, depth
  <2>4. ASSUME node \notin before, NEW callee \in nodes, NEW seen \in SUBSET nodes,
               before \cup {node} \subseteq seen
        PROVE  Explored(below[callee][seen], links, nodes, callee, seen, depth + 1)
    <3> DEFINE rest == nodes \ before
               less == rest \ {node}
    <3>1. IsFiniteSet(rest) /\ Cardinality(rest) \in Nat /\ Cardinality(rest) <= left + 1 /\ node \in rest
      BY <1>2, <2>4
    <3>2. nodes \ seen \subseteq less
      BY <2>4
    <3> HIDE DEF rest
    <3>3. IsFiniteSet(less) /\ Cardinality(less) = Cardinality(rest) - 1
      BY <3>1, FS_RemoveElement
    <3> HIDE DEF less
    <3>4. Cardinality(nodes \ seen) <= Cardinality(less)
      BY <3>2, <3>3, FS_Subset
    <3>5. Cardinality(nodes \ seen) \in Nat
      BY <1>2
    <3>6. Cardinality(nodes \ seen) <= left
      BY <3>1, <3>3, <3>4, <3>5
    <3> QED BY <2>1, <2>2, <3>6
  <2> HIDE DEF below
  <2>5. Explored(Level(links, node, before, depth, below), links, nodes, node, before, depth)
    BY <2>1, <2>4, LevelExplores
  <2> QED BY <2>3, <2>5 DEF depth
<1> HIDE DEF Explores
<1>5. 0..L \subseteq Good
  <2>1. L \in Nat
    OBVIOUS
  <2>2. \A n \in Good \cap Nat : n < L => n + 1 \in Good
    BY <1>4
  <2> HIDE DEF Good, L
  <2> QED BY <2>1, <2>2, <1>3, UpTo
<1> QED BY <1>5 DEF Explores, dfs

\* A call chain deep enough for all nodes is what can be reached, and every
\* entry has one before it.
LEMMA ChainReaches ==
  ASSUME NEW links, IsFiniteSet(links), NEW start, NEW maxDepth \in Nat,
         IsFiniteSet(NodesOf(links, start)), Cardinality(NodesOf(links, start)) <= maxDepth + 1
  PROVE  LET chain == CallChain(links, start, maxDepth)
         IN /\ NodesIn(chain) = LedTo(links, NodesIn(chain) \cup {start})
            /\ Rooted(chain, links, start, 1)
<1> DEFINE nodes == NodesOf(links, start)
           r == DfsChain(links, nodes, maxDepth)[maxDepth + 1][start][{}]
           chain == CallChain(links, start, maxDepth)
<1>1. start \in nodes /\ LedTo(links, nodes) \subseteq nodes
  BY DEF NodesOf, LedTo
<1>2. chain = r.chain
  BY DEF CallChain
<1>3. maxDepth + 1 \in 0..(maxDepth + 1) /\ maxDepth + 2 - (maxDepth + 1) = 1
  OBVIOUS
<1>4. Cardinality(nodes \ {}) <= maxDepth + 1 /\ {} \in SUBSET nodes
  <2>1. nodes \ {} = nodes
    OBVIOUS
  <2> QED BY <2>1
<1>5. IsFiniteSet(nodes)
  OBVIOUS
<1> HIDE DEF nodes, chain
<1>6. Explored(r, links, nodes, start, {}, maxDepth + 2 - (maxDepth + 1))
  BY <1>1, <1>3, <1>4, <1>5, DfsExplores
<1> HIDE DEF r
<1>7. Explored(r, links, nodes, start, {}, 1)
  BY <1>3, <1>6
<1>8. r.visited = NodesIn(chain) \cup {start} /\ r.visited \ {} = r.visited
  BY <1>2, <1>7 DEF Explored
<1>9. NodesIn(chain) = LedTo(links, NodesIn(chain) \cup {start}) /\ Rooted(chain, links, start, 1)
  BY <1>2, <1>7, <1>8 DEF Explored
<1> QED BY <1>9 DEF chain

\* An edge for a candidate of each call, or one without callee: a graph is finite.
LEMMA GraphIsFinite ==
  ASSUME NEW rs, rs \in Seq(Range(rs)), \A k \in DOMAIN rs : rs[k].first \in Int, NEW fs
  PROVE  IsFiniteSet(AdmittedEdges(BuildCallGraph(rs, fs)))
<1> DEFINE functions == OfTypes(rs, Callable, fs)
           importRows == OfTypes(rs, {"import"}, fs)
           callRows == OfTypes(rs, {"call"}, fs)
           of(call) == EdgesOf(call, functions, importRows)
<1>1. \A types : IsFiniteSet(Range(OfTypes(rs, types, fs)))
  <2> SUFFICES ASSUME NEW types PROVE IsFiniteSet(Range(OfTypes(rs, types, fs)))
    OBVIOUS
  <2> DEFINE s == OfTypes(rs, types, fs)
  <2>1. s \in Seq(Range(s))
    BY OfTypesIsSeq
  <2> HIDE DEF s
  <2>2. DOMAIN s = 1..Len(s) /\ Len(s) \in Nat
    BY <2>1, LenProperties
  <2>3. IsFiniteSet(1..Len(s))
    BY <2>2, FS_Interval
  <2>4. IsFiniteSet({s[k] : k \in DOMAIN s})
    BY <2>2, <2>3, FiniteImage
  <2> QED BY <2>4 DEF Range, s
<1>2. ASSUME NEW call PROVE IsFiniteSet(of(call))
  <2> DEFINE enclosing == EnclosingOf(call, functions)
             caller == IdOf(IF enclosing = {} THEN call ELSE CHOOSE f \in enclosing : TRUE)
             Edge(callee, type) ==
               [caller |-> caller, callee |-> callee, line |-> call.first, name |-> call.name,
                star |-> call.star, type |-> type]
             Static(candidates) == {Edge(IdOf(f), "static") : f \in candidates}
             qualified == ByQualifiedName(call, functions)
             named == ByName(call, functions)
             none == {Edge(NoNode, "dynamic"), Edge(NoNode, "external"), Edge(NoNode, "injected"),
                      Edge(NoNode, "unknown")}
             all == Range(functions)
             static == [f \in all |-> Edge(IdOf(f), "static")]
  <2>1. qualified \subseteq all /\ named \subseteq all
    BY DEF ByQualifiedName, QualifiedIndex, ByName, Range
  <2>2. of(call) \subseteq Static(qualified) \cup Static(named) \cup none
    BY DEF EdgesOf
  <2>3. IsFiniteSet(none)
    <3> DEFINE one(type) == {Edge(NoNode, type)}
    <3>1. none = (one("dynamic") \cup one("external")) \cup (one("injected") \cup one("unknown"))
      <4> HIDE DEF Edge
      <4> QED OBVIOUS
    <3>2. \A type : IsFiniteSet(one(type))
      <4> HIDE DEF Edge
      <4> QED BY FS_Singleton
    <3> HIDE DEF one, none
    <3>3. IsFiniteSet(one("dynamic") \cup one("external")) /\ IsFiniteSet(one("injected") \cup one("unknown"))
      BY <3>2, FS_Union
    <3> QED BY <3>1, <3>3, FS_Union
  <2>4. IsFiniteSet(all)
    BY <1>1
  <2> HIDE DEF enclosing, caller, qualified, named, none, all, functions, of
  <2>5. IsFiniteSet(Static(all))
    <3>1. DOMAIN static = all /\ {static[f] : f \in all} = Static(all)
      OBVIOUS
    <3> HIDE DEF static, Static
    <3>2. IsFiniteSet({static[f] : f \in DOMAIN static})
      BY <2>4, <3>1, FiniteImage
    <3> QED BY <3>1, <3>2
  <2>6. Static(qualified) \subseteq Static(all) /\ Static(named) \subseteq Static(all)
    BY <2>1
  <2> HIDE DEF Static
  <2>7. of(call) \subseteq Static(all) \cup none
    BY <2>2, <2>6
  <2> QED BY <2>3, <2>5, <2>7, FS_Union, FS_Subset
<1>3. IsFiniteSet({of(call) : call \in Range(callRows)})
  <2> DEFINE graph == [call \in Range(callRows) |-> of(call)]
  <2>1. DOMAIN graph = Range(callRows) /\ {graph[c] : c \in Range(callRows)} = {of(call) : call \in Range(callRows)}
    OBVIOUS
  <2>2. IsFiniteSet(Range(callRows))
    BY <1>1
  <2> HIDE DEF graph, of, callRows
  <2>3. IsFiniteSet({graph[c] : c \in DOMAIN graph})
    BY <2>1, <2>2, FiniteImage
  <2> QED BY <2>1, <2>3
<1>4. IsFiniteSet(UNION {of(call) : call \in Range(callRows)})
  <2> HIDE DEF of, callRows
  <2>1. \A T \in {of(call) : call \in Range(callRows)} : IsFiniteSet(T)
    BY <1>2
  <2> QED BY <1>3, <2>1, FS_UNION
<1>5. BuildCallGraph(rs, fs) = UNION {of(call) : call \in Range(callRows)}
  BY DEF BuildCallGraph
<1>6. AdmittedEdges(BuildCallGraph(rs, fs)) \subseteq BuildCallGraph(rs, fs)
  BY DEF AdmittedEdges
<1> HIDE DEF of, callRows
<1> QED BY <1>4, <1>5, <1>6, FS_Subset


----------------------------------------------------------------------------
(* The dependencies.                                                       *)

\* A path is a suffix of itself below the root.
LEMMA OwnSuffix ==
  ASSUME NEW d \in Seq(STRING) PROVE IsSuffix(d, Root \o d)
<1> DEFINE t == Root \o d
<1>0. Root \in Seq(STRING)
  BY PathsAssumption
<1>1. /\ t \in Seq(STRING) /\ Len(t) = Len(Root) + Len(d)
      /\ \A i \in 1..(Len(Root) + Len(d)) : t[i] = IF i <= Len(Root) THEN Root[i] ELSE d[i - Len(Root)]
  BY <1>0, ConcatProperties
<1>2. Len(d) \in Nat /\ Len(Root) \in Nat
  BY <1>0
<1> HIDE DEF t
<1> DEFINE rd == Reverse(d)
           rt == Reverse(t)
<1>3. /\ rd \in Seq(STRING) /\ Len(rd) = Len(d) /\ \A i \in 1..Len(d) : rd[i] = d[(Len(d) - i) + 1]
  <2>1. \A i \in 1..Len(d) : (Len(d) - i) + 1 \in 1..Len(d)
    BY <1>2
  <2>2. \A i \in 1..Len(d) : d[(Len(d) - i) + 1] \in STRING
    BY <2>1, ElementOfSeq
  <2> QED BY <1>2, <2>2 DEF Reverse
<1>4. /\ rt \in Seq(STRING) /\ Len(rt) = Len(t) /\ \A i \in 1..Len(t) : rt[i] = t[(Len(t) - i) + 1]
  <2>1. \A i \in 1..Len(t) : (Len(t) - i) + 1 \in 1..Len(t)
    BY <1>1, <1>2
  <2>2. \A i \in 1..Len(t) : t[(Len(t) - i) + 1] \in STRING
    BY <1>1, <2>1, ElementOfSeq
  <2> QED BY <1>1, <1>2, <2>2 DEF Reverse
<1> HIDE DEF rd, rt
<1>5. \A i \in 1..Len(d) : rt[i] = rd[i]
  <2> SUFFICES ASSUME NEW i \in 1..Len(d) PROVE rt[i] = rd[i]  OBVIOUS
  <2> DEFINE j == (Len(t) - i) + 1
  <2>1. /\ j \in 1..(Len(Root) + Len(d)) /\ ~(j <= Len(Root)) /\ j - Len(Root) = (Len(d) - i) + 1
        /\ i \in 1..Len(t)
    BY <1>1, <1>2
  <2>2. rt[i] = t[j]
    BY <1>4, <2>1
  <2> HIDE DEF j
  <2>3. t[j] = d[(Len(d) - i) + 1]
    BY <1>1, <2>1
  <2> QED BY <1>3, <2>2, <2>3
<1>6. SubSeq(rd, 1, Len(rd)) = SubSeq(rt, 1, Len(rd))
  <2>1. SubSeq(rd, 1, Len(d)) = [i \in 1..Len(d) |-> rd[i]]
    BY <1>2, <1>3
  <2>2. SubSeq(rt, 1, Len(d)) = [i \in 1..Len(d) |-> rt[i]]
    BY <1>1, <1>2, <1>4
  <2> QED BY <1>3, <1>5, <2>1, <2>2
<1>7. Len(rd) <= Len(rt)
  BY <1>1, <1>2, <1>3, <1>4
<1> QED BY <1>6, <1>7 DEF IsSuffix, IsPrefix, rd, rt, t

\* The first hit of a search in a sequence stands in it.
LEMMA FirstHit ==
  ASSUME NEW seq, seq \in Seq(Range(seq)), NEW hits, hits \subseteq DOMAIN seq, hits # {}
  PROVE  /\ (CHOOSE k \in hits : \A j \in hits : k <= j) \in hits
         /\ seq[CHOOSE k \in hits : \A j \in hits : k <= j] \in Range(seq)
<1>1. hits \in SUBSET Nat
  OBVIOUS
<1>2. \E k \in hits : \A j \in hits : k <= j
  BY <1>1, LeastNatural
<1>3. (CHOOSE k \in hits : \A j \in hits : k <= j) \in hits
  BY <1>2
<1> QED BY <1>3 DEF Range

AllPaths == [dir : Seq(STRING), base : STRING \ {""}, ext : STRING]

\* The importer of an import row is a file of the repository.
LEMMA ImporterFound ==
  ASSUME NEW paths \in Seq(AllPaths), NEW path \in Range(paths)
  PROVE  ImporterOf(path, paths) \in Range(paths) /\ ImporterOf(path, paths) # NoFile
<1> DEFINE hits == {k \in DOMAIN paths :
                      /\ paths[k].base = path.base /\ paths[k].ext = path.ext
                      /\ IsSuffix(paths[k].dir, Absolute(path).dir)}
<1>1. paths \in Seq(Range(paths)) /\ Range(paths) \subseteq AllPaths
  BY DEF Range
<1>2. PICK k \in DOMAIN paths : paths[k] = path
  BY DEF Range
<1>3. path \in AllPaths
  BY <1>1
<1>4. Absolute(path).dir = Root \o path.dir /\ path.dir \in Seq(STRING)
  BY <1>3 DEF Absolute, AllPaths
<1>5. k \in hits
  BY <1>2, <1>4, OwnSuffix
<1>6. ImporterOf(path, paths) = paths[CHOOSE i \in hits : \A j \in hits : i <= j]
  BY <1>5 DEF ImporterOf, FirstOf
<1>7. hits \subseteq DOMAIN paths /\ hits # {}
  BY <1>5
<1> HIDE DEF hits
<1>8. ImporterOf(path, paths) \in Range(paths)
  BY <1>1, <1>6, <1>7, FirstHit
<1>9. NoFile \notin AllPaths
  BY DEF NoFile, AllPaths
<1> QED BY <1>1, <1>8, <1>9

\* What is imported is a file of the repository, or none.
LEMMA ImportedIsFile ==
  ASSUME NEW paths, paths \in Seq(Range(paths)), NEW module
  PROVE  FindImportedFile(module, paths) \in Range(paths) \cup {NoFile}
<1> DEFINE seq == Entries(module)
           found == {k \in DOMAIN seq : seq[k] \in Range(paths)}
           hits == {k \in DOMAIN paths : paths[k].dir = Front(module) /\ paths[k].base = Last(module)}
           whole == {k \in DOMAIN paths : WordsOf(paths[k]) = module}
           exact == FirstOf(paths, LAMBDA p : WordsOf(p) = module)
           entry == FirstOf(seq, LAMBDA p : p \in Range(paths))
           named == FirstOf(paths, LAMBDA p : p.dir = Front(module) /\ p.base = Last(module))
<1>1. seq \in Seq(Range(seq))
  <2>1. seq = [k \in 1..8 |-> seq[k]] /\ DOMAIN seq = 1..8
    BY DEF Entries
  <2> HIDE DEF seq
  <2>2. \A k \in 1..8 : seq[k] \in Range(seq)
    BY <2>1 DEF Range
  <2> QED BY <2>1, <2>2
<1> HIDE DEF seq
<1>2. entry = IF found = {} THEN NoFile ELSE seq[CHOOSE k \in found : \A j \in found : k <= j]
  BY DEF FirstOf
<1>3. named = IF hits = {} THEN NoFile ELSE paths[CHOOSE k \in hits : \A j \in hits : k <= j]
  BY DEF FirstOf
<1>4. entry \in Range(paths) \cup {NoFile}
  <2>1. CASE found = {}
    BY <2>1, <1>2
  <2>2. CASE found # {}
    <3>1. (CHOOSE k \in found : \A j \in found : k <= j) \in found
      <4>1. found \subseteq DOMAIN seq
        OBVIOUS
      <4> HIDE DEF found
      <4> QED BY <4>1, <2>2, <1>1, FirstHit
    <3> QED BY <2>2, <3>1, <1>2
  <2> QED BY <2>1, <2>2
<1>5. named \in Range(paths) \cup {NoFile}
  <2>1. CASE hits = {}
    BY <2>1, <1>3
  <2>2. CASE hits # {}
    <3>1. hits \subseteq DOMAIN paths
      OBVIOUS
    <3> HIDE DEF hits
    <3>2. paths[CHOOSE k \in hits : \A j \in hits : k <= j] \in Range(paths)
      BY <3>1, <2>2, FirstHit
    <3> QED BY <2>2, <3>2, <1>3
  <2> QED BY <2>1, <2>2
<1>6. exact \in Range(paths) \cup {NoFile}
  <2>1. exact = IF whole = {} THEN NoFile ELSE paths[CHOOSE k \in whole : \A j \in whole : k <= j]
    BY DEF FirstOf
  <2>2. CASE whole = {}
    BY <2>1, <2>2
  <2>3. CASE whole # {}
    <3>1. whole \subseteq DOMAIN paths
      OBVIOUS
    <3> HIDE DEF whole
    <3>2. paths[CHOOSE k \in whole : \A j \in whole : k <= j] \in Range(paths)
      BY <3>1, <2>3, FirstHit
    <3> QED BY <2>1, <2>3, <3>2
  <2> QED BY <2>2, <2>3
<1>7. FindImportedFile(module, paths) =
        IF exact # NoFile THEN exact ELSE IF entry # NoFile THEN entry ELSE named
  BY DEF FindImportedFile, seq
<1> HIDE DEF exact, entry, named
<1> QED BY <1>4, <1>5, <1>6, <1>7

LEMMA ImporterIsFile ==
  ASSUME NEW paths, paths \in Seq(Range(paths)), NEW path
  PROVE  ImporterOf(path, paths) \in Range(paths) \cup {NoFile}
<1> DEFINE hits == {k \in DOMAIN paths :
                      /\ paths[k].base = path.base /\ paths[k].ext = path.ext
                      /\ IsSuffix(paths[k].dir, Absolute(path).dir)}
<1>1. ImporterOf(path, paths) = IF hits = {} THEN NoFile
                                ELSE paths[CHOOSE i \in hits : \A j \in hits : i <= j]
  BY DEF ImporterOf, FirstOf
<1>2. CASE hits = {}
  BY <1>1, <1>2
<1>3. CASE hits # {}
  <2>1. hits \subseteq DOMAIN paths
    OBVIOUS
  <2> HIDE DEF hits
  <2>2. paths[CHOOSE i \in hits : \A j \in hits : i <= j] \in Range(paths)
    BY <1>3, <2>1, FirstHit
  <2> QED BY <1>1, <1>3, <2>2
<1> QED BY <1>2, <1>3

\* The places of a list that have a name.
NamedAt(list, name) == {k \in DOMAIN list : list[k].name = name}

\* The dependencies lead from a file to a file or none; when the files of all
\* imports are there, every import has one.
LEMMA MatchFacts ==
  ASSUME NEW importRows, importRows \in Seq(Range(importRows)), NEW paths \in Seq(AllPaths),
         NEW d, d = MatchDependencies(importRows, paths)
  PROVE     /\ d \in Seq(Range(d))
            /\ \A x \in Range(d) : x.importer \in Range(paths) /\ x.imported \in Range(paths) \cup {NoFile}
            /\ (\A r \in Range(importRows) : r.file \in Range(paths)) =>
                 \A name : Cardinality(NamedAt(d, name)) = Cardinality(NamedAt(importRows, name))
<1> DEFINE imported(row) == FindImportedFile(ModulePath(row.name, row.file), paths)
           Dependency(row) == [importer |-> ImporterOf(row.file, paths), imported |-> imported(row),
                               name |-> row.name, type |-> ImportType(row.name, imported(row))]
           all == [k \in DOMAIN importRows |-> Dependency(importRows[k])]
           places == {k \in DOMAIN all : all[k].importer # NoFile}
           chosen == Chosen(all, places)
           c == Cardinality(places)
<1>1. d = chosen
  BY DEF MatchDependencies
<1>2. paths \in Seq(Range(paths))
  BY DEF Range
<1>3. \A k \in DOMAIN importRows :
        /\ all[k].importer = ImporterOf(importRows[k].file, paths)
        /\ all[k].imported \in Range(paths) \cup {NoFile} /\ all[k].name = importRows[k].name
  BY <1>2, ImportedIsFile
<1>4. DOMAIN all = DOMAIN importRows /\ DOMAIN importRows = 1..Len(importRows) /\ Len(importRows) \in Nat
  <2>1. DOMAIN all = DOMAIN importRows
    OBVIOUS
  <2> HIDE DEF all
  <2> QED BY <2>1
<1> HIDE DEF all
<1>5. /\ places \in SUBSET Int /\ IsFiniteSet(places)
      /\ IsFiniteSet(DOMAIN importRows)
  <2>1. places \in SUBSET (DOMAIN importRows)
    BY <1>4
  <2>2. IsFiniteSet(DOMAIN importRows) /\ DOMAIN importRows \subseteq Int
    BY <1>4, FS_Interval
  <2>3. IsFiniteSet(places)
    BY <2>1, <2>2, FS_Subset
  <2> QED BY <2>1, <2>2, <2>3
<1>6. \A k \in places : /\ all[k].importer \in Range(paths)
                        /\ all[k].imported \in Range(paths) \cup {NoFile}
  BY <1>2, <1>3, <1>4, ImporterIsFile
<1>7. d \in Seq(Range(d)) /\ Range(d) = {all[k] : k \in places}
  <2> HIDE DEF places
  <2> QED BY <1>1, <1>5, ChosenIsSeq
<1>8. \A x \in Range(d) : x.importer \in Range(paths) /\ x.imported \in Range(paths) \cup {NoFile}
  BY <1>6, <1>7
<1>9. ASSUME \A r \in Range(importRows) : r.file \in Range(paths), NEW name
      PROVE  Cardinality(NamedAt(d, name)) = Cardinality(NamedAt(importRows, name))
  <2> DEFINE T == {k \in DOMAIN importRows : importRows[k].name = name}
  <2>1. \A k \in DOMAIN importRows : all[k].importer # NoFile
    <3> SUFFICES ASSUME NEW k \in DOMAIN importRows PROVE all[k].importer # NoFile  OBVIOUS
    <3>1. importRows[k].file \in Range(paths)
      BY <1>9 DEF Range
    <3>2. ImporterOf(importRows[k].file, paths) # NoFile
      BY <3>1, ImporterFound
    <3> QED BY <3>2, <1>3
  <2>2. places = DOMAIN importRows
    BY <2>1, <1>4
  <2>3. c \in Nat
    BY <1>5, FS_CardinalityType
  <2> HIDE DEF places
  <2>4. PICK place \in Bijection(1..c, places) : d = [n \in 1..c |-> all[place[n]]]
    <3>1. places \in SUBSET Int /\ IsFiniteSet(places)
      BY <1>5
    <3>2. \E place \in Bijection(1..c, places) : chosen = [n \in 1..c |-> all[place[n]]]
      BY <3>1, ChosenEnumerates
    <3> HIDE DEF chosen, c
    <3> QED BY <1>1, <3>2
  <2>5. place \in [1..c -> places]
    BY DEF Bijection, Injection
  <2> HIDE DEF c
  <2>6. DOMAIN d = 1..c /\ \A n \in 1..c : d[n] = all[place[n]] /\ place[n] \in DOMAIN importRows
    BY <2>2, <2>4, <2>5
  <2>7. {k \in DOMAIN d : d[k].name = name} = {k \in 1..c : place[k] \in T}
    BY <1>3, <2>6
  <2>8. T \in SUBSET places
    BY <2>2
  <2> HIDE DEF T
  <2>9. Cardinality({k \in 1..c : place[k] \in T}) = Cardinality(T)
    <3>1. IsFiniteSet(places) /\ place \in Bijection(1..c, places)
      BY <1>5
    <3> QED BY <2>3, <2>8, <3>1, PlacesCount
  <2> QED BY <2>7, <2>9 DEF T, NamedAt
<1> QED BY <1>1, <1>7, <1>8, <1>9

----------------------------------------------------------------------------
(* The invariant.                                                          *)

\* The paths of some files, in order.
LEMMA PathsListed ==
  ASSUME NEW fs, fs \subseteq Range(PathOrder)
  PROVE  /\ PathsOf(fs) \in Seq(fs) /\ PathsOf(fs) \in Seq(AllPaths)
         /\ Range(PathsOf(fs)) = fs /\ IsInjective(PathsOf(fs))
<1> DEFINE places == {k \in DOMAIN PathOrder : PathOrder[k] \in fs}
           ps == Chosen(PathOrder, places)
           c == Cardinality(places)
<1>1. PathOrder \in Seq(AllPaths) /\ \A j, k \in DOMAIN PathOrder : PathOrder[j] = PathOrder[k] => j = k
  BY PathsAssumption DEF AllPaths, IsInjective
<1>2. DOMAIN PathOrder = 1..Len(PathOrder) /\ Len(PathOrder) \in Nat
  BY <1>1
<1>3. places \in SUBSET Int /\ IsFiniteSet(places)
  <2>1. places \in SUBSET (1..Len(PathOrder))
    BY <1>2
  <2>2. IsFiniteSet(1..Len(PathOrder)) /\ 1..Len(PathOrder) \subseteq Int
    BY <1>2, FS_Interval
  <2>3. IsFiniteSet(places)
    BY <2>1, <2>2, FS_Subset
  <2> QED BY <2>1, <2>2, <2>3
<1>4. places \subseteq DOMAIN PathOrder
  OBVIOUS
<1>5. {PathOrder[k] : k \in places} = fs
  BY DEF Range
<1>6. ps = PathsOf(fs)
  BY DEF PathsOf
<1> HIDE DEF places
<1>7. ps \in Seq(Range(ps)) /\ Range(ps) = fs
  BY <1>3, <1>5, ChosenIsSeq
<1>8. PICK place \in Bijection(1..c, places) : ps = [n \in 1..c |-> PathOrder[place[n]]]
  BY <1>3, ChosenEnumerates
<1> HIDE DEF ps, c
<1>9. place \in [1..c -> places] /\ \A j, k \in 1..c : place[j] = place[k] => j = k
  BY DEF Bijection, Injection, IsInjective
<1>10. DOMAIN ps = 1..c /\ \A n \in 1..c : ps[n] = PathOrder[place[n]] /\ place[n] \in DOMAIN PathOrder
  BY <1>4, <1>8, <1>9
<1>11. IsInjective(ps)
  BY <1>1, <1>9, <1>10 DEF IsInjective
<1>12. Range(PathOrder) \subseteq AllPaths
  BY <1>1 DEF Range
<1>13. ps \in Seq(AllPaths)
  BY <1>7, <1>12
<1> QED BY <1>6, <1>7, <1>11, <1>13

StoreTyped ==
  /\ StoreTypeOK
  /\ Files \subseteq Range(PathOrder) /\ \A f \in Files : source[f] \in Sources
  /\ rows \in Seq(Range(rows)) /\ deps \in Seq(Range(deps))
  /\ \A k \in DOMAIN rows : rows[k].first \in Int /\ rows[k].file \in targets \ Range(todo)
  /\ todo \in Seq(Files) /\ IsInjective(todo)

\* What a run has not got to, and what no incremental run reports.
Pending ==
  /\ mode = "none" => phase = "idle" /\ rows = <<>> /\ edges = {} /\ deps = <<>>
  /\ mode = "incremental" => \A f \in Files : progress[f] = "none"
  /\ phase = "parse" => edges = {}
  /\ IsFiniteSet(edges)

\* The rows of a file that has been parsed, key by key.
ParsedWhole ==
  \A f \in targets \ Range(todo) :
    /\ {KeyOf(rows[k]) : k \in RowsOf(f)}
         = IF HasParser(read[f].lang) /\ progress[f] # "failed" THEN KeysIn(read[f]) ELSE {}
    /\ \A j, k \in RowsOf(f) : KeyOf(rows[j]) = KeyOf(rows[k]) => j = k

\* A file that is still to be parsed holds what it was scanned with, unless
\* it was edited since.
HashedStill ==
  \A f \in (Files \ raced) \cap Range(todo) : source[f] = hashed[f]

StoreInv ==
  /\ StoreTyped /\ Pending /\ ParsedWhole /\ HashedStill
  /\ RowsAreCurrent /\ EdgesAreGrounded /\ CallsReachNames /\ DepsMatchImports
  /\ ParentsWithin(rows)

\* What a file may hold at first and after an edit.
LEMMA SourceKinds ==
  /\ \A p \in Projects : \A f \in DOMAIN p : p[f] \in Sources
  /\ \A f \in Range(PathOrder) : \A src \in Variants[f] : src \in Sources
<1>1. ASSUME NEW p \in Projects, NEW f \in DOMAIN p PROVE p[f] \in Sources
  <2>1. p[f] \in Range(p)
    BY DEF Range
  <2>2. p[f] \in UNION {Range(q) : q \in Projects}
    BY <2>1
  <2> QED BY <2>2 DEF Sources
<1>2. ASSUME NEW f \in Range(PathOrder), NEW src \in Variants[f] PROVE src \in Sources
  <2> DEFINE edited == UNION {Variants[g] : g \in Range(PathOrder)}
  <2>1. src \in edited
    OBVIOUS
  <2>2. edited \subseteq Sources
    BY DEF Sources
  <2> HIDE DEF edited
  <2> QED BY <2>1, <2>2
<1> QED BY <1>1, <1>2

LEMMA StoreInitHolds == StoreInit => StoreInv
<1> SUFFICES ASSUME StoreInit PROVE StoreInv  OBVIOUS
<1>1. /\ source \in Projects /\ hashed = source /\ rows = <<>> /\ edges = {} /\ deps = <<>>
      /\ todo = <<>> /\ targets = {} /\ raced = {} /\ mode = "none" /\ phase = "idle"
      /\ read = [f \in Files |-> NeverRead] /\ progress = [f \in Files |-> "none"]
  BY DEF StoreInit, Files
<1>2. Files \subseteq Range(PathOrder) /\ \A f \in Files : source[f] \in Sources
  <2>1. \A p \in Projects : DOMAIN p \subseteq Range(PathOrder)
    BY PathsAssumption
  <2> QED BY <1>1, <2>1, SourceKinds DEF Files
<1>3. Range(todo) = {} /\ Range(rows) = {} /\ DOMAIN rows = {} /\ DOMAIN deps = {}
  BY <1>1 DEF Range
<1>4. StoreTypeOK
  BY <1>1, <1>3 DEF StoreTypeOK, Files
<1>5. /\ rows \in Seq(Range(rows)) /\ deps \in Seq(Range(deps))
      /\ todo \in Seq(Files) /\ IsInjective(todo)
  BY <1>1 DEF IsInjective
<1>6. StoreTyped
  BY <1>2, <1>3, <1>4, <1>5 DEF StoreTyped
<1>7. Pending /\ ParsedWhole /\ HashedStill /\ EdgesAreGrounded /\ CallsReachNames
  BY <1>1, <1>3, FS_EmptySet DEF Pending, ParsedWhole, HashedStill, EdgesAreGrounded, CallsReachNames
<1>8. RowsAreCurrent /\ DepsMatchImports
  BY <1>1, <1>3 DEF RowsAreCurrent, RowsOf, DepsMatchImports, Settled
<1>9. ParentsWithin(rows)
  BY <1>3 DEF ParentsWithin
<1> QED BY <1>6, <1>7, <1>8, <1>9 DEF StoreInv

LEMMA EditKeeps ==
  ASSUME StoreInv, NEW f \in Files, NEW src \in Variants[f], Edit(f, src) PROVE StoreInv'
<1>1. /\ source' = [source EXCEPT ![f] = src]
      /\ raced' = IF f \in Range(todo) THEN raced \cup {f} ELSE raced
      /\ UNCHANGED <<hashed, read, rows, edges, deps, progress, phase, mode, todo, targets>>
  BY DEF Edit, tables
<1>2. /\ Files' = Files /\ \A g \in Files \ {f} : source'[g] = source[g]
      /\ source'[f] = src
  BY <1>1 DEF Files
<1>3. f \in Range(PathOrder)
  BY DEF StoreInv, StoreTyped
<1>4. src \in Sources
  BY <1>3, SourceKinds
<1>5. Files' \subseteq Range(PathOrder)' /\ \A g \in Files' : source'[g] \in Sources
  BY <1>2, <1>4 DEF StoreInv, StoreTyped
<1>6. StoreTypeOK'
  BY <1>1, <1>2 DEF StoreInv, StoreTyped, StoreTypeOK
<1>7. StoreTyped'
  BY <1>1, <1>2, <1>5, <1>6 DEF StoreInv, StoreTyped
<1>8. Pending' /\ EdgesAreGrounded' /\ CallsReachNames'
  BY <1>1, <1>2 DEF StoreInv, Pending, EdgesAreGrounded, CallsReachNames, Ids
<1>9. ParsedWhole'
  BY <1>1 DEF StoreInv, ParsedWhole, RowsOf
<1>10. HashedStill'
  BY <1>1, <1>2 DEF StoreInv, HashedStill
<1>11. RowsAreCurrent'
  BY <1>1, <1>2 DEF StoreInv, RowsAreCurrent, RowsOf
<1>12. Imports' = Imports
  BY <1>1, <1>2 DEF Imports
<1>13. DepsMatchImports'
  BY <1>1, <1>12 DEF StoreInv, DepsMatchImports, Settled
<1>14. ParentsWithin(rows)'
  BY <1>1 DEF StoreInv, ParentsWithin
<1> QED BY <1>7, <1>8, <1>9, <1>10, <1>11, <1>13, <1>14 DEF StoreInv

LEMMA RescanKeeps ==
  ASSUME StoreInv, NEW kind \in {"full", "incremental"}, NEW fs \in SUBSET Files, Rescan(kind, fs)
  PROVE  StoreInv'
<1>1. /\ hashed' = source /\ rows' = <<>> /\ edges' = {} /\ deps' = <<>>
      /\ progress' = [f \in Files |-> "none"] /\ phase' = "parse" /\ mode' = kind
      /\ todo' = PathsOf(fs) /\ targets' = fs /\ raced' = {}
      /\ UNCHANGED <<source, read>> /\ Files' = Files
  BY DEF Rescan, Files
<1>2. fs \subseteq Range(PathOrder)
  BY DEF StoreInv, StoreTyped
<1>3. todo' \in Seq(fs) /\ Range(todo') = fs /\ IsInjective(todo')
  BY <1>1, <1>2, PathsListed
<1>4. Range(rows') = {} /\ DOMAIN rows' = {} /\ DOMAIN deps' = {}
  BY <1>1 DEF Range
<1>5. StoreTypeOK'
  BY <1>1, <1>3, <1>4 DEF StoreInv, StoreTyped, StoreTypeOK, Files
<1>6. rows' \in Seq(Range(rows')) /\ deps' \in Seq(Range(deps')) /\ todo' \in Seq(Files')
  BY <1>1, <1>3
<1>7. StoreTyped'
  BY <1>1, <1>3, <1>4, <1>5, <1>6 DEF StoreInv, StoreTyped
<1>8. Pending' /\ EdgesAreGrounded' /\ CallsReachNames'
  BY <1>1, FS_EmptySet DEF Pending, EdgesAreGrounded, CallsReachNames
<1>9. ParsedWhole' /\ HashedStill'
  BY <1>1, <1>3 DEF ParsedWhole, HashedStill
<1>10. RowsAreCurrent' /\ DepsMatchImports'
  BY <1>1, <1>4 DEF RowsAreCurrent, RowsOf, DepsMatchImports, Settled
<1>11. ParentsWithin(rows)'
  BY <1>4 DEF ParentsWithin
<1> QED BY <1>7, <1>8, <1>9, <1>10, <1>11 DEF StoreInv

\* One file is parsed, whatever becomes of it.
LEMMA ParseKeeps ==
  ASSUME StoreInv, phase = "parse", todo # <<>>, todo' = Tail(todo),
         NEW f, f = Head(todo), read' = [read EXCEPT ![f] = source[f]],
         NEW new, rows' = rows \o new, RowsFor(f, new), NoKeyTwice(new), ParentsWithin(new),
         KeysOf(new) = IF HasParser(source[f].lang) /\ progress'[f] # "failed"
                       THEN KeysIn(source[f]) ELSE {},
         progress' \in [Files -> {"none", "skipped", "completed", "failed"}],
         \A g \in Files \ {f} : progress'[g] = progress[g],
         mode = "incremental" => progress' = progress,
         UNCHANGED <<source, hashed, edges, deps, phase, mode, targets, raced>>
  PROVE  StoreInv'
<1>1. /\ todo \in Seq(Files) /\ IsInjective(todo) /\ Range(todo) \subseteq targets /\ targets \subseteq Files
      /\ rows \in Seq(Range(rows)) /\ DOMAIN read = Files /\ DOMAIN hashed = Files
      /\ \A k \in DOMAIN rows : /\ rows[k].first \in Int /\ rows[k].file \in targets \ Range(todo)
                                /\ rows[k].type \in StoredTypes
  BY DEF StoreInv, StoreTyped, StoreTypeOK
<1>2. Files' = Files
  BY DEF Files
<1>3. /\ f \in Files /\ todo' \in Seq(Files) /\ Len(todo') = Len(todo) - 1 /\ Len(todo) \in Nat
      /\ \A i \in 1..Len(todo') : todo'[i] = todo[i + 1]
      /\ f = todo[1] /\ Len(todo) > 0
  BY <1>1, HeadTailProperties
<1>4. DOMAIN todo = 1..Len(todo) /\ DOMAIN todo' = 1..Len(todo')
  BY <1>1, <1>3
<1>5. /\ IsInjective(todo') /\ f \in Range(todo) /\ f \notin Range(todo')
      /\ Range(todo) = Range(todo') \cup {f}
  <2>1. \A i \in 1..Len(todo') : i + 1 \in 1..Len(todo) /\ i + 1 # 1
    BY <1>3
  <2>2. \A i \in 1..Len(todo) : i = 1 \/ (i - 1 \in 1..Len(todo') /\ (i - 1) + 1 = i)
    BY <1>3
  <2>3. 1 \in 1..Len(todo)
    BY <1>3
  <2>4. IsInjective(todo')
    BY <1>1, <1>3, <1>4, <2>1 DEF IsInjective
  <2>5. f \notin Range(todo')
    <3> SUFFICES ASSUME NEW i \in 1..Len(todo'), todo'[i] = f PROVE FALSE
      BY <1>4 DEF Range
    <3>1. todo[i + 1] = todo[1] /\ i + 1 \in DOMAIN todo /\ 1 \in DOMAIN todo
      BY <1>3, <1>4, <2>1, <2>3
    <3> QED BY <3>1, <1>1, <2>1 DEF IsInjective
  <2>6. \A x \in Range(todo) : x \in Range(todo') \cup {f}
    <3> SUFFICES ASSUME NEW i \in 1..Len(todo), i # 1 PROVE todo[i] \in Range(todo')
      BY <1>3, <1>4 DEF Range
    <3>1. i - 1 \in DOMAIN todo' /\ todo'[i - 1] = todo[i]
      BY <1>3, <1>4, <2>2
    <3> QED BY <3>1 DEF Range
  <2>7. \A x \in Range(todo') : x \in Range(todo)
    BY <1>3, <1>4, <2>1 DEF Range
  <2>8. f \in Range(todo)
    BY <1>3, <1>4, <2>3 DEF Range
  <2> QED BY <2>4, <2>5, <2>6, <2>7, <2>8
<1>6. targets \ Range(todo') = (targets \ Range(todo)) \cup {f} /\ f \in targets
  BY <1>1, <1>5
<1>7. new \in Seq(Range(new)) /\ \A k \in DOMAIN new : /\ new[k].file = f /\ new[k].first \in Int
                                                       /\ new[k].type \in StoredTypes
  BY DEF RowsFor
<1>8. /\ rows' \in Seq(Range(rows')) /\ Len(rows') = Len(rows) + Len(new)
      /\ \A k \in 1..Len(rows) : rows'[k] = rows[k]
      /\ \A k \in 1..Len(new) : Len(rows) + k \in 1..Len(rows') /\ rows'[Len(rows) + k] = new[k]
      /\ \A k \in 1..Len(rows') : k \in 1..Len(rows) \/ k - Len(rows) \in 1..Len(new)
  BY <1>1, <1>7, Joined
<1>9. /\ DOMAIN rows = 1..Len(rows) /\ DOMAIN new = 1..Len(new) /\ DOMAIN rows' = 1..Len(rows')
      /\ Len(rows) \in Nat /\ Len(new) \in Nat
  BY <1>1, <1>7, <1>8
<1>10. \A k \in 1..Len(rows) : k \in 1..Len(rows')
  BY <1>8, <1>9
<1>11. \A k \in 1..Len(rows') :
         \/ k \in 1..Len(rows) /\ rows'[k] = rows[k]
         \/ k - Len(rows) \in 1..Len(new) /\ rows'[k] = new[k - Len(rows)]
  <2> SUFFICES ASSUME NEW k \in 1..Len(rows'), k \notin 1..Len(rows)
               PROVE  k - Len(rows) \in 1..Len(new) /\ rows'[k] = new[k - Len(rows)]
    BY <1>8
  <2>1. k - Len(rows) \in 1..Len(new) /\ Len(rows) + (k - Len(rows)) = k
    BY <1>8, <1>9
  <2> QED BY <2>1, <1>8
<1>12. \A k \in DOMAIN rows' : /\ rows'[k].first \in Int /\ rows'[k].file \in targets \ Range(todo')
                               /\ rows'[k].type \in StoredTypes
  <2> DEFINE parsed == targets \ Range(todo')
  <2>1. \A g \in targets \ Range(todo) : g \in parsed
    BY <1>6
  <2>2. f \in parsed
    BY <1>6
  <2> HIDE DEF parsed
  <2> SUFFICES ASSUME NEW k \in 1..Len(rows')
               PROVE  rows'[k].first \in Int /\ rows'[k].file \in parsed /\ rows'[k].type \in StoredTypes
    BY <1>9 DEF parsed
  <2>3. CASE k \in 1..Len(rows) /\ rows'[k] = rows[k]
    BY <2>1, <2>3, <1>1, <1>9
  <2>4. CASE k - Len(rows) \in 1..Len(new) /\ rows'[k] = new[k - Len(rows)]
    <3> DEFINE i == k - Len(rows)
    <3>1. i \in DOMAIN new /\ rows'[k] = new[i]
      BY <2>4, <1>9
    <3> HIDE DEF i
    <3> QED BY <3>1, <2>2, <1>7
  <2> QED BY <2>3, <2>4, <1>11
<1>13. ASSUME NEW g \in Files, g # f PROVE RowsOf(g)' = RowsOf(g) /\ \A k \in RowsOf(g) : rows'[k] = rows[k]
  <2>1. \A k \in DOMAIN rows' : rows'[k].file = g => k \in DOMAIN rows /\ rows[k].file = g
    BY <1>7, <1>9, <1>11, <1>13
  <2>2. \A k \in DOMAIN rows : k \in DOMAIN rows' /\ rows'[k] = rows[k]
    BY <1>8, <1>9, <1>10
  <2> QED BY <2>1, <2>2 DEF RowsOf
<1>14. /\ \A k \in RowsOf(f)' : k - Len(rows) \in 1..Len(new) /\ rows'[k] = new[k - Len(rows)]
       /\ \A k \in 1..Len(new) : Len(rows) + k \in RowsOf(f)'
  <2>1. \A k \in DOMAIN rows : rows[k].file # f
    BY <1>1, <1>5
  <2>2. \A k \in RowsOf(f)' : k \in 1..Len(rows') /\ rows'[k].file = f
    BY <1>9 DEF RowsOf
  <2>3. \A k \in RowsOf(f)' : k - Len(rows) \in 1..Len(new) /\ rows'[k] = new[k - Len(rows)]
    BY <1>9, <1>11, <2>1, <2>2
  <2>4. \A k \in 1..Len(new) : Len(rows) + k \in RowsOf(f)'
    BY <1>7, <1>8, <1>9 DEF RowsOf
  <2> QED BY <2>3, <2>4
<1>15. read'[f] = source[f] /\ \A g \in Files \ {f} : read'[g] = read[g]
  BY <1>1, <1>3
<1>16. StoreTypeOK'
  BY <1>1, <1>2, <1>5, <1>12 DEF StoreInv, StoreTyped, StoreTypeOK
<1>17. StoreTyped'
  BY <1>2, <1>3, <1>5, <1>8, <1>12, <1>16 DEF StoreInv, StoreTyped
<1>18. Pending' /\ EdgesAreGrounded' /\ CallsReachNames' /\ DepsMatchImports'
  BY <1>2 DEF StoreInv, Pending, EdgesAreGrounded, CallsReachNames, DepsMatchImports, Settled
<1>19. ParsedWhole'
  <2> SUFFICES ASSUME NEW g \in targets \ Range(todo')
               PROVE  /\ {KeyOf(rows'[k]) : k \in RowsOf(g)'}
                           = IF HasParser(read'[g].lang) /\ progress'[g] # "failed"
                             THEN KeysIn(read'[g]) ELSE {}
                      /\ \A j, k \in RowsOf(g)' : KeyOf(rows'[j]) = KeyOf(rows'[k]) => j = k
    BY DEF ParsedWhole, KeyOf, KeysIn
  <2>1. CASE g = f
    <3>1. {KeyOf(rows'[k]) : k \in RowsOf(f)'} = KeysOf(new)
      <4>1. \A k \in RowsOf(f)' : KeyOf(rows'[k]) \in KeysOf(new)
        BY <1>9, <1>14 DEF KeysOf
      <4>2. \A k \in DOMAIN new : Len(rows) + k \in RowsOf(f)' /\ rows'[Len(rows) + k] = new[k]
        BY <1>8, <1>9, <1>14
      <4>3. ASSUME NEW k \in DOMAIN new
            PROVE  KeyOf(new[k]) \in {KeyOf(rows'[i]) : i \in RowsOf(f)'}
        <5>1. KeyOf(rows'[Len(rows) + k]) = KeyOf(new[k])
          BY <4>2
        <5> QED BY <5>1, <4>2
      <4>4. \A x \in KeysOf(new) : x \in {KeyOf(rows'[i]) : i \in RowsOf(f)'}
        BY <4>3 DEF KeysOf
      <4> QED BY <4>1, <4>4
    <3>2. ASSUME NEW j \in RowsOf(f)', NEW k \in RowsOf(f)', KeyOf(rows'[j]) = KeyOf(rows'[k])
          PROVE  j = k
      <4>1. j - Len(rows) = k - Len(rows)
        <5> DEFINE a == j - Len(rows)
                   b == k - Len(rows)
        <5>1. a \in DOMAIN new /\ b \in DOMAIN new /\ rows'[j] = new[a] /\ rows'[k] = new[b]
          BY <1>9, <1>14
        <5> HIDE DEF a, b
        <5>2. KeyOf(new[a]) = KeyOf(new[b])
          BY <5>1, <3>2
        <5>3. a = b
          BY <5>1, <5>2 DEF NoKeyTwice
        <5> QED BY <5>3 DEF a, b
      <4>2. j \in Int /\ k \in Int
        BY <1>9 DEF RowsOf
      <4> QED BY <4>1, <4>2, <1>9
    <3> QED BY <2>1, <3>1, <3>2, <1>15
  <2>2. CASE g # f
    <3>1. g \in targets \ Range(todo) /\ g \in Files
      BY <2>2, <1>1, <1>6
    <3>2. RowsOf(g)' = RowsOf(g) /\ \A k \in RowsOf(g) : rows'[k] = rows[k]
      BY <3>1, <2>2, <1>13
    <3>3. read'[g] = read[g] /\ progress'[g] = progress[g]
      BY <3>1, <2>2, <1>15
    <3>4. {KeyOf(rows'[k]) : k \in RowsOf(g)'} = {KeyOf(rows[k]) : k \in RowsOf(g)}
      BY <3>2
    <3>5. /\ {KeyOf(rows[k]) : k \in RowsOf(g)}
               = IF HasParser(read[g].lang) /\ progress[g] # "failed" THEN KeysIn(read[g]) ELSE {}
          /\ \A j, k \in RowsOf(g) : KeyOf(rows[j]) = KeyOf(rows[k]) => j = k
      BY <3>1 DEF StoreInv, ParsedWhole
    <3>6. \A j, k \in RowsOf(g)' : KeyOf(rows'[j]) = KeyOf(rows'[k]) => j = k
      BY <3>2, <3>5
    <3> QED BY <3>3, <3>4, <3>5, <3>6
  <2> QED BY <2>1, <2>2
<1>20. HashedStill'
  BY <1>2, <1>5 DEF StoreInv, HashedStill
<1>21. RowsAreCurrent'
  <2> SUFFICES ASSUME NEW g \in Files \ raced, RowsOf(g)' # {} PROVE read'[g] = hashed[g]
    BY <1>2 DEF RowsAreCurrent
  <2>1. CASE g = f
    BY <2>1, <1>5, <1>15 DEF StoreInv, HashedStill
  <2>2. CASE g # f
    BY <2>2, <1>13, <1>15 DEF StoreInv, RowsAreCurrent
  <2> QED BY <2>1, <2>2
<1>22. ParentsWithin(rows)'
  <2>1. ParentsWithin(rows \o new)
    BY <1>1, <1>7, ParentsJoined DEF StoreInv
  <2>2. ParentsWithin(rows')
    BY <2>1
  <2> QED BY <2>2 DEF ParentsWithin
<1> QED BY <1>17, <1>18, <1>19, <1>20, <1>21, <1>22 DEF StoreInv

\* A file without a parser, or whose rows clash, adds no row.
LEMMA NothingAdded ==
  ASSUME StoreInv, rows' = rows, NEW f
  PROVE  rows' = rows \o <<>> /\ RowsFor(f, <<>>) /\ NoKeyTwice(<<>>) /\ KeysOf(<<>>) = {} /\ ParentsWithin(<<>>)
<1>1. rows \in Seq(Range(rows))
  BY DEF StoreInv, StoreTyped
<1>2. rows = rows \o <<>>
  BY <1>1, ConcatEmptySeq
<1>3. <<>> \in Seq(Range(<<>>)) /\ DOMAIN <<>> = {}
  OBVIOUS
<1> QED BY <1>2, <1>3 DEF RowsFor, NoKeyTwice, KeysOf, ParentsWithin

\* The file that a run parses next.
LEMMA NextFile ==
  ASSUME StoreInv, todo # <<>>
  PROVE  Head(todo) \in Files /\ source[Head(todo)] \in Sources
<1>1. todo \in Seq(Files)
  BY DEF StoreInv, StoreTyped
<1>2. Head(todo) \in Files
  BY <1>1, HeadTailProperties
<1> QED BY <1>2 DEF StoreInv, StoreTyped

\* What is parsed and stored of a file.
LEMMA StoredKeys ==
  ASSUME NEW f, NEW src \in Sources, NEW hasUuids
  PROVE  LET new == Linked(Admitted(f, src), hasUuids)
         IN RowsFor(f, new) /\ NoKeyTwice(new) /\ KeysOf(new) = KeysIn(src) /\ ParentsWithin(new)
BY AdmittedKeys, LinkedKeys

LEMMA ParseFullKeeps == StoreInv /\ ParseFull => StoreInv'
<1> SUFFICES ASSUME StoreInv, ParseFull PROVE StoreInv'  OBVIOUS
<1> DEFINE f == Head(todo)
           src == source[f]
           new == Linked(Admitted(f, src), TRUE)
<1>1. /\ phase = "parse" /\ mode = "full" /\ todo # <<>> /\ todo' = Tail(todo)
      /\ read' = [read EXCEPT ![f] = source[f]]
      /\ UNCHANGED <<source, hashed, edges, deps, phase, mode, targets, raced>>
  BY DEF ParseFull
<1>2. f \in Files /\ src \in Sources
  BY <1>1, NextFile
<1>3. progress \in [Files -> {"none", "skipped", "completed", "failed"}]
  BY DEF StoreInv, StoreTyped, StoreTypeOK
<1>4. ASSUME NEW status \in {"none", "skipped", "completed", "failed"},
             progress' = [progress EXCEPT ![f] = status]
      PROVE  /\ progress'[f] = status /\ \A g \in Files \ {f} : progress'[g] = progress[g]
             /\ progress' \in [Files -> {"none", "skipped", "completed", "failed"}]
  BY <1>2, <1>3, <1>4
<1>5. \/ /\ ~HasParser(src.lang) /\ progress' = [progress EXCEPT ![f] = "skipped"] /\ rows' = rows
      \/ /\ HasParser(src.lang) /\ progress' = [progress EXCEPT ![f] = "completed"] /\ rows' = rows \o new
      \/ /\ HasParser(src.lang) /\ progress' = [progress EXCEPT ![f] = "failed"] /\ rows' = rows
  BY DEF ParseFull
<1>6. RowsFor(f, new) /\ NoKeyTwice(new) /\ KeysOf(new) = KeysIn(src) /\ ParentsWithin(new)
  BY <1>2, StoredKeys
<1> HIDE DEF f, new
<1>7. f = Head(todo)
  BY DEF f
<1>8. CASE ~HasParser(src.lang) /\ progress' = [progress EXCEPT ![f] = "skipped"] /\ rows' = rows
  <2>1. rows' = rows \o <<>> /\ RowsFor(f, <<>>) /\ NoKeyTwice(<<>>) /\ KeysOf(<<>>) = {} /\ ParentsWithin(<<>>)
    BY <1>8, NothingAdded
  <2>2. /\ progress'[f] = "skipped" /\ \A g \in Files \ {f} : progress'[g] = progress[g]
        /\ progress' \in [Files -> {"none", "skipped", "completed", "failed"}]
    BY <1>4, <1>8
  <2>3. KeysOf(<<>>) = IF HasParser(source[f].lang) /\ progress'[f] # "failed"
                       THEN KeysIn(source[f]) ELSE {}
    BY <1>8, <2>1
  <2>4. mode = "incremental" => progress' = progress
    BY <1>1
  <2> QED BY <1>1, <1>7, <2>1, <2>2, <2>3, <2>4, ParseKeeps
<1>9. CASE HasParser(src.lang) /\ progress' = [progress EXCEPT ![f] = "failed"] /\ rows' = rows
  <2>1. rows' = rows \o <<>> /\ RowsFor(f, <<>>) /\ NoKeyTwice(<<>>) /\ KeysOf(<<>>) = {} /\ ParentsWithin(<<>>)
    BY <1>9, NothingAdded
  <2>2. /\ progress'[f] = "failed" /\ \A g \in Files \ {f} : progress'[g] = progress[g]
        /\ progress' \in [Files -> {"none", "skipped", "completed", "failed"}]
    BY <1>4, <1>9
  <2>3. KeysOf(<<>>) = IF HasParser(source[f].lang) /\ progress'[f] # "failed"
                       THEN KeysIn(source[f]) ELSE {}
    BY <2>1, <2>2
  <2>4. mode = "incremental" => progress' = progress
    BY <1>1
  <2> QED BY <1>1, <1>7, <2>1, <2>2, <2>3, <2>4, ParseKeeps
<1>10. CASE HasParser(src.lang) /\ progress' = [progress EXCEPT ![f] = "completed"] /\ rows' = rows \o new
  <2>1. /\ progress'[f] = "completed" /\ \A g \in Files \ {f} : progress'[g] = progress[g]
        /\ progress' \in [Files -> {"none", "skipped", "completed", "failed"}]
    BY <1>4, <1>10
  <2>2. KeysOf(new) = IF HasParser(source[f].lang) /\ progress'[f] # "failed"
                      THEN KeysIn(source[f]) ELSE {}
    BY <1>6, <1>10, <2>1
  <2>3. mode = "incremental" => progress' = progress
    BY <1>1
  <2> QED BY <1>1, <1>6, <1>7, <1>10, <2>1, <2>2, <2>3, ParseKeeps
<1> QED BY <1>5, <1>8, <1>9, <1>10

LEMMA ParseIncrementalKeeps == StoreInv /\ ParseIncremental => StoreInv'
<1> SUFFICES ASSUME StoreInv, ParseIncremental PROVE StoreInv'  OBVIOUS
<1> DEFINE f == Head(todo)
           src == source[f]
           linked == Linked(Admitted(f, src), FALSE)
<1>1. /\ phase = "parse" /\ mode = "incremental" /\ todo # <<>> /\ todo' = Tail(todo)
      /\ read' = [read EXCEPT ![f] = source[f]]
      /\ UNCHANGED <<source, hashed, edges, deps, progress, phase, mode, targets, raced>>
      /\ rows' = IF HasParser(src.lang) THEN rows \o linked ELSE rows
  BY DEF ParseIncremental
<1>2. f \in Files /\ src \in Sources
  BY <1>1, NextFile
<1>3. /\ progress' \in [Files -> {"none", "skipped", "completed", "failed"}]
      /\ progress'[f] # "failed" /\ \A g \in Files \ {f} : progress'[g] = progress[g]
      /\ mode = "incremental" => progress' = progress
  BY <1>1, <1>2 DEF StoreInv, StoreTyped, StoreTypeOK, Pending
<1>4. RowsFor(f, linked) /\ NoKeyTwice(linked) /\ KeysOf(linked) = KeysIn(src) /\ ParentsWithin(linked)
  BY <1>2, StoredKeys
<1> HIDE DEF f, linked
<1>5. f = Head(todo)
  BY DEF f
<1>6. CASE ~HasParser(src.lang)
  <2>1. rows' = rows \o <<>> /\ RowsFor(f, <<>>) /\ NoKeyTwice(<<>>) /\ KeysOf(<<>>) = {} /\ ParentsWithin(<<>>)
    BY <1>1, <1>6, NothingAdded
  <2>2. KeysOf(<<>>) = IF HasParser(source[f].lang) /\ progress'[f] # "failed"
                       THEN KeysIn(source[f]) ELSE {}
    BY <1>6, <2>1
  <2> QED BY <1>1, <1>3, <1>5, <2>1, <2>2, ParseKeeps
<1>7. CASE HasParser(src.lang)
  <2>1. KeysOf(linked) = IF HasParser(source[f].lang) /\ progress'[f] # "failed"
                         THEN KeysIn(source[f]) ELSE {}
    BY <1>3, <1>4, <1>7
  <2>2. rows' = rows \o linked
    BY <1>1, <1>7
  <2> QED BY <1>1, <1>3, <1>4, <1>5, <2>1, <2>2, ParseKeeps
<1> QED BY <1>6, <1>7

\* The import rows of the table.
LEMMA ImportsFacts ==
  ASSUME StoreInv
  PROVE  Imports \in Seq(Range(Imports)) /\ \A r \in Range(Imports) : r.file \in Files
<1>1. rows \in Seq(Range(rows)) /\ \A k \in DOMAIN rows : rows[k].first \in Int
  BY DEF StoreInv, StoreTyped
<1>2. /\ Imports \in Seq(Range(Imports))
      /\ Range(Imports) = {r \in Range(rows) : r.type \in {"import"} /\ r.file \in Files}
  BY <1>1, OfTypesIsSeq DEF Imports
<1> QED BY <1>2

\* Building leaves the rows alone; what it leaves of edges and dependencies.
LEMMA BuildKeeps ==
  ASSUME StoreInv, phase' = "idle", phase = "parse",
         UNCHANGED <<source, hashed, read, rows, progress, mode, todo, targets, raced>>,
         NEW fs, edges' = AdmittedEdges(BuildCallGraph(rows, fs)) \/ (edges' = {} /\ rows = <<>>),
         \A r \in Range(rows) : r.file \in fs,
         deps' \in Seq(Range(deps')),
         \A d \in Range(deps') : d.importer \in Files /\ d.imported \in Files \cup {NoFile},
         DepsMatchImports'
  PROVE  StoreInv'
<1>1. rows \in Seq(Range(rows)) /\ \A k \in DOMAIN rows : rows[k].first \in Int
  BY DEF StoreInv, StoreTyped
<1>2. Files' = Files
  BY DEF Files
<1>3. \A e \in edges' : e.type \in EdgeTypes
  BY DEF AdmittedEdges
<1>4. StoreTypeOK'
  <2>1. \A k \in DOMAIN deps' : deps'[k] \in Range(deps')
    BY DEF Range
  <2> QED BY <1>2, <1>3, <2>1 DEF StoreInv, StoreTyped, StoreTypeOK
<1>5. StoreTyped'
  BY <1>2, <1>4 DEF StoreInv, StoreTyped
<1>6. Pending' /\ ParsedWhole' /\ HashedStill' /\ RowsAreCurrent' /\ ParentsWithin(rows)'
  <2>1. IsFiniteSet(edges')
    BY <1>1, FS_EmptySet, GraphIsFinite
  <2> QED BY <1>2, <2>1 DEF StoreInv, Pending, ParsedWhole, HashedStill, RowsAreCurrent, RowsOf, ParentsWithin
<1>7. CASE rows = <<>> /\ edges' = {}
  <2>1. Range(rows') = {}
    BY <1>7 DEF Range
  <2> QED BY <1>5, <1>6, <1>7, <2>1 DEF StoreInv, EdgesAreGrounded, CallsReachNames
<1>8. CASE edges' = AdmittedEdges(BuildCallGraph(rows, fs))
  <2> DEFINE built == AdmittedEdges(BuildCallGraph(rows, fs))
  <2>1. \A e \in built :
          /\ \E r \in Range(rows) :
               /\ IdOf(r) = e.caller
               /\ IF r.type \in Callable THEN r.first <= e.line /\ e.line <= r.last
                  ELSE r.type = "call" /\ r.first = e.line
          /\ e.callee # NoNode => e.callee \in Ids /\ e.callee.type \in Callable
    BY <1>1, BuiltEdges DEF Ids
  <2>2. \A c \in Range(rows) : c.type = "call" /\ ~c.star /\ c.name \notin DynamicNames
                             /\ Named(rows, c) # {} => Found(built, c) = Named(rows, c)
    BY <1>1, BuiltEdges
  <2> HIDE DEF built
  <2>3. edges' = built /\ rows' = rows /\ Ids' = Ids
    BY <1>8 DEF built, Ids
  <2>4. EdgesAreGrounded'
    BY <2>1, <2>3 DEF EdgesAreGrounded
  <2>5. CallsReachNames'
    BY <2>2, <2>3 DEF CallsReachNames, Named, Found
  <2> QED BY <1>5, <1>6, <2>4, <2>5 DEF StoreInv
<1> QED BY <1>7, <1>8

LEMMA BuildFullKeeps == StoreInv /\ BuildFull => StoreInv'
<1> SUFFICES ASSUME StoreInv, BuildFull PROVE StoreInv'  OBVIOUS
<1>1. /\ phase = "parse" /\ phase' = "idle"
      /\ edges' = AdmittedEdges(BuildCallGraph(rows, Files))
      /\ deps' = MatchDependencies(Imports, Paths)
      /\ UNCHANGED <<source, hashed, read, rows, progress, mode, todo, targets, raced>>
  BY DEF BuildFull, BuildModuleGraph, files
<1>2. Files' = Files
  BY <1>1 DEF Files
<1>3. \A r \in Range(rows) : r.file \in Files
  BY DEF StoreInv, StoreTyped, StoreTypeOK, Range
<1>4. Files \subseteq Range(PathOrder)
  BY DEF StoreInv, StoreTyped
<1>5. Paths \in Seq(AllPaths) /\ Range(Paths) = Files
  BY <1>4, PathsListed DEF Paths
<1>6. /\ deps' \in Seq(Range(deps'))
      /\ \A d \in Range(deps') : d.importer \in Files /\ d.imported \in Files \cup {NoFile}
      /\ \A name : Cardinality(NamedAt(deps', name)) = Cardinality(NamedAt(Imports, name))
  <2>1. /\ Imports \in Seq(Range(Imports)) /\ Paths \in Seq(AllPaths)
        /\ \A r \in Range(Imports) : r.file \in Range(Paths)
    BY <1>5, ImportsFacts
  <2> DEFINE d == MatchDependencies(Imports, Paths)
  <2>2. d = MatchDependencies(Imports, Paths)
    OBVIOUS
  <2> HIDE DEF d
  <2>3. d \in Seq(Range(d))
    BY <2>1, <2>2, MatchFacts
  <2>4. \A x \in Range(d) : x.importer \in Range(Paths) /\ x.imported \in Range(Paths) \cup {NoFile}
    BY <2>1, <2>2, MatchFacts
  <2>5. \A name : Cardinality(NamedAt(d, name)) = Cardinality(NamedAt(Imports, name))
    BY <2>1, <2>2, MatchFacts
  <2>6. d = deps'
    BY <1>1, <2>2
  <2> QED BY <1>5, <2>3, <2>4, <2>5, <2>6
<1>7. Imports' = Imports
  BY <1>1, <1>2 DEF Imports
<1>8. DepsMatchImports'
  <2> SUFFICES ASSUME NEW i \in Range(Imports)
               PROVE  Cardinality({k \in DOMAIN deps' : deps'[k].name = i.name})
                        = Cardinality({k \in DOMAIN Imports : Imports[k].name = i.name})
    BY <1>7 DEF DepsMatchImports
  <2> QED BY <1>6 DEF NamedAt
<1> QED BY <1>1, <1>3, <1>6, <1>8, BuildKeeps

LEMMA BuildIncrementalKeeps == StoreInv /\ BuildIncremental => StoreInv'
<1> SUFFICES ASSUME StoreInv, BuildIncremental PROVE StoreInv'  OBVIOUS
<1>1. /\ phase = "parse" /\ phase' = "idle" /\ mode = "incremental"
      /\ UNCHANGED <<source, hashed, read, rows, progress, mode, todo, targets, raced>>
  BY DEF BuildIncremental, files
<1>2. edges = {} /\ deps \in Seq(Range(deps)) /\ Files \subseteq Range(PathOrder)
  BY <1>1 DEF StoreInv, Pending, StoreTyped
<1>3. \A d \in Range(deps) : d.importer \in Files /\ d.imported \in Files \cup {NoFile}
  BY DEF StoreInv, StoreTyped, StoreTypeOK, Range
<1>4. \A r \in Range(rows) : r.file \in targets
  BY DEF StoreInv, StoreTyped, Range
<1>5. DepsMatchImports'
  BY <1>1 DEF DepsMatchImports, Settled
<1>6. CASE targets = {}
  <2>1. edges' = {} /\ deps' = deps
    BY <1>2, <1>6 DEF BuildIncremental
  <2>2. rows = <<>>
    <3>1. rows \in Seq(Range(rows)) /\ Range(rows) = {}
      BY <1>4, <1>6 DEF StoreInv, StoreTyped
    <3> QED BY <3>1 DEF Range
  <2> QED BY <1>1, <1>2, <1>3, <1>4, <1>5, <2>1, <2>2, BuildKeeps
<1>7. CASE targets # {}
  <2> DEFINE kept == DepsWithout(targets)
             importRows == Chosen(Imports, {k \in DOMAIN Imports : Absolute(Imports[k].file) \in targets})
             paths == Chosen(Paths, {k \in DOMAIN Paths : Paths[k] \in targets})
             new == MatchDependencies(importRows, paths)
  <2>1. edges' = EdgesWithout(targets) \cup AdmittedEdges(BuildCallGraph(rows, targets))
    BY <1>7 DEF BuildIncremental
  <2>2. deps' = kept \o new
    BY <1>7 DEF BuildIncremental, BuildModuleGraphFor
  <2>3. EdgesWithout(targets) = {}
    BY <1>2 DEF EdgesWithout
  <2>4. kept \in Seq(Range(kept)) /\ Range(kept) \subseteq Range(deps)
    BY <1>2, ChosenFromSeq DEF DepsWithout
  <2>5. importRows \in Seq(Range(importRows))
    BY ImportsFacts, ChosenFromSeq
  <2>6. Paths \in Seq(AllPaths) /\ Range(Paths) = Files
    BY <1>2, PathsListed DEF Paths
  <2>7. paths \in Seq(AllPaths) /\ Range(paths) \subseteq Files
    <3>1. Paths \in Seq(Range(Paths)) /\ Range(Paths) \subseteq AllPaths
      BY <2>6 DEF Range
    <3>2. paths \in Seq(Range(paths)) /\ Range(paths) \subseteq Range(Paths)
      BY <3>1, ChosenFromSeq
    <3> QED BY <3>1, <3>2, <2>6
  <2> HIDE DEF kept, importRows, paths
  <2>8. new \in Seq(Range(new)) /\ \A x \in Range(new) : x.importer \in Files /\ x.imported \in Files \cup {NoFile}
    BY <2>5, <2>7, MatchFacts
  <2> HIDE DEF new
  <2>9. /\ deps' \in Seq(Range(deps'))
        /\ \A d \in Range(deps') : d.importer \in Files /\ d.imported \in Files \cup {NoFile}
    BY <1>3, <2>2, <2>4, <2>8, Joined
  <2>10. edges' = AdmittedEdges(BuildCallGraph(rows, targets))
    BY <2>1, <2>3
  <2> QED BY <1>1, <1>4, <1>5, <2>9, <2>10, BuildKeeps
<1> QED BY <1>6, <1>7

LEMMA StoreNextKeeps == StoreInv /\ [StoreNext]_storeVars => StoreInv'
<1> SUFFICES ASSUME StoreInv, [StoreNext]_storeVars PROVE StoreInv'  OBVIOUS
<1>1. CASE \E f \in Files : \E src \in Variants[f] : Edit(f, src)
  BY <1>1, EditKeeps
<1>2. CASE StartFull
  BY <1>2, RescanKeeps DEF StartFull
<1>3. CASE StartIncremental
  <2> DEFINE changed == {f \in Files : source[f] # hashed[f]}
  <2>1. PICK more \in SUBSET (Files \ changed) : Rescan("incremental", changed \cup more)
    BY <1>3 DEF StartIncremental
  <2> QED BY <2>1, RescanKeeps
<1>4. CASE ParseFull
  BY <1>4, ParseFullKeeps
<1>5. CASE ParseIncremental
  BY <1>5, ParseIncrementalKeeps
<1>6. CASE BuildFull
  BY <1>6, BuildFullKeeps
<1>7. CASE BuildIncremental
  BY <1>7, BuildIncrementalKeeps
<1>8. CASE UNCHANGED storeVars
  <2>1. /\ UNCHANGED <<source, hashed, read, rows, edges, deps, progress, phase, mode, todo, targets, raced>>
        /\ Files' = Files
    BY <1>8 DEF storeVars, files, tables, run, Files
  <2>2. StoreTyped'
    BY <2>1 DEF StoreInv, StoreTyped, StoreTypeOK
  <2>3. Pending' /\ ParsedWhole' /\ HashedStill' /\ RowsAreCurrent' /\ ParentsWithin(rows)'
    BY <2>1 DEF StoreInv, Pending, ParsedWhole, HashedStill, RowsAreCurrent, RowsOf, ParentsWithin
  <2>4. EdgesAreGrounded' /\ CallsReachNames'
    BY <2>1 DEF StoreInv, EdgesAreGrounded, CallsReachNames, Ids
  <2>5. DepsMatchImports'
    BY <2>1 DEF StoreInv, DepsMatchImports, Settled, Imports
  <2> QED BY <2>2, <2>3, <2>4, <2>5 DEF StoreInv
<1>9. CASE Done
  BY <1>8, <1>9 DEF Done
<1> QED BY <1>1, <1>2, <1>3, <1>4, <1>5, <1>6, <1>7, <1>8, <1>9 DEF StoreNext

\* The rows of a file that has been parsed are as many as their keys.
LEMMA WholeCounts == StoreInv => RowsAreWhole
<1> SUFFICES ASSUME StoreInv, NEW f \in targets \ Range(todo)
             PROVE  LET keys == IF HasParser(read[f].lang) /\ progress[f] # "failed"
                                THEN KeysIn(read[f]) ELSE {}
                    IN /\ Cardinality(RowsOf(f)) = Cardinality(keys)
                       /\ {KeyOf(rows[k]) : k \in RowsOf(f)} = keys
  BY DEF RowsAreWhole, KeysIn
<1> DEFINE keys == IF HasParser(read[f].lang) /\ progress[f] # "failed" THEN KeysIn(read[f]) ELSE {}
           at == [k \in RowsOf(f) |-> KeyOf(rows[k])]
<1>1. /\ {KeyOf(rows[k]) : k \in RowsOf(f)} = keys
      /\ \A j, k \in RowsOf(f) : KeyOf(rows[j]) = KeyOf(rows[k]) => j = k
  BY DEF StoreInv, ParsedWhole
<1>2. IsFiniteSet(RowsOf(f))
  <2>1. RowsOf(f) \in SUBSET (1..Len(rows)) /\ Len(rows) \in Nat
    BY DEF StoreInv, StoreTyped, RowsOf
  <2>2. IsFiniteSet(1..Len(rows))
    BY <2>1, FS_Interval
  <2> QED BY <2>1, <2>2, FS_Subset
<1> HIDE DEF keys
<1>3. at \in [RowsOf(f) -> keys] /\ \A j, k \in RowsOf(f) : at[j] = at[k] => j = k
  BY <1>1
<1>4. \A x \in keys : \E k \in RowsOf(f) : at[k] = x
  BY <1>1
<1> HIDE DEF at
<1>5. at \in Bijection(RowsOf(f), keys)
  BY <1>3, <1>4 DEF Bijection, Injection, Surjection, IsInjective
<1>6. Cardinality(keys) = Cardinality(RowsOf(f))
  BY <1>2, <1>5, FS_Bijection DEF ExistsBijection
<1> QED BY <1>1, <1>6 DEF keys

\* What has been parsed, what is still to be, and what the graphs were built
\* from, as every action leaves it.
THEOREM StoreInductive == StoreSpec => []StoreInv
BY StoreInitHolds, StoreNextKeeps, PTL DEF StoreSpec

\* The tables hold rows, edges and dependencies of the files of the repository.
THEOREM StoreTypeCorrect == StoreSpec => []StoreTypeOK
<1>1. StoreInv => StoreTypeOK
  BY DEF StoreInv, StoreTyped
<1> QED BY <1>1, StoreInductive, PTL

\* The rows of a parsed file are one whole reading of it, without a row twice.
THEOREM FilesAreStoredWhole == StoreSpec => []RowsAreWhole
BY WholeCounts, StoreInductive, PTL

\* The rows of a file come from the content the run has taken the hash of,
\* unless the file was edited in between.
THEOREM StoredIsHashed == StoreSpec => []RowsAreCurrent
<1>1. StoreInv => RowsAreCurrent
  BY DEF StoreInv
<1> QED BY <1>1, StoreInductive, PTL

\* A stored parent is a row of the same file that contains its child, and is
\* inserted before it, unless the child is a parent too.
THEOREM ParentsAreStored == StoreSpec => []ParentsContain
<1>1. StoreInv => ParentsContain
  <2> SUFFICES ASSUME StoreInv PROVE ParentsContain  OBVIOUS
  <2>1. DOMAIN rows = 1..Len(rows)
    BY DEF StoreInv, StoreTyped
  <2> QED BY <2>1 DEF StoreInv, ParentsWithin, ParentsContain
<1> QED BY <1>1, StoreInductive, PTL

\* Every call edge leads from a row of the table to a row of it, or to none.
THEOREM EdgesLeadToRows == StoreSpec => []EdgesAreGrounded
<1>1. StoreInv => EdgesAreGrounded
  BY DEF StoreInv
<1> QED BY <1>1, StoreInductive, PTL

\* A plain call leads to all stored functions of its name and nowhere else.
THEOREM CallsFindTheirNames == StoreSpec => []CallsReachNames
<1>1. StoreInv => CallsReachNames
  BY DEF StoreInv
<1> QED BY <1>1, StoreInductive, PTL

\* After a full run every import row has its dependency.
THEOREM ImportsAreResolved == StoreSpec => []DepsMatchImports
<1>1. StoreInv => DepsMatchImports
  BY DEF StoreInv
<1> QED BY <1>1, StoreInductive, PTL

\* The nodes of the graph are rows, or none.
LEMMA NodesAreRows ==
  ASSUME StoreInv, NEW r \in Range(rows)
  PROVE  /\ Len(rows) \in Nat /\ IsFiniteSet(NodesOf(edges, IdOf(r)))
         /\ Cardinality(NodesOf(edges, IdOf(r))) <= Len(rows) + 1
<1> DEFINE nodes == NodesOf(edges, IdOf(r))
           ids == [k \in DOMAIN rows |-> IdOf(rows[k])]
<1>1. rows \in Seq(Range(rows)) /\ EdgesAreGrounded
  BY DEF StoreInv, StoreTyped
<1>2. Len(rows) \in Nat /\ DOMAIN rows = 1..Len(rows)
  BY <1>1, LenProperties
<1>3. IsFiniteSet(DOMAIN rows) /\ Cardinality(DOMAIN rows) = Len(rows)
  <2>1. 1 \in Int /\ Len(rows) \in Int
    BY <1>2
  <2>2. IsFiniteSet(1..Len(rows)) /\ Cardinality(1..Len(rows)) = IF 1 > Len(rows) THEN 0 ELSE Len(rows) - 1 + 1
    BY <2>1, FS_Interval
  <2> QED BY <1>2, <2>2
<1>4. Ids = {ids[k] : k \in DOMAIN ids} /\ DOMAIN ids = DOMAIN rows
  BY DEF Ids, Range
<1> HIDE DEF ids
<1>5. IsFiniteSet(Ids) /\ Cardinality(Ids) <= Len(rows) /\ Cardinality(Ids) \in Nat
  BY <1>3, <1>4, FiniteImage, FS_CardinalityType
<1>6. nodes \subseteq Ids \cup {NoNode}
  <2>1. \A e \in edges : e.caller \in Ids /\ (e.callee # NoNode => e.callee \in Ids)
    BY <1>1 DEF EdgesAreGrounded, Ids
  <2>2. IdOf(r) \in Ids
    BY DEF Ids
  <2> QED BY <2>1, <2>2 DEF NodesOf
<1>7. /\ IsFiniteSet(Ids \cup {NoNode}) /\ Cardinality(Ids \cup {NoNode}) \in Nat
      /\ Cardinality(Ids \cup {NoNode}) <= Cardinality(Ids) + 1
  <2>1. IsFiniteSet(Ids \cup {NoNode})
    BY <1>5, FS_AddElement
  <2>2. \/ Cardinality(Ids \cup {NoNode}) = Cardinality(Ids)
        \/ Cardinality(Ids \cup {NoNode}) = Cardinality(Ids) + 1
    BY <1>5, FS_AddElement
  <2> QED BY <1>5, <2>1, <2>2
<1> HIDE DEF nodes
<1>8. IsFiniteSet(nodes) /\ Cardinality(nodes) <= Cardinality(Ids \cup {NoNode}) /\ Cardinality(nodes) \in Nat
  BY <1>6, <1>7, FS_Subset, FS_CardinalityType
<1>9. Cardinality(nodes) <= Len(rows) + 1
  BY <1>2, <1>5, <1>7, <1>8
<1> QED BY <1>2, <1>8, <1>9 DEF nodes

\* The call chain of a function is all that can be reached from it, whatever
\* cycles the edges form, and every entry is one call deeper than one that
\* calls it. Nothing is used of the order in which the edges are followed.
THEOREM ChainsFollowAllCalls == StoreSpec => []ChainsReachAll
<1>1. StoreInv => ChainsReachAll
  <2> SUFFICES ASSUME StoreInv, NEW r \in Range(rows)
               PROVE  LET Chain == Range(CallChain(edges, IdOf(r), Len(rows)))
                          Met == {c.node : c \in Chain}
                          Callees(S) == {e.callee : e \in {x \in edges : x.caller \in S /\ x.callee # NoNode}}
                      IN /\ Met = Callees(Met \cup {IdOf(r)})
                         /\ \A c \in Chain : \/ c.depth = 1 /\ c.node \in Callees({IdOf(r)})
                                             \/ \E d \in Chain : d.depth + 1 = c.depth /\ c.node \in Callees({d.node})
    BY DEF ChainsReachAll
  <2> DEFINE chain == CallChain(edges, IdOf(r), Len(rows))
  <2>1. IsFiniteSet(edges)
    BY DEF StoreInv, Pending
  <2>2. /\ Len(rows) \in Nat /\ IsFiniteSet(NodesOf(edges, IdOf(r)))
        /\ Cardinality(NodesOf(edges, IdOf(r))) <= Len(rows) + 1
    BY NodesAreRows
  <2>3. NodesIn(chain) = LedTo(edges, NodesIn(chain) \cup {IdOf(r)}) /\ Rooted(chain, edges, IdOf(r), 1)
    BY <2>1, <2>2, ChainReaches
  <2> HIDE DEF chain
  <2>4. /\ {c.node : c \in Range(chain)} = LedTo(edges, {c.node : c \in Range(chain)} \cup {IdOf(r)})
        /\ \A c \in Range(chain) :
             \/ c.depth = 1 /\ c.node \in LedTo(edges, {IdOf(r)})
             \/ \E d \in Range(chain) : d.depth + 1 = c.depth /\ c.node \in LedTo(edges, {d.node})
    BY <2>3 DEF NodesIn, Rooted
  <2> QED BY <2>4 DEF LedTo, chain
<1> QED BY <1>1, StoreInductive, PTL
=============================================================================
