----------------------------- MODULE CallGraph -----------------------------
(***************************************************************************)
(* CallGraphBuilder: the calls of a repository resolved into edges from    *)
(* caller to callee, and CallGraphQuery.get_call_chain over those edges.   *)
(*                                                                         *)
(* A row is a node with the file it is stored for and its tags.  Names and *)
(* the words of qualified names are atomic: a class name the code looks    *)
(* for inside a qualified name is one of its words.                        *)
(***************************************************************************)
EXTENDS Integers, FiniteSets, ModuleGraph

CONSTANTS Capital,      \* word -> the word with a capital first letter
          Lower,        \* word -> the word in lower case; both default to the word
          Declared,     \* import names that match a row of external_dependencies
          SeedRules     \* language -> last words of the modules its seed rules name

NoNode == [file |-> <<>>, type |-> "none", name |-> "", star |-> FALSE, first |-> 0]

(* What identifies a row: its uuid in the code.  A file has one row for a  *)
(* line, a type and a name.                                                *)
IdOf(row) == [file |-> row.file, type |-> row.type, name |-> row.name,
              star |-> row.star, first |-> row.first]

Callable      == {"function", "method", "constructor"}
DynamicNames  == {"getattr", "setattr", "delattr", "hasattr", "__getattr__"}
DiAnnotations == {"@Autowired", "@Inject", "@Resource", "@Injectable", "@Component",
                  "@Service", "@Repository", "@Controller", "@RestController"}
DiTags        == {"dependency-injection", "spring-component", "business-service"}

Spelled(map, word) == IF word \in DOMAIN map THEN map[word] ELSE word

----------------------------------------------------------------------------
(* get_by_repository_and_types: rows of some types, of some files or of    *)
(* all, by line; rows of a line in the order they were inserted.           *)
OfTypes(rows, types, files) ==
  LET Wanted == {k \in DOMAIN rows : rows[k].type \in types /\ rows[k].file \in files}
      Before(j, k) == rows[j].first < rows[k].first \/ (rows[j].first = rows[k].first /\ j < k)
  IN [n \in 1..Cardinality(Wanted) |->
        rows[CHOOSE k \in Wanted : Cardinality({j \in Wanted : Before(j, k)}) = n - 1]]

(* _build_function_index groups the functions by name, in the order of the *)
(* first of each name; _build_function_by_file_index sorts that by line.   *)
GroupOf(k, functions) ==
  CHOOSE j \in DOMAIN functions :
    /\ functions[j].name = functions[k].name
    /\ \A i \in DOMAIN functions : functions[i].name = functions[k].name => j <= i

(* _find_enclosing_function: of the functions of the file around the line  *)
(* of the call the one that ends first; of several, the first by line and  *)
(* then by group.                                                          *)
Around(call, functions) ==
  {k \in DOMAIN functions : /\ functions[k].file = call.file
                           /\ functions[k].first <= call.first /\ call.first <= functions[k].last}

EnclosingOf(call, functions) ==
  LET around == Around(call, functions)
      Key(k) == <<functions[k].last, functions[k].first, GroupOf(k, functions), k>>
      Sooner(j, k) == \E n \in 1..4 : /\ Key(j)[n] < Key(k)[n]
                                     /\ \A m \in 1..(n - 1) : Key(j)[m] = Key(k)[m]
  IN {functions[k] : k \in {i \in around : \A j \in around \ {i} : Sooner(i, j)}}

----------------------------------------------------------------------------
(* The strategies, in the order they are asked.                            *)

(* The object of a call obj.m or this.field.m; only Java calls name it.    *)
NamesObject(call) == Len(call.qn) >= 2

ObjectOf(call) ==
  IF call.qn[1] = "this" /\ Len(call.qn) >= 3 THEN call.qn[2] ELSE call.qn[1]

GuessedClass(call) == Spelled(Capital, ObjectOf(call))

(* _build_qualified_index: the last function of a qualified name.          *)
QualifiedIndex(functions) ==
  {functions[k] : k \in {j \in DOMAIN functions :
     functions[j].qn # <<>> /\ \A i \in DOMAIN functions : i > j => functions[i].qn # functions[j].qn}}

ByQualifiedName(call, functions) ==
  IF ~call.star \/ ~NamesObject(call) THEN {}
  ELSE {f \in QualifiedIndex(functions) :
          /\ IsSuffix(<<".", call.name>>, f.qn)
          /\ GuessedClass(call) \in Range(f.qn)}

(* Mutant: the index keeps one function of a name.                         *)
ByNameOnce(call, functions) ==
  LET named == {f \in Range(functions) : f.name = call.name}
  IN IF named = {} THEN {} ELSE {CHOOSE f \in named : TRUE}

(* _disambiguate_candidates narrows the functions of a name to those of    *)
(* the guessed class, unless that leaves none.                             *)
ByName(call, functions) ==
  LET named    == {f \in Range(functions) : f.name = call.name}
      narrowed == {f \in named : GuessedClass(call) \in Range(f.qn)}
  IN IF /\ call.star /\ Cardinality(named) > 1
        /\ NamesObject(call) /\ narrowed # {}
     THEN narrowed ELSE named

(* CallSeedRuleRegistry: the language is that of the extension. *)
SeedLanguage(ext) ==
  CASE ext \in {"java", "kt"}                       -> "java"
    [] ext \in {"ts", "tsx", "js", "jsx", "vue"}    -> "typescript"
    [] ext = "py"                                    -> "python"
    [] OTHER                                         -> "none"

IsSeeded(call) ==
  LET language == SeedLanguage(call.file.ext)
  IN language \in DOMAIN SeedRules /\ Spelled(Lower, call.qn[1]) \in SeedRules[language]

IsExternal(call, imports) ==
  LET mine == {i \in Range(imports) : i.file = call.file}
      object == Spelled(Lower, call.qn[1])
  IN /\ call.star /\ mine # {} /\ NamesObject(call)
     /\ \/ \E i \in mine : Spelled(Lower, Last(ImportPath[i.name])) = object /\ i.name \in Declared
        \/ IsSeeded(call)

IsInjected(enclosing) ==
  \E f \in enclosing : f.ann \cap DiAnnotations # {} \/ f.tags \cap DiTags # {}

----------------------------------------------------------------------------
(* _match_call_edges, for one call: an edge for every candidate, or one    *)
(* without callee.                                                         *)
EdgesOf(call, functions, imports) ==
  LET enclosing == EnclosingOf(call, functions)
      Edge(callee, type) ==
        [caller |-> IdOf(IF enclosing = {} THEN call ELSE CHOOSE f \in enclosing : TRUE),
         callee |-> callee, line |-> call.first, name |-> call.name, star |-> call.star,
         type |-> type]
      Static(candidates) == {Edge(IdOf(f), "static") : f \in candidates}
      qualified == ByQualifiedName(call, functions)
      named     == ByName(call, functions)
  IN IF ~call.star /\ call.name \in DynamicNames THEN {Edge(NoNode, "dynamic")}
     ELSE IF qualified # {} THEN Static(qualified)
     ELSE IF named # {} THEN Static(named)
     ELSE IF IsExternal(call, imports) THEN {Edge(NoNode, "external")}
     ELSE IF IsInjected(enclosing) THEN {Edge(NoNode, "injected")}
     ELSE {Edge(NoNode, "unknown")}

(* build_data: the three indexes and the calls come from the same files.   *)
BuildCallGraph(rows, files) ==
  LET functions == OfTypes(rows, Callable, files)
      imports   == OfTypes(rows, {"import"}, files)
  IN UNION {EdgesOf(call, functions, imports) : call \in Range(OfTypes(rows, {"call"}, files))}

----------------------------------------------------------------------------
(* The edges of a caller that lead somewhere, in some order: get_callees   *)
(* lists them by line.                                                     *)
CalleesOf(edges, caller) ==
  SetToSeq({e \in edges : e.caller = caller /\ e.callee # NoNode})

(* Mutant: a callee counts as visited before it is expanded.               *)
FollowMarked(sofar, callee, depth, below) ==
  LET found == below[callee][sofar.visited \cup {callee}]
  IN [chain   |-> Append(sofar.chain, [depth |-> depth, node |-> callee]) \o found.chain,
      visited |-> found.visited]

(* An edge makes an entry of the chain, and those of its callee follow.    *)
Follow(sofar, callee, depth, below) ==
  LET found == below[callee][sofar.visited]
  IN [chain   |-> Append(sofar.chain, [depth |-> depth, node |-> callee]) \o found.chain,
      visited |-> found.visited]

(* What the first n edges of a list give, each followed at once.           *)
Followed(list, visited, depth, below) ==
  LET followed[n \in 0..Len(list)] ==
        IF n = 0 THEN [chain |-> <<>>, visited |-> visited]
        ELSE Follow(followed[n - 1], list[n].callee, depth, below)
  IN followed

(* _dfs_chain, by the number of levels left: a node is expanded the first  *)
(* time it is met, at whatever depth that is.                              *)
DfsChain(edges, nodes, maxDepth) ==
  LET dfs[left \in 0..(maxDepth + 1)] ==
        [node \in nodes |-> [visited \in SUBSET nodes |->
           IF left = 0 \/ node \in visited THEN [chain |-> <<>>, visited |-> visited]
           ELSE LET list == CalleesOf(edges, node)
                IN Followed(list, visited \cup {node}, maxDepth + 2 - left, dfs[left - 1])[Len(list)]]]
  IN dfs

NodesOf(edges, start) == {start} \cup {e.caller : e \in edges} \cup {e.callee : e \in edges}

CallChain(edges, start, maxDepth) ==
  DfsChain(edges, NodesOf(edges, start), maxDepth)[maxDepth + 1][start][{}].chain

=============================================================================
