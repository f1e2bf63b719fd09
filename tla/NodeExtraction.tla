--------------------------- MODULE NodeExtraction ---------------------------
(***************************************************************************)
(* What the language parsers take out of a source file.                    *)
(*                                                                         *)
(* A source file is a syntax tree.  Its elements are numbered, and an      *)
(* element is a record of its kind, its name, its object (of a call; the    *)
(* bases of a class, the receiver of a method, the alias of an import), its *)
(* first and last line, its children and its annotations.  The kinds are   *)
(* those the parsers look at, the same word for the same construct of      *)
(* every grammar:                                                          *)
(*    function, class, interface, method, signature,                       *)
(*    constructor, struct, alias, lambda (an arrow function or function    *)
(*    expression), import, from (its form in Python), call, object, pair, jsx, body (a block or the   *)
(*    body of a class), other                                              *)
(*                                                                         *)
(* Every parser is the same double walk: _extract_nodes makes the node of  *)
(* an element, has _extract_nodes_from_node go through its children, and   *)
(* then goes through the same children once more.  The parsers differ in   *)
(* the tables below.  A name is atomic: no name is a part of another.      *)
(***************************************************************************)
EXTENDS Integers, Sequences, SequencesExt

Nobody == [type |-> "none", name |-> "", star |-> FALSE, first |-> 0, last |-> 0]

----------------------------------------------------------------------------
(* The tables of the parsers.  types: the node an element becomes in       *)
(* _extract_nodes; opens: the nodes whose children are gone through twice; *)
(* parents: the nodes that become the parent of what they contain; holders *)
(* and members: in the inner walk of a holder only members are taken, as   *)
(* methods, and methods of the types in deep are gone into; nested: the    *)
(* elements the inner walk takes and goes into itself; named: elements     *)
(* skipped without a name; objects: how object literals are searched.      *)

(* Python: a class is a protocol or an enumeration by its bases.           *)
PythonTypes == [function |-> "function", class |-> "class"]

PythonClass(e) ==
  CASE Contains(e.obj, "Protocol") -> "protocol"
    [] Contains(e.obj, "Enum")     -> "enum"
    [] OTHER                       -> "class"

Python ==
  [types   |-> PythonTypes @@ [import |-> "import", from |-> "import", call |-> "call"],
   opens   |-> {"function", "class", "protocol", "enum"},
   parents |-> {"function", "class", "protocol", "enum", "call"},
   holders |-> {"class"}, members |-> {"function"}, deep |-> {"class"},
   nested  |-> {}, named |-> {}, objects |-> "no"]

TypeScriptTypes == [function |-> "function", lambda |-> "function", class |-> "class", call |-> "call"]

TypeScriptDeclarations == [interface |-> "interface", alias |-> "type", jsx |-> "jsx_element"]

TypeScript ==
  [types   |-> TypeScriptTypes @@ TypeScriptDeclarations @@ [import |-> "import"],
   opens   |-> {"function", "class", "interface"},
   parents |-> {"function", "class", "interface", "call", "jsx_element"},
   holders |-> {"class", "interface"}, members |-> {"method", "signature"},
   deep    |-> {"class"}, nested |-> {}, named |-> {"lambda", "jsx", "import"},
   objects |-> "flat"]

JavaScriptTypes == [function |-> "function", lambda |-> "function", class |-> "class", call |-> "call"]

JavaScript ==
  [types   |-> JavaScriptTypes @@ [import |-> "import"],
   opens   |-> {"function", "class"},
   parents |-> {"function", "class", "call"},
   holders |-> {"class"}, members |-> {"method"}, deep |-> {"class"},
   nested  |-> {}, named |-> {"lambda", "import"}, objects |-> "deep"]

JavaTypes == [class |-> "class", method |-> "method", constructor |-> "constructor", call |-> "call"]

JavaDeclarations == [import |-> "import", interface |-> "interface"]

Java ==
  [types   |-> JavaTypes @@ JavaDeclarations,
   opens   |-> {"class", "interface", "method"},
   parents |-> {"class", "interface", "method", "call"},
   holders |-> {"interface"}, members |-> {"method"}, deep |-> {},
   nested  |-> {"class", "interface"}, named |-> {}, objects |-> "no"]

GoTypes == [function |-> "function", method |-> "method", struct |-> "struct", call |-> "call"]

Go ==
  [types   |-> GoTypes @@ [import |-> "import"],
   opens   |-> {"function", "method"},
   parents |-> {"function", "method", "call"},
   holders |-> {}, members |-> {}, deep |-> {},
   nested  |-> {"method"}, named |-> {}, objects |-> "no"]

(* ParserFactory: the parser of a language; a Vue file goes through the    *)
(* TypeScript parser block by block.                                       *)
ParserOf == [python |-> Python, typescript |-> TypeScript, javascript |-> JavaScript,
             java |-> Java, go |-> Go, vue |-> TypeScript]

HasParser(lang) == lang \in DOMAIN ParserOf

----------------------------------------------------------------------------
(* Qualified names are sequences of words and separators.                  *)

PythonQualified(stem, name, parent) ==
  IF parent.name # "" THEN <<stem, ".", parent.name, ".", name>> ELSE <<stem, ".", name>>

(* An arrow function or the value of a pair has no name of its own: one    *)
(* parser leaves it without qualified name, the other calls it unknown.    *)
ScriptQualified(stem, name, parent) ==
  IF parent.type = "class" THEN <<stem, ":", parent.name, ".", name>>
                           ELSE <<stem, ":", name>>

TypeScriptQualified(stem, e, parent) ==
  IF e.kind = "lambda" THEN <<>> ELSE ScriptQualified(stem, e.name, parent)

JavaScriptQualified(stem, e, parent) ==
  ScriptQualified(stem, IF e.kind = "lambda" THEN "unknown" ELSE e.name, parent)

JavaQualified(package, type, name, parent) ==
  IF type \in {"class", "interface"} THEN <<package, ".", name>>
  ELSE IF parent.name = "" THEN <<name>>
  ELSE <<package, ".", parent.name, ".", name>>

(* A method of Go names its receiver. *)
GoQualified(package, type, e) ==
  IF type = "method" THEN <<package, ":", IF e.obj = <<>> THEN "unknown" ELSE e.obj[1], ".", e.name>>
                     ELSE <<package, ":", e.name>>

Qualified(src, type, e, parent) ==
  CASE type \in {"import", "jsx_element"} -> <<>>
    [] type = "call" -> IF src.lang = "java" /\ e.obj # <<>> THEN e.obj \o <<e.name>> ELSE <<>>
    [] src.lang = "python"     -> PythonQualified(src.stem, e.name, parent)
    [] src.lang = "typescript" -> TypeScriptQualified(src.stem, e, parent)
    [] src.lang = "vue"        -> TypeScriptQualified("<content>", e, parent)
    [] src.lang = "javascript" -> JavaScriptQualified(src.stem, e, parent)
    [] src.lang = "java"       -> JavaQualified(src.stem, type, e.name, parent)
    [] src.lang = "go"         -> GoQualified(src.stem, type, e)

(* _extract_call_name: "*.m" for the call of a method, where the parser    *)
(* recognises one.  The TypeScript and the Go parser ask the grammar for a *)
(* node type and a field it does not have, and keep the text of the call.  *)
IsStarred(src, e) == e.kind = "call" /\ e.obj # <<>> /\ src.lang \in {"python", "javascript", "java"}

(* The name of an import.  The Python parser asks a from-import for a field *)
(* the grammar does not have, and calls the module unknown; the Go parser   *)
(* takes the alias, if there is one, and not the package.                   *)
PythonImport(e) == IF e.kind = "from" THEN "unknown" ELSE e.name
GoImport(e)     == IF e.obj = <<>> THEN e.name ELSE e.obj[1]

NodeName(src, e) ==
  CASE e.kind \in {"import", "from"} /\ src.lang = "python" -> PythonImport(e)
    [] e.kind = "import" /\ src.lang = "go" -> GoImport(e)
    [] e.kind = "call" /\ e.obj # <<>> /\ ~IsStarred(src, e) -> e.obj[1] \o "." \o e.name
    [] OTHER -> e.name

(* The import of a script has no parent. *)
ParentOf(src, type, parent) ==
  IF type = "import" /\ src.lang \in {"typescript", "javascript", "vue"} THEN Nobody ELSE parent

(* _extract_annotations looks at the children of the element.  Those of a  *)
(* Java declaration are there; a decorator of Python, and that of a method *)
(* of a script, stands beside what it decorates and is not found.          *)
Annotations(src, type, e) ==
  IF \/ src.lang = "java" /\ type \in {"class", "interface", "method", "constructor"}
     \/ src.lang \in {"typescript", "javascript", "vue"} /\ type = "class"
  THEN e.ann ELSE {}

(* The node of an element.  Lines count from the start of the block: of    *)
(* the file, or of the script of a Vue file.                               *)
NodeOf(src, base, type, e, name, parent) ==
  [type |-> type, name |-> name, star |-> IsStarred(src, e),
   first |-> e.first - base, last |-> e.last - base,
   qn |-> Qualified(src, type, e, parent), ann |-> Annotations(src, type, e),
   parent |-> ParentOf(src, type, parent)]

RefOf(node) == [type |-> node.type, name |-> node.name, star |-> node.star,
                first |-> node.first, last |-> node.last]

----------------------------------------------------------------------------
(* What tree-sitter returns: what is below an element comes after it and   *)
(* lies within its lines.                                                  *)
IsTree(src) ==
  /\ src.elems \in Seq(Range(src.elems))
  /\ \A i \in DOMAIN src.elems :
       LET e == src.elems[i]
       IN /\ e.first \in Int /\ e.last \in Int /\ e.kids \in Seq(DOMAIN src.elems)
          /\ \A j \in Range(e.kids) :
               i < j /\ e.first <= src.elems[j].first /\ src.elems[j].last <= e.last
  /\ src.blocks \in Seq(Range(src.blocks))
  /\ \A b \in Range(src.blocks) : b.base \in Int /\ b.top \in Seq(DOMAIN src.elems)

(* What an element becomes, if it becomes a node.                          *)
IsTaken(P, e) == e.kind \in DOMAIN P.types /\ (e.kind \in P.named => e.name # "")

TypeOf(src, e) ==
  IF src.lang = "python" /\ e.kind = "class" THEN PythonClass(e)
                                             ELSE ParserOf[src.lang].types[e.kind]

(* The types and names there are in a file, and the parents they can make. *)
TypesIn(src) ==
  LET P == ParserOf[src.lang]
  IN {"none", "method", "call", "object_method"}
     \cup {TypeOf(src, e) : e \in {x \in Range(src.elems) : IsTaken(P, x) \/ x.kind \in P.nested}}

NamesIn(src) == {""} \cup UNION {{e.name, NodeName(src, e)} : e \in Range(src.elems)}

Parents(src) ==
  [type : TypesIn(src), name : NamesIn(src), star : BOOLEAN, first : Int, last : Int]

(* The walk of one block of a file, whose lines count from base.  A step    *)
(* visits an element (_extract_nodes), goes through the children of one    *)
(* (_extract_nodes_from_node) or searches an object literal                *)
(* (_extract_object_methods), below a parent; walk gives the nodes it      *)
(* appends, in order.                                                      *)
Steps(src) == {"visit", "inside", "object"} \X (DOMAIN src.elems) \X Parents(src)

Node(src, base, type, i, parent) ==
  NodeOf(src, base, type, src.elems[i], NodeName(src, src.elems[i]), parent)

(* Inside a holder only members are taken: those of its body, or its own. *)
Member(src, base, i, parent, walk) ==
  LET P == ParserOf[src.lang]
      node == Node(src, base, "method", i, parent)
  IN IF src.elems[i].kind \notin P.members THEN <<>>
     ELSE IF parent.type \in P.deep THEN <<node>> \o walk[<<"inside", i, RefOf(node)>>]
     ELSE <<node>>

Members(src, base, i, parent, walk) ==
  LET body == src.elems[i].kids
  IN IF src.elems[i].kind = "body"
     THEN FlattenSeq([k \in DOMAIN body |-> Member(src, base, body[k], parent, walk)])
     ELSE Member(src, base, i, parent, walk)

Inner(src, base, i, parent, walk) ==
  LET P == ParserOf[src.lang]
      e == src.elems[i]
      node == Node(src, base, TypeOf(src, e), i, parent)
  IN CASE e.kind \in P.nested -> <<node>> \o walk[<<"inside", i, RefOf(node)>>]
       [] e.kind \notin P.nested /\ parent.type \in P.holders -> Members(src, base, i, parent, walk)
       [] e.kind \notin P.nested /\ parent.type \notin P.holders ->
            IF e.kind = "call" THEN <<Node(src, base, "call", i, parent)>>
                               ELSE walk[<<"visit", i, parent>>]

(* An object literal: a method, or a key with a function or an object.     *)
ObjectMethod(src, base, i, name, parent, walk) ==
  LET node == NodeOf(src, base, "object_method", src.elems[i], name, parent)
  IN IF ParserOf[src.lang].objects = "deep" THEN <<node>> \o walk[<<"inside", i, RefOf(node)>>]
                                            ELSE <<node>>

Property(src, base, i, parent, walk) ==
  LET e == src.elems[i]
      value == e.kids[1]
      Holds(kind) == e.kind = "pair" /\ e.kids # <<>> /\ src.elems[value].kind = kind
  IN CASE e.kind = "method" -> ObjectMethod(src, base, i, e.name, parent, walk)
       [] Holds("lambda")   -> ObjectMethod(src, base, value, e.name, parent, walk)
       [] Holds("object")   -> walk[<<"object", value, parent>>]
       [] OTHER -> <<>>

(* A visited element: its node, what is inside of it, and its children.    *)
Extracted(src, base, i, parent, walk) ==
  LET P == ParserOf[src.lang]
      e == src.elems[i]
      node == Node(src, base, TypeOf(src, e), i, parent)
      below == IF node.type \in P.parents THEN RefOf(node) ELSE parent
      Children(p) == FlattenSeq([k \in DOMAIN e.kids |-> walk[<<"visit", e.kids[k], p>>]])
  IN CASE IsTaken(P, e) /\ node.type \in P.opens ->
            <<node>> \o walk[<<"inside", i, below>>] \o Children(below)
       [] IsTaken(P, e) /\ node.type \notin P.opens -> <<node>> \o Children(below)
       [] ~IsTaken(P, e) /\ e.kind = "object" /\ P.objects # "no" ->
            walk[<<"object", i, parent>>] \o Children(parent)
       [] OTHER -> Children(parent)

Appended(src, base, step, walk) ==
  LET i == step[2]
      parent == step[3]
      kids == src.elems[i].kids
  IN CASE step[1] = "visit" -> Extracted(src, base, i, parent, walk)
       [] step[1] = "inside" -> FlattenSeq([k \in DOMAIN kids |-> Inner(src, base, kids[k], parent, walk)])
       [] step[1] = "object" -> FlattenSeq([k \in DOMAIN kids |-> Property(src, base, kids[k], parent, walk)])

Walk(src, base) ==
  LET walk[step \in Steps(src)] == Appended(src, base, step, walk)
  IN walk

(* parse_with_result and parse_file: a file that cannot be measured or is  *)
(* too large is an error, an exception of the parser an empty list, and    *)
(* parse_file tells none of them from a file without nodes.  A Vue file is *)
(* the concatenation of its script blocks.                                 *)
ParseFile(src) ==
  IF src.state # "readable" THEN <<>>
  ELSE FlattenSeq([b \in DOMAIN src.blocks |->
         FlattenSeq([k \in DOMAIN src.blocks[b].top |->
           Walk(src, src.blocks[b].base)[<<"visit", src.blocks[b].top[k], Nobody>>]])])
=============================================================================
