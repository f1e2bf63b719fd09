-------------------------- MODULE MCKnowledgeStore --------------------------
\* Two points of two categories: one shows a file, the other has no snippets.
EXTENDS KnowledgeStore

CONSTANTS f, p, q

MCSnippetOf == [x \in Point |-> IF x = q THEN NoFile ELSE f]
MCCategoryOf == [x \in Point |-> IF x = q THEN "AL" ELSE "DP"]
=============================================================================
