SPECIFICATION Spec
CONSTANTS
  a = a  b = b  c = c  d = d  e = e  h1 = h1  h2 = h2  Missing = Missing
  File <- MCFile
  AbsolutePath <- MCAbsolutePath
  NodePath <- MCNodePath
  Hash <- MCHash
  CallPairs <- MCCalls
  ImportPairs <- MCImports
  MaxEdited = 2
  MaxDepth = 2
  FallbackNum = 4
  FallbackDen = 5
INVARIANTS SearchIsExact SkippedIsUntouched
SYMMETRY MCSymmetry
CHECK_DEADLOCK FALSE
