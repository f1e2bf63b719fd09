SPECIFICATION MCSpec
CONSTANTS
  f1 = f1  f2 = f2  c1 = c1  c2 = c2  Missing = Missing
  File <- MCFile
  Content <- MCContent
  Parsable <- MCParsable
  MaxRuns = 3
  MaxTag = 3
  MaxEdits = 1
  FallbackNum = 1
  FallbackDen = 2
INVARIANTS CommittedShape NewestSnapshotReadable
PROPERTIES DataMovesWithVersion LedgerSpec RunEnds
CHECK_DEADLOCK FALSE
