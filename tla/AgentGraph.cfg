SPECIFICATION FairSpec
CONSTANTS
  t1 = t1
  t2 = t2
  NAgents = 3
  MaxRetries = 1
  Titles <- MCTitles
  Confidences <- MCConfidences
  LowConfidence = 7
INVARIANTS
  OneSourcePerTitle
  FinalPointsJustified
  DisjointReportsKept
PROPERTIES
  ExpansionKeepsPoints
  Terminates
