SPECIFICATION StoreSpec
CONSTANTS
  PathOrder <- MCPathOrder
  Projects <- MCProjects
  Variants <- MCVariants
  ImportPath <- MCImportPath
  Root <- MCRoot
  Capital <- MCCapital
  Lower <- MCLower
  Declared = {"lib.Mapper"}
  SeedRules <- MCSeedRules
  HookNames = {"useCart"}
  HandlerNames = {}
  ContextNames = {}
  MaxRuns = 3
  MaxEdits = 2
INVARIANTS
  RowsAreWhole
  RowsAreCurrent
  ParentsContain
  ParentsGoFirst
  EdgesAreGrounded
  CallsReachNames
  ChainsReachAll
  DepsMatchImports
