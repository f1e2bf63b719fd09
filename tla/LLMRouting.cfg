SPECIFICATION FairSpec
CONSTANTS
  c1 = c1 c2 = c2 c3 = c3
  NoCall = NoCall NoRequest = NoRequest
  Call <- MCTwo
  Configured <- MCConfigured
  Providers = {"claude", "gpt", "ollama"}
  Models = {"sonnet", "llama", "qwen", "nomic"}
  Fallbacks <- MCFallbacks
  LocalModel = "qwen"
  EmbeddingModel = "nomic"
  HasBase = FALSE
  HasKey = TRUE
  DefaultModel <- MCDefault
  MaxConcurrency = 1
INVARIANTS
  RequestsCoherent
  LockedCallsKeepClient
  AloneRestores
PROPERTIES
  CallsEnd
