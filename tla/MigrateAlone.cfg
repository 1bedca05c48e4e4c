SPECIFICATION Spec
CONSTANTS
  Conn = {m, u1, u2}
  Migrators = {m}
  NoPages = NoPages
  NoVersion = NoVersion
  MaxVersion = 2
  ScriptLen = 2
  MaxRuns = 2
  RollbackOnFailedCommit = TRUE
INVARIANTS LoneInv ReturnMeansApplied NothingLeftOpen
PROPERTIES OneByOne CallsEnd
