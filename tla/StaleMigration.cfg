SPECIFICATION Spec
CONSTANTS
  Conn = {m1, m2}
  Migrators = {m1, m2}
  NoPages = NoPages
  NoVersion = NoVersion
  MaxVersion = 2
  ScriptLen = 2
  MaxRuns = 2
  RollbackOnFailedCommit = FALSE
PROPERTY PlusOneOnly
