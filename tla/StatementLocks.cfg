SPECIFICATION Spec
CONSTANTS
  Conn = {c1, c2}
  Stmt = {s1, s2}
  NoConn = NoConn
  Uses = {"select", "insert", "returning", "begin", "commit", "rollback"}
  Pooled = {c1}
INVARIANTS IInv LocksHaveAReason IdleIsQuiet UnclosedByLeak
PROPERTY LocksEnd
CHECK_DEADLOCK FALSE
