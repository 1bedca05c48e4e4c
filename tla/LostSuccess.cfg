SPECIFICATION Spec
CONSTANTS
  Conn = {c1}
  Stmt = {s1, s2}
  NoConn = NoConn
  Uses = {"select", "insert", "returning", "begin", "commit", "rollback"}
  Pooled = {}
SYMMETRY Interchangeable
INVARIANT SuccessIsKept
CHECK_DEADLOCK FALSE
