SPECIFICATION Spec
CONSTANTS
  Conn = {c1}
  Stmt = {s1}
  NoConn = NoConn
  Uses = {"select", "insert", "returning", "begin", "commit", "rollback"}
  Pooled = {}
SYMMETRY Interchangeable
INVARIANT CloseWorks
CHECK_DEADLOCK FALSE
