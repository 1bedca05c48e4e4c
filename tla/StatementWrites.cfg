SPECIFICATION Spec
CONSTANTS
  Conn = {c1}
  Stmt = {s1, s2, s3, s4}
  NoConn = NoConn
  Uses = {"insert", "returning", "begin", "commit"}
  Pooled = {}
SYMMETRY Interchangeable
INVARIANTS SuccessStored FailureNotStored
PROPERTY CommitStores
CHECK_DEADLOCK FALSE
