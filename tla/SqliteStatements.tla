--------------------------- MODULE SqliteStatements ---------------------------
(***************************************************************************)
(* The prepared statements of SQLite connections, one sqlite3_step or      *)
(* sqlite3_finalize at a time, with what they do to the transaction and    *)
(* the file lock of their connection.  SqliteFile has one statement of a   *)
(* connection run at a time; here they overlap, and what decides is which  *)
(* other statements of the connection have not halted when one halts.      *)
(*                                                                         *)
(* The module has no specification of its own: Statements builds its       *)
(* actions from the operators below.  Content is the set of the writing    *)
(* statements whose effect it holds.                                       *)
(***************************************************************************)
EXTENDS FileLocks

CONSTANT Stmt  \* the prepared statements

VARIABLES
  db,         \* the writes in the committed file
  autoCommit, \* autoCommit[c]: c has no transaction opened by BEGIN
  dirty,      \* dirty[c]: the writes that c has done and not committed
  conn,       \* conn[s]: the connection s was prepared on
  sql,        \* sql[s]: what s is
  vdbe        \* vdbe[s]: where its virtual machine is

engine == <<db, lock, autoCommit, dirty, conn, sql, vdbe>>

(* "insert" stands for every statement that writes and returns no row,     *)
(* "returning" for one that writes and then returns rows.                  *)
Sql == {"select", "insert", "returning", "begin", "commit", "rollback"}

(* "none" is not prepared or finalized; "null" is the NULL statement a     *)
(* failed prepare leaves; "refused" is VDBE_RUN_STATE with SQLITE_BUSY in  *)
(* its rc: the statement was refused a lock and waits to be stepped again. *)
VdbeState == {"none", "null", "ready", "run", "refused", "halt"}

(* A step of s starts at its first instruction; one that halted is reset.  *)
Starts(s) == vdbe[s] \in {"ready", "refused", "halt"}

Writes(s) == sql[s] \in {"insert", "returning"}

(* The statements that have begun and not halted (nVdbeActive, nVdbeRead;  *)
(* those of them that write are nVdbeWrite).                               *)
Running(c) == {s \in Stmt : conn[s] = c /\ vdbe[s] \in {"run", "refused"}}

Others(s) == Running(conn[s]) \ {s}

(* No transaction is open and no other statement writes: the halt of s     *)
(* ends the transaction that it runs in.                                   *)
Sole(s) == autoCommit[conn[s]] /\ \A o \in Others(s) : ~Writes(o)

(* The lock of the connection while s runs, and what it has then done. *)
Level(s) ==
  LET held == lock[conn[s]] IN
    CASE ~Starts(s)                      -> held
      [] Writes(s) /\ held # "pending" -> "reserved"
      [] ~Writes(s) /\ held = "none"   -> "shared"
      [] OTHER                         -> held

Done(s) == dirty[conn[s]] \cup {w \in {s} : Starts(w) /\ Writes(w)}

Prepared(s) == vdbe[s] \notin {"none", "null"}

CanStart(s) ==
  Starts(s) => /\ lock[conn[s]] = "none" => CanShare(conn[s])
               /\ Writes(s) => CanReserve(conn[s])

Becomes(s, state) ==
  /\ vdbe' = [vdbe EXCEPT ![s] = state]
  /\ UNCHANGED <<conn, sql>>

-----------------------------------------------------------------------------
(* What a halt of s does to the transaction.  A transaction that ends      *)
(* leaves SHARED to the statements that still run.                         *)

EndTx(s, level) ==
  LET c == conn[s] IN
    /\ autoCommit' = [autoCommit EXCEPT ![c] = TRUE]
    /\ dirty' = [dirty EXCEPT ![c] = {}]
    /\ lock' = [lock EXCEPT ![c] =
         IF level = "none" \/ Others(s) = {} THEN "none" ELSE "shared"]

Store(s, changes, level) ==
  /\ level \in {"reserved", "pending"} => CanExclude(conn[s])
  /\ db' = db \cup changes
  /\ EndTx(s, level)

Discard(s, level) == EndTx(s, level) /\ UNCHANGED db

Keep(s, changes, level) ==
  /\ dirty' = [dirty EXCEPT ![conn[s]] = changes]
  /\ lock' = [lock EXCEPT ![conn[s]] = level]
  /\ UNCHANGED <<db, autoCommit>>

HaltOk(s, changes, level) ==
  \/ Sole(s)  /\ Store(s, changes, level)
  \/ ~Sole(s) /\ Keep(s, changes, level)

(* The statement failed, or its commit was refused: its own changes are    *)
(* undone, with the whole transaction if that was its own.                 *)
HaltError(s, level) ==
  \/ Sole(s)  /\ Discard(s, level)
  \/ ~Sole(s) /\ Keep(s, dirty[conn[s]] \ {s}, level)

-----------------------------------------------------------------------------
(* sqlite3_step, by the value it returns: SQLITE_ROW, ... *)
StepRow(s) ==
  /\ Prepared(s)
  /\ sql[s] \in {"select", "returning"}
  /\ CanStart(s)
  /\ Keep(s, Done(s), Level(s))
  /\ Becomes(s, "run")

(* ... SQLITE_DONE, ... *)
StepDone(s) ==
  /\ Prepared(s)
  /\ CASE sql[s] = "begin"    -> /\ autoCommit[conn[s]]
                                 /\ autoCommit' = [autoCommit EXCEPT ![conn[s]] = FALSE]
                                 /\ UNCHANGED <<db, lock, dirty>>
       [] sql[s] = "commit"   -> /\ ~autoCommit[conn[s]]
                                 /\ \A o \in Others(s) : ~Writes(o)
                                 /\ Store(s, dirty[conn[s]], lock[conn[s]])
       [] sql[s] = "rollback" -> /\ ~autoCommit[conn[s]]
                                 /\ Discard(s, lock[conn[s]])
       [] OTHER               -> CanStart(s) /\ HaltOk(s, Done(s), Level(s))
  /\ Becomes(s, "halt")

(* ... SQLITE_BUSY with the statement left running.  The lock may be held  *)
(* for an instant by a process that is not modelled, so the refusal has no *)
(* guard on the other connections.  A refused COMMIT stays in PENDING.     *)
StepRefused(s) ==
  /\ Starts(s)
  /\ \/ /\ sql[s] \in {"select", "insert", "returning"}
        /\ Level(s) # lock[conn[s]]
        /\ UNCHANGED <<db, lock, autoCommit, dirty>>
     \/ /\ sql[s] = "commit"
        /\ ~autoCommit[conn[s]]
        /\ \A o \in Others(s) : ~Writes(o)
        /\ Writer(conn[s])
        /\ lock' = [lock EXCEPT ![conn[s]] = "pending"]
        /\ UNCHANGED <<db, autoCommit, dirty>>
  /\ Becomes(s, "refused")

(* A transaction statement that the state of the connection forbids. *)
Forbidden(s) ==
  \/ sql[s] = "begin" /\ ~autoCommit[conn[s]]
  \/ sql[s] \in {"commit", "rollback"} /\ autoCommit[conn[s]]
  \/ sql[s] = "commit" /\ \E o \in Others(s) : Writes(o)

(* ... or an error that halts it: before it has a lock, with its own       *)
(* changes undone, or with the whole transaction rolled back               *)
(* (SQLITE_IOERR, SQLITE_FULL).                                            *)
StepError(s) ==
  /\ Prepared(s)
  /\ \/ Starts(s) /\ UNCHANGED <<db, lock, autoCommit, dirty>>
     \/ /\ sql[s] \in {"select", "insert", "returning"}
        /\ CanStart(s)
        /\ HaltError(s, Level(s)) \/ Discard(s, Level(s))
     \/ sql[s] = "commit" /\ ~Forbidden(s) /\ Discard(s, lock[conn[s]])
     \/ Forbidden(s) /\ HaltError(s, lock[conn[s]])
  /\ Becomes(s, "halt")

(* sqlite3_step of the NULL statement is SQLITE_MISUSE. *)
StepMisuse(s) == vdbe[s] = "null" /\ UNCHANGED engine

(* sqlite3_finalize halts the statement if nothing else has: one that was  *)
(* refused with its error, one that was left at a row as if it had ended   *)
(* there, which for a write is a commit that may be refused.               *)
Finalize(s) ==
  LET c == conn[s] IN
    /\ \/ vdbe[s] = "refused" /\ HaltError(s, lock[c])
       \/ vdbe[s] = "run" /\ HaltOk(s, dirty[c], lock[c])
       \/ vdbe[s] = "run" /\ Writer(c) /\ Sole(s) /\ Discard(s, lock[c])
       \/ /\ vdbe[s] \notin {"run", "refused"}
          /\ UNCHANGED <<db, lock, autoCommit, dirty>>
    /\ Becomes(s, "none")

(* sqlite3_close, when no statement is left: the transaction is rolled     *)
(* back and the lock dropped.                                              *)
Disconnect(c) ==
  /\ autoCommit' = [autoCommit EXCEPT ![c] = TRUE]
  /\ dirty' = [dirty EXCEPT ![c] = {}]
  /\ lock' = [lock EXCEPT ![c] = "none"]
  /\ UNCHANGED <<db, conn, sql, vdbe>>
=============================================================================
