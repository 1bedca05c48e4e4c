------------------------------ MODULE Statements ------------------------------
(***************************************************************************)
(* Statements from Executor::execute to ~QueryResult, and the connections  *)
(* they run on.  Executor prepares a statement and binds its parameters;   *)
(* QueryResult steps it once, keeps it and its connection, steps it again  *)
(* in fetch and finalizes it when it is destroyed; the connection is       *)
(* closed, or goes back to the pool, when nobody refers to it any more.    *)
(*                                                                         *)
(* A client may hold several results of one connection, and drop results   *)
(* and connections in any order.  It uses a connection from one thread at  *)
(* a time; the connections run concurrently.                               *)
(***************************************************************************)
EXTENDS SqliteStatements

CONSTANTS
  NoConn,  \* the connection of a statement that was not prepared yet
  Uses,    \* the kinds of statement that the clients run
  Pooled   \* the connections that come from a ConnectionPool

ASSUME StatementsAssumption ==
  /\ NoConn \notin Conn
  /\ Uses \subseteq Sql
  /\ Pooled \subseteq Conn

VARIABLES
  opened,     \* opened[c]: has the sqlite3 handle been opened, closed
  held,       \* held[c]: the client holds a ResourceHandle of c
  place,      \* place[s]: who has the sqlite3_stmt
  hasMore,    \* hasMore[s], isSuccess[s]: what the QueryResult says
  isSuccess,
  inTx,       \* inTx[c]: the writes called a success in the transaction of
              \* c, read to their end or not
  claim,      \* the writes reported done outside of any transaction
  mixed,      \* the statements that ran while another result of their
              \* connection had more to fetch
  pinned      \* the statements that ran while a result of their connection
              \* that had failed was still held

results == <<place, hasMore, isSuccess>>
history == <<inTx, claim, mixed, pinned>>
vars == <<engine, opened, held, results, history>>

TypeOK ==
  /\ db \subseteq Stmt
  /\ lock \in [Conn -> LockLevel]
  /\ autoCommit \in [Conn -> BOOLEAN]
  /\ dirty \in [Conn -> SUBSET Stmt]
  /\ conn \in [Stmt -> Conn \cup {NoConn}]
  /\ sql \in [Stmt -> Sql]
  /\ vdbe \in [Stmt -> VdbeState]
  /\ opened \in [Conn -> {"no", "open", "closed", "unclosed"}]
  /\ held \in [Conn -> BOOLEAN]
  /\ place \in [Stmt -> {"unused", "local", "result", "leaked", "gone"}]
  /\ hasMore \in [Stmt -> BOOLEAN]
  /\ isSuccess \in [Stmt -> BOOLEAN]
  /\ inTx \in [Conn -> SUBSET Stmt]
  /\ claim \subseteq Stmt
  /\ mixed \subseteq Stmt
  /\ pinned \subseteq Stmt

Init ==
  /\ db = {}
  /\ lock = [c \in Conn |-> "none"]
  /\ autoCommit = [c \in Conn |-> TRUE]
  /\ dirty = [c \in Conn |-> {}]
  /\ conn = [s \in Stmt |-> NoConn]
  /\ sql = [s \in Stmt |-> "select"]
  /\ vdbe = [s \in Stmt |-> "none"]
  /\ opened = [c \in Conn |-> "no"]
  /\ held = [c \in Conn |-> FALSE]
  /\ place = [s \in Stmt |-> "unused"]
  /\ hasMore = [s \in Stmt |-> FALSE]
  /\ isSuccess = [s \in Stmt |-> FALSE]
  /\ inTx = [c \in Conn |-> {}]
  /\ claim = {}
  /\ mixed = {}
  /\ pinned = {}

-----------------------------------------------------------------------------
(* Connections *)

(* Mutant: a QueryResult does not keep its connection. *)
ReferencedByClient(c) == held[c]

(* A ResourceHandle of c: the client's, that of a call of execute, or that *)
(* of a QueryResult.                                                       *)
Referenced(c) ==
  held[c] \/ \E s \in Stmt : conn[s] = c /\ place[s] \in {"local", "result"}

(* The thread that uses c is not inside execute. *)
Free(c) == ~\E s \in Stmt : conn[s] = c /\ place[s] = "local"

(* getConnection opens a new connection or, with a pool, takes one that    *)
(* came back to it.                                                        *)
Obtainable(c) ==
  \/ opened[c] = "no"
  \/ c \in Pooled /\ opened[c] = "open" /\ ~Referenced(c)

GetConnection(c) ==
  /\ Obtainable(c)
  /\ opened' = [opened EXCEPT ![c] = "open"]
  /\ held' = [held EXCEPT ![c] = TRUE]
  /\ UNCHANGED <<engine, results, history>>

(* QueryResult::getConnection. *)
TakeConnection(s) ==
  /\ place[s] = "result"
  /\ Free(conn[s])
  /\ held' = [held EXCEPT ![conn[s]] = TRUE]
  /\ UNCHANGED <<engine, opened, results, history>>

DropConnection(c) ==
  /\ held[c]
  /\ Free(c)
  /\ held' = [held EXCEPT ![c] = FALSE]
  /\ UNCHANGED <<engine, opened, results, history>>

(* ~ConnectionImpl, for the last reference or when the pool lets go of a   *)
(* connection that was idle for too long: sqlite3_close refuses while      *)
(* there is a statement to finalize, and nobody calls it again.            *)
Close(c) ==
  /\ opened[c] = "open"
  /\ ~Referenced(c)
  /\ \/ /\ \E s \in Stmt : conn[s] = c /\ vdbe[s] \notin {"none", "null"}
        /\ opened' = [opened EXCEPT ![c] = "unclosed"]
        /\ UNCHANGED engine
     \/ /\ \A s \in Stmt : conn[s] = c => vdbe[s] \in {"none", "null"}
        /\ opened' = [opened EXCEPT ![c] = "closed"]
        /\ Disconnect(c)
  /\ inTx' = [inTx EXCEPT ![c] = {}]
  /\ UNCHANGED <<held, results, claim, mixed, pinned>>

-----------------------------------------------------------------------------
(* Statements *)

(* execute and exec: the connection is the client's or a new one, only     *)
(* commit and rollback insist on one.  The result of sqlite3_prepare_v2    *)
(* is not looked at.                                                       *)
Prepare(c, s, q) ==
  /\ place[s] = "unused"
  /\ Free(c)
  /\ \/ held[c] /\ UNCHANGED opened
     \/ /\ q \notin {"commit", "rollback"}
        /\ Obtainable(c)
        /\ opened' = [opened EXCEPT ![c] = "open"]
  /\ place' = [place EXCEPT ![s] = "local"]
  /\ conn' = [conn EXCEPT ![s] = c]
  /\ sql' = [sql EXCEPT ![s] = q]
  /\ \E state \in {"ready", "null"} : vdbe' = [vdbe EXCEPT ![s] = state]
  /\ UNCHANGED <<db, lock, autoCommit, dirty, held, hasMore, isSuccess, history>>

(* bindParams throws for a missing parameter, an unknown property or a     *)
(* type without serializer; execute has no handler, and no other reference *)
(* to the statement is left.                                               *)
BindThrows(s) ==
  /\ place[s] = "local"
  /\ sql[s] \in {"select", "insert", "returning"}
  /\ place' = [place EXCEPT ![s] = IF vdbe[s] = "null" THEN "gone" ELSE "leaked"]
  /\ UNCHANGED <<engine, opened, held, hasMore, isSuccess, history>>

(* Mutant: next() takes every value but SQLITE_ROW for the end. *)
SaysAlwaysSuccess(s, value) ==
  /\ hasMore' = [hasMore EXCEPT ![s] = (value = "row")]
  /\ isSuccess' = [isSuccess EXCEPT ![s] = TRUE]

(* Mutant: a failed step leaves hasMore as it was. *)
SaysMoreAfterError(s, value) ==
  /\ hasMore' = [hasMore EXCEPT ![s] = IF value = "error" THEN TRUE ELSE value = "row"]
  /\ isSuccess' = [isSuccess EXCEPT ![s] = (value # "error")]

(* ResultData::next keeps two flags of what sqlite3_step returned. *)
Says(s, value) ==
  /\ hasMore' = [hasMore EXCEPT ![s] = (value = "row")]
  /\ isSuccess' = [isSuccess EXCEPT ![s] = (value # "error")]

(* What the client was told, and which results it held then.  Outside of   *)
(* a transaction a write counts when its result has come to its end, in    *)
(* one as soon and as long as its result is a success.                     *)
Remembers(s) ==
  LET c    == conn[s]
      open == {o \in Others(s) : hasMore[o]}
      told == {w \in {s} : Writes(w) /\ isSuccess'[w]}
      ends == {w \in told : ~hasMore'[w]}
  IN /\ claim' = IF autoCommit[c] THEN claim \cup ends ELSE claim
     /\ inTx' = [inTx EXCEPT ![c] = IF autoCommit'[c] \/ autoCommit[c] THEN {}
                                    ELSE (@ \ {s}) \cup told]
     /\ mixed' = IF open = {} THEN mixed ELSE mixed \cup open \cup {s}
     /\ pinned' = IF Others(s) = open THEN pinned ELSE pinned \cup {s}

Step(s) ==
  /\ \/ StepRow(s)  /\ Says(s, "row")
     \/ StepDone(s) /\ Says(s, "done")
     \/ (StepRefused(s) \/ StepError(s) \/ StepMisuse(s)) /\ Says(s, "error")
  /\ Remembers(s)

(* The QueryResult is constructed, which steps the statement. *)
Construct(s) ==
  /\ place[s] = "local"
  /\ place' = [place EXCEPT ![s] = "result"]
  /\ Step(s)
  /\ UNCHANGED <<opened, held>>

(* Mutant: fetch steps the statement whatever hasMore says. *)
FetchUnguarded(s) ==
  /\ place[s] = "result"
  /\ Free(conn[s])
  /\ Step(s)
  /\ UNCHANGED <<opened, held, place>>

(* One turn of the loop of fetch. *)
Fetch(s) ==
  /\ place[s] = "result"
  /\ Free(conn[s])
  /\ hasMore[s]
  /\ Step(s)
  /\ UNCHANGED <<opened, held, place>>

(* Mutant: the destructor does not finalize the statement. *)
DropUnfinalized(s) ==
  /\ place[s] = "result"
  /\ Free(conn[s])
  /\ place' = [place EXCEPT ![s] = "gone"]
  /\ UNCHANGED <<engine, opened, held, hasMore, isSuccess, history>>

(* ~QueryResult; its reference to the connection goes after it. *)
DropResult(s) ==
  /\ place[s] = "result"
  /\ Free(conn[s])
  /\ place' = [place EXCEPT ![s] = "gone"]
  /\ Finalize(s)
  /\ inTx' = [inTx EXCEPT ![conn[s]] = IF autoCommit'[conn[s]] THEN {} ELSE @]
  /\ UNCHANGED <<opened, held, hasMore, isSuccess, claim, mixed, pinned>>

Next ==
  \/ \E c \in Conn : GetConnection(c) \/ DropConnection(c) \/ Close(c)
  \/ \E c \in Conn, s \in Stmt, q \in Uses : Prepare(c, s, q)
  \/ \E s \in Stmt : \/ BindThrows(s) \/ Construct(s) \/ Fetch(s)
                     \/ DropResult(s) \/ TakeConnection(s)

(* execute goes on once it is called, the client's handles and results go  *)
(* out of scope, and a connection without them is closed.                  *)
Fairness ==
  /\ \A s \in Stmt : WF_vars(BindThrows(s) \/ Construct(s)) /\ WF_vars(DropResult(s))
  /\ \A c \in Conn : WF_vars(DropConnection(c)) /\ WF_vars(Close(c))

Spec == Init /\ [][Next]_vars /\ Fairness

-----------------------------------------------------------------------------
(* A write that a QueryResult called a success, run outside of a           *)
(* transaction, is in the file, provided that every other result of its    *)
(* connection had been read to its end and had not failed (next, and what  *)
(* execute lets a client hold).                                            *)
SuccessStored == claim \ (mixed \cup pinned) \subseteq db

(* Such a write is in the file or on its way there where only results with *)
(* more to fetch are excused: that is what a client can see of a result    *)
(* that may still matter.                                                  *)
SuccessIsKept == \A s \in claim \ mixed : s \in db \cup dirty[conn[s]]

(* What the file holds, the last word of its QueryResult was success: a    *)
(* write is not executed again (by a step after the end) and not reported  *)
(* failed after it was committed.                                          *)
FailureNotStored == \A s \in db : isSuccess[s]

(* commit() with a successful result has put every write whose result was  *)
(* a success in the transaction into the file, whatever failed in between  *)
(* and in whatever order the results were dropped.  A write whose rows     *)
(* were not fetched counts too: it is only finalized in ~QueryResult,      *)
(* which looks at no error.  Excused are writes that had rows to fetch     *)
(* when another statement ran.                                             *)
CommitStores ==
  [][\A s \in Stmt :
       place[s] = "local" /\ sql[s] = "commit" /\ isSuccess'[s]
         => inTx[conn[s]] \ mixed \subseteq db']_vars

(* A connection holds a lock on the file only for a transaction or for a   *)
(* result that the client still has and that has more to fetch or failed.  *)
LocksHaveAReason ==
  \A c \in Conn :
    lock[c] # "none" =>
      \/ ~autoCommit[c]
      \/ \E s \in Stmt : /\ conn[s] = c
                        /\ place[s] = "result"
                        /\ (hasMore[s] \/ ~isSuccess[s])

(* No statement runs on a connection that goes back to the pool or is      *)
(* closed: results outlive the client's handle and keep the connection.    *)
(* What comes back with it, as the invalidator does nothing, is at most a  *)
(* transaction that its user left open: outside of one no lock and no      *)
(* change is left, whatever failed and whatever was not read.              *)
IdleIsQuiet ==
  \A c \in Conn :
    ~Referenced(c) =>
      /\ Running(c) = {}
      /\ autoCommit[c] => lock[c] = "none" /\ dirty[c] = {}

Leaked(c) == \E s \in Stmt : conn[s] = c /\ place[s] = "leaked"

(* Closing fails for nothing but a statement that bindParams left behind,  *)
(* in whatever order the client drops results and handles.                 *)
UnclosedByLeak == \A c \in Conn : opened[c] = "unclosed" => Leaked(c)

(* ~ConnectionImpl closes the database. *)
CloseWorks == \A c \in Conn : opened[c] # "unclosed"

(* Every lock is given back in the end, except those of a connection with  *)
(* a statement that bindParams left behind and those that a pool may go on *)
(* handing out: nothing ends a transaction on the way back to the pool.    *)
LocksEnd ==
  \A c \in Conn \ Pooled : lock[c] # "none" ~> lock[c] = "none" \/ Leaked(c)
=============================================================================
