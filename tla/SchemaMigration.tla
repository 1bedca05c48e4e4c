--------------------------- MODULE SchemaMigration ---------------------------
(***************************************************************************)
(* Executor::getSchemaVersion and Executor::migrateSchema, called by       *)
(* several processes on one SQLite file.  Between two calls of the engine  *)
(* the other connections run; every call may fail; a process may die at    *)
(* any point.  A connection's user may also open a transaction, a cursor   *)
(* or write to its own tables, on the connection it then migrates with or  *)
(* on another one.                                                         *)
(*                                                                         *)
(* Schema version 0 is "no migration yet": a call with newVersion = 0      *)
(* stands for getSchemaVersion alone, since migrateSchema then returns     *)
(* what it read.                                                           *)
(***************************************************************************)
EXTENDS SqliteFile, Sequences

CONSTANTS
  Migrators,   \* the connections on which the schema functions are called
  MaxVersion,  \* the schema versions are 1..MaxVersion
  ScriptLen,   \* statements in each migration script; 0 is the empty script
  MaxRuns,     \* runs of one script statement are counted up to this bound
  NoVersion,   \* NULL in the version column
  RollbackOnFailedCommit  \* orm::Transaction (external) rolls back when its
                          \* commit() came back unsuccessful

ASSUME MigrationAssumption ==
  /\ Migrators \subseteq Conn
  /\ MaxVersion \in Nat
  /\ ScriptLen \in Nat
  /\ MaxRuns \in Nat \ {0}
  /\ NoVersion \notin Nat
  /\ RollbackOnFailedCommit \in BOOLEAN

VARIABLES
  pc,          \* pc[c]: the engine call that the function on c makes next
  newVersion,  \* newVersion[c]: the argument of the last call on c
  stmt,        \* stmt[c]: the next statement of the script
  inTx,        \* inTx[c]: the call began inside a transaction of its caller
  outcome      \* outcome[c]: how the last call on c ended

call == <<newVersion, stmt, inTx>>
vars == <<file, pc, call, outcome>>

-----------------------------------------------------------------------------
(* The content of the file: does the version table exist, its rows, and    *)
(* how often each statement of each script has taken effect.               *)

Version == 0..MaxVersion
RowVersion == Version \cup {NoVersion}
Runs == [1..MaxVersion -> [1..ScriptLen -> 0..MaxRuns]]
Pages == [exists : BOOLEAN, rows : Seq(RowVersion), runs : Runs]

Calling == {"create", "select", "fetch", "insert", "begin",
            "script", "update", "commit", "rollback"}

TypeOK ==
  /\ db \in Pages
  /\ lock \in [Conn -> LockLevel]
  /\ autoCommit \in [Conn -> BOOLEAN]
  /\ cache \in [Conn -> Pages \cup {NoPages}]
  /\ cursor \in [Conn -> BOOLEAN]
  /\ pc \in [Conn -> Calling \cup {"closed", "idle"}]
  /\ newVersion \in [Conn -> Version]
  /\ stmt \in [Conn -> 1..(ScriptLen + 1)]
  /\ inTx \in [Conn -> BOOLEAN]
  /\ outcome \in [Conn -> {"none", "returned", "threw", "uncommitted"}]

CountRun(n) == IF n < MaxRuns THEN n + 1 ELSE n

(* What statement i of the script of version v does: statements with no    *)
(* IF NOT EXISTS take effect every time they run.                          *)
Ran(pages, v, i) == [pages EXCEPT !.runs[v][i] = CountRun(@)]

WithTable(pages)     == [pages EXCEPT !.exists = TRUE]
WithRow(pages)       == [pages EXCEPT !.rows = Append(@, 0)]
WithVersion(pages, v) == [pages EXCEPT !.rows = [k \in DOMAIN @ |-> v]]

NoRuns == [v \in 1..MaxVersion |-> [i \in 1..ScriptLen |-> 0]]

(* A new file, or one whose version table somebody left with a NULL.       *)
InitialPages ==
  { [exists |-> FALSE, rows |-> <<>>,          runs |-> NoRuns],
    [exists |-> TRUE,  rows |-> <<NoVersion>>, runs |-> NoRuns] }

-----------------------------------------------------------------------------
(* Control *)

Goto(c, label) ==
  /\ pc' = [pc EXCEPT ![c] = label]
  /\ UNCHANGED <<call, outcome>>

(* A call ends; its argument is remembered with the outcome.               *)
Ends(c, o) ==
  /\ pc'          = [pc EXCEPT ![c] = "idle"]
  /\ outcome'     = [outcome EXCEPT ![c] = o]
  /\ stmt'        = [stmt EXCEPT ![c] = 1]
  /\ UNCHANGED <<newVersion, inTx>>

(* Mutant: any newer version is accepted. *)
DecideAnyStep(c, version) ==
  \/ newVersion[c] <= version /\ Ends(c, "returned")
  \/ /\ newVersion[c] > version
     /\ pc' = [pc EXCEPT ![c] = "begin"]
     /\ UNCHANGED <<newVersion, stmt, inTx, outcome>>

(* Mutant: off by one, the present version is migrated to once more. *)
DecideAgain(c, version) ==
  \/ newVersion[c] < version     /\ Ends(c, "returned")
  \/ newVersion[c] > version + 1 /\ Ends(c, "threw")
  \/ /\ newVersion[c] \in {version, version + 1} \ {0}
     /\ pc' = [pc EXCEPT ![c] = "begin"]
     /\ UNCHANGED <<newVersion, stmt, inTx, outcome>>

(* migrateSchema has the version and decides what to do with it. *)
Decide(c, version) ==
  \/ newVersion[c] <= version    /\ Ends(c, "returned")
  \/ newVersion[c] > version + 1 /\ Ends(c, "threw")
  \/ /\ newVersion[c] = version + 1
     /\ pc' = [pc EXCEPT ![c] = "begin"]
     /\ UNCHANGED <<newVersion, stmt, inTx, outcome>>

(* The user of an idle connection goes on to something else. *)
Forgets(c) ==
  /\ outcome'    = [outcome EXCEPT ![c] = "none"]
  /\ newVersion' = [newVersion EXCEPT ![c] = 0]
  /\ inTx'       = [inTx EXCEPT ![c] = FALSE]
  /\ UNCHANGED stmt

Vanishes(c) ==
  /\ pc'          = [pc EXCEPT ![c] = "closed"]
  /\ outcome'     = [outcome EXCEPT ![c] = "none"]
  /\ newVersion'  = [newVersion EXCEPT ![c] = 0]
  /\ stmt'        = [stmt EXCEPT ![c] = 1]
  /\ inTx'        = [inTx EXCEPT ![c] = FALSE]

Init ==
  /\ db \in InitialPages
  /\ lock       = [c \in Conn |-> "none"]
  /\ autoCommit = [c \in Conn |-> TRUE]
  /\ cache      = [c \in Conn |-> NoPages]
  /\ cursor     = [c \in Conn |-> FALSE]
  /\ pc         = [c \in Conn |-> "closed"]
  /\ newVersion  = [c \in Conn |-> 0]
  /\ stmt        = [c \in Conn |-> 1]
  /\ inTx        = [c \in Conn |-> FALSE]
  /\ outcome     = [c \in Conn |-> "none"]

-----------------------------------------------------------------------------
(* getSchemaVersion *)

Call(c, v) ==
  /\ pc[c] = "idle"
  /\ pc'         = [pc EXCEPT ![c] = "create"]
  /\ newVersion' = [newVersion EXCEPT ![c] = v]
  /\ inTx'       = [inTx EXCEPT ![c] = ~autoCommit[c]]
  /\ outcome'    = [outcome EXCEPT ![c] = "none"]
  /\ UNCHANGED <<file, stmt>>

(* Mutant: a lock that is refused is waited for. *)
CreateTableWaits(c) ==
  /\ pc[c] = "create"
  /\ \/ View(c).exists /\ ReadWhole(c)
     \/ ~View(c).exists /\ Write(c, WithTable(View(c)))
  /\ Goto(c, "select")

(* CREATE TABLE IF NOT EXISTS: with the table there it only reads. *)
CreateTable(c) ==
  /\ pc[c] = "create"
  /\ \/ /\ View(c).exists
        /\ \/ ReadWhole(c) /\ Goto(c, "select")
           \/ ReadFails(c) /\ Ends(c, "threw")
     \/ /\ ~View(c).exists
        /\ \/ Write(c, WithTable(View(c))) /\ Goto(c, "select")
           \/ WriteFails(c) /\ Ends(c, "threw")

(* SELECT, first step: an empty table ends the statement at once. *)
SelectVersion(c) ==
  /\ pc[c] = "select"
  /\ \/ View(c).rows = <<>> /\ ReadWhole(c) /\ Goto(c, "insert")
     \/ View(c).rows # <<>> /\ ReadStarts(c) /\ UNCHANGED cursor
                            /\ Goto(c, "fetch")
     \/ ReadFails(c) /\ Ends(c, "threw")

(* fetch: n rows arrive before the statement halts, all of them unless it  *)
(* is interrupted; nothing looks at the statement's success again.         *)
FetchVersion(c) ==
  /\ pc[c] = "fetch"
  /\ ReadEnds(c)
  /\ \E n \in 1..Len(View(c).rows) :
       \/ n > 1 /\ Ends(c, "threw")
       \/ n = 1 /\ View(c).rows[1] = NoVersion /\ Ends(c, "threw")
       \/ n = 1 /\ View(c).rows[1] # NoVersion /\ Decide(c, View(c).rows[1])

(* The empty table gets its row, in a statement of its own. *)
InsertZero(c) ==
  /\ pc[c] = "insert"
  /\ \/ Write(c, WithRow(View(c))) /\ Decide(c, 0)
     \/ WriteFails(c) /\ Ends(c, "threw")

-----------------------------------------------------------------------------
(* migrateSchema, from orm::Transaction on *)

FirstOf(i) == IF i > ScriptLen THEN "update" ELSE "script"

(* Mutant: the script runs without a Transaction around it. *)
BeginNoTx(c) ==
  /\ pc[c] = "begin"
  /\ UNCHANGED file /\ Goto(c, FirstOf(1))

(* A deferred BEGIN takes no lock; it fails inside a transaction, and the  *)
(* constructor that throws has no destructor to run.                       *)
Begin(c) ==
  /\ pc[c] = "begin"
  /\ \/ BeginTx(c) /\ Goto(c, FirstOf(1))
     \/ ~autoCommit[c] /\ UNCHANGED file /\ Ends(c, "threw")

(* Mutant: a failed script throws past the Transaction's destructor. *)
ScriptStmtNoRollback(c) ==
  /\ pc[c] = "script"
  /\ \/ /\ Write(c, Ran(View(c), newVersion[c], stmt[c]))
        /\ pc'   = [pc EXCEPT ![c] = FirstOf(stmt[c] + 1)]
        /\ stmt' = [stmt EXCEPT ![c] = @ + 1]
        /\ UNCHANGED <<newVersion, inTx, outcome>>
     \/ WriteFails(c) /\ Ends(c, "threw")

(* sqlite3_exec runs the statements one after the other and stops at the   *)
(* first that fails.                                                       *)
ScriptStmt(c) ==
  /\ pc[c] = "script"
  /\ \/ /\ Write(c, Ran(View(c), newVersion[c], stmt[c]))
        /\ pc'   = [pc EXCEPT ![c] = FirstOf(stmt[c] + 1)]
        /\ stmt' = [stmt EXCEPT ![c] = @ + 1]
        /\ UNCHANGED <<newVersion, inTx, outcome>>
     \/ WriteFails(c) /\ Goto(c, "rollback")

(* Mutant: nobody looks at the result of the UPDATE. *)
UpdateVersionUnchecked(c) ==
  /\ pc[c] = "update"
  /\ \/ Write(c, WithVersion(View(c), newVersion[c]))
     \/ WriteFails(c)
  /\ Goto(c, "commit")

(* UPDATE without a WHERE: every row gets the new version. *)
UpdateVersion(c) ==
  /\ pc[c] = "update"
  /\ \/ Write(c, WithVersion(View(c), newVersion[c])) /\ Goto(c, "commit")
     \/ WriteFails(c) /\ Goto(c, "rollback")

(* Mutant: as if the engine had ended the transaction. *)
CommitFailedThrows(c) == Ends(c, "threw")

(* commit() was unsuccessful and migrateSchema throws. *)
CommitFailed(c) ==
  \/ RollbackOnFailedCommit  /\ Goto(c, "rollback")
  \/ ~RollbackOnFailedCommit /\ Ends(c, "uncommitted")

(* Mutant: nobody looks at the result of the COMMIT. *)
CommitUnchecked(c) ==
  /\ pc[c] = "commit"
  /\ CommitTx(c) \/ CommitBusy(c) \/ RollbackTx(c)
  /\ Ends(c, "returned")

Commit(c) ==
  /\ pc[c] = "commit"
  /\ \/ CommitTx(c) /\ Ends(c, "returned")
     \/ CommitBusy(c) /\ CommitFailed(c)
     \/ RollbackTx(c) /\ CommitFailed(c)

(* Mutant: ~Transaction only forgets the connection. *)
RollbackSkipped(c) ==
  /\ pc[c] = "rollback"
  /\ UNCHANGED file /\ Ends(c, "threw")

(* ~Transaction.  A ROLLBACK with no transaction left is an error that     *)
(* nobody looks at.                                                        *)
Rollback(c) ==
  /\ pc[c] = "rollback"
  /\ \/ ~autoCommit[c] /\ RollbackTx(c)
     \/ autoCommit[c] /\ UNCHANGED file
  /\ Ends(c, "threw")

-----------------------------------------------------------------------------
(* The user of a connection, between two calls of the schema functions.    *)

Open(c) ==
  /\ pc[c] = "closed"
  /\ Goto(c, "idle")
  /\ UNCHANGED file

(* A cursor keeps its connection alive.  sqlite3_close rolls back. *)
Close(c) ==
  /\ pc[c] = "idle" /\ ~cursor[c]
  /\ Disconnect(c)
  /\ Vanishes(c)

UserBegin(c) ==
  /\ pc[c] = "idle"
  /\ BeginTx(c)
  /\ Forgets(c) /\ UNCHANGED pc

UserCommit(c) ==
  /\ pc[c] = "idle"
  /\ CommitTx(c) \/ CommitBusy(c)
  /\ Forgets(c) /\ UNCHANGED pc

UserRollback(c) ==
  /\ pc[c] = "idle" /\ ~autoCommit[c]
  /\ RollbackTx(c)
  /\ Forgets(c) /\ UNCHANGED pc

(* A write to other tables of the file. *)
UserWrite(c) ==
  /\ pc[c] = "idle"
  /\ Write(c, View(c))
  /\ Forgets(c) /\ UNCHANGED pc

OpenCursor(c) ==
  /\ pc[c] = "idle" /\ ~cursor[c]
  /\ ReadStarts(c)
  /\ cursor' = [cursor EXCEPT ![c] = TRUE]
  /\ Forgets(c) /\ UNCHANGED pc

CloseCursor(c) ==
  /\ pc[c] = "idle" /\ cursor[c]
  /\ cursor' = [cursor EXCEPT ![c] = FALSE]
  /\ lock' = [lock EXCEPT ![c] = IF autoCommit[c] THEN "none" ELSE @]
  /\ UNCHANGED <<db, autoCommit, cache>>
  /\ Forgets(c) /\ UNCHANGED pc

(* The process dies, in a call or out of one. *)
Crash(c) ==
  /\ pc[c] # "closed"
  /\ Disconnect(c)
  /\ Vanishes(c)

-----------------------------------------------------------------------------
GetSchemaVersionStep(c) ==
  CreateTable(c) \/ SelectVersion(c) \/ FetchVersion(c) \/ InsertZero(c)

MigrateSchemaStep(c) ==
  Begin(c) \/ ScriptStmt(c) \/ UpdateVersion(c) \/ Commit(c) \/ Rollback(c)

CallStep(c) == GetSchemaVersionStep(c) \/ MigrateSchemaStep(c)

UserStep(c) ==
  \/ Open(c) \/ Close(c) \/ Crash(c)
  \/ UserBegin(c) \/ UserCommit(c) \/ UserRollback(c) \/ UserWrite(c)
  \/ OpenCursor(c) \/ CloseCursor(c)

Next ==
  \/ \E c \in Migrators : CallStep(c) \/ \E v \in Version : Call(c, v)
  \/ \E c \in Conn : UserStep(c)

(* The thread inside a call goes on; nobody has to start or end anything.  *)
Fairness == \A c \in Migrators : WF_vars(CallStep(c))

Spec == Init /\ [][Next]_vars /\ Fairness
-----------------------------------------------------------------------------
(* Properties *)

Applied(pages, v) == \A i \in 1..ScriptLen : pages.runs[v][i] >= 1

(* A script reaches the file whole or not at all, however many connections *)
(* migrate at once, fail or die (the Transaction around sqlite3_exec).     *)
ScriptsAtomic ==
  \A v \in 1..MaxVersion : \A i, j \in 1..ScriptLen :
    db.runs[v][i] = db.runs[v][j]

(* Whatever row of the version table getSchemaVersion may read, the        *)
(* scripts up to that version have been applied: the version is written in *)
(* the transaction of its script, and only on top of its predecessor.      *)
VersionJustified ==
  \A k \in DOMAIN db.rows : db.rows[k] # NoVersion =>
    \A v \in 1..db.rows[k] : Applied(db, v)

NoNull(pages) == \A k \in DOMAIN pages.rows : pages.rows[k] # NoVersion

(* What a commit may do: give the version table its existence or one more  *)
(* row, for version 0, unless there is a NULL in it ...                    *)
Initializes(old, new) ==
  /\ new.runs = old.runs
  /\ new.rows \in {old.rows, Append(old.rows, 0)}
  /\ old.exists => new.exists
  /\ ~NoNull(old) => new.rows = old.rows

(* ... or apply one whole script and write its version into the rows, none *)
(* of which is NULL, with every earlier script applied before.             *)
Migrates(old, new, v) ==
  /\ old.rows # <<>>
  /\ NoNull(old)
  /\ \A u \in 1..(v - 1) : Applied(old, u)
  /\ old.exists => new.exists
  /\ new.rows = [k \in DOMAIN old.rows |-> v]
  /\ new.runs = [old.runs EXCEPT ![v] =
                   [i \in 1..ScriptLen |-> CountRun(old.runs[v][i])]]

CommitOK(old, new) ==
  \/ Initializes(old, new)
  \/ \E v \in 1..MaxVersion : Migrates(old, new, v)

(* Whoever commits, the version and the scripts move together: no commit   *)
(* carries a version without its script, a script without its version, two *)
(* scripts, or a repair of a table that getSchemaVersion calls corrupted.  *)
ScriptCommitsWithVersion == [][CommitOK(db, db')]_db

(* When migrateSchema returns, its script and all before it are in the     *)
(* file for good - if it was not called inside a transaction of its        *)
(* caller, or a failed commit() never leaves such a transaction behind.    *)
ReturnMeansApplied ==
  \A c \in Conn :
    outcome[c] = "returned" /\ (RollbackOnFailedCommit \/ ~inTx[c]) =>
      \A v \in 1..newVersion[c] : Applied(db, v)

(* A call that began outside a transaction leaves none behind, and no lock *)
(* beyond the one of the caller's own cursor, whether it returned or threw *)
(* - except on the failed commit() that is not rolled back.                *)
NothingLeftOpen ==
  \A c \in Conn :
    outcome[c] \in {"returned", "threw"} /\ ~inTx[c] =>
      autoCommit[c] /\ lock[c] = RestLock(c)

(* No call waits for another connection: with the busy timeout at 0, each  *)
(* lock that is refused ends the call.                                     *)
CallsEnd == \A c \in Migrators : pc[c] \in Calling ~> pc[c] \notin Calling

(* The version that a lone migrator's calls go by. *)
VersionOf(pages) ==
  IF pages.rows = <<>> \/ pages.rows[1] = NoVersion THEN 0 ELSE pages.rows[1]

History == INSTANCE SchemaHistory WITH version <- VersionOf(db), runs <- db.runs

(* With one connection migrating, whatever the users of the others do and  *)
(* wherever it fails or dies, the file goes through the versions one by    *)
(* one and each script runs exactly once.                                  *)
OneByOne == History!Spec

(* Executor.cpp:340 takes several version rows for corruption by others.   *)
OneVersionRow == Len(db.rows) <= 1

(* Executor.cpp:364: "+1 version increment is allowed only."  Of a version *)
(* table with one row only: rows are never deleted, so that the number     *)
(* that two first calls may store (OneVersionRow) has no part in it.       *)
PlusOneOnly ==
  [][Len(db.rows) = 1 /\ Len(db'.rows) = 1 /\ db.rows[1] # NoVersion
       => db'.rows[1] \in {db.rows[1], db.rows[1] + 1}]_db
=============================================================================
