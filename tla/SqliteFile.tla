------------------------------ MODULE SqliteFile ------------------------------
(***************************************************************************)
(* One SQLite database file in the default rollback-journal mode and the   *)
(* connections that use it: the transaction each connection has open, the  *)
(* lock it holds on the file and the pages it has changed and not yet      *)
(* committed.  The module has no specification of its own: an operator     *)
(* below is the effect of ONE sqlite3_step on the file, and the modules    *)
(* that model the adapter build their actions from them.                   *)
(***************************************************************************)
EXTENDS FileLocks, Naturals

CONSTANT NoPages  \* the page cache of a connection that has changed nothing

VARIABLES
  db,         \* the committed content of the file
  autoCommit, \* autoCommit[c]: c has no transaction opened by BEGIN
  cache,      \* cache[c]: the content c sees and has not committed
  cursor      \* cursor[c]: the user of c holds a SELECT that has not ended

file == <<db, lock, autoCommit, cache, cursor>>

(* What a statement of c reads. *)
View(c) == IF Writer(c) THEN cache[c] ELSE db

(* The lock of c once its last transaction is over: an unfinished SELECT   *)
(* keeps SHARED.                                                           *)
RestLock(c) == IF cursor[c] THEN "shared" ELSE "none"

-----------------------------------------------------------------------------
(* A SELECT returns its first row and stays open. *)
ReadStarts(c) ==
  /\ lock[c] = "none" => CanShare(c)
  /\ lock' = [lock EXCEPT ![c] = IF @ = "none" THEN "shared" ELSE @]
  /\ UNCHANGED <<db, autoCommit, cache>>

(* It halts: SHARED is given back unless a transaction keeps it. *)
ReadEnds(c) ==
  /\ lock' = [lock EXCEPT ![c] = IF autoCommit[c] THEN RestLock(c) ELSE @]
  /\ UNCHANGED <<db, autoCommit, cache, cursor>>

(* A statement that only reads starts and halts in one step. *)
ReadWhole(c) ==
  /\ lock[c] = "none" => CanShare(c)
  /\ lock' = [lock EXCEPT ![c] = IF @ = "none" /\ ~autoCommit[c]
                                 THEN "shared" ELSE @]
  /\ UNCHANGED <<db, autoCommit, cache, cursor>>

(* A statement that writes makes the content `pages`: in a transaction it  *)
(* takes RESERVED and keeps the change in the cache, outside one it takes  *)
(* EXCLUSIVE as well and commits.                                          *)
Write(c, pages) ==
  /\ CanReserve(c)
  /\ \/ /\ autoCommit[c]
        /\ CanExclude(c)
        /\ db' = pages
        /\ UNCHANGED <<lock, autoCommit, cache, cursor>>
     \/ /\ ~autoCommit[c]
        /\ lock'  = [lock EXCEPT ![c] = IF @ = "pending" THEN @ ELSE "reserved"]
        /\ cache' = [cache EXCEPT ![c] = pages]
        /\ UNCHANGED <<db, autoCommit, cursor>>

BeginTx(c) ==
  /\ autoCommit[c]
  /\ autoCommit' = [autoCommit EXCEPT ![c] = FALSE]
  /\ UNCHANGED <<db, lock, cache, cursor>>

(* The transaction of c is over and what it changed is forgotten. *)
EndTx(c) ==
  /\ autoCommit' = [autoCommit EXCEPT ![c] = TRUE]
  /\ lock'  = [lock EXCEPT ![c] = RestLock(c)]
  /\ cache' = [cache EXCEPT ![c] = NoPages]
  /\ UNCHANGED cursor

(* sqlite3RollbackAll: a ROLLBACK, or an error such as SQLITE_FULL or      *)
(* SQLITE_IOERR that takes the whole transaction with it.                  *)
RollbackTx(c) == EndTx(c) /\ UNCHANGED db

CommitTx(c) ==
  /\ ~autoCommit[c]
  /\ Writer(c) => CanExclude(c)
  /\ db' = View(c)
  /\ EndTx(c)

(* COMMIT is refused EXCLUSIVE: another connection reads, be it only for   *)
(* the length of one step.  The transaction stays open, under PENDING.     *)
CommitBusy(c) ==
  /\ ~autoCommit[c]
  /\ Writer(c)
  /\ lock' = [lock EXCEPT ![c] = "pending"]
  /\ UNCHANGED <<db, autoCommit, cache, cursor>>

(* A statement that reads fails: refused its lock, or an error that rolls  *)
(* the transaction back.                                                   *)
ReadFails(c) == UNCHANGED file \/ RollbackTx(c)

(* A statement that writes fails: refused its lock; or aborted, its own    *)
(* changes undone and RESERVED kept by the transaction around it; or an    *)
(* error that rolls the transaction back.                                  *)
WriteFails(c) ==
  \/ UNCHANGED file
  \/ ~autoCommit[c] /\ Write(c, View(c))
  \/ RollbackTx(c)

(* The process of c is gone, or sqlite3_close had nothing to wait for: the *)
(* operating system drops its locks and a hot journal is rolled back.      *)
Disconnect(c) ==
  /\ lock'       = [lock EXCEPT ![c] = "none"]
  /\ autoCommit' = [autoCommit EXCEPT ![c] = TRUE]
  /\ cache'      = [cache EXCEPT ![c] = NoPages]
  /\ cursor'     = [cursor EXCEPT ![c] = FALSE]
  /\ UNCHANGED db
=============================================================================
