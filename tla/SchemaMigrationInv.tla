------------------------- MODULE SchemaMigrationInv -------------------------
(***************************************************************************)
(* The inductive invariant behind the safety properties of                 *)
(* SchemaMigration: what the lock and the uncommitted pages of each        *)
(* connection can be at each point of a call, relative to the committed    *)
(* content of the file.                                                    *)
(***************************************************************************)
EXTENDS SchemaMigration

(* The committed file. *)
FileInv ==
  /\ ScriptsAtomic
  /\ VersionJustified
  /\ ~NoNull(db) => Len(db.rows) = 1

(* One writer at a time, and only inside a transaction; no lock without a  *)
(* statement or a transaction to hold it.                                  *)
LockInv ==
  \A c \in Conn :
    /\ Writer(c) => ~autoCommit[c] /\ cache[c] \in Pages
    /\ \A o \in Conn : Writer(c) /\ Writer(o) => o = c
    /\ autoCommit[c] /\ pc[c] # "fetch" => lock[c] = RestLock(c)

(* Version v may be written over the committed pages: it is the successor  *)
(* of one whose script, like those before it, has been applied to them.    *)
Due(pages, v) ==
  /\ v >= 1
  /\ pages.rows # <<>>
  /\ NoNull(pages)
  /\ \A u \in 1..(v - 1) : Applied(pages, u)

(* new is old with the first n statements of script v added. *)
AheadBy(old, new, v, n) ==
  /\ new.exists = old.exists
  /\ \A u \in 1..MaxVersion : \A i \in 1..ScriptLen :
       new.runs[u][i] = IF u = v /\ i <= n THEN CountRun(old.runs[u][i])
                                           ELSE old.runs[u][i]

(* What the transaction of a connection that is not migrating may commit:  *)
(* no migration if a failed commit() is always rolled back.                *)
LeftInTx(old, new) ==
  IF RollbackOnFailedCommit THEN Initializes(old, new) ELSE CommitOK(old, new)

ReadingVersion == {"create", "select", "fetch", "insert", "begin"}
Migrating == {"script", "update", "commit", "rollback"}

CallInv(c) ==
  /\ pc[c] \in Calling => outcome[c] = "none"
  /\ pc[c] \in ReadingVersion => inTx[c] = ~autoCommit[c]
  /\ pc[c] \notin Migrating => stmt[c] = 1 /\ LeftInTx(db, View(c))
  /\ pc[c] = "insert" =>
       /\ NoNull(db)
       /\ Writer(c) => cache[c].rows = <<>>
  /\ pc[c] = "begin" =>
       newVersion[c] >= 1 /\ (autoCommit[c] => Due(db, newVersion[c]))
  /\ pc[c] \in {"script", "update", "commit"} =>
       ~autoCommit[c] /\ Due(db, newVersion[c])
  /\ pc[c] = "script" =>
       /\ stmt[c] <= ScriptLen
       /\ stmt[c] > 1 => Writer(c)
       /\ View(c).rows = db.rows
       /\ AheadBy(db, View(c), newVersion[c], stmt[c] - 1)
  /\ pc[c] = "update" =>
       /\ ScriptLen > 0 => Writer(c)
       /\ View(c).rows = db.rows
       /\ AheadBy(db, View(c), newVersion[c], ScriptLen)
  /\ pc[c] = "commit" =>
       /\ Writer(c)
       /\ View(c).rows = [k \in DOMAIN db.rows |-> newVersion[c]]
       /\ AheadBy(db, View(c), newVersion[c], ScriptLen)

IInv ==
  /\ TypeOK
  /\ FileInv
  /\ LockInv
  /\ \A c \in Conn : CallInv(c)
  /\ ReturnMeansApplied
  /\ NothingLeftOpen

-----------------------------------------------------------------------------
(* With one connection migrating, the commits that it prepares are those   *)
(* of SchemaHistory: the version table gets its one row, or the script of  *)
(* the next version runs.                                                  *)
LoneCommit(old, new) ==
  /\ Len(new.rows) <= 1
  /\ \/ Initializes(old, new)
     \/ /\ VersionOf(old) < MaxVersion
        /\ Migrates(old, new, VersionOf(old) + 1)

(* The scripts up to the version have run once, the others never. *)
RunOnce(pages) ==
  \A v \in 1..MaxVersion : \A i \in 1..ScriptLen :
    pages.runs[v][i] = IF v <= VersionOf(pages) THEN 1 ELSE 0

(* The version that a call has read is still that of the file when the     *)
(* call writes.                                                            *)
LoneCallInv(c) ==
  /\ pc[c] \notin Migrating => LoneCommit(db, View(c))
  /\ pc[c] = "insert" => View(c).rows = <<>>
  /\ pc[c] \in {"script", "update", "commit"} \/ (pc[c] = "begin" /\ autoCommit[c])
       => newVersion[c] = VersionOf(db) + 1

LoneInv ==
  /\ IInv
  /\ Len(db.rows) <= 1
  /\ RunOnce(db)
  /\ \A c \in Conn \ Migrators : View(c) = db
  /\ \A c \in Migrators : LoneCallInv(c)
=============================================================================
