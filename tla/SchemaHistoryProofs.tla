------------------------- MODULE SchemaHistoryProofs -------------------------
(***************************************************************************)
(* SchemaMigration implements SchemaHistory when one connection migrates:  *)
(* for any number of other connections, versions and script statements,    *)
(* and whether or not the Transaction rolls back after a failed commit.    *)
(***************************************************************************)
EXTENDS SchemaMigrationProofs

(* At most one connection calls the schema functions. *)
Alone == \A c, d \in Migrators : c = d

-----------------------------------------------------------------------------
(* The content of the file *)

LEMMA VersionType ==
  ASSUME NEW p \in Pages
  PROVE  VersionOf(p) \in Version
<1>1. CASE p.rows = <<>> \/ p.rows[1] = NoVersion
  BY <1>1, MigrationAssumption DEF VersionOf, Version
<1>2. CASE p.rows # <<>> /\ p.rows[1] # NoVersion
  <2>1. p.rows[1] \in RowVersion
    BY <1>2 DEF Pages
  <2> QED
    BY <1>2, <2>1 DEF VersionOf, RowVersion
<1> QED
  BY <1>1, <1>2

(* A commit of LoneCommit is a step of SchemaHistory, or none. *)
LEMMA LoneCommitStep ==
  ASSUME NEW p \in Pages, NEW q \in Pages,
         Len(p.rows) <= 1, RunOnce(p), LoneCommit(p, q)
  PROVE  /\ RunOnce(q)
         /\ \/ VersionOf(q) = VersionOf(p) /\ q.runs = p.runs
            \/ /\ VersionOf(p) < MaxVersion
               /\ p.runs[VersionOf(p) + 1] = [i \in 1..ScriptLen |-> 0]
               /\ VersionOf(q) = VersionOf(p) + 1
               /\ q.runs = [p.runs EXCEPT ![VersionOf(p) + 1] =
                              [i \in 1..ScriptLen |-> 1]]
<1> USE MigrationAssumption
<1>1. p.rows \in Seq(RowVersion) /\ p.runs \in Runs /\ q.runs \in Runs
  BY DEF Pages
<1>2. CASE Initializes(p, q)
  <2>1. q.runs = p.runs
    BY <1>2 DEF Initializes
  <2>2. VersionOf(q) = VersionOf(p)
    <3>1. CASE q.rows = p.rows
      BY <3>1 DEF VersionOf
    <3>2. CASE q.rows = Append(p.rows, 0)
      <4>1. Len(q.rows) = Len(p.rows) + 1 /\ Len(p.rows) \in Nat
        BY <1>1, <3>2
      <4>2. Len(p.rows) = 0
        BY <4>1 DEF LoneCommit
      <4>3. p.rows = <<>>
        BY <1>1, <4>2
      <4>4. q.rows # <<>> /\ q.rows[1] = 0
        BY <1>1, <3>2, <4>2
      <4> QED
        BY <4>3, <4>4 DEF VersionOf
    <3> QED
      BY <1>2, <3>1, <3>2 DEF Initializes
  <2> QED
    BY <2>1, <2>2 DEF RunOnce
<1>3. CASE VersionOf(p) < MaxVersion /\ Migrates(p, q, VersionOf(p) + 1)
  <2> DEFINE v == VersionOf(p) + 1
  <2>1. v \in 1..MaxVersion /\ v \in Nat /\ VersionOf(p) \in Nat
    BY <1>3, VersionType DEF Version
  <2>2. VersionOf(q) = v
    <3>1. q.rows = [k \in DOMAIN p.rows |-> v] /\ p.rows # <<>>
      BY <1>3 DEF Migrates
    <3>2. 1 \in DOMAIN p.rows
      BY <1>1, <3>1
    <3>3. q.rows[1] = v /\ q.rows # <<>>
      BY <3>1, <3>2
    <3> QED
      BY <2>1, <3>3 DEF VersionOf
  <2>3. ASSUME NEW i \in 1..ScriptLen
        PROVE  p.runs[v][i] = 0 /\ CountRun(p.runs[v][i]) = 1
    BY <2>1 DEF RunOnce, CountRun
  <2>4. p.runs[v] = [i \in 1..ScriptLen |-> 0]
    <3>1. p.runs[v] \in [1..ScriptLen -> 0..MaxRuns]
      BY <1>1, <2>1 DEF Runs
    <3> QED
      BY <2>3, <3>1
  <2>5. q.runs = [p.runs EXCEPT ![v] = [i \in 1..ScriptLen |-> 1]]
    <3>1. q.runs = [p.runs EXCEPT ![v] = [i \in 1..ScriptLen |-> CountRun(p.runs[v][i])]]
      BY <1>3 DEF Migrates
    <3>2. [i \in 1..ScriptLen |-> CountRun(p.runs[v][i])] = [i \in 1..ScriptLen |-> 1]
      BY <2>3
    <3> QED
      BY <3>1, <3>2
  <2>6. RunOnce(q)
    <3>1. ASSUME NEW u \in 1..MaxVersion, NEW i \in 1..ScriptLen
          PROVE  q.runs[u][i] = IF u <= v THEN 1 ELSE 0
      <4>1. CASE u = v
        BY <1>1, <2>1, <2>5, <4>1 DEF Runs
      <4>2. CASE u # v
        <5>1. q.runs[u] = p.runs[u]
          BY <1>1, <2>5, <4>2 DEF Runs
        <5>2. u <= v <=> u <= VersionOf(p)
          BY <2>1, <4>2
        <5> QED
          BY <5>1, <5>2 DEF RunOnce
      <4> QED
        BY <4>1, <4>2
    <3> QED
      BY <2>2, <3>1 DEF RunOnce
  <2> QED
    BY <1>3, <2>2, <2>4, <2>5, <2>6
<1> QED
  BY <1>2, <1>3 DEF LoneCommit

LEMMA NoLoneCommit ==
  ASSUME NEW p \in Pages, Len(p.rows) <= 1
  PROVE  LoneCommit(p, p)
  BY NothingCommitted DEF LoneCommit

LEMMA TableLone ==
  ASSUME NEW p \in Pages, NEW q \in Pages, LoneCommit(p, q)
  PROVE  LoneCommit(p, WithTable(q))
<1>1. WithTable(q).exists /\ WithTable(q).rows = q.rows /\ WithTable(q).runs = q.runs
  BY DEF WithTable, Pages
<1> QED
  BY <1>1 DEF LoneCommit, Initializes, Migrates

-----------------------------------------------------------------------------
(* One step of a connection, and the rest of the system                    *)

LoneStep(c) ==
  /\ LoneCommit(db, db')
  /\ c \in Migrators => LoneCallInv(c)'
  /\ c \notin Migrators => db' = db /\ View(c)' = db'

LEMMA LoneStepKeeps ==
  ASSUME Alone, LoneInv, NEW c \in Conn, StepOK(c), LoneStep(c)
  PROVE  LoneInv' /\ [History!Migrate]_<<VersionOf(db), db.runs>>
<1>1. IInv /\ IInv'
  BY StepKeeps DEF LoneInv
<1>2. db \in Pages /\ db' \in Pages
  BY <1>1 DEF IInv, TypeOK
<1>3. /\ RunOnce(db') /\ Len(db'.rows) <= 1
      /\ \/ VersionOf(db') = VersionOf(db) /\ db'.runs = db.runs
         \/ /\ VersionOf(db) < MaxVersion
            /\ db.runs[VersionOf(db) + 1] = [i \in 1..ScriptLen |-> 0]
            /\ VersionOf(db') = VersionOf(db) + 1
            /\ db'.runs = [db.runs EXCEPT ![VersionOf(db) + 1] =
                             [i \in 1..ScriptLen |-> 1]]
  BY <1>2, LoneCommitStep DEF LoneInv, LoneStep, LoneCommit
<1>4. [History!Migrate]_<<VersionOf(db), db.runs>>
  BY <1>3 DEF History!Migrate, History!Times
<1>5. ASSUME NEW o \in Conn \ {c}
      PROVE  /\ pc'[o] = pc[o] /\ newVersion'[o] = newVersion[o]
             /\ autoCommit'[o] = autoCommit[o] /\ cache'[o] = cache[o]
             /\ Writer(o)' <=> Writer(o)
             /\ db' # db => ~Writer(o)
  BY <1>5 DEF StepOK, FileStep, LocalStep, Writer
<1>6. ASSUME NEW o \in Conn \ Migrators
      PROVE  View(o)' = db'
  <2>1. CASE o = c
    BY <1>6, <2>1 DEF LoneStep
  <2>2. CASE o # c
    BY <1>5, <1>6, <2>2 DEF View, LoneInv
  <2> QED
    BY <2>1, <2>2
<1>7. ASSUME NEW o \in Migrators
      PROVE  LoneCallInv(o)'
  <2>1. CASE o = c
    BY <1>7, <2>1 DEF LoneStep
  <2>2. CASE o # c
    <3>1. o \in Conn \ {c} /\ c \notin Migrators
      BY <1>7, <2>2, MigrationAssumption DEF Alone
    <3>2. db' = db
      BY <3>1 DEF LoneStep
    <3>3. View(o)' = View(o)
      BY <1>5, <3>1, <3>2 DEF View
    <3>4. LoneCallInv(o)
      BY <1>7 DEF LoneInv
    <3> QED
      BY <1>5, <3>1, <3>2, <3>3, <3>4 DEF LoneCallInv
  <2> QED
    BY <2>1, <2>2
<1> QED
  BY <1>1, <1>3, <1>4, <1>6, <1>7 DEF LoneInv

-----------------------------------------------------------------------------
(* The steps of the connection that migrates *)

(* A statement of a call that prepares no commit. *)
LEMMA LoneNoCommit ==
  ASSUME LoneInv, NEW c \in Migrators, db' = db,
         View(c)' = db \/ (View(c)' = View(c) /\ pc[c] \notin Migrating),
         pc'[c] \notin {"insert", "begin", "script", "update", "commit"}
  PROVE  LoneStep(c)
<1>1. db \in Pages
  BY DEF LoneInv, IInv, TypeOK
<1>2. LoneCommit(db, db)
  BY <1>1, NoLoneCommit DEF LoneInv
<1>3. LoneCommit(db', View(c)')
  BY <1>2 DEF LoneInv, LoneCallInv
<1> QED
  BY <1>2, <1>3 DEF LoneStep, LoneCallInv

(* What the facts of one action need of the invariants. *)
LEMMA LoneFacts ==
  ASSUME LoneInv, NEW c \in Migrators
  PROVE  /\ TypeOK /\ LockInv /\ CallInv(c) /\ LoneCallInv(c)
         /\ c \in Conn /\ db \in Pages /\ View(c) \in Pages
         /\ LoneCommit(db, db)
         /\ autoCommit[c] => View(c) = db
<1>1. c \in Conn /\ TypeOK /\ LockInv
  BY MigrationAssumption DEF LoneInv, IInv
<1> QED
  BY <1>1, ViewType, NoLoneCommit DEF LoneInv, IInv, TypeOK, LockInv, View

LEMMA EndedOrGone ==
  ASSUME TypeOK, NEW c \in Conn,
         \/ \E o \in {"returned", "threw", "uncommitted"} : Ends(c, o)
         \/ \E l \in {"select", "fetch", "rollback", "create"} : Goto(c, l)
  PROVE  pc'[c] \notin {"insert", "begin", "script", "update", "commit"}
  BY DEF TypeOK, Ends, Goto

LEMMA CreateTableLone ==
  ASSUME LoneInv, NEW c \in Migrators, CreateTable(c)
  PROVE  LoneStep(c)
<1>1. /\ TypeOK /\ LockInv /\ LoneCallInv(c)
      /\ c \in Conn /\ db \in Pages /\ View(c) \in Pages /\ LoneCommit(db, db)
  BY LoneFacts
<1>2. pc[c] = "create" /\ pc[c] \notin Migrating
  BY DEF CreateTable, Migrating
<1>3. pc'[c] \notin {"insert", "begin", "script", "update", "commit"}
  BY <1>1, EndedOrGone DEF CreateTable
<1>4. CASE ReadWhole(c) \/ ReadFails(c) \/ WriteFails(c)
  BY <1>1, <1>2, <1>3, <1>4, ReadWholeStep, ReadFailsStep, WriteFailsStep, LoneNoCommit
<1>5. CASE Write(c, WithTable(View(c)))
  <2>1. WithTable(View(c)) \in Pages
    BY <1>1, StatementTypes
  <2>2. /\ View(c)' = WithTable(View(c))
        /\ autoCommit[c] => db' = WithTable(View(c))
        /\ ~autoCommit[c] => db' = db
    BY <1>1, <1>5, <2>1, WriteStep
  <2>3. LoneCommit(db, WithTable(View(c)))
    BY <1>1, <1>2, TableLone DEF LoneCallInv
  <2>4. LoneCommit(WithTable(View(c)), WithTable(View(c)))
    BY <2>1, <2>3, NoLoneCommit DEF LoneCommit
  <2> QED
    BY <1>1, <1>3, <2>2, <2>3, <2>4 DEF LoneStep, LoneCallInv
<1> QED
  BY <1>4, <1>5 DEF CreateTable

LEMMA SelectVersionLone ==
  ASSUME LoneInv, NEW c \in Migrators, SelectVersion(c)
  PROVE  LoneStep(c)
<1>1. /\ TypeOK /\ LockInv /\ LoneCallInv(c)
      /\ c \in Conn /\ db \in Pages /\ View(c) \in Pages /\ LoneCommit(db, db)
  BY LoneFacts
<1>2. pc[c] = "select" /\ pc[c] \notin Migrating
  BY DEF SelectVersion, Migrating
<1>3. CASE View(c).rows = <<>> /\ ReadWhole(c) /\ Goto(c, "insert")
  <2>1. View(c)' = View(c) /\ db' = db
    BY <1>1, <1>3, ReadWholeStep
  <2>2. pc'[c] = "insert"
    BY <1>1, <1>3 DEF Goto, TypeOK
  <2> QED
    BY <1>1, <1>2, <1>3, <2>1, <2>2 DEF LoneStep, LoneCallInv, Migrating
<1>4. CASE ReadStarts(c) /\ UNCHANGED cursor /\ Goto(c, "fetch")
  <2>1. View(c)' = View(c) /\ db' = db
    BY <1>1, <1>4, ReadStartsStep DEF TypeOK
  <2>2. pc'[c] \notin {"insert", "begin", "script", "update", "commit"}
    BY <1>1, <1>4, EndedOrGone
  <2> QED
    BY <1>2, <2>1, <2>2, LoneNoCommit
<1>5. CASE ReadFails(c) /\ Ends(c, "threw")
  <2>1. pc'[c] \notin {"insert", "begin", "script", "update", "commit"}
    BY <1>1, <1>5, EndedOrGone
  <2> QED
    BY <1>1, <1>2, <1>5, <2>1, ReadFailsStep, LoneNoCommit
<1> QED
  BY <1>3, <1>4, <1>5 DEF SelectVersion

(* A call that has read the version of what it would commit. *)
LEMMA DecideLone ==
  ASSUME LoneInv, NEW c \in Migrators, NEW version, Decide(c, version),
         LoneCommit(db, db'), LoneCommit(db', View(c)'),
         autoCommit'[c] => version = VersionOf(db')
  PROVE  LoneStep(c)
<1>1. TypeOK /\ c \in Conn
  BY LoneFacts
<1>2. CASE Ends(c, "returned") \/ Ends(c, "threw")
  <2>1. pc'[c] \notin {"insert", "begin", "script", "update", "commit"}
    BY <1>1, <1>2, EndedOrGone
  <2> QED
    BY <2>1 DEF LoneStep, LoneCallInv
<1>3. CASE /\ newVersion[c] = version + 1
           /\ pc' = [pc EXCEPT ![c] = "begin"]
           /\ UNCHANGED newVersion
  <2>1. pc'[c] = "begin"
    BY <1>1, <1>3 DEF TypeOK
  <2> QED
    BY <1>3, <2>1 DEF LoneStep, LoneCallInv
<1> QED
  BY <1>2, <1>3 DEF Decide

LEMMA FetchVersionLone ==
  ASSUME LoneInv, NEW c \in Migrators, FetchVersion(c)
  PROVE  LoneStep(c)
<1>1. /\ TypeOK /\ LockInv /\ LoneCallInv(c) /\ (autoCommit[c] => View(c) = db)
      /\ c \in Conn /\ db \in Pages /\ View(c) \in Pages /\ LoneCommit(db, db)
  BY LoneFacts
<1>2. pc[c] = "fetch" /\ pc[c] \notin Migrating /\ ReadEnds(c)
  BY DEF FetchVersion, Migrating
<1>3. View(c)' = View(c) /\ db' = db /\ autoCommit' = autoCommit
  BY <1>1, <1>2, ReadEndsStep
<1>4. CASE Ends(c, "threw")
  <2>1. pc'[c] \notin {"insert", "begin", "script", "update", "commit"}
    BY <1>1, <1>4, EndedOrGone
  <2> QED
    BY <1>2, <1>3, <2>1, LoneNoCommit
<1>5. CASE /\ Len(View(c).rows) >= 1
           /\ View(c).rows[1] # NoVersion
           /\ Decide(c, View(c).rows[1])
  <2>1. View(c).rows # <<>>
    BY <1>1, <1>5 DEF Pages
  <2>2. View(c).rows[1] = VersionOf(View(c))
    BY <1>5, <2>1 DEF VersionOf
  <2>3. LoneCommit(db, View(c))
    BY <1>1, <1>2 DEF LoneCallInv
  <2> QED
    BY <1>1, <1>3, <1>5, <2>2, <2>3, DecideLone
<1>6. Len(View(c).rows) \in Nat
  BY <1>1 DEF Pages
<1> QED
  BY <1>4, <1>5, <1>6 DEF FetchVersion

LEMMA InsertZeroLone ==
  ASSUME LoneInv, NEW c \in Migrators, InsertZero(c)
  PROVE  LoneStep(c)
<1>1. /\ TypeOK /\ LockInv /\ LoneCallInv(c) /\ CallInv(c)
      /\ c \in Conn /\ db \in Pages /\ View(c) \in Pages /\ LoneCommit(db, db)
  BY LoneFacts
<1>2. pc[c] = "insert" /\ pc[c] \notin Migrating
  BY DEF InsertZero, Migrating
<1>3. NoNull(db) /\ View(c).rows = <<>> /\ LoneCommit(db, View(c)) /\ LeftInTx(db, View(c))
  BY <1>1, <1>2 DEF CallInv, LoneCallInv
<1>4. CASE Write(c, WithRow(View(c))) /\ Decide(c, 0)
  <2>1. WithRow(View(c)) \in Pages
    BY <1>1, StatementTypes
  <2>2. /\ View(c)' = WithRow(View(c)) /\ autoCommit'[c] = autoCommit[c]
        /\ autoCommit[c] => db' = WithRow(View(c))
        /\ ~autoCommit[c] => db' = db
    BY <1>1, <1>4, <2>1, WriteStep
  <2>3. db.rows = <<>> /\ Initializes(db, View(c))
    BY <1>1, <1>3, EmptyRows
  <2>4. Initializes(db, WithRow(View(c)))
    BY <1>1, <1>3, <2>3, RowLeft
  <2>5. WithRow(View(c)).rows = <<0>>
    BY <1>1, <1>3 DEF WithRow, Pages
  <2>6. LoneCommit(db, WithRow(View(c))) /\ VersionOf(WithRow(View(c))) = 0
    BY <2>4, <2>5 DEF LoneCommit, VersionOf
  <2>7. LoneCommit(WithRow(View(c)), WithRow(View(c)))
    BY <2>1, <2>6, NoLoneCommit DEF LoneCommit
  <2>8. autoCommit[c] \in BOOLEAN
    BY <1>1 DEF TypeOK
  <2> QED
    BY <1>1, <1>4, <2>2, <2>6, <2>7, <2>8, DecideLone
<1>5. CASE WriteFails(c) /\ Ends(c, "threw")
  <2>1. pc'[c] \notin {"insert", "begin", "script", "update", "commit"}
    BY <1>1, <1>5, EndedOrGone
  <2> QED
    BY <1>1, <1>2, <1>5, <2>1, WriteFailsStep, LoneNoCommit
<1> QED
  BY <1>4, <1>5 DEF InsertZero

LEMMA BeginLone ==
  ASSUME LoneInv, NEW c \in Migrators, Begin(c)
  PROVE  LoneStep(c)
<1>1. /\ TypeOK /\ LockInv /\ LoneCallInv(c)
      /\ c \in Conn /\ db \in Pages /\ View(c) \in Pages /\ LoneCommit(db, db)
  BY LoneFacts
<1>2. pc[c] = "begin" /\ pc[c] \notin Migrating
  BY DEF Begin, Migrating
<1>3. CASE BeginTx(c) /\ Goto(c, FirstOf(1))
  <2>1. db' = db /\ autoCommit[c]
    BY <1>1, <1>3, BeginTxStep
  <2>2. newVersion[c] = VersionOf(db) + 1 /\ newVersion' = newVersion
    BY <1>1, <1>2, <1>3, <2>1 DEF LoneCallInv, Goto, call
  <2>3. pc'[c] \in {"script", "update"}
    BY <1>1, <1>3 DEF Goto, FirstOf, TypeOK
  <2> QED
    BY <1>1, <2>1, <2>2, <2>3 DEF LoneStep, LoneCallInv, Migrating
<1>4. CASE UNCHANGED file /\ Ends(c, "threw")
  <2>1. pc'[c] \notin {"insert", "begin", "script", "update", "commit"}
    BY <1>1, <1>4, EndedOrGone
  <2>2. db' = db /\ View(c)' = View(c)
    BY <1>1, <1>4, FileUnchanged DEF file
  <2> QED
    BY <1>2, <2>1, <2>2, LoneNoCommit
<1> QED
  BY <1>3, <1>4 DEF Begin

(* A statement inside the Transaction commits nothing. *)
LEMMA InTransactionLone ==
  ASSUME LoneInv, NEW c \in Migrators, pc[c] \in {"script", "update"},
         \/ /\ \E p \in Pages : Write(c, p)
            /\ newVersion' = newVersion
            /\ pc'[c] \in {"script", "update", "commit"}
         \/ WriteFails(c) /\ Goto(c, "rollback")
  PROVE  LoneStep(c)
<1>1. /\ TypeOK /\ LockInv /\ LoneCallInv(c) /\ CallInv(c)
      /\ c \in Conn /\ db \in Pages /\ LoneCommit(db, db)
  BY LoneFacts
<1>2. ~autoCommit[c] /\ newVersion[c] = VersionOf(db) + 1
  BY <1>1 DEF CallInv, LoneCallInv
<1>3. ASSUME NEW p \in Pages, Write(c, p), newVersion' = newVersion,
             pc'[c] \in {"script", "update", "commit"}
      PROVE  LoneStep(c)
  <2>1. db' = db
    BY <1>1, <1>2, <1>3, WriteStep
  <2> QED
    BY <1>1, <1>2, <1>3, <2>1 DEF LoneStep, LoneCallInv, Migrating
<1>4. CASE WriteFails(c) /\ Goto(c, "rollback")
  <2>1. db' = db
    BY <1>1, <1>4, WriteFailsStep
  <2>2. pc'[c] = "rollback"
    BY <1>1, <1>4 DEF Goto, TypeOK
  <2> QED
    BY <1>1, <2>1, <2>2 DEF LoneStep, LoneCallInv, Migrating
<1> QED
  BY <1>3, <1>4

LEMMA ScriptStmtLone ==
  ASSUME LoneInv, NEW c \in Migrators, ScriptStmt(c)
  PROVE  LoneStep(c)
<1>1. /\ TypeOK /\ CallInv(c) /\ c \in Conn /\ db \in Pages /\ View(c) \in Pages
  BY LoneFacts
<1>2. pc[c] = "script"
  BY DEF ScriptStmt
<1>3. newVersion[c] \in 1..MaxVersion /\ stmt[c] \in 1..ScriptLen
  BY <1>1, <1>2, MigrationAssumption DEF CallInv, Due, TypeOK, Version
<1>4. Ran(View(c), newVersion[c], stmt[c]) \in Pages
  BY <1>1, <1>3, StatementTypes
<1>5. CASE /\ Write(c, Ran(View(c), newVersion[c], stmt[c]))
           /\ pc' = [pc EXCEPT ![c] = FirstOf(stmt[c] + 1)]
           /\ newVersion' = newVersion
  <2>1. pc'[c] \in {"script", "update"}
    BY <1>1, <1>5 DEF FirstOf, TypeOK
  <2> QED
    BY <1>2, <1>4, <1>5, <2>1, InTransactionLone
<1>6. CASE WriteFails(c) /\ Goto(c, "rollback")
  BY <1>2, <1>6, InTransactionLone
<1> QED
  BY <1>5, <1>6 DEF ScriptStmt

LEMMA UpdateVersionLone ==
  ASSUME LoneInv, NEW c \in Migrators, UpdateVersion(c)
  PROVE  LoneStep(c)
<1>1. /\ TypeOK /\ c \in Conn /\ View(c) \in Pages
  BY LoneFacts
<1>2. pc[c] = "update" /\ newVersion[c] \in Version
  BY <1>1 DEF UpdateVersion, TypeOK
<1>3. WithVersion(View(c), newVersion[c]) \in Pages
  BY <1>1, <1>2, StatementTypes
<1>4. CASE Write(c, WithVersion(View(c), newVersion[c])) /\ Goto(c, "commit")
  <2>1. pc'[c] = "commit" /\ newVersion' = newVersion
    BY <1>1, <1>4 DEF Goto, call, TypeOK
  <2> QED
    BY <1>2, <1>3, <1>4, <2>1, InTransactionLone
<1>5. CASE WriteFails(c) /\ Goto(c, "rollback")
  BY <1>2, <1>5, InTransactionLone
<1> QED
  BY <1>4, <1>5 DEF UpdateVersion

LEMMA CommitLone ==
  ASSUME LoneInv, NEW c \in Migrators, Commit(c)
  PROVE  LoneStep(c)
<1>1. /\ TypeOK /\ LockInv /\ LoneCallInv(c)
      /\ c \in Conn /\ db \in Pages /\ View(c) \in Pages /\ LoneCommit(db, db)
  BY LoneFacts
<1>2. pc[c] = "commit" /\ newVersion[c] = VersionOf(db) + 1
  BY <1>1 DEF Commit, LoneCallInv
<1>3. newVersion[c] \in 1..MaxVersion /\ Migrates(db, View(c), newVersion[c])
  BY <1>1, <1>2, CommitMigrates DEF LoneInv
<1>4. LoneCommit(db, View(c))
  <2>1. DOMAIN View(c).rows = DOMAIN db.rows
    BY <1>3 DEF Migrates
  <2>2. Len(View(c).rows) = Len(db.rows)
    BY <1>1, <2>1 DEF Pages
  <2>3. VersionOf(db) < MaxVersion
    BY <1>1, <1>2, <1>3, VersionType, MigrationAssumption DEF Version
  <2> QED
    BY <1>2, <1>3, <2>2, <2>3 DEF LoneCommit, LoneInv
<1>5. pc'[c] \notin {"insert", "begin", "script", "update", "commit"}
  BY <1>1, EndedOrGone DEF Commit, CommitFailed
<1>6. CASE CommitTx(c)
  <2>1. db' = View(c) /\ View(c)' = db'
    BY <1>1, <1>6, CommitTxStep
  <2>2. LoneCommit(View(c), View(c))
    BY <1>1, <1>4, NoLoneCommit DEF LoneCommit
  <2> QED
    BY <1>4, <1>5, <2>1, <2>2 DEF LoneStep, LoneCallInv
<1>7. CASE CommitBusy(c) \/ RollbackTx(c)
  <2>1. db' = db /\ View(c)' \in {View(c), db}
    BY <1>1, <1>7, CommitBusyStep, RollbackTxStep
  <2> QED
    BY <1>1, <1>4, <1>5, <2>1 DEF LoneStep, LoneCallInv
<1> QED
  BY <1>6, <1>7 DEF Commit

LEMMA RollbackLone ==
  ASSUME LoneInv, NEW c \in Migrators, Rollback(c)
  PROVE  LoneStep(c)
<1>1. /\ TypeOK /\ LockInv /\ c \in Conn /\ (autoCommit[c] => View(c) = db)
  BY LoneFacts
<1>2. pc'[c] \notin {"insert", "begin", "script", "update", "commit"}
  BY <1>1, EndedOrGone DEF Rollback
<1>3. db' = db /\ View(c)' = db
  <2>1. CASE RollbackTx(c)
    BY <1>1, <2>1, RollbackTxStep
  <2>2. CASE autoCommit[c] /\ UNCHANGED file
    BY <1>1, <2>2, FileUnchanged DEF file
  <2> QED
    BY <2>1, <2>2 DEF Rollback
<1> QED
  BY <1>2, <1>3, LoneNoCommit

LEMMA CallLone ==
  ASSUME LoneInv, NEW c \in Migrators, NEW v \in Version, Call(c, v)
  PROVE  LoneStep(c)
<1>1. TypeOK /\ LockInv /\ c \in Conn
  BY LoneFacts
<1>2. UNCHANGED file /\ pc[c] = "idle" /\ pc'[c] = "create"
  BY <1>1 DEF Call, TypeOK
<1>3. View(c)' = View(c) /\ db' = db
  BY <1>1, <1>2, FileUnchanged DEF file
<1> QED
  BY <1>2, <1>3, LoneNoCommit DEF Migrating

-----------------------------------------------------------------------------
(* The steps of the users *)

LEMMA UserCommits ==
  ASSUME LoneInv, NEW c \in Conn, UserStep(c)
  PROVE  /\ pc'[c] \in {"idle", "closed"}
         /\ \/ db' = db /\ View(c)' = db
            \/ /\ pc[c] \in {"idle", "closed"}
               /\ \/ db' = db /\ View(c)' = View(c)
                  \/ db' = View(c) /\ View(c)' = View(c)
<1>1. TypeOK /\ LockInv /\ View(c) \in Pages
  BY ViewType DEF LoneInv, IInv
<1>2. CASE Open(c)
  BY <1>1, <1>2, FileUnchanged DEF Open, Goto, file, TypeOK
<1>3. CASE Disconnect(c) /\ Vanishes(c)
  BY <1>1, <1>3, DisconnectStep DEF Vanishes, TypeOK
<1>4. CASE UserBegin(c)
  BY <1>1, <1>4, BeginTxStep DEF UserBegin
<1>5. CASE UserCommit(c)
  BY <1>1, <1>5, CommitTxStep, CommitBusyStep DEF UserCommit
<1>6. CASE UserRollback(c)
  BY <1>1, <1>6, RollbackTxStep DEF UserRollback
<1>7. CASE UserWrite(c)
  <2>1. Write(c, View(c)) /\ pc[c] = "idle" /\ pc' = pc
    BY <1>7 DEF UserWrite
  <2>2. View(c)' = View(c) /\ db' \in {db, View(c)}
    BY <1>1, <2>1, WriteStep DEF TypeOK
  <2> QED
    BY <2>1, <2>2
<1>8. CASE OpenCursor(c)
  <2>1. cursor' \in [Conn -> BOOLEAN] /\ \A o \in Conn \ {c} : cursor'[o] = cursor[o]
    BY <1>1, <1>8 DEF OpenCursor, TypeOK
  <2> QED
    BY <1>1, <1>8, <2>1, ReadStartsStep DEF OpenCursor
<1>9. CASE CloseCursor(c)
  <2>1. db' = db /\ cache' = cache
        /\ lock' = [lock EXCEPT ![c] = IF autoCommit[c] THEN "none" ELSE @]
    BY <1>9 DEF CloseCursor
  <2>2. View(c)' = View(c)
    BY <1>1, <2>1 DEF Writer, View, LockInv, TypeOK
  <2> QED
    BY <1>9, <2>1, <2>2 DEF CloseCursor
<1> QED
  BY <1>2, <1>3, <1>4, <1>5, <1>6, <1>7, <1>8, <1>9 DEF UserStep, Close, Crash

LEMMA UserLone ==
  ASSUME LoneInv, NEW c \in Conn, UserStep(c)
  PROVE  LoneStep(c)
<1>1. db \in Pages /\ LoneCommit(db, db) /\ View(c) \in Pages
  BY NoLoneCommit, ViewType DEF LoneInv, IInv, TypeOK
<1>2. /\ pc'[c] \in {"idle", "closed"}
      /\ \/ db' = db /\ View(c)' = db
         \/ /\ pc[c] \in {"idle", "closed"}
            /\ \/ db' = db /\ View(c)' = View(c)
               \/ db' = View(c) /\ View(c)' = View(c)
  BY UserCommits
<1>3. CASE c \notin Migrators
  <2>1. View(c) = db
    BY <1>3 DEF LoneInv
  <2> QED
    BY <1>1, <1>2, <1>3, <2>1 DEF LoneStep
<1>4. CASE c \in Migrators
  <2>1. pc[c] \in {"idle", "closed"} => LoneCommit(db, View(c))
    BY <1>4 DEF LoneInv, LoneCallInv, Migrating
  <2>2. LoneCommit(db, View(c)) => LoneCommit(View(c), View(c))
    BY <1>1, NoLoneCommit DEF LoneCommit
  <2> QED
    BY <1>1, <1>2, <1>4, <2>1, <2>2 DEF LoneStep, LoneCallInv
<1> QED
  BY <1>3, <1>4

-----------------------------------------------------------------------------
(* The theorems *)

LEMMA NextLone ==
  ASSUME LoneInv, Next
  PROVE  \E c \in Conn : StepOK(c) /\ LoneStep(c)
<1>1. ASSUME NEW c \in Migrators, GetSchemaVersionStep(c)
      PROVE  c \in Conn /\ StepOK(c) /\ LoneStep(c)
  BY <1>1, MigrationAssumption, CreateTableStep, SelectVersionStep, FetchVersionStep,
     InsertZeroStep, CreateTableLone, SelectVersionLone, FetchVersionLone, InsertZeroLone
  DEF GetSchemaVersionStep, LoneInv
<1>2. ASSUME NEW c \in Migrators, MigrateSchemaStep(c)
      PROVE  c \in Conn /\ StepOK(c) /\ LoneStep(c)
  BY <1>2, MigrationAssumption, BeginStep, ScriptStmtStep, UpdateVersionStep, CommitStep,
     RollbackStep, BeginLone, ScriptStmtLone, UpdateVersionLone, CommitLone, RollbackLone
  DEF MigrateSchemaStep, LoneInv
<1>3. ASSUME NEW c \in Migrators, NEW v \in Version, Call(c, v)
      PROVE  c \in Conn /\ StepOK(c) /\ LoneStep(c)
  BY <1>3, MigrationAssumption, CallStart, CallLone DEF LoneInv
<1>4. ASSUME NEW c \in Conn, UserStep(c)
      PROVE  StepOK(c) /\ LoneStep(c)
  BY <1>4, UserStepOK, UserLone DEF LoneInv
<1> QED
  BY <1>1, <1>2, <1>3, <1>4 DEF Next, CallStep

LEMMA InitLone == Init => LoneInv /\ History!Init
<1> SUFFICES ASSUME Init PROVE LoneInv /\ History!Init
  OBVIOUS
<1> USE MigrationAssumption
<1>1. IInv
  BY InitInv
<1>2. db.runs = NoRuns /\ (db.rows = <<>> \/ db.rows = <<NoVersion>>)
  <2>1. \/ db = [exists |-> FALSE, rows |-> <<>>, runs |-> NoRuns]
        \/ db = [exists |-> TRUE, rows |-> <<NoVersion>>, runs |-> NoRuns]
    BY DEF Init, InitialPages
  <2> QED
    BY <2>1
<1>3. VersionOf(db) = 0 /\ Len(db.rows) <= 1
  <2>1. CASE db.rows = <<>>
    BY <2>1 DEF VersionOf
  <2>2. CASE db.rows = <<NoVersion>>
    <3>1. db.rows[1] = NoVersion /\ Len(db.rows) = 1
      BY <2>2
    <3> QED
      BY <3>1 DEF VersionOf
  <2> QED
    BY <1>2, <2>1, <2>2
<1>4. RunOnce(db)
  BY <1>2, <1>3 DEF RunOnce, NoRuns
<1>5. ASSUME NEW c \in Conn
      PROVE  View(c) = db /\ pc[c] = "closed"
  BY DEF Init, View, Writer
<1>6. db \in Pages
  BY <1>1 DEF IInv, TypeOK
<1>7. \A c \in Migrators : LoneCallInv(c)
  BY <1>3, <1>5, <1>6, NoLoneCommit DEF LoneCallInv
<1> QED
  BY <1>1, <1>2, <1>3, <1>4, <1>5, <1>7 DEF LoneInv, History!Init, NoRuns

LEMMA NextKeepsLone ==
  ASSUME Alone, LoneInv, [Next]_vars
  PROVE  LoneInv' /\ [History!Migrate]_<<VersionOf(db), db.runs>>
<1>1. CASE Next
  BY <1>1, NextLone, LoneStepKeeps
<1>2. CASE UNCHANGED vars
  <2>1. IInv'
    BY <1>2, StutterKeeps DEF LoneInv
  <2>2. db' = db /\ pc' = pc /\ autoCommit' = autoCommit /\ newVersion' = newVersion
        /\ cache' = cache /\ lock' = lock
    BY <1>2 DEF vars, file, call
  <2>3. \A c \in Conn : View(c)' = View(c)
    BY <2>2 DEF View, Writer
  <2>4. \A c \in Migrators : LoneCallInv(c)'
    BY <2>2, <2>3, MigrationAssumption DEF LoneInv, LoneCallInv
  <2> QED
    BY <2>1, <2>2, <2>3, <2>4 DEF LoneInv
<1> QED
  BY <1>1, <1>2

(* With one connection migrating, what it has read of the version is still *)
(* true of the file when it writes, and nobody else prepares a commit to   *)
(* the schema.                                                             *)
THEOREM LoneInvariance == Alone => (Spec => []LoneInv)
<1> SUFFICES ASSUME Alone PROVE Spec => []LoneInv
  OBVIOUS
<1>1. Init => LoneInv
  BY InitLone
<1>2. LoneInv /\ [Next]_vars => LoneInv'
  BY NextKeepsLone
<1> QED
  BY <1>1, <1>2, PTL DEF Spec

(* With one connection migrating, the file goes through the versions one   *)
(* by one and each script runs exactly once, whatever the users of this    *)
(* and the other connections do, and wherever a call fails or dies.        *)
THEOREM ImplementsHistory == Alone => (Spec => OneByOne)
<1> SUFFICES ASSUME Alone PROVE Spec => OneByOne
  OBVIOUS
<1>1. Init => LoneInv /\ History!Init
  BY InitLone
<1>2. LoneInv /\ [Next]_vars => LoneInv' /\ [History!Migrate]_<<VersionOf(db), db.runs>>
  BY NextKeepsLone
<1> QED
  BY <1>1, <1>2, PTL DEF Spec, OneByOne, History!Spec
=============================================================================
