------------------------ MODULE SchemaMigrationProofs ------------------------
(***************************************************************************)
(* Proofs that SchemaMigration keeps IInv, and what follows from it.       *)
(***************************************************************************)
EXTENDS SchemaMigrationInv, TLAPS

-----------------------------------------------------------------------------
(* The content of the file *)

LEMMA CountRunType ==
  ASSUME NEW n \in 0..MaxRuns
  PROVE  CountRun(n) \in 0..MaxRuns /\ CountRun(n) >= 1 /\ CountRun(n) >= n
  BY MigrationAssumption DEF CountRun

(* The statements of the functions lead from one content to another. *)
LEMMA StatementTypes ==
  ASSUME NEW p \in Pages
  PROVE  /\ WithTable(p) \in Pages
         /\ WithRow(p) \in Pages
         /\ \A v \in Version : WithVersion(p, v) \in Pages
         /\ \A v \in 1..MaxVersion, i \in 1..ScriptLen : Ran(p, v, i) \in Pages
<1> USE MigrationAssumption DEF Pages
<1>1. WithTable(p) \in Pages
  BY DEF WithTable
<1>2. WithRow(p) \in Pages
  BY DEF WithRow, RowVersion, Version
<1>3. ASSUME NEW v \in Version PROVE WithVersion(p, v) \in Pages
  BY <1>3 DEF WithVersion, RowVersion
<1>4. ASSUME NEW v \in 1..MaxVersion, NEW i \in 1..ScriptLen
      PROVE  Ran(p, v, i) \in Pages
  <2> DEFINE script == [p.runs[v] EXCEPT ![i] = CountRun(@)]
             runs == [p.runs EXCEPT ![v] = script]
  <2>1. p.runs \in Runs /\ p.runs[v] \in [1..ScriptLen -> 0..MaxRuns]
    BY <1>4 DEF Runs
  <2>2. script \in [1..ScriptLen -> 0..MaxRuns]
    BY <1>4, <2>1, CountRunType
  <2>3. runs \in Runs
    BY <1>4, <2>1, <2>2 DEF Runs
  <2>4. Ran(p, v, i) = [p EXCEPT !.runs = runs]
    BY DEF Ran
  <2> QED
    BY <2>3, <2>4
<1> QED
  BY <1>1, <1>2, <1>3, <1>4

(* No statement, and a statement that does nothing to the version table,   *)
(* are commits of the first kind.                                          *)
LEMMA NothingCommitted ==
  ASSUME NEW p \in Pages
  PROVE  Initializes(p, p) /\ CommitOK(p, p) /\ LeftInTx(p, p)
  BY DEF Initializes, CommitOK, LeftInTx

(* CommitOK takes a file whose version rows are justified to another such  *)
(* file, and nothing that a call in progress relies on is undone.          *)
LEMMA CommitKeeps ==
  ASSUME db \in Pages, db' \in Pages, FileInv, CommitOK(db, db')
  PROVE  /\ FileInv'
         /\ \A v \in 1..MaxVersion : Applied(db, v) => Applied(db', v)
         /\ NoNull(db) => NoNull(db')
         /\ db.rows # <<>> => db'.rows # <<>>
<1> USE MigrationAssumption
<1>1. CASE Initializes(db, db')
  <2>1. CASE db'.rows = db.rows
    BY <1>1, <2>1 DEF Initializes, FileInv, ScriptsAtomic, VersionJustified,
                      Applied, NoNull, Pages
  <2>2. CASE db'.rows = Append(db.rows, 0) /\ NoNull(db)
    <3>1. /\ DOMAIN db'.rows = 1..(Len(db.rows) + 1)
          /\ DOMAIN db.rows = 1..Len(db.rows)
          /\ Len(db.rows) \in Nat
          /\ \A k \in 1..Len(db.rows) : db'.rows[k] = db.rows[k]
          /\ db'.rows[Len(db.rows) + 1] = 0
      BY <2>2 DEF Pages, RowVersion, Version
    <3>2. db'.runs = db.runs
      BY <1>1 DEF Initializes
    <3>3. NoNull(db') /\ db'.rows # <<>>
      <4>1. 0 # NoVersion
        OBVIOUS
      <4>2. \A k \in 1..(Len(db.rows) + 1) : k = Len(db.rows) + 1 \/ k \in 1..Len(db.rows)
        BY <3>1
      <4>3. NoNull(db')
        BY <2>2, <3>1, <4>1, <4>2 DEF NoNull
      <4> QED
        BY <2>2, <4>3 DEF Pages
    <3>4. VersionJustified'
      BY <3>1, <3>2 DEF FileInv, VersionJustified, Applied
    <3> QED
      BY <3>2, <3>3, <3>4 DEF FileInv, ScriptsAtomic, Applied
  <2> QED
    BY <1>1, <2>1, <2>2 DEF Initializes
<1>2. ASSUME NEW w \in 1..MaxVersion, Migrates(db, db', w)
      PROVE  /\ FileInv'
             /\ \A v \in 1..MaxVersion : Applied(db, v) => Applied(db', v)
             /\ NoNull(db) => NoNull(db')
             /\ db.rows # <<>> => db'.rows # <<>>
  <2>1. /\ DOMAIN db'.rows = DOMAIN db.rows
        /\ \A k \in DOMAIN db.rows : db'.rows[k] = w
        /\ db'.rows # <<>>
    BY <1>2 DEF Migrates, Pages
  <2>2. ASSUME NEW v \in 1..MaxVersion, NEW i \in 1..ScriptLen
        PROVE  /\ db.runs[v][i] \in 0..MaxRuns
               /\ db'.runs[v][i] = IF v = w THEN CountRun(db.runs[v][i])
                                            ELSE db.runs[v][i]
    BY <1>2, <2>2 DEF Migrates, Pages, Runs
  <2>3. \A v \in 1..MaxVersion : Applied(db, v) => Applied(db', v)
    BY <2>2, CountRunType DEF Applied
  <2>4. Applied(db', w)
    BY <2>2, CountRunType DEF Applied
  <2>5. ScriptsAtomic'
    BY <2>2 DEF FileInv, ScriptsAtomic
  <2>6. \A v \in 1..w : Applied(db', v)
    BY <1>2, <2>3, <2>4 DEF Migrates
  <2>7. VersionJustified' /\ NoNull(db')
    BY <2>1, <2>6 DEF VersionJustified, NoNull
  <2> QED
    BY <2>1, <2>3, <2>5, <2>7 DEF FileInv
<1> QED
  BY <1>1, <1>2 DEF CommitOK

-----------------------------------------------------------------------------
(* One step of the engine *)

FileTypes ==
  /\ db \in Pages
  /\ lock \in [Conn -> LockLevel]
  /\ autoCommit \in [Conn -> BOOLEAN]
  /\ cache \in [Conn -> Pages \cup {NoPages}]
  /\ cursor \in [Conn -> BOOLEAN]

(* A step of c on the file leaves the other connections as they are,       *)
(* changes the committed content only when they hold no lock, and makes c  *)
(* a writer only in a transaction and only when they are not.              *)
FileStep(c) ==
  /\ FileTypes'
  /\ \A o \in Conn \ {c} :
       /\ lock'[o] = lock[o]
       /\ autoCommit'[o] = autoCommit[o]
       /\ cache'[o] = cache[o]
       /\ cursor'[o] = cursor[o]
  /\ db' # db => \A o \in Conn \ {c} : ~Writer(o)
  /\ Writer(c)' => /\ Writer(c) \/ CanReserve(c)
                   /\ ~autoCommit'[c]
                   /\ cache'[c] \in Pages

(* c holds no lock without a statement or a transaction. *)
Resting(c) == autoCommit[c] => lock[c] = RestLock(c)

LEMMA ViewType ==
  ASSUME TypeOK, LockInv, NEW c \in Conn
  PROVE  View(c) \in Pages
  BY DEF TypeOK, LockInv, View

LEMMA FileUnchanged ==
  ASSUME TypeOK, LockInv, NEW c \in Conn, UNCHANGED file
  PROVE  /\ FileStep(c)
         /\ View(c)' = View(c)
         /\ Resting(c) => Resting(c)'
  BY DEF FileStep, FileTypes, TypeOK, LockInv, file, View, Writer, Resting, RestLock

LEMMA WriteStep ==
  ASSUME TypeOK, LockInv, NEW c \in Conn, NEW p \in Pages, Write(c, p)
  PROVE  /\ FileStep(c)
         /\ View(c)' = p
         /\ autoCommit'[c] = autoCommit[c]
         /\ Resting(c) => Resting(c)'
         /\ autoCommit[c] => db' = p
         /\ ~autoCommit[c] => db' = db /\ Writer(c)'
<1>1. CASE autoCommit[c]
  <2>1. ~Writer(c) /\ ~Writer(c)' /\ db' = p /\ UNCHANGED <<lock, autoCommit, cache, cursor>>
    BY <1>1 DEF Write, LockInv, Writer
  <2> QED
    BY <1>1, <2>1 DEF Write, FileStep, FileTypes, TypeOK, CanReserve, View, Writer, Resting, RestLock
<1>2. CASE ~autoCommit[c]
  BY <1>2 DEF Write, FileStep, FileTypes, TypeOK, LockLevel, CanReserve, View, Writer, Resting
<1> QED
  BY <1>1, <1>2 DEF TypeOK

LEMMA ReadStartsStep ==
  ASSUME TypeOK, LockInv, NEW c \in Conn, ReadStarts(c), cursor' \in [Conn -> BOOLEAN],
         \A o \in Conn \ {c} : cursor'[o] = cursor[o]
  PROVE  FileStep(c) /\ View(c)' = View(c) /\ UNCHANGED <<db, autoCommit>>
  BY DEF ReadStarts, FileStep, FileTypes, TypeOK, LockInv, LockLevel, View, Writer

LEMMA ReadEndsStep ==
  ASSUME TypeOK, LockInv, NEW c \in Conn, ReadEnds(c)
  PROVE  FileStep(c) /\ View(c)' = View(c) /\ UNCHANGED <<db, autoCommit>> /\ Resting(c)'
  BY DEF ReadEnds, FileStep, FileTypes, TypeOK, LockInv, LockLevel, View, Writer, Resting, RestLock

LEMMA ReadWholeStep ==
  ASSUME TypeOK, LockInv, NEW c \in Conn, ReadWhole(c)
  PROVE  /\ FileStep(c) /\ View(c)' = View(c) /\ UNCHANGED <<db, autoCommit>>
         /\ Resting(c) => Resting(c)'
  BY DEF ReadWhole, FileStep, FileTypes, TypeOK, LockInv, LockLevel, View, Writer, Resting, RestLock

LEMMA RollbackTxStep ==
  ASSUME TypeOK, LockInv, NEW c \in Conn, RollbackTx(c)
  PROVE  /\ FileStep(c) /\ View(c)' = db' /\ db' = db
         /\ autoCommit'[c] /\ Resting(c)'
  BY DEF RollbackTx, EndTx, FileStep, FileTypes, TypeOK, LockInv, LockLevel, View, Writer, Resting, RestLock

LEMMA CommitTxStep ==
  ASSUME TypeOK, LockInv, NEW c \in Conn, CommitTx(c)
  PROVE  /\ FileStep(c) /\ View(c)' = db' /\ db' = View(c)
         /\ autoCommit'[c] /\ Resting(c)'
<1>1. View(c) \in Pages
  BY ViewType
<1>2. db' # db => \A o \in Conn \ {c} : ~Writer(o)
  BY DEF CommitTx, View, CanExclude, Writer
<1>3. /\ autoCommit' = [autoCommit EXCEPT ![c] = TRUE]
      /\ lock'  = [lock EXCEPT ![c] = RestLock(c)]
      /\ cache' = [cache EXCEPT ![c] = NoPages]
      /\ cursor' = cursor /\ db' = View(c)
  BY DEF CommitTx, EndTx
<1>4. RestLock(c) \in {"none", "shared"}
  BY DEF RestLock
<1>5. ~Writer(c)'
  BY <1>3, <1>4 DEF Writer, TypeOK
<1>6. View(c)' = db'
  BY <1>5 DEF View
<1> QED
  BY <1>1, <1>2, <1>3, <1>4, <1>5, <1>6
  DEF FileStep, FileTypes, TypeOK, LockLevel, Resting, RestLock

LEMMA CommitBusyStep ==
  ASSUME TypeOK, LockInv, NEW c \in Conn, CommitBusy(c)
  PROVE  /\ FileStep(c) /\ View(c)' = View(c) /\ UNCHANGED <<db, autoCommit>>
         /\ ~autoCommit[c] /\ Writer(c)'
  BY DEF CommitBusy, FileStep, FileTypes, TypeOK, LockInv, LockLevel, View, Writer

LEMMA BeginTxStep ==
  ASSUME TypeOK, LockInv, NEW c \in Conn, BeginTx(c)
  PROVE  /\ FileStep(c) /\ View(c)' = View(c) /\ db' = db
         /\ autoCommit[c] /\ ~autoCommit'[c] /\ View(c) = db
  BY DEF BeginTx, FileStep, FileTypes, TypeOK, LockInv, View, Writer

LEMMA DisconnectStep ==
  ASSUME TypeOK, LockInv, NEW c \in Conn, Disconnect(c)
  PROVE  /\ FileStep(c) /\ View(c)' = db' /\ db' = db /\ Resting(c)'
  BY DEF Disconnect, FileStep, FileTypes, TypeOK, LockInv, LockLevel, View, Writer, Resting, RestLock

(* A failed statement leaves the connection with what it saw before, or    *)
(* without a transaction.                                                  *)
LEMMA ReadFailsStep ==
  ASSUME TypeOK, LockInv, NEW c \in Conn, ReadFails(c)
  PROVE  /\ FileStep(c) /\ db' = db
         /\ View(c)' \in {View(c), db}
         /\ autoCommit'[c] = autoCommit[c] \/ autoCommit'[c]
         /\ Resting(c) => Resting(c)'
  BY FileUnchanged, RollbackTxStep DEF ReadFails, file

LEMMA WriteFailsStep ==
  ASSUME TypeOK, LockInv, NEW c \in Conn, WriteFails(c)
  PROVE  /\ FileStep(c) /\ db' = db
         /\ View(c)' \in {View(c), db}
         /\ autoCommit'[c] = autoCommit[c] \/ autoCommit'[c]
         /\ Resting(c) => Resting(c)'
<1>1. CASE UNCHANGED file
  BY <1>1, FileUnchanged DEF file
<1>2. CASE ~autoCommit[c] /\ Write(c, View(c))
  BY <1>2, ViewType, WriteStep
<1>3. CASE RollbackTx(c)
  BY <1>3, RollbackTxStep
<1> QED
  BY <1>1, <1>2, <1>3 DEF WriteFails

-----------------------------------------------------------------------------
(* One step of a connection, and the rest of the system                    *)

CallTypes ==
  /\ pc \in [Conn -> Calling \cup {"closed", "idle"}]
  /\ newVersion \in [Conn -> Version]
  /\ stmt \in [Conn -> 1..(ScriptLen + 1)]
  /\ inTx \in [Conn -> BOOLEAN]
  /\ outcome \in [Conn -> {"none", "returned", "threw", "uncommitted"}]

LocalStep(c) ==
  /\ CallTypes'
  /\ \A o \in Conn \ {c} :
       /\ pc'[o] = pc[o]
       /\ newVersion'[o] = newVersion[o]
       /\ stmt'[o] = stmt[o]
       /\ inTx'[o] = inTx[o]
       /\ outcome'[o] = outcome[o]

Returned(c) ==
  outcome[c] = "returned" /\ (RollbackOnFailedCommit \/ ~inTx[c]) =>
    \A v \in 1..newVersion[c] : Applied(db, v)

LeftClean(c) ==
  outcome[c] \in {"returned", "threw"} /\ ~inTx[c] =>
    autoCommit[c] /\ lock[c] = RestLock(c)

(* What the proof of each action establishes about the connection that     *)
(* takes it.                                                               *)
StepOK(c) ==
  /\ FileStep(c)
  /\ LocalStep(c)
  /\ CommitOK(db, db')
  /\ pc'[c] # "fetch" => Resting(c)'
  /\ CallInv(c)'
  /\ Returned(c)'
  /\ LeftClean(c)'

(* The other connections keep their part of the invariant. *)
LEMMA StepKeeps ==
  ASSUME IInv, NEW c \in Conn, StepOK(c)
  PROVE  IInv'
<1> USE MigrationAssumption
<1>1. TypeOK'
  BY DEF StepOK, FileStep, FileTypes, LocalStep, CallTypes, TypeOK
<1>2. /\ FileInv'
      /\ \A v \in 1..MaxVersion : Applied(db, v) => Applied(db', v)
      /\ NoNull(db) => NoNull(db')
      /\ db.rows # <<>> => db'.rows # <<>>
  BY <1>1, CommitKeeps DEF StepOK, IInv, TypeOK
<1>3. LockInv'
  <2>1. ASSUME NEW o \in Conn \ {c}
        PROVE  /\ Writer(o)' = Writer(o)
               /\ autoCommit'[o] = autoCommit[o]
               /\ cache'[o] = cache[o]
               /\ RestLock(o)' = RestLock(o)
               /\ lock'[o] = lock[o]
               /\ pc'[o] = pc[o]
    BY <2>1 DEF StepOK, FileStep, LocalStep, Writer, RestLock
  <2>2. ASSUME NEW o \in Conn
        PROVE  Writer(o)' => ~autoCommit'[o] /\ cache'[o] \in Pages
    BY <2>1, <2>2 DEF StepOK, FileStep, IInv, LockInv
  <2>3. ASSUME NEW o \in Conn, NEW q \in Conn, Writer(o)', Writer(q)'
        PROVE  q = o
    <3>1. CASE o # c /\ q # c
      BY <2>1, <2>3, <3>1 DEF IInv, LockInv
    <3>2. CASE o = c /\ q # c
      BY <2>1, <2>3, <3>2 DEF StepOK, FileStep, CanReserve, IInv, LockInv
    <3>3. CASE o # c /\ q = c
      BY <2>1, <2>3, <3>3 DEF StepOK, FileStep, CanReserve, IInv, LockInv
    <3> QED
      BY <3>1, <3>2, <3>3
  <2>4. ASSUME NEW o \in Conn, autoCommit'[o], pc'[o] # "fetch"
        PROVE  lock'[o] = RestLock(o)'
    <3>1. CASE o = c
      BY <2>4, <3>1 DEF StepOK, Resting
    <3>2. CASE o # c
      BY <2>1, <2>4, <3>2 DEF IInv, LockInv
    <3> QED
      BY <3>1, <3>2
  <2> QED
    BY <2>2, <2>3, <2>4 DEF LockInv
<1>4. ASSUME NEW o \in Conn \ {c}
      PROVE  CallInv(o)' /\ Returned(o)' /\ LeftClean(o)'
  <2>1. /\ pc'[o] = pc[o] /\ newVersion'[o] = newVersion[o] /\ stmt'[o] = stmt[o]
        /\ inTx'[o] = inTx[o] /\ outcome'[o] = outcome[o]
        /\ lock'[o] = lock[o] /\ autoCommit'[o] = autoCommit[o] /\ cache'[o] = cache[o]
        /\ cursor'[o] = cursor[o] /\ (Writer(o)' <=> Writer(o))
        /\ RestLock(o)' = RestLock(o)
    BY <1>4 DEF StepOK, FileStep, LocalStep, Writer, RestLock
  <2>2. newVersion[o] \in Version
    BY <1>4 DEF IInv, TypeOK
  <2>3. CallInv(o) /\ Returned(o) /\ LeftClean(o)
    BY <1>4 DEF IInv, ReturnMeansApplied, Returned, NothingLeftOpen, LeftClean
  <2>4. LeftClean(o)'
    BY <2>1, <2>3 DEF LeftClean
  <2>5. Returned(o)'
    BY <1>2, <2>1, <2>2, <2>3 DEF Returned, Version
  <2>6. CASE db' = db
    <3>1. View(o)' = View(o)
      BY <2>1, <2>6 DEF View
    <3> QED
      BY <2>1, <2>3, <2>4, <2>5, <2>6, <3>1 DEF CallInv
  <2>7. CASE db' # db
    <3>1. ~Writer(o) /\ View(o) = db /\ View(o)' = db'
      BY <1>4, <2>1, <2>7 DEF StepOK, FileStep, View
    <3>2. LeftInTx(db', View(o)')
      BY <1>1, <3>1, NothingCommitted DEF TypeOK
    <3>3. Due(db, newVersion[o]) => Due(db', newVersion[o])
      BY <1>2, <2>2 DEF Due, Version
    <3>4. AheadBy(db', View(o)', newVersion[o], 0)
      BY <3>1 DEF AheadBy
    <3>5. stmt[o] \in 1..(ScriptLen + 1)
      BY <1>4 DEF IInv, TypeOK
    <3> QED
      BY <1>2, <2>1, <2>3, <2>4, <2>5, <3>1, <3>2, <3>3, <3>4, <3>5 DEF CallInv
  <2> QED
    BY <2>6, <2>7
<1> QED
  BY <1>1, <1>2, <1>3, <1>4
  DEF StepOK, IInv, ReturnMeansApplied, Returned, NothingLeftOpen, LeftClean

-----------------------------------------------------------------------------
(* Control of the connection that takes the step                           *)

LEMMA GotoStep ==
  ASSUME TypeOK, NEW c \in Conn, NEW l \in Calling \cup {"closed", "idle"}, Goto(c, l)
  PROVE  /\ LocalStep(c) /\ pc'[c] = l
         /\ newVersion'[c] = newVersion[c] /\ stmt'[c] = stmt[c]
         /\ inTx'[c] = inTx[c] /\ outcome'[c] = outcome[c]
  BY DEF TypeOK, Goto, LocalStep, CallTypes, call

LEMMA EndsStep ==
  ASSUME TypeOK, NEW c \in Conn, NEW o \in {"returned", "threw", "uncommitted"}, Ends(c, o)
  PROVE  /\ LocalStep(c) /\ pc'[c] = "idle"
         /\ newVersion'[c] = newVersion[c] /\ stmt'[c] = 1
         /\ inTx'[c] = inTx[c] /\ outcome'[c] = o
  BY MigrationAssumption DEF TypeOK, Ends, LocalStep, CallTypes

LEMMA ForgetsStep ==
  ASSUME TypeOK, NEW c \in Conn, Forgets(c), UNCHANGED pc
  PROVE  /\ LocalStep(c) /\ pc'[c] = pc[c]
         /\ stmt'[c] = stmt[c] /\ outcome'[c] = "none"
  BY MigrationAssumption DEF TypeOK, Forgets, LocalStep, CallTypes, Version

LEMMA VanishesStep ==
  ASSUME TypeOK, NEW c \in Conn, Vanishes(c)
  PROVE  LocalStep(c) /\ pc'[c] = "closed" /\ stmt'[c] = 1 /\ outcome'[c] = "none"
  BY MigrationAssumption DEF TypeOK, Vanishes, LocalStep, CallTypes, Version

LEMMA LeftCommits ==
  ASSUME NEW p, NEW q, LeftInTx(p, q)
  PROVE  CommitOK(p, q)
  BY DEF LeftInTx, CommitOK

(* A connection outside a call, after a step on the file. *)
LEMMA IdleCallInv ==
  ASSUME NEW c \in Conn, pc'[c] \in {"idle", "closed"}, stmt'[c] = 1,
         LeftInTx(db', View(c)')
  PROVE  CallInv(c)'
  BY DEF CallInv, Calling, ReadingVersion, Migrating

(* A call that throws without having changed the committed file. *)
LEMMA ThrowsStep ==
  ASSUME IInv, NEW c \in Conn, FileStep(c), db' = db, Ends(c, "threw"),
         LeftInTx(db, View(c)'), Resting(c)', inTx[c] \/ autoCommit'[c]
  PROVE  StepOK(c)
<1>1. TypeOK
  BY DEF IInv
<1>2. LocalStep(c) /\ pc'[c] = "idle" /\ stmt'[c] = 1 /\ inTx'[c] = inTx[c] /\ outcome'[c] = "threw"
  BY <1>1, EndsStep
<1>3. CallInv(c)'
  BY <1>2, IdleCallInv
<1>4. CommitOK(db, db')
  BY <1>1, NothingCommitted DEF TypeOK
<1>5. Returned(c)' /\ LeftClean(c)'
  BY <1>2 DEF Returned, LeftClean, Resting
<1> QED
  BY <1>2, <1>3, <1>4, <1>5 DEF StepOK

(* While the version is read, the two ways a statement may fail.           *)
LEMMA ReadingThrows ==
  ASSUME IInv, NEW c \in Conn, pc[c] \in ReadingVersion \ {"fetch"},
         ReadFails(c) \/ WriteFails(c), Ends(c, "threw")
  PROVE  StepOK(c)
<1>1. TypeOK /\ LockInv /\ CallInv(c)
  BY DEF IInv
<1>2. Resting(c) /\ LeftInTx(db, View(c)) /\ (inTx[c] \/ autoCommit[c])
  BY <1>1 DEF LockInv, CallInv, Resting, ReadingVersion, Migrating, TypeOK
<1>3. /\ FileStep(c) /\ db' = db /\ View(c)' \in {View(c), db} /\ Resting(c)'
      /\ autoCommit'[c] = autoCommit[c] \/ autoCommit'[c]
  BY <1>1, <1>2, ReadFailsStep, WriteFailsStep
<1>4. LeftInTx(db, db)
  BY <1>1, NothingCommitted DEF TypeOK
<1> QED
  BY <1>2, <1>3, <1>4, ThrowsStep

(* The statements that prepare the version table add nothing that may not  *)
(* be committed.                                                           *)
LEMMA TableLeft ==
  ASSUME NEW p \in Pages, NEW q \in Pages, LeftInTx(p, q)
  PROVE  LeftInTx(p, WithTable(q))
<1>1. WithTable(q).exists /\ WithTable(q).rows = q.rows /\ WithTable(q).runs = q.runs
  BY DEF WithTable, Pages
<1> QED
  BY <1>1 DEF LeftInTx, Initializes, CommitOK, Migrates

LEMMA EmptyRows ==
  ASSUME NEW p \in Pages, NEW q \in Pages, LeftInTx(p, q), q.rows = <<>>
  PROVE  p.rows = <<>> /\ Initializes(p, q)
<1>1. \A v \in 1..MaxVersion : ~Migrates(p, q, v)
  BY DEF Migrates, Pages
<1> QED
  BY <1>1 DEF LeftInTx, Initializes, CommitOK, Pages, RowVersion, Version

LEMMA RowLeft ==
  ASSUME NEW p \in Pages, NEW q \in Pages, NoNull(p), q.rows = p.rows,
         Initializes(p, q)
  PROVE  Initializes(p, WithRow(q)) /\ LeftInTx(p, WithRow(q))
<1>1. /\ WithRow(q).exists = q.exists
      /\ WithRow(q).rows = Append(q.rows, 0)
      /\ WithRow(q).runs = q.runs
  BY DEF WithRow, Pages
<1> QED
  BY <1>1 DEF LeftInTx, Initializes, CommitOK

-----------------------------------------------------------------------------
(* The actions of getSchemaVersion *)

LEMMA CallStart ==
  ASSUME IInv, NEW c \in Conn, NEW v \in Version, Call(c, v)
  PROVE  StepOK(c)
<1>1. TypeOK /\ LockInv /\ CallInv(c)
  BY DEF IInv
<1>2. UNCHANGED file /\ db' = db /\ autoCommit' = autoCommit
  BY DEF Call, file
<1>3. FileStep(c) /\ View(c)' = View(c) /\ Resting(c)'
  BY <1>1, <1>2, FileUnchanged DEF Call, LockInv, Resting
<1>4. /\ LocalStep(c) /\ pc'[c] = "create" /\ outcome'[c] = "none"
      /\ inTx'[c] = ~autoCommit[c] /\ stmt'[c] = stmt[c]
  BY <1>1 DEF Call, TypeOK, LocalStep, CallTypes, Calling
<1>5. stmt[c] = 1 /\ LeftInTx(db, View(c))
  BY <1>1 DEF CallInv, Call, Migrating
<1>6. CallInv(c)'
  BY <1>2, <1>3, <1>4, <1>5 DEF CallInv, Calling, ReadingVersion, Migrating
<1>7. CommitOK(db, db')
  BY <1>1, <1>2, NothingCommitted DEF TypeOK
<1> QED
  BY <1>3, <1>4, <1>6, <1>7 DEF StepOK, Returned, LeftClean

LEMMA CreateTableStep ==
  ASSUME IInv, NEW c \in Conn, CreateTable(c)
  PROVE  StepOK(c)
<1>1. TypeOK /\ LockInv /\ CallInv(c) /\ View(c) \in Pages /\ db \in Pages
  BY ViewType DEF IInv, TypeOK
<1>2. pc[c] = "create" /\ Resting(c)
  BY <1>1 DEF CreateTable, LockInv, Resting
<1>3. /\ outcome[c] = "none" /\ inTx[c] = ~autoCommit[c] /\ stmt[c] = 1
      /\ LeftInTx(db, View(c))
  BY <1>1, <1>2 DEF CallInv, Calling, ReadingVersion, Migrating
<1>4. ASSUME Goto(c, "select"), FileStep(c), Resting(c)', CommitOK(db, db'),
             autoCommit'[c] = autoCommit[c], LeftInTx(db', View(c)')
      PROVE  StepOK(c)
  <2>1. /\ LocalStep(c) /\ pc'[c] = "select" /\ stmt'[c] = 1
        /\ inTx'[c] = inTx[c] /\ outcome'[c] = "none"
    BY <1>1, <1>3, <1>4, GotoStep DEF Calling
  <2>2. CallInv(c)'
    BY <1>3, <1>4, <2>1 DEF CallInv, Calling, ReadingVersion, Migrating
  <2> QED
    BY <1>4, <2>1, <2>2 DEF StepOK, Returned, LeftClean
<1>5. CASE ReadWhole(c) /\ Goto(c, "select")
  BY <1>1, <1>2, <1>3, <1>4, <1>5, ReadWholeStep, NothingCommitted
<1>6. CASE Write(c, WithTable(View(c))) /\ Goto(c, "select")
  <2>1. WithTable(View(c)) \in Pages
    BY <1>1, StatementTypes
  <2>2. /\ FileStep(c) /\ View(c)' = WithTable(View(c)) /\ autoCommit'[c] = autoCommit[c]
        /\ Resting(c)'
        /\ autoCommit[c] => db' = WithTable(View(c))
        /\ ~autoCommit[c] => db' = db
    BY <1>1, <1>2, <1>6, <2>1, WriteStep
  <2>3. LeftInTx(db, WithTable(View(c)))
    BY <1>1, <1>3, TableLeft
  <2>4. CASE autoCommit[c]
    BY <1>4, <1>6, <2>1, <2>2, <2>3, <2>4, LeftCommits, NothingCommitted
  <2>5. CASE ~autoCommit[c]
    BY <1>1, <1>4, <1>6, <2>2, <2>3, <2>5, NothingCommitted
  <2> QED
    BY <2>4, <2>5
<1>7. CASE (ReadFails(c) \/ WriteFails(c)) /\ Ends(c, "threw")
  BY <1>2, <1>7, ReadingThrows DEF ReadingVersion
<1> QED
  BY <1>5, <1>6, <1>7 DEF CreateTable

LEMMA SelectVersionStep ==
  ASSUME IInv, NEW c \in Conn, SelectVersion(c)
  PROVE  StepOK(c)
<1>1. TypeOK /\ LockInv /\ CallInv(c) /\ View(c) \in Pages /\ db \in Pages
  BY ViewType DEF IInv, TypeOK
<1>2. pc[c] = "select" /\ Resting(c)
  BY <1>1 DEF SelectVersion, LockInv, Resting
<1>3. /\ outcome[c] = "none" /\ inTx[c] = ~autoCommit[c] /\ stmt[c] = 1
      /\ LeftInTx(db, View(c))
  BY <1>1, <1>2 DEF CallInv, Calling, ReadingVersion, Migrating
<1>4. CASE View(c).rows = <<>> /\ ReadWhole(c) /\ Goto(c, "insert")
  <2>1. /\ LocalStep(c) /\ pc'[c] = "insert" /\ stmt'[c] = 1
        /\ inTx'[c] = inTx[c] /\ outcome'[c] = "none"
    BY <1>1, <1>3, <1>4, GotoStep DEF Calling
  <2>2. /\ FileStep(c) /\ View(c)' = View(c) /\ db' = db
        /\ autoCommit' = autoCommit /\ Resting(c)'
    BY <1>1, <1>2, <1>4, ReadWholeStep
  <2>3. db.rows = <<>>
    BY <1>1, <1>3, <1>4, EmptyRows
  <2>4. NoNull(db)
    BY <2>3 DEF NoNull
  <2>5. Writer(c)' => cache'[c].rows = <<>>
    BY <1>4, <2>2 DEF View
  <2>6. CallInv(c)'
    BY <1>3, <2>1, <2>2, <2>4, <2>5 DEF CallInv, Calling, ReadingVersion, Migrating
  <2> QED
    BY <1>1, <2>1, <2>2, <2>6, NothingCommitted DEF StepOK, Returned, LeftClean
<1>5. CASE ReadStarts(c) /\ UNCHANGED cursor /\ Goto(c, "fetch")
  <2>1. /\ LocalStep(c) /\ pc'[c] = "fetch" /\ stmt'[c] = 1
        /\ inTx'[c] = inTx[c] /\ outcome'[c] = "none"
    BY <1>1, <1>3, <1>5, GotoStep DEF Calling
  <2>2. cursor' \in [Conn -> BOOLEAN] /\ cursor' = cursor
    BY <1>1, <1>5 DEF TypeOK
  <2>3. FileStep(c) /\ View(c)' = View(c) /\ db' = db /\ autoCommit' = autoCommit
    BY <1>1, <1>5, <2>2, ReadStartsStep
  <2>4. CallInv(c)'
    BY <1>3, <2>1, <2>3 DEF CallInv, Calling, ReadingVersion, Migrating
  <2> QED
    BY <1>1, <2>1, <2>3, <2>4, NothingCommitted DEF StepOK, Returned, LeftClean
<1>6. CASE ReadFails(c) /\ Ends(c, "threw")
  BY <1>2, <1>6, ReadingThrows DEF ReadingVersion
<1> QED
  BY <1>4, <1>5, <1>6 DEF SelectVersion

(* Both ways to learn the version end in the same decision. *)
LEMMA DecideStep ==
  ASSUME IInv, NEW c \in Conn, NEW version \in Version, Decide(c, version),
         pc[c] \in ReadingVersion,
         FileStep(c), CommitOK(db, db'), Resting(c)', LeftInTx(db', View(c)'),
         autoCommit'[c] = autoCommit[c],
         RollbackOnFailedCommit \/ ~inTx[c] => \A u \in 1..version : Applied(db', u),
         autoCommit[c] => db'.rows # <<>> /\ NoNull(db')
  PROVE  StepOK(c)
<1>1. TypeOK /\ CallInv(c)
  BY DEF IInv
<1>2. /\ outcome[c] = "none" /\ inTx[c] = ~autoCommit[c] /\ stmt[c] = 1
      /\ newVersion[c] \in Version
  BY <1>1 DEF CallInv, Calling, ReadingVersion, Migrating, TypeOK
<1>3. CASE newVersion[c] <= version /\ Ends(c, "returned")
  <2>1. /\ LocalStep(c) /\ pc'[c] = "idle" /\ stmt'[c] = 1 /\ inTx'[c] = inTx[c]
        /\ outcome'[c] = "returned" /\ newVersion'[c] = newVersion[c]
    BY <1>1, <1>3, EndsStep
  <2>2. Returned(c)'
    BY <1>2, <1>3, <2>1, MigrationAssumption DEF Returned, Version
  <2>3. LeftClean(c)'
    BY <1>2, <2>1 DEF LeftClean, Resting
  <2> QED
    BY <2>1, <2>2, <2>3, IdleCallInv DEF StepOK
<1>4. CASE newVersion[c] > version + 1 /\ Ends(c, "threw")
  <2>1. /\ LocalStep(c) /\ pc'[c] = "idle" /\ stmt'[c] = 1 /\ inTx'[c] = inTx[c]
        /\ outcome'[c] = "threw"
    BY <1>1, <1>4, EndsStep
  <2> QED
    BY <1>2, <2>1, IdleCallInv DEF StepOK, Returned, LeftClean, Resting
<1>5. CASE /\ newVersion[c] = version + 1
           /\ pc' = [pc EXCEPT ![c] = "begin"]
           /\ UNCHANGED <<newVersion, stmt, inTx, outcome>>
  <2>1. LocalStep(c) /\ pc'[c] = "begin"
    BY <1>1, <1>5 DEF LocalStep, CallTypes, TypeOK, Calling
  <2>2. autoCommit[c] => Due(db', newVersion[c])
    <3>1. autoCommit[c] => ~inTx[c]
      BY <1>1, <1>2 DEF TypeOK
    <3>2. newVersion[c] >= 1 /\ newVersion[c] - 1 = version
      BY <1>2, <1>5, MigrationAssumption DEF Version
    <3> QED
      BY <3>1, <3>2 DEF Due
  <2>3. newVersion[c] >= 1
    BY <1>2, <1>5 DEF Version
  <2>4. CallInv(c)'
    BY <1>2, <1>5, <2>1, <2>2, <2>3 DEF CallInv, Calling, ReadingVersion, Migrating
  <2> QED
    BY <1>2, <1>5, <2>1, <2>4 DEF StepOK, Returned, LeftClean
<1> QED
  BY <1>3, <1>4, <1>5 DEF Decide

(* The row that a call can act on is justified by the committed file, even *)
(* when it is read inside a transaction that is then rolled back.          *)
LEMMA RowRead ==
  ASSUME IInv, NEW c \in Conn, pc[c] = "fetch", Len(View(c).rows) >= 1,
         View(c).rows[1] # NoVersion
  PROVE  /\ View(c).rows[1] \in Version
         /\ RollbackOnFailedCommit \/ ~inTx[c] =>
              \A u \in 1..View(c).rows[1] : Applied(db, u)
         /\ autoCommit[c] => db.rows # <<>> /\ NoNull(db)
<1>1. TypeOK /\ LockInv /\ CallInv(c) /\ FileInv /\ View(c) \in Pages /\ db \in Pages
  BY ViewType DEF IInv, TypeOK
<1>2. inTx[c] = ~autoCommit[c] /\ LeftInTx(db, View(c))
  BY <1>1 DEF CallInv, ReadingVersion, Migrating
<1>3. View(c).rows[1] \in Version /\ 1 \in DOMAIN View(c).rows
  BY <1>1 DEF Pages, RowVersion
<1>4. \A u \in 1..View(c).rows[1] : View(c).rows = db.rows => Applied(db, u)
  BY <1>1, <1>3 DEF FileInv, VersionJustified
<1>5. autoCommit[c] => View(c) = db
  BY <1>1 DEF LockInv, View
<1>6. CASE autoCommit[c]
  <2>1. NoNull(db)
    BY <1>1, <1>3, <1>5, <1>6 DEF FileInv, NoNull, Pages
  <2> QED
    BY <1>1, <1>3, <1>4, <1>5, <1>6, <2>1 DEF Pages
<1>7. CASE ~autoCommit[c] /\ RollbackOnFailedCommit
  <2>1. View(c).rows = db.rows \/ View(c).rows = Append(db.rows, 0)
    BY <1>2, <1>7 DEF LeftInTx, Initializes
  <2>2. CASE View(c).rows = Append(db.rows, 0) /\ db.rows # <<>>
    <3>1. 1 \in DOMAIN db.rows /\ View(c).rows[1] = db.rows[1]
      BY <1>1, <2>2 DEF Pages
    <3> QED
      BY <1>1, <1>3, <1>7, <3>1 DEF FileInv, VersionJustified
  <2>3. CASE View(c).rows = Append(db.rows, 0) /\ db.rows = <<>>
    BY <1>3, <1>7, <2>3
  <2> QED
    BY <1>3, <1>4, <1>7, <2>1, <2>2, <2>3
<1>8. CASE ~autoCommit[c] /\ ~RollbackOnFailedCommit
  BY <1>1, <1>2, <1>3, <1>8 DEF TypeOK
<1> QED
  BY <1>1, <1>6, <1>7, <1>8 DEF TypeOK

LEMMA FetchVersionStep ==
  ASSUME IInv, NEW c \in Conn, FetchVersion(c)
  PROVE  StepOK(c)
<1>1. TypeOK /\ LockInv /\ CallInv(c) /\ View(c) \in Pages /\ db \in Pages
  BY ViewType DEF IInv, TypeOK
<1>2. pc[c] = "fetch" /\ ReadEnds(c)
  BY DEF FetchVersion
<1>3. /\ FileStep(c) /\ View(c)' = View(c) /\ db' = db /\ autoCommit' = autoCommit
      /\ Resting(c)'
  BY <1>1, <1>2, ReadEndsStep
<1>4. inTx[c] = ~autoCommit[c] /\ LeftInTx(db, View(c))
  BY <1>1, <1>2 DEF CallInv, ReadingVersion, Migrating
<1>5. CASE Ends(c, "threw")
  BY <1>1, <1>3, <1>4, <1>5, ThrowsStep DEF TypeOK
<1>6. CASE /\ Len(View(c).rows) >= 1
           /\ View(c).rows[1] # NoVersion
           /\ Decide(c, View(c).rows[1])
  <2>1. CommitOK(db, db')
    BY <1>1, <1>3, NothingCommitted
  <2> QED
    BY <1>2, <1>3, <1>4, <1>6, <2>1, RowRead, DecideStep DEF ReadingVersion
<1>7. Len(View(c).rows) \in Nat
  BY <1>1 DEF Pages
<1> QED
  BY <1>5, <1>6, <1>7 DEF FetchVersion

LEMMA InsertZeroStep ==
  ASSUME IInv, NEW c \in Conn, InsertZero(c)
  PROVE  StepOK(c)
<1>1. TypeOK /\ LockInv /\ CallInv(c) /\ View(c) \in Pages /\ db \in Pages /\ FileInv
  BY ViewType DEF IInv, TypeOK
<1>2. pc[c] = "insert" /\ Resting(c)
  BY <1>1 DEF InsertZero, LockInv, Resting
<1>3. /\ LeftInTx(db, View(c)) /\ NoNull(db)
      /\ Writer(c) => cache[c].rows = <<>>
  BY <1>1, <1>2 DEF CallInv, Migrating
<1>4. View(c).rows = db.rows /\ Initializes(db, View(c))
  <2>1. CASE Writer(c)
    BY <1>1, <1>3, <2>1, EmptyRows DEF View
  <2>2. CASE ~Writer(c)
    BY <1>1, <2>2, NothingCommitted DEF View
  <2> QED
    BY <2>1, <2>2
<1>5. WithRow(View(c)) \in Pages
  BY <1>1, StatementTypes
<1>6. Initializes(db, WithRow(View(c))) /\ LeftInTx(db, WithRow(View(c)))
  BY <1>1, <1>3, <1>4, RowLeft
<1>7. CASE Write(c, WithRow(View(c))) /\ Decide(c, 0)
  <2>1. /\ FileStep(c) /\ View(c)' = WithRow(View(c))
        /\ autoCommit'[c] = autoCommit[c] /\ Resting(c)'
        /\ autoCommit[c] => db' = WithRow(View(c))
        /\ ~autoCommit[c] => db' = db
    BY <1>1, <1>2, <1>5, <1>7, WriteStep
  <2>2. CommitOK(db, db') /\ LeftInTx(db', View(c)') /\ db' \in Pages
    BY <1>1, <1>5, <1>6, <2>1, LeftCommits, NothingCommitted
  <2>3. autoCommit[c] => db'.rows # <<>> /\ NoNull(db')
    <3>1. NoNull(db')
      BY <1>1, <1>3, <2>2, CommitKeeps
    <3>2. WithRow(View(c)).rows # <<>>
      BY <1>1 DEF WithRow, Pages, RowVersion, Version
    <3> QED
      BY <2>1, <3>1, <3>2
  <2>4. 0 \in Version
    BY MigrationAssumption DEF Version
  <2>5. RollbackOnFailedCommit \/ ~inTx[c] => \A u \in 1..0 : Applied(db', u)
    OBVIOUS
  <2> QED
    BY <1>2, <1>7, <2>1, <2>2, <2>3, <2>4, <2>5, DecideStep DEF ReadingVersion
<1>8. CASE WriteFails(c) /\ Ends(c, "threw")
  BY <1>2, <1>8, ReadingThrows DEF ReadingVersion
<1> QED
  BY <1>7, <1>8 DEF InsertZero

-----------------------------------------------------------------------------
(* The actions of migrateSchema *)

LEMMA BeginStep ==
  ASSUME IInv, NEW c \in Conn, Begin(c)
  PROVE  StepOK(c)
<1>1. TypeOK /\ LockInv /\ CallInv(c) /\ db \in Pages
  BY DEF IInv, TypeOK
<1>2. pc[c] = "begin" /\ Resting(c)
  BY <1>1 DEF Begin, LockInv, Resting
<1>3. /\ outcome[c] = "none" /\ inTx[c] = ~autoCommit[c] /\ stmt[c] = 1
      /\ LeftInTx(db, View(c))
      /\ autoCommit[c] => Due(db, newVersion[c])
  BY <1>1, <1>2 DEF CallInv, Calling, ReadingVersion, Migrating
<1>4. CASE BeginTx(c) /\ Goto(c, FirstOf(1))
  <2>1. /\ FileStep(c) /\ View(c)' = db /\ db' = db
        /\ autoCommit[c] /\ ~autoCommit'[c]
    BY <1>1, <1>4, BeginTxStep
  <2>2. FirstOf(1) = IF ScriptLen >= 1 THEN "script" ELSE "update"
    BY MigrationAssumption DEF FirstOf
  <2>3. /\ LocalStep(c) /\ pc'[c] = FirstOf(1) /\ stmt'[c] = 1
        /\ outcome'[c] = "none" /\ newVersion'[c] = newVersion[c]
    BY <1>1, <1>3, <1>4, <2>2, GotoStep DEF Calling
  <2>4. AheadBy(db, db, newVersion[c], 0)
    BY DEF AheadBy
  <2>5. CallInv(c)'
    <3>1. CASE ScriptLen >= 1
      BY <1>3, <2>1, <2>2, <2>3, <2>4, <3>1 DEF CallInv, Calling, ReadingVersion, Migrating
    <3>2. CASE ScriptLen = 0
      BY <1>3, <2>1, <2>2, <2>3, <2>4, <3>2 DEF CallInv, Calling, ReadingVersion, Migrating
    <3> QED
      BY <3>1, <3>2, MigrationAssumption
  <2> QED
    BY <1>1, <2>1, <2>3, <2>5, NothingCommitted DEF StepOK, Returned, LeftClean, Resting
<1>5. CASE ~autoCommit[c] /\ UNCHANGED file /\ Ends(c, "threw")
  <2>1. FileStep(c) /\ View(c)' = View(c) /\ db' = db /\ Resting(c)'
    BY <1>1, <1>2, <1>5, FileUnchanged DEF file
  <2> QED
    BY <1>3, <1>5, <2>1, ThrowsStep
<1> QED
  BY <1>4, <1>5 DEF Begin

(* A statement that fails inside the Transaction leads to ~Transaction.    *)
LEMMA RollsBackStep ==
  ASSUME IInv, NEW c \in Conn, FileStep(c), db' = db, Goto(c, "rollback"),
         outcome[c] = "none", autoCommit'[c] => Resting(c)'
  PROVE  StepOK(c)
<1>1. TypeOK
  BY DEF IInv
<1>2. LocalStep(c) /\ pc'[c] = "rollback" /\ outcome'[c] = "none"
  BY <1>1, GotoStep DEF Calling
<1>3. CallInv(c)'
  BY <1>2 DEF CallInv, ReadingVersion, Migrating
<1>4. Resting(c)'
  BY DEF Resting
<1> QED
  BY <1>1, <1>2, <1>3, <1>4, NothingCommitted DEF StepOK, Returned, LeftClean, TypeOK

LEMMA WriteFailsInTx ==
  ASSUME IInv, NEW c \in Conn, pc[c] \in {"script", "update"}, WriteFails(c),
         Goto(c, "rollback")
  PROVE  StepOK(c)
<1>1. TypeOK /\ LockInv /\ CallInv(c)
  BY DEF IInv
<1>2. outcome[c] = "none" /\ Resting(c)
  BY <1>1 DEF CallInv, Calling, LockInv, Resting
<1> QED
  BY <1>1, <1>2, WriteFailsStep, RollsBackStep

LEMMA OneCountChanged ==
  ASSUME NEW r \in Runs, NEW v \in 1..MaxVersion, NEW s \in 1..ScriptLen, NEW n,
         NEW u \in 1..MaxVersion, NEW i \in 1..ScriptLen
  PROVE  [r EXCEPT ![v] = [r[v] EXCEPT ![s] = n]][u][i] =
           IF u = v /\ i = s THEN n ELSE r[u][i]
<1>1. r[v] \in [1..ScriptLen -> 0..MaxRuns] /\ DOMAIN r = 1..MaxVersion
  BY DEF Runs
<1>2. CASE u = v
  BY <1>1, <1>2
<1>3. CASE u # v
  BY <1>1, <1>3
<1> QED
  BY <1>2, <1>3

LEMMA ScriptStmtStep ==
  ASSUME IInv, NEW c \in Conn, ScriptStmt(c)
  PROVE  StepOK(c)
<1> USE MigrationAssumption
<1>1. TypeOK /\ LockInv /\ CallInv(c) /\ View(c) \in Pages /\ db \in Pages
  BY ViewType DEF IInv, TypeOK
<1>2. pc[c] = "script"
  BY DEF ScriptStmt
<1>3. /\ outcome[c] = "none" /\ ~autoCommit[c] /\ Due(db, newVersion[c])
      /\ stmt[c] \in 1..ScriptLen /\ newVersion[c] \in 1..MaxVersion
      /\ View(c).rows = db.rows
      /\ AheadBy(db, View(c), newVersion[c], stmt[c] - 1)
  BY <1>1, <1>2 DEF CallInv, Calling, TypeOK, Due, Version
<1>4. ASSUME Write(c, Ran(View(c), newVersion[c], stmt[c])),
             pc' = [pc EXCEPT ![c] = FirstOf(stmt[c] + 1)],
             stmt' = [stmt EXCEPT ![c] = @ + 1],
             UNCHANGED <<newVersion, inTx, outcome>>
      PROVE  StepOK(c)
  <2> DEFINE after == Ran(View(c), newVersion[c], stmt[c])
  <2>1. after \in Pages
    BY <1>1, <1>3, StatementTypes
  <2>2. FileStep(c) /\ View(c)' = after /\ ~autoCommit'[c] /\ db' = db /\ Writer(c)'
    BY <1>1, <1>3, <1>4, <2>1, WriteStep
  <2>3. /\ pc'[c] = IF stmt[c] + 1 <= ScriptLen THEN "script" ELSE "update"
        /\ stmt'[c] = stmt[c] + 1 /\ newVersion'[c] = newVersion[c]
        /\ outcome'[c] = "none"
    BY <1>1, <1>3, <1>4 DEF TypeOK, FirstOf
  <2>4. LocalStep(c)
    BY <1>1, <1>3, <1>4 DEF TypeOK, LocalStep, CallTypes, FirstOf, Calling
  <2>5. after.rows = db.rows /\ after.exists = View(c).exists
    BY <1>1, <1>3 DEF Ran, Pages
  <2>6. AheadBy(db, after, newVersion[c], stmt[c])
    <3>1. /\ View(c).runs \in Runs
          /\ after.runs = [View(c).runs EXCEPT ![newVersion[c]] =
                             [View(c).runs[newVersion[c]] EXCEPT ![stmt[c]] =
                                CountRun(View(c).runs[newVersion[c]][stmt[c]])]]
      BY <1>1 DEF Ran, Pages
    <3>2. ASSUME NEW u \in 1..MaxVersion, NEW i \in 1..ScriptLen
          PROVE  after.runs[u][i] = IF u = newVersion[c] /\ i = stmt[c]
                                      THEN CountRun(View(c).runs[u][i])
                                      ELSE View(c).runs[u][i]
      BY <1>3, <3>1, <3>2, OneCountChanged
    <3> QED
      BY <1>3, <2>5, <3>2 DEF AheadBy
  <2>7. CallInv(c)'
    <3>1. CASE stmt[c] + 1 <= ScriptLen
      BY <1>3, <2>2, <2>3, <2>5, <2>6, <3>1 DEF CallInv, Calling, ReadingVersion, Migrating
    <3>2. CASE stmt[c] = ScriptLen
      BY <1>3, <2>2, <2>3, <2>5, <2>6, <3>2 DEF CallInv, Calling, ReadingVersion, Migrating
    <3> QED
      BY <1>3, <3>1, <3>2
  <2>8. CommitOK(db, db') /\ Resting(c)'
    BY <1>1, <2>2, NothingCommitted DEF Resting
  <2> QED
    BY <2>2, <2>3, <2>4, <2>7, <2>8 DEF StepOK, Returned, LeftClean
<1>5. CASE WriteFails(c) /\ Goto(c, "rollback")
  BY <1>2, <1>5, WriteFailsInTx
<1> QED
  BY <1>4, <1>5 DEF ScriptStmt

LEMMA UpdateVersionStep ==
  ASSUME IInv, NEW c \in Conn, UpdateVersion(c)
  PROVE  StepOK(c)
<1>1. TypeOK /\ LockInv /\ CallInv(c) /\ View(c) \in Pages /\ db \in Pages
  BY ViewType DEF IInv, TypeOK
<1>2. pc[c] = "update"
  BY DEF UpdateVersion
<1>3. /\ outcome[c] = "none" /\ ~autoCommit[c] /\ Due(db, newVersion[c])
      /\ newVersion[c] \in Version
      /\ View(c).rows = db.rows
      /\ AheadBy(db, View(c), newVersion[c], ScriptLen)
  BY <1>1, <1>2 DEF CallInv, Calling, TypeOK
<1>4. CASE Write(c, WithVersion(View(c), newVersion[c])) /\ Goto(c, "commit")
  <2> DEFINE after == WithVersion(View(c), newVersion[c])
  <2>1. after \in Pages
    BY <1>1, <1>3, StatementTypes
  <2>2. FileStep(c) /\ View(c)' = after /\ ~autoCommit'[c] /\ db' = db /\ Writer(c)'
    BY <1>1, <1>3, <1>4, <2>1, WriteStep
  <2>3. /\ LocalStep(c) /\ pc'[c] = "commit" /\ newVersion'[c] = newVersion[c]
        /\ outcome'[c] = "none"
    BY <1>1, <1>3, <1>4, GotoStep DEF Calling
  <2>4. /\ after.rows = [k \in DOMAIN db.rows |-> newVersion[c]]
        /\ after.exists = View(c).exists /\ after.runs = View(c).runs
    BY <1>1, <1>3 DEF WithVersion, Pages
  <2>5. AheadBy(db, after, newVersion[c], ScriptLen)
    BY <1>3, <2>4 DEF AheadBy
  <2>6. CallInv(c)'
    BY <1>3, <2>2, <2>3, <2>4, <2>5 DEF CallInv, Calling, ReadingVersion, Migrating
  <2> QED
    BY <1>1, <2>2, <2>3, <2>6, NothingCommitted DEF StepOK, Returned, LeftClean, Resting
<1>5. CASE WriteFails(c) /\ Goto(c, "rollback")
  BY <1>2, <1>5, WriteFailsInTx
<1> QED
  BY <1>4, <1>5 DEF UpdateVersion

(* The content that COMMIT is to make permanent is that of one migration.  *)
LEMMA CommitMigrates ==
  ASSUME IInv, NEW c \in Conn, pc[c] = "commit"
  PROVE  /\ newVersion[c] \in 1..MaxVersion
         /\ Migrates(db, View(c), newVersion[c])
         /\ \A u \in 1..newVersion[c] : Applied(View(c), u)
<1> USE MigrationAssumption
<1>1. TypeOK /\ LockInv /\ CallInv(c) /\ View(c) \in Pages /\ db \in Pages
  BY ViewType DEF IInv, TypeOK
<1>2. /\ Due(db, newVersion[c]) /\ newVersion[c] \in 1..MaxVersion
      /\ View(c).rows = [k \in DOMAIN db.rows |-> newVersion[c]]
      /\ AheadBy(db, View(c), newVersion[c], ScriptLen)
  BY <1>1 DEF CallInv, TypeOK, Due, Version
<1>3. View(c).runs \in Runs /\ db.runs \in Runs
  BY <1>1 DEF Pages
<1> DEFINE v == newVersion[c]
           script == [i \in 1..ScriptLen |-> CountRun(db.runs[v][i])]
<1>4. View(c).runs[v] = script
  <2>1. View(c).runs[v] \in [1..ScriptLen -> 0..MaxRuns]
    BY <1>2, <1>3 DEF Runs
  <2>2. \A i \in 1..ScriptLen : View(c).runs[v][i] = CountRun(db.runs[v][i])
    BY <1>2 DEF AheadBy
  <2> QED
    BY <2>1, <2>2
<1>5. ASSUME NEW u \in 1..MaxVersion, u # v
      PROVE  View(c).runs[u] = db.runs[u]
  <2>1. /\ View(c).runs[u] \in [1..ScriptLen -> 0..MaxRuns]
        /\ db.runs[u] \in [1..ScriptLen -> 0..MaxRuns]
    BY <1>3 DEF Runs
  <2>2. \A i \in 1..ScriptLen : View(c).runs[u][i] = db.runs[u][i]
    BY <1>2, <1>5 DEF AheadBy
  <2>3. /\ View(c).runs[u] = [i \in 1..ScriptLen |-> View(c).runs[u][i]]
        /\ db.runs[u] = [i \in 1..ScriptLen |-> db.runs[u][i]]
    BY <2>1
  <2> QED
    BY <2>2, <2>3
<1>6. View(c).runs = [db.runs EXCEPT ![v] = script]
  <2>1. \A u \in 1..MaxVersion : View(c).runs[u] = [db.runs EXCEPT ![v] = script][u]
    BY <1>2, <1>3, <1>4, <1>5 DEF Runs
  <2>2. /\ View(c).runs = [u \in 1..MaxVersion |-> View(c).runs[u]]
        /\ [db.runs EXCEPT ![v] = script] =
             [u \in 1..MaxVersion |-> [db.runs EXCEPT ![v] = script][u]]
    BY <1>3 DEF Runs
  <2> QED
    BY <2>1, <2>2
<1>7. Migrates(db, View(c), v)
  BY <1>2, <1>6 DEF Migrates, Due, AheadBy
<1>8. ASSUME NEW u \in 1..v PROVE Applied(View(c), u)
  <2>1. CASE u = v
    <3>1. \A i \in 1..ScriptLen : db.runs[v][i] \in 0..MaxRuns
      BY <1>2, <1>3 DEF Runs
    <3> QED
      BY <1>4, <2>1, <3>1, CountRunType DEF Applied
  <2>2. CASE u # v
    <3>1. u \in 1..(v - 1) /\ u \in 1..MaxVersion
      BY <1>2, <1>8, <2>2
    <3> QED
      BY <1>2, <1>5, <2>2, <3>1 DEF Applied, Due
  <2> QED
    BY <2>1, <2>2
<1> QED
  BY <1>2, <1>7, <1>8

LEMMA CommitStep ==
  ASSUME IInv, NEW c \in Conn, Commit(c)
  PROVE  StepOK(c)
<1>1. TypeOK /\ LockInv /\ CallInv(c) /\ View(c) \in Pages /\ db \in Pages
  BY ViewType DEF IInv, TypeOK
<1>2. pc[c] = "commit" /\ outcome[c] = "none"
  BY <1>1 DEF Commit, CallInv, Calling
<1>3. /\ CommitOK(db, View(c))
      /\ \A u \in 1..newVersion[c] : Applied(View(c), u)
  BY <1>2, CommitMigrates DEF CommitOK
<1>4. CASE CommitTx(c) /\ Ends(c, "returned")
  <2>1. /\ FileStep(c) /\ View(c)' = db' /\ db' = View(c)
        /\ autoCommit'[c] /\ Resting(c)'
    BY <1>1, <1>4, CommitTxStep
  <2>2. /\ LocalStep(c) /\ pc'[c] = "idle" /\ stmt'[c] = 1
        /\ newVersion'[c] = newVersion[c] /\ outcome'[c] = "returned"
    BY <1>1, <1>4, EndsStep
  <2>3. CallInv(c)'
    BY <1>1, <2>1, <2>2, IdleCallInv, NothingCommitted
  <2>4. Returned(c)' /\ LeftClean(c)'
    BY <1>3, <2>1, <2>2 DEF Returned, LeftClean, Resting
  <2> QED
    BY <1>3, <2>1, <2>2, <2>3, <2>4 DEF StepOK
<1>5. ASSUME FileStep(c), db' = db, Resting(c)', CommitFailed(c),
             View(c)' = View(c) \/ View(c)' = db
      PROVE  StepOK(c)
  <2>1. CASE Goto(c, "rollback")
    BY <1>2, <1>5, <2>1, RollsBackStep
  <2>2. CASE ~RollbackOnFailedCommit /\ Ends(c, "uncommitted")
    <3>1. /\ LocalStep(c) /\ pc'[c] = "idle" /\ stmt'[c] = 1
          /\ outcome'[c] = "uncommitted"
      BY <1>1, <2>2, EndsStep
    <3>2. LeftInTx(db', View(c)') /\ CommitOK(db, db')
      BY <1>1, <1>3, <1>5, <2>2, NothingCommitted DEF LeftInTx
    <3> QED
      BY <1>5, <3>1, <3>2, IdleCallInv DEF StepOK, Returned, LeftClean
  <2> QED
    BY <1>5, <2>1, <2>2 DEF CommitFailed
<1>6. CASE CommitBusy(c) /\ CommitFailed(c)
  <2>1. FileStep(c) /\ View(c)' = View(c) /\ db' = db /\ ~autoCommit'[c]
    BY <1>1, <1>6, CommitBusyStep
  <2> QED
    BY <1>5, <1>6, <2>1 DEF Resting
<1>7. CASE RollbackTx(c) /\ CommitFailed(c)
  BY <1>1, <1>5, <1>7, RollbackTxStep
<1> QED
  BY <1>4, <1>6, <1>7 DEF Commit

LEMMA RollbackStep ==
  ASSUME IInv, NEW c \in Conn, Rollback(c)
  PROVE  StepOK(c)
<1>1. TypeOK /\ LockInv /\ db \in Pages /\ pc[c] = "rollback" /\ Ends(c, "threw")
  BY DEF IInv, TypeOK, Rollback
<1>2. CASE ~autoCommit[c] /\ RollbackTx(c)
  BY <1>1, <1>2, RollbackTxStep, ThrowsStep, NothingCommitted
<1>3. CASE autoCommit[c] /\ UNCHANGED file
  <2>1. View(c) = db /\ Resting(c)
    BY <1>1, <1>3 DEF LockInv, View, Resting
  <2>2. FileStep(c) /\ View(c)' = db /\ Resting(c)' /\ db' = db /\ autoCommit'[c]
    BY <1>1, <1>3, <2>1, FileUnchanged DEF file
  <2> QED
    BY <1>1, <2>2, ThrowsStep, NothingCommitted
<1> QED
  BY <1>2, <1>3 DEF Rollback

-----------------------------------------------------------------------------
(* The user's actions *)

(* Outside a call every step of the user forgets the last outcome. *)
LEMMA UserForgets ==
  ASSUME IInv, NEW c \in Conn, pc[c] = "idle", FileStep(c), Resting(c)',
         CommitOK(db, db'), LeftInTx(db', View(c)'), Forgets(c), UNCHANGED pc
  PROVE  StepOK(c)
<1>1. TypeOK /\ CallInv(c)
  BY DEF IInv
<1>2. LocalStep(c) /\ pc'[c] = "idle" /\ stmt'[c] = stmt[c] /\ outcome'[c] = "none"
  BY <1>1, ForgetsStep
<1>3. stmt[c] = 1
  BY <1>1 DEF CallInv, Migrating
<1> QED
  BY <1>2, <1>3, IdleCallInv DEF StepOK, Returned, LeftClean

LEMMA UserStepOK ==
  ASSUME IInv, NEW c \in Conn, UserStep(c)
  PROVE  StepOK(c)
<1>1. TypeOK /\ LockInv /\ CallInv(c) /\ View(c) \in Pages /\ db \in Pages
  BY ViewType DEF IInv, TypeOK
<1>2. ASSUME pc[c] \in {"idle", "closed"}
      PROVE  Resting(c) /\ stmt[c] = 1 /\ LeftInTx(db, View(c))
  BY <1>1, <1>2 DEF LockInv, Resting, CallInv, Migrating
<1>3. LeftInTx(db, db) /\ CommitOK(db, db)
  BY <1>1, NothingCommitted
<1>4. CASE Open(c)
  <2>1. LocalStep(c) /\ pc'[c] = "idle" /\ stmt'[c] = stmt[c] /\ outcome'[c] = outcome[c]
        /\ newVersion'[c] = newVersion[c] /\ inTx'[c] = inTx[c]
    BY <1>1, <1>4, GotoStep DEF Open
  <2>2. /\ FileStep(c) /\ View(c)' = View(c) /\ Resting(c)' /\ db' = db
        /\ autoCommit' = autoCommit /\ lock' = lock /\ cursor' = cursor
    BY <1>1, <1>2, <1>4, FileUnchanged DEF Open, file
  <2>3. CallInv(c)'
    BY <1>2, <1>4, <2>1, <2>2, IdleCallInv DEF Open
  <2>4. Returned(c) /\ LeftClean(c)
    BY DEF IInv, ReturnMeansApplied, Returned, NothingLeftOpen, LeftClean
  <2>5. Returned(c)' /\ LeftClean(c)'
    BY <2>1, <2>2, <2>4 DEF Returned, LeftClean, RestLock
  <2> QED
    BY <1>3, <2>1, <2>2, <2>3, <2>5 DEF StepOK
<1>5. CASE Disconnect(c) /\ Vanishes(c)
  <2>1. FileStep(c) /\ View(c)' = db' /\ db' = db /\ Resting(c)'
    BY <1>1, <1>5, DisconnectStep
  <2>2. LocalStep(c) /\ pc'[c] = "closed" /\ stmt'[c] = 1 /\ outcome'[c] = "none"
    BY <1>1, <1>5, VanishesStep
  <2>3. CallInv(c)'
    BY <1>3, <2>1, <2>2, IdleCallInv
  <2> QED
    BY <1>3, <2>1, <2>2, <2>3 DEF StepOK, Returned, LeftClean
<1>6. CASE UserBegin(c)
  <2>1. FileStep(c) /\ View(c)' = db /\ db' = db /\ ~autoCommit'[c]
    BY <1>1, <1>6, BeginTxStep DEF UserBegin
  <2> QED
    BY <1>3, <1>6, <2>1, UserForgets DEF UserBegin, Resting
<1>7. CASE UserCommit(c)
  <2>1. CASE CommitTx(c)
    <3>1. FileStep(c) /\ View(c)' = db' /\ db' = View(c) /\ Resting(c)'
      BY <1>1, <2>1, CommitTxStep
    <3>2. LeftInTx(db', View(c)') /\ CommitOK(db, db')
      BY <1>1, <1>2, <1>7, <3>1, NothingCommitted, LeftCommits DEF UserCommit
    <3> QED
      BY <1>7, <3>1, <3>2, UserForgets DEF UserCommit
  <2>2. CASE CommitBusy(c)
    <3>1. FileStep(c) /\ View(c)' = View(c) /\ db' = db /\ ~autoCommit'[c]
      BY <1>1, <2>2, CommitBusyStep
    <3> QED
      BY <1>2, <1>3, <1>7, <3>1, UserForgets DEF UserCommit, Resting
  <2> QED
    BY <1>7, <2>1, <2>2 DEF UserCommit
<1>8. CASE UserRollback(c)
  <2>1. FileStep(c) /\ View(c)' = db /\ db' = db /\ Resting(c)'
    BY <1>1, <1>8, RollbackTxStep DEF UserRollback
  <2> QED
    BY <1>3, <1>8, <2>1, UserForgets DEF UserRollback
<1>9. CASE UserWrite(c)
  <2>1. /\ FileStep(c) /\ View(c)' = View(c) /\ Resting(c)'
        /\ autoCommit[c] => db' = View(c)
        /\ ~autoCommit[c] => db' = db
    BY <1>1, <1>2, <1>9, WriteStep DEF UserWrite
  <2>2. autoCommit[c] => View(c) = db
    BY <1>1 DEF LockInv, View
  <2> QED
    BY <1>2, <1>3, <1>9, <2>1, <2>2, UserForgets DEF UserWrite
<1>10. CASE OpenCursor(c)
  <2>1. cursor' \in [Conn -> BOOLEAN] /\ \A o \in Conn \ {c} : cursor'[o] = cursor[o]
    BY <1>1, <1>10 DEF OpenCursor, TypeOK
  <2>2. FileStep(c) /\ View(c)' = View(c) /\ db' = db
    BY <1>1, <1>10, <2>1, ReadStartsStep DEF OpenCursor
  <2>3. Resting(c)'
    BY <1>1, <1>2, <1>10 DEF OpenCursor, ReadStarts, Resting, RestLock, TypeOK
  <2> QED
    BY <1>2, <1>3, <1>10, <2>2, <2>3, UserForgets DEF OpenCursor
<1>11. CASE CloseCursor(c)
  <2>1. /\ db' = db /\ autoCommit' = autoCommit /\ cache' = cache
        /\ lock' = [lock EXCEPT ![c] = IF autoCommit[c] THEN "none" ELSE @]
        /\ cursor' = [cursor EXCEPT ![c] = FALSE]
    BY <1>11 DEF CloseCursor
  <2>2. Writer(c)' = Writer(c) /\ View(c)' = View(c)
    BY <1>1, <2>1 DEF Writer, View, LockInv, TypeOK
  <2>3. FileStep(c) /\ Resting(c)'
    BY <1>1, <2>1, <2>2 DEF FileStep, FileTypes, TypeOK, LockLevel, LockInv, Resting, RestLock
  <2> QED
    BY <1>2, <1>3, <1>11, <2>1, <2>2, <2>3, UserForgets DEF CloseCursor
<1> QED
  BY <1>4, <1>5, <1>6, <1>7, <1>8, <1>9, <1>10, <1>11 DEF UserStep, Close, Crash

-----------------------------------------------------------------------------
(* The theorems *)

LEMMA NextStepOK ==
  ASSUME IInv, Next
  PROVE  \E c \in Conn : StepOK(c)
<1>1. ASSUME NEW c \in Migrators, GetSchemaVersionStep(c)
      PROVE  c \in Conn /\ StepOK(c)
  BY <1>1, MigrationAssumption, CreateTableStep, SelectVersionStep,
     FetchVersionStep, InsertZeroStep DEF GetSchemaVersionStep
<1>2. ASSUME NEW c \in Migrators, MigrateSchemaStep(c)
      PROVE  c \in Conn /\ StepOK(c)
  BY <1>2, MigrationAssumption, BeginStep, ScriptStmtStep, UpdateVersionStep,
     CommitStep, RollbackStep DEF MigrateSchemaStep
<1>3. ASSUME NEW c \in Migrators, NEW v \in Version, Call(c, v)
      PROVE  c \in Conn /\ StepOK(c)
  BY <1>3, MigrationAssumption, CallStart
<1>4. ASSUME NEW c \in Conn, UserStep(c)
      PROVE  StepOK(c)
  BY <1>4, UserStepOK
<1> QED
  BY <1>1, <1>2, <1>3, <1>4 DEF Next, CallStep

LEMMA StutterKeeps ==
  ASSUME IInv, UNCHANGED vars
  PROVE  IInv'
  BY DEF vars, file, call, IInv, TypeOK, FileInv, ScriptsAtomic, VersionJustified,
         Applied, NoNull, LockInv, Writer, View, RestLock, CallInv,
         ReturnMeansApplied, NothingLeftOpen

(* The invariant holds in every initial state: an empty file, or one whose *)
(* version table holds a NULL, and no connection open.                     *)
LEMMA InitInv == Init => IInv
<1> SUFFICES ASSUME Init PROVE IInv
  OBVIOUS
<1> USE MigrationAssumption
<1>1. NoRuns \in Runs
  BY DEF NoRuns, Runs
<1>2. db \in Pages /\ db.runs = NoRuns /\ (db.rows = <<>> \/ db.rows = <<NoVersion>>)
  <2>1. <<>> \in Seq(RowVersion) /\ <<NoVersion>> \in Seq(RowVersion)
    BY DEF RowVersion
  <2>2. \/ db = [exists |-> FALSE, rows |-> <<>>, runs |-> NoRuns]
        \/ db = [exists |-> TRUE, rows |-> <<NoVersion>>, runs |-> NoRuns]
    BY DEF Init, InitialPages
  <2>3. ASSUME NEW e \in BOOLEAN, NEW r \in Seq(RowVersion),
               db = [exists |-> e, rows |-> r, runs |-> NoRuns]
        PROVE  db \in Pages /\ db.runs = NoRuns /\ db.rows = r
    BY <1>1, <2>3 DEF Pages
  <2> QED
    BY <2>1, <2>2, <2>3
<1>3. TypeOK
  BY <1>2 DEF Init, TypeOK, LockLevel, Calling, Version
<1>4. FileInv
  <2>1. ScriptsAtomic
    BY <1>2 DEF ScriptsAtomic, NoRuns
  <2>2. CASE db.rows = <<>>
    BY <2>1, <2>2 DEF FileInv, VersionJustified, NoNull
  <2>3. CASE db.rows = <<NoVersion>>
    <3>1. DOMAIN db.rows = {1} /\ Len(db.rows) = 1 /\ db.rows[1] = NoVersion
      BY <2>3
    <3> QED
      BY <2>1, <3>1 DEF FileInv, VersionJustified, NoNull
  <2> QED
    BY <1>2, <2>2, <2>3
<1>5. \A c \in Conn : ~Writer(c) /\ View(c) = db
  BY DEF Init, Writer, View
<1>6. LockInv
  BY <1>5 DEF Init, LockInv, RestLock
<1>7. \A c \in Conn : CallInv(c)
  BY <1>2, <1>5, NothingCommitted DEF Init, CallInv, Calling, ReadingVersion, Migrating
<1>8. ReturnMeansApplied /\ NothingLeftOpen
  BY DEF Init, ReturnMeansApplied, NothingLeftOpen
<1> QED
  BY <1>3, <1>4, <1>6, <1>7, <1>8 DEF IInv

LEMMA NextKeeps ==
  ASSUME IInv, [Next]_vars
  PROVE  IInv' /\ CommitOK(db, db')
<1>1. CASE Next
  <2>1. PICK c \in Conn : StepOK(c)
    BY <1>1, NextStepOK
  <2> QED
    BY <2>1, StepKeeps DEF StepOK
<1>2. CASE UNCHANGED vars
  BY <1>2, StutterKeeps, NothingCommitted DEF IInv, TypeOK, vars, file
<1> QED
  BY <1>1, <1>2

(* In every reachable state, for every number of connections, versions and *)
(* script statements, the inductive invariant holds.                       *)
THEOREM Invariance == Spec => []IInv
<1>1. Init => IInv
  BY InitInv
<1>2. IInv /\ [Next]_vars => IInv'
  BY NextKeeps
<1> QED
  BY <1>1, <1>2, PTL DEF Spec

(* The variables keep their types. *)
THEOREM TypeCorrect == Spec => []TypeOK
<1>1. IInv => TypeOK
  BY DEF IInv
<1> QED
  BY <1>1, Invariance, PTL

(* A script reaches the file whole or not at all. *)
THEOREM AtomicScripts == Spec => []ScriptsAtomic
<1>1. IInv => ScriptsAtomic
  BY DEF IInv, FileInv
<1> QED
  BY <1>1, Invariance, PTL

(* A version in the table means that the scripts up to it were applied. *)
THEOREM JustifiedVersions == Spec => []VersionJustified
<1>1. IInv => VersionJustified
  BY DEF IInv, FileInv
<1> QED
  BY <1>1, Invariance, PTL

(* migrateSchema returns only over a file that has its script. *)
THEOREM ReturnsApplied == Spec => []ReturnMeansApplied
<1>1. IInv => ReturnMeansApplied
  BY DEF IInv
<1> QED
  BY <1>1, Invariance, PTL

(* A call leaves no transaction and no lock of its own behind. *)
THEOREM LeavesNothingOpen == Spec => []NothingLeftOpen
<1>1. IInv => NothingLeftOpen
  BY DEF IInv
<1> QED
  BY <1>1, Invariance, PTL

(* Every commit, by whomever, moves scripts and version together. *)
THEOREM CommitsTogether == Spec => ScriptCommitsWithVersion
<1>1. IInv /\ [Next]_vars => [CommitOK(db, db')]_db
  BY NextKeeps
<1> QED
  BY <1>1, Invariance, PTL DEF Spec, ScriptCommitsWithVersion
=============================================================================
