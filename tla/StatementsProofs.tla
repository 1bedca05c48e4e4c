--------------------------- MODULE StatementsProofs ---------------------------
(***************************************************************************)
(* The invariant of StatementsInv is inductive, and the safety properties  *)
(* of Statements follow from it, for any connections, any statements and   *)
(* both kinds of connection provider.                                      *)
(*                                                                         *)
(* Every sqlite3_step and sqlite3_finalize of a statement s changes the    *)
(* engine at s and at its connection only.  StepMoves and FinalizeMoves    *)
(* say how (Stepped, Finalized) and leave out which path of the engine led *)
(* there; the proofs about the adapter's actions use nothing else.         *)
(***************************************************************************)
EXTENDS StatementsInv, TLAPS

USE StatementsAssumption

LEMMA InitInv == Init => IInv
  BY DEF Init, IInv, TypeOK, StmtInv, ConnInv, StoreInv, ClaimInv,
         Leaked, Running, Writes, Writer, LockLevel, Sql, VdbeState

-----------------------------------------------------------------------------
(* What the connection c guarantees of itself after a move of s: the parts *)
(* of ConnInv that the engine is responsible for.                          *)
ConnOK(c) ==
  /\ dirty[c] # {} => Writer(c)
  /\ autoCommit[c] /\ Writer(c) => \E s \in Running(c) : Writes(s)
  /\ autoCommit[c] /\ lock[c] # "none" => Running(c) # {}

(* s moves: nothing changes but s and its connection c. *)
Local(s, c) ==
  /\ db' \in SUBSET Stmt
  /\ lock' \in [Conn -> LockLevel]
  /\ autoCommit' \in [Conn -> BOOLEAN]
  /\ dirty' \in [Conn -> SUBSET Stmt]
  /\ vdbe' \in [Stmt -> VdbeState]
  /\ conn' = conn
  /\ sql' = sql
  /\ \A t \in Stmt \ {s} : vdbe'[t] = vdbe[t]
  /\ \A d \in Conn \ {c} : /\ lock'[d] = lock[d]
                           /\ autoCommit'[d] = autoCommit[d]
                           /\ dirty'[d] = dirty[d]
  /\ ConnOK(c)'

(* s has been prepared on c and is the concern of execute or a QueryResult. *)
Owned(s, c) ==
  s \in Stmt /\ c \in Conn /\ conn[s] = c /\ place[s] \in {"local", "result"}

(* The two ways a halt of s can end: the transaction ends with it, *)
LEMMA EndTxLocal ==
  ASSUME IInv, NEW s, NEW c, Owned(s, c), NEW level \in LockLevel,
         NEW v \in VdbeState \ {"run", "refused"},
         EndTx(s, level), Becomes(s, v), db' \in SUBSET Stmt
  PROVE  Local(s, c) /\ autoCommit'[c] /\ dirty'[c] = {} /\ vdbe'[s] = v
  <1>1. c \in Conn /\ s \in Stmt /\ conn[s] = c
    BY DEF Owned
  <1>2. /\ lock' \in [Conn -> LockLevel] /\ autoCommit' \in [Conn -> BOOLEAN]
        /\ dirty' \in [Conn -> SUBSET Stmt] /\ vdbe' \in [Stmt -> VdbeState]
    BY <1>1 DEF IInv, TypeOK, EndTx, Becomes, LockLevel
  <1>3. lock'[c] \in {"none", "shared"} /\ autoCommit'[c] /\ dirty'[c] = {}
    BY <1>1 DEF IInv, TypeOK, EndTx
  <1>4. lock'[c] # "none" => Others(s) # {}
    BY <1>1 DEF IInv, TypeOK, EndTx
  <1>5. Others(s) \subseteq Running(c)'
    BY <1>1 DEF IInv, TypeOK, Becomes, Others, Running
  <1>6. ConnOK(c)'
    BY <1>3, <1>4, <1>5 DEF ConnOK, Writer
  <1> QED
    BY <1>1, <1>2, <1>3, <1>6 DEF IInv, TypeOK, Local, EndTx, Becomes

(* or it goes on, which needs a transaction or another writer.             *)
LEMMA KeepLocal ==
  ASSUME IInv, NEW s, NEW c, Owned(s, c), NEW level \in LockLevel,
         NEW v \in VdbeState, NEW changes \in SUBSET Stmt,
         Keep(s, changes, level), Becomes(s, v),
         changes # {} => level \in {"reserved", "pending"},
         \/ ~autoCommit[c]
         \/ \E o \in Others(s) : Writes(o)
         \/ v = "run" /\ (Writes(s) \/ level \notin {"reserved", "pending"})
  PROVE  /\ Local(s, c)
         /\ db' = db
         /\ autoCommit' = autoCommit
         /\ dirty'[c] = changes
         /\ vdbe'[s] = v
  <1>1. c \in Conn /\ s \in Stmt /\ conn[s] = c
    BY DEF Owned
  <1>2. /\ lock' \in [Conn -> LockLevel] /\ autoCommit' \in [Conn -> BOOLEAN]
        /\ dirty' \in [Conn -> SUBSET Stmt] /\ vdbe' \in [Stmt -> VdbeState]
        /\ db' \in SUBSET Stmt
    BY <1>1 DEF IInv, TypeOK, Keep, Becomes
  <1>3. /\ lock'[c] = level /\ autoCommit' = autoCommit /\ dirty'[c] = changes
        /\ db' = db /\ vdbe'[s] = v
    BY <1>1 DEF IInv, TypeOK, Keep, Becomes
  <1>4. \A o \in Others(s) : o \in Running(c)' /\ (Writes(o) => Writes(o)')
    BY <1>1 DEF IInv, TypeOK, Becomes, Others, Running, Writes
  <1>5. v = "run" => s \in Running(c)' /\ (Writes(s) => Writes(s)')
    BY <1>1, <1>3 DEF Running, Becomes, Writes
  <1>6. ConnOK(c)'
    BY <1>3, <1>4, <1>5 DEF ConnOK, Writer
  <1> QED
    BY <1>1, <1>2, <1>3, <1>6 DEF IInv, TypeOK, Local, Keep, Becomes

-----------------------------------------------------------------------------
(* The statements that a step may be asked for: execute has just prepared  *)
(* s, or fetch found more to read.                                         *)
Steppable(s, c) ==
  Owned(s, c) /\ (place[s] = "local" \/ vdbe[s] = "run")

(* The effects of a step of s that the invariant depends on, whatever path *)
(* of the engine it took.                                                  *)
Stepped(s, c) ==
  /\ Local(s, c)
  /\ vdbe'[s] \in {"null", "run", "refused", "halt"}
  /\ hasMore' = [hasMore EXCEPT ![s] = (vdbe'[s] = "run")]
  /\ isSuccess' \in [Stmt -> BOOLEAN]
  /\ \A t \in Stmt \ {s} : isSuccess'[t] = isSuccess[t]
  /\ isSuccess'[s] => vdbe[s] \in {"ready", "run"} /\ vdbe'[s] # "refused"
  /\ vdbe'[s] = "run" => isSuccess'[s] /\ dirty'[c] = Done(s)
  /\ db \subseteq db' /\ db' \subseteq db \cup Done(s)
  /\ db' # db => /\ vdbe'[s] = "halt" /\ isSuccess'[s]
                 /\ \A o \in Others(s) : ~Writes(o)
  /\ dirty'[c] \subseteq Done(s)
  /\ s \in dirty'[c] => isSuccess'[s]
  /\ ~autoCommit[c] /\ ~autoCommit'[c] =>
       /\ dirty[c] \ {s} \subseteq dirty'[c]
       /\ isSuccess'[s] => Done(s) \subseteq dirty'[c]
  /\ autoCommit[c] /\ Writes(s) /\ isSuccess'[s] /\ vdbe'[s] # "run"
       /\ (\A o \in Others(s) : ~Writes(o)) => Done(s) \subseteq db'
  /\ sql[s] = "commit" /\ isSuccess'[s] => dirty[c] \subseteq db'

(* What s may do with the lock of its connection.                          *)
LEMMA LevelFacts ==
  ASSUME IInv, NEW s, NEW c, Steppable(s, c)
  PROVE  /\ Level(s) \in LockLevel
         /\ Done(s) \in SUBSET Stmt
         /\ dirty[c] \subseteq Done(s)
         /\ Done(s) \subseteq dirty[c] \cup {s}
         /\ vdbe[s] = "ready" /\ Writes(s) => s \in Done(s)
         /\ Done(s) # {} => Level(s) \in {"reserved", "pending"}
         /\ \/ ~autoCommit[c]
            \/ \E o \in Others(s) : Writes(o)
            \/ Writes(s) \/ Level(s) \notin {"reserved", "pending"}
  <1>1. c \in Conn /\ s \in Stmt /\ conn[s] = c /\ lock[c] \in LockLevel
        /\ dirty[c] \subseteq Stmt
    BY DEF Steppable, Owned, IInv, TypeOK
  <1>2. Level(s) \in LockLevel
    BY <1>1 DEF Level, LockLevel
  <1>3. /\ dirty[c] \subseteq Done(s) /\ Done(s) \subseteq dirty[c] \cup {s}
        /\ Done(s) \in SUBSET Stmt
        /\ vdbe[s] = "ready" /\ Writes(s) => s \in Done(s)
    BY <1>1 DEF Done, Starts
  <1>4. dirty[c] # {} => lock[c] \in {"reserved", "pending"}
    BY <1>1 DEF IInv, ConnInv, Writer
  <1>5. Done(s) # {} => Level(s) \in {"reserved", "pending"}
    BY <1>1, <1>4 DEF Done, Level, LockLevel
  <1>6. ASSUME autoCommit[c], ~Writes(s), Level(s) \in {"reserved", "pending"}
        PROVE  \E o \in Others(s) : Writes(o)
    <2>1. lock[c] \in {"reserved", "pending"}
      BY <1>1, <1>6 DEF Level
    <2>2. PICK o \in Running(c) : Writes(o)
      BY <1>1, <1>6, <2>1 DEF IInv, ConnInv, Writer
    <2> QED
      BY <1>1, <1>6, <2>2 DEF Others
  <1> QED
    BY <1>2, <1>3, <1>5, <1>6

LEMMA MoveRow ==
  ASSUME IInv, NEW s, NEW c, Steppable(s, c), StepRow(s), Says(s, "row")
  PROVE  Stepped(s, c)
  <1>1. c \in Conn /\ s \in Stmt /\ conn[s] = c /\ Owned(s, c)
    BY DEF Steppable, Owned
  <1>2. /\ Local(s, c) /\ db' = db /\ autoCommit' = autoCommit
        /\ dirty'[c] = Done(s) /\ vdbe'[s] = "run"
    <2>1. Keep(s, Done(s), Level(s)) /\ Becomes(s, "run") /\ "run" \in VdbeState
      BY DEF StepRow, VdbeState
    <2> QED
      BY <1>1, <2>1, LevelFacts, KeepLocal
  <1>3. /\ hasMore' = [hasMore EXCEPT ![s] = (vdbe'[s] = "run")]
        /\ isSuccess' \in [Stmt -> BOOLEAN] /\ isSuccess'[s]
        /\ \A t \in Stmt \ {s} : isSuccess'[t] = isSuccess[t]
    BY <1>1, <1>2 DEF Says, IInv, TypeOK
  <1>4. vdbe[s] \in {"ready", "run"} /\ sql[s] # "commit"
    BY <1>1 DEF StepRow, Prepared, Steppable, IInv, StmtInv
  <1> QED
    BY <1>1, <1>2, <1>3, <1>4, LevelFacts DEF Stepped

(* s halts well: it ends the transaction it runs in, or leaves it open. *)
LEMMA MoveDone ==
  ASSUME IInv, NEW s, NEW c, Steppable(s, c), StepDone(s), Says(s, "done")
  PROVE  Stepped(s, c)
  <1>1. c \in Conn /\ s \in Stmt /\ conn[s] = c /\ Owned(s, c)
        /\ lock[c] \in LockLevel /\ dirty[c] \subseteq Stmt /\ db \subseteq Stmt
    BY DEF Steppable, Owned, IInv, TypeOK
  <1>2. /\ hasMore' = [hasMore EXCEPT ![s] = FALSE]
        /\ isSuccess' \in [Stmt -> BOOLEAN] /\ isSuccess'[s]
        /\ \A t \in Stmt \ {s} : isSuccess'[t] = isSuccess[t]
    BY <1>1 DEF Says, IInv, TypeOK
  <1>3. vdbe[s] \in {"ready", "run"}
    BY <1>1 DEF StepDone, Prepared, Steppable, IInv, StmtInv
  <1>4. Becomes(s, "halt") /\ "halt" \in VdbeState \ {"run", "refused"}
    BY DEF StepDone, VdbeState
  <1>5. CASE sql[s] = "begin"
    <2>1. /\ autoCommit[c]
          /\ autoCommit' = [autoCommit EXCEPT ![c] = FALSE]
          /\ UNCHANGED <<db, lock, dirty>>
      BY <1>1, <1>5 DEF StepDone
    <2>2. vdbe' = [vdbe EXCEPT ![s] = "halt"] /\ conn' = conn /\ sql' = sql
      BY <1>4 DEF Becomes
    <2>3. ConnOK(c)'
      BY <1>1, <2>1 DEF ConnOK, IInv, ConnInv, TypeOK, Writer
    <2>4. Local(s, c)
      BY <1>1, <1>4, <2>1, <2>2, <2>3 DEF Local, IInv, TypeOK
    <2>5. vdbe'[s] = "halt"
      BY <1>1, <2>2 DEF IInv, TypeOK
    <2>6. ~Writes(s)
      BY <1>5 DEF Writes
    <2> QED
      BY <1>1, <1>2, <1>3, <1>5, <2>1, <2>4, <2>5, <2>6, LevelFacts DEF Stepped, Done
  <1>6. CASE sql[s] = "commit"
    <2>1. /\ ~autoCommit[c]
          /\ \A o \in Others(s) : ~Writes(o)
          /\ db' = db \cup dirty[c]
          /\ EndTx(s, lock[c])
      BY <1>1, <1>6 DEF StepDone, Store
    <2>2. Local(s, c) /\ autoCommit'[c] /\ dirty'[c] = {} /\ vdbe'[s] = "halt"
      BY <1>1, <1>4, <2>1, EndTxLocal
    <2> QED
      BY <1>1, <1>2, <1>3, <2>1, <2>2, LevelFacts DEF Stepped
  <1>7. CASE sql[s] = "rollback"
    <2>1. ~autoCommit[c] /\ db' = db /\ EndTx(s, lock[c])
      BY <1>1, <1>7 DEF StepDone, Discard
    <2>2. Local(s, c) /\ autoCommit'[c] /\ dirty'[c] = {} /\ vdbe'[s] = "halt"
      BY <1>1, <1>4, <2>1, EndTxLocal
    <2> QED
      BY <1>1, <1>2, <1>3, <1>7, <2>1, <2>2, LevelFacts DEF Stepped
  <1>8. CASE sql[s] \notin {"begin", "commit", "rollback"}
    <2>1. HaltOk(s, Done(s), Level(s))
      BY <1>8 DEF StepDone
    <2>2. CASE Sole(s) /\ Store(s, Done(s), Level(s))
      <3>1. /\ db' = db \cup Done(s)
            /\ EndTx(s, Level(s))
            /\ \A o \in Others(s) : ~Writes(o)
        BY <2>2 DEF Store, Sole
      <3>2. Local(s, c) /\ autoCommit'[c] /\ dirty'[c] = {} /\ vdbe'[s] = "halt"
        <4>1. db' \in SUBSET Stmt
          BY <1>1, <3>1, LevelFacts
        <4> QED
          BY <1>1, <1>4, <3>1, <4>1, LevelFacts, EndTxLocal
      <3> QED
        BY <1>1, <1>2, <1>3, <1>8, <3>1, <3>2 DEF Stepped
    <2>3. CASE ~Sole(s) /\ Keep(s, Done(s), Level(s))
      <3>1. ~autoCommit[c] \/ \E o \in Others(s) : Writes(o)
        BY <1>1, <2>3 DEF Sole
      <3>2. /\ Local(s, c) /\ db' = db /\ autoCommit' = autoCommit
            /\ dirty'[c] = Done(s) /\ vdbe'[s] = "halt"
        BY <1>1, <1>4, <2>3, <3>1, LevelFacts, KeepLocal
      <3>3. hasMore' = [hasMore EXCEPT ![s] = (vdbe'[s] = "run")]
        BY <1>2, <3>2
      <3>4. dirty[c] \ {s} \subseteq dirty'[c] /\ dirty'[c] = Done(s)
        BY <3>2, LevelFacts
      <3>5. ~(autoCommit[c] /\ \A o \in Others(s) : ~Writes(o))
        BY <3>1
      <3> QED
        BY <1>2, <1>3, <1>8, <3>2, <3>3, <3>4, <3>5 DEF Stepped
    <2> QED
      BY <2>1, <2>2, <2>3 DEF HaltOk
  <1> QED
    BY <1>5, <1>6, <1>7, <1>8

(* s fails.  What an error does to the engine: nothing is stored, and the  *)
(* changes of the connection are all lost or those of s are.               *)
Failed(s, c) ==
  /\ Local(s, c)
  /\ vdbe'[s] \in {"null", "refused", "halt"}
  /\ db' = db
  /\ \/ autoCommit'[c] /\ dirty'[c] = {}
     \/ autoCommit' = autoCommit /\ dirty'[c] = dirty[c] \ {s}

LEMMA HaltErrorFails ==
  ASSUME IInv, NEW s, NEW c, Owned(s, c), NEW level \in LockLevel,
         HaltError(s, level), Becomes(s, "halt"),
         dirty[c] # {} => level \in {"reserved", "pending"}
  PROVE  Failed(s, c)
  <1>1. c \in Conn /\ s \in Stmt /\ conn[s] = c /\ dirty[c] \subseteq Stmt
        /\ db \in SUBSET Stmt /\ "halt" \in VdbeState \ {"run", "refused"}
    BY DEF Owned, IInv, TypeOK, VdbeState
  <1>2. CASE Sole(s) /\ Discard(s, level)
    <2>1. EndTx(s, level) /\ db' = db
      BY <1>2 DEF Discard
    <2> QED
      BY <1>1, <2>1, EndTxLocal DEF Failed
  <1>3. CASE ~Sole(s) /\ Keep(s, dirty[c] \ {s}, level)
    <2>1. ~autoCommit[c] \/ \E o \in Others(s) : Writes(o)
      BY <1>1, <1>3 DEF Sole
    <2>2. /\ dirty[c] \ {s} \in SUBSET Stmt
          /\ dirty[c] \ {s} # {} => level \in {"reserved", "pending"}
      BY <1>1
    <2> QED
      BY <1>1, <1>3, <2>1, <2>2, KeepLocal DEF Failed
  <1> QED
    BY <1>1, <1>2, <1>3 DEF HaltError

(* A step that changes nothing but the virtual machine of s, which had not *)
(* begun, is no concern of its connection.                                 *)
LEMMA IdleLocal ==
  ASSUME IInv, NEW s, NEW c, Owned(s, c), NEW v \in VdbeState,
         UNCHANGED <<db, lock, autoCommit, dirty>>, Becomes(s, v),
         vdbe[s] \notin {"run", "refused"} \/ v \in {"run", "refused"}
  PROVE  Local(s, c) /\ vdbe'[s] = v
  <1>1. c \in Conn /\ s \in Stmt /\ conn[s] = c
    BY DEF Owned
  <1>2. /\ vdbe' = [vdbe EXCEPT ![s] = v] /\ conn' = conn /\ sql' = sql
        /\ db' = db /\ lock' = lock /\ autoCommit' = autoCommit /\ dirty' = dirty
    BY DEF Becomes
  <1>3. vdbe' \in [Stmt -> VdbeState] /\ vdbe'[s] = v
        /\ \A t \in Stmt \ {s} : vdbe'[t] = vdbe[t]
    BY <1>1, <1>2 DEF IInv, TypeOK
  <1>4. \A r \in Running(c) : r \in Running(c)' /\ (Writes(r) => Writes(r)')
    BY <1>1, <1>2, <1>3 DEF Running, Writes
  <1>5. ConnOK(c)
    BY <1>1 DEF IInv, ConnInv, ConnOK
  <1>6. ConnOK(c)'
    <2>1. /\ dirty'[c] = dirty[c] /\ lock'[c] = lock[c]
          /\ autoCommit'[c] = autoCommit[c] /\ (Writer(c)' <=> Writer(c))
      BY <1>2 DEF Writer
    <2> QED
      BY <1>4, <1>5, <2>1 DEF ConnOK
  <1> QED
    BY <1>1, <1>2, <1>3, <1>6 DEF IInv, TypeOK, Local

LEMMA RefusedFails ==
  ASSUME IInv, NEW s, NEW c, Steppable(s, c), StepRefused(s)
  PROVE  Failed(s, c)
  <1>1. c \in Conn /\ s \in Stmt /\ conn[s] = c /\ Owned(s, c)
        /\ dirty[c] \subseteq Stmt /\ db \in SUBSET Stmt
        /\ "refused" \in VdbeState /\ "pending" \in LockLevel
    BY DEF Steppable, Owned, IInv, TypeOK, VdbeState, LockLevel
  <1>2. s \notin dirty[c]
    BY <1>1 DEF StepRefused, Starts, Steppable, IInv, StmtInv, StoreInv
  <1>3. CASE UNCHANGED <<db, lock, autoCommit, dirty>>
    BY <1>1, <1>2, <1>3, IdleLocal DEF StepRefused, Failed
  <1>4. CASE /\ ~autoCommit[c]
             /\ lock' = [lock EXCEPT ![c] = "pending"]
             /\ UNCHANGED <<db, autoCommit, dirty>>
    <2>1. Keep(s, dirty[c], "pending")
      BY <1>1, <1>4 DEF Keep, IInv, TypeOK
    <2>2. Local(s, c) /\ db' = db /\ autoCommit' = autoCommit
          /\ dirty'[c] = dirty[c] /\ vdbe'[s] = "refused"
      BY <1>1, <1>4, <2>1, KeepLocal DEF StepRefused
    <2> QED
      BY <1>2, <2>2 DEF Failed
  <1> QED
    BY <1>1, <1>3, <1>4 DEF StepRefused

LEMMA ErrorFails ==
  ASSUME IInv, NEW s, NEW c, Steppable(s, c), StepError(s)
  PROVE  Failed(s, c)
  <1>1. c \in Conn /\ s \in Stmt /\ conn[s] = c /\ Owned(s, c)
        /\ lock[c] \in LockLevel /\ dirty[c] \subseteq Stmt /\ db \in SUBSET Stmt
        /\ "halt" \in VdbeState \ {"run", "refused"}
    BY DEF Steppable, Owned, IInv, TypeOK, VdbeState
  <1>2. dirty[c] # {} => lock[c] \in {"reserved", "pending"}
    BY <1>1 DEF IInv, ConnInv, Writer
  <1>3. Becomes(s, "halt")
    BY DEF StepError
  <1>4. dirty[c] # {} => Level(s) \in {"reserved", "pending"}
    BY <1>1, LevelFacts
  <1>5. ASSUME NEW level \in LockLevel, Discard(s, level)
        PROVE  Failed(s, c)
    <2>1. EndTx(s, level) /\ db' = db
      BY <1>5 DEF Discard
    <2> QED
      BY <1>1, <1>3, <2>1, EndTxLocal DEF Failed
  <1>6. CASE Starts(s) /\ UNCHANGED <<db, lock, autoCommit, dirty>>
    <2>1. vdbe[s] = "ready" /\ s \notin dirty[c]
      BY <1>1, <1>6 DEF Starts, Steppable, Owned, IInv, StmtInv, StoreInv
    <2> QED
      BY <1>1, <1>3, <1>6, <2>1, IdleLocal DEF Failed
  <1>7. CASE HaltError(s, Level(s)) \/ Discard(s, Level(s))
    <2>1. Level(s) \in LockLevel
      BY LevelFacts
    <2> QED
      BY <1>1, <1>3, <1>4, <1>5, <1>7, <2>1, HaltErrorFails
  <1>8. CASE Discard(s, lock[c])
    BY <1>1, <1>5, <1>8
  <1>9. CASE HaltError(s, lock[c])
    BY <1>1, <1>2, <1>3, <1>9, HaltErrorFails
  <1> QED
    BY <1>1, <1>6, <1>7, <1>8, <1>9 DEF StepError

LEMMA MisuseFails ==
  ASSUME IInv, NEW s, NEW c, Steppable(s, c), StepMisuse(s)
  PROVE  Failed(s, c)
  <1>1. c \in Conn /\ s \in Stmt /\ conn[s] = c /\ Owned(s, c)
        /\ "null" \in VdbeState /\ vdbe[s] = "null" /\ vdbe \in [Stmt -> VdbeState]
    BY DEF Steppable, Owned, StepMisuse, VdbeState, IInv, TypeOK
  <1>2. UNCHANGED <<db, lock, autoCommit, dirty>> /\ Becomes(s, "null")
    BY <1>1 DEF StepMisuse, engine, Becomes
  <1>3. s \notin dirty[c]
    BY <1>1 DEF Steppable, IInv, StmtInv, StoreInv
  <1> QED
    BY <1>1, <1>2, <1>3, IdleLocal DEF Failed

LEMMA MoveError ==
  ASSUME IInv, NEW s, NEW c, Steppable(s, c), Says(s, "error"),
         StepRefused(s) \/ StepError(s) \/ StepMisuse(s)
  PROVE  Stepped(s, c)
  <1>1. c \in Conn /\ s \in Stmt /\ conn[s] = c /\ Owned(s, c)
    BY DEF Steppable, Owned
  <1>2. Failed(s, c)
    BY RefusedFails, ErrorFails, MisuseFails
  <1>3. /\ hasMore' = [hasMore EXCEPT ![s] = FALSE]
        /\ isSuccess' \in [Stmt -> BOOLEAN] /\ ~isSuccess'[s]
        /\ \A t \in Stmt \ {s} : isSuccess'[t] = isSuccess[t]
    BY <1>1 DEF Says, IInv, TypeOK
  <1>4. hasMore' = [hasMore EXCEPT ![s] = (vdbe'[s] = "run")]
    BY <1>2, <1>3 DEF Failed
  <1>5. s \notin dirty'[c] /\ dirty'[c] \subseteq Done(s)
        /\ (autoCommit'[c] \/ dirty[c] \ {s} \subseteq dirty'[c])
    BY <1>2, LevelFacts DEF Failed
  <1> QED
    BY <1>2, <1>3, <1>4, <1>5 DEF Failed, Stepped

LEMMA StepMoves ==
  ASSUME IInv, NEW s, NEW c, Steppable(s, c), Step(s)
  PROVE  Stepped(s, c)
  BY MoveRow, MoveDone, MoveError DEF Step

-----------------------------------------------------------------------------
(* The effects of a finalize: only the halt of a statement that no other   *)
(* writer runs beside ends the transaction.                                *)
Finalized(s, c) ==
  /\ Local(s, c)
  /\ vdbe'[s] = "none"
  /\ db \subseteq db' /\ db' \subseteq db \cup dirty[c]
  /\ \/ /\ autoCommit'[c] /\ dirty'[c] = {}
        /\ \A o \in Others(s) : ~Writes(o)
     \/ db' = db /\ autoCommit' = autoCommit /\ dirty'[c] = dirty[c]

LEMMA FinalizeMoves ==
  ASSUME IInv, NEW s, NEW c, Owned(s, c), Finalize(s)
  PROVE  Finalized(s, c)
  <1>1. c \in Conn /\ s \in Stmt /\ conn[s] = c /\ lock[c] \in LockLevel
        /\ dirty[c] \in SUBSET Stmt /\ db \in SUBSET Stmt
        /\ "none" \in VdbeState \ {"run", "refused"}
    BY DEF Owned, IInv, TypeOK, VdbeState
  <1>2. dirty[c] # {} => lock[c] \in {"reserved", "pending"}
    BY <1>1 DEF IInv, ConnInv, Writer
  <1>3. Becomes(s, "none")
    BY DEF Finalize
  <1>4. ASSUME Sole(s), EndTx(s, lock[c]), db' \in {db, db \cup dirty[c]}
        PROVE  Finalized(s, c)
    <2>1. Local(s, c) /\ autoCommit'[c] /\ dirty'[c] = {} /\ vdbe'[s] = "none"
      BY <1>1, <1>3, <1>4, EndTxLocal
    <2> QED
      BY <1>1, <1>4, <2>1 DEF Finalized, Sole
  <1>5. ASSUME ~Sole(s), Keep(s, dirty[c], lock[c])
        PROVE  Finalized(s, c)
    <2>1. ~autoCommit[c] \/ \E o \in Others(s) : Writes(o)
      BY <1>1, <1>5 DEF Sole
    <2>2. Local(s, c) /\ db' = db /\ autoCommit' = autoCommit
          /\ dirty'[c] = dirty[c] /\ vdbe'[s] = "none"
      BY <1>1, <1>2, <1>3, <1>5, <2>1, KeepLocal
    <2> QED
      BY <2>2 DEF Finalized
  <1>6. CASE vdbe[s] = "refused" /\ HaltError(s, lock[c])
    <2>1. dirty[c] \ {s} = dirty[c]
      BY <1>1, <1>6 DEF IInv, StmtInv, StoreInv
    <2> QED
      BY <1>1, <1>4, <1>5, <1>6, <2>1 DEF HaltError, Discard
  <1>7. CASE vdbe[s] = "run" /\ HaltOk(s, dirty[c], lock[c])
    BY <1>4, <1>5, <1>7 DEF HaltOk, Store
  <1>8. CASE Sole(s) /\ Discard(s, lock[c])
    BY <1>4, <1>8 DEF Discard
  <1>9. CASE /\ vdbe[s] \notin {"run", "refused"}
             /\ UNCHANGED <<db, lock, autoCommit, dirty>>
    BY <1>1, <1>3, <1>9, IdleLocal DEF Finalized
  <1> QED
    BY <1>1, <1>6, <1>7, <1>8, <1>9 DEF Finalize

-----------------------------------------------------------------------------
(* A connection that s does not belong to notices nothing of a move of s.  *)
LEMMA Elsewhere ==
  ASSUME IInv, NEW s, NEW c, Owned(s, c), Local(s, c), NEW d \in Conn \ {c}
  PROVE  ConnOK(d)'
  <1>1. s \in Stmt /\ conn[s] = c
    BY DEF Owned
  <1>2. /\ dirty'[d] = dirty[d] /\ lock'[d] = lock[d] /\ autoCommit'[d] = autoCommit[d]
        /\ conn' = conn /\ sql' = sql /\ \A t \in Stmt \ {s} : vdbe'[t] = vdbe[t]
    BY DEF Local
  <1>3. \A r \in Running(d) : r \in Running(d)' /\ (Writes(r) => Writes(r)')
    BY <1>1, <1>2 DEF Running, Writes
  <1>4. ConnOK(d) /\ (Writer(d)' <=> Writer(d))
    BY <1>2 DEF IInv, ConnInv, ConnOK, Writer
  <1> QED
    BY <1>2, <1>3, <1>4 DEF ConnOK

(* The state of the engine and the adapter after a step of s. *)
LEMMA StepTypeInv ==
  ASSUME IInv, NEW s, NEW c, Steppable(s, c), Stepped(s, c), Remembers(s),
         place' = [place EXCEPT ![s] = "result"], UNCHANGED <<opened, held>>
  PROVE  TypeOK' /\ StmtInv' /\ ConnInv'
  <1>1. c \in Conn /\ s \in Stmt /\ conn[s] = c /\ Owned(s, c) /\ Local(s, c)
    BY DEF Steppable, Owned, Stepped
  <1>2. TypeOK'
    <2>1. /\ db' \subseteq Stmt /\ lock' \in [Conn -> LockLevel]
          /\ autoCommit' \in [Conn -> BOOLEAN] /\ dirty' \in [Conn -> SUBSET Stmt]
          /\ vdbe' \in [Stmt -> VdbeState] /\ conn' = conn /\ sql' = sql
      BY <1>1 DEF Local
    <2>2. /\ hasMore' \in [Stmt -> BOOLEAN] /\ isSuccess' \in [Stmt -> BOOLEAN]
          /\ place' \in [Stmt -> {"unused", "local", "result", "leaked", "gone"}]
      BY <1>1 DEF Stepped, IInv, TypeOK
    <2>3. /\ claim' \subseteq Stmt /\ inTx' \in [Conn -> SUBSET Stmt]
          /\ mixed' \subseteq Stmt /\ pinned' \subseteq Stmt
      BY <1>1 DEF Remembers, Others, Running, IInv, TypeOK
    <2> QED
      BY <2>1, <2>2, <2>3 DEF IInv, TypeOK
  <1>3. /\ \A t \in Stmt \ {s} : /\ vdbe'[t] = vdbe[t] /\ place'[t] = place[t]
                                /\ hasMore'[t] = hasMore[t] /\ isSuccess'[t] = isSuccess[t]
        /\ place'[s] = "result" /\ conn' = conn
        /\ vdbe'[s] \in {"null", "run", "refused", "halt"}
        /\ hasMore'[s] <=> vdbe'[s] = "run"
        /\ vdbe'[s] = "run" => isSuccess'[s]
        /\ vdbe'[s] = "refused" => ~isSuccess'[s]
    BY <1>1 DEF Stepped, Local, IInv, TypeOK
  <1>4. StmtInv'
    BY <1>1, <1>3 DEF StmtInv, IInv
  <1>5. ASSUME NEW d \in Conn
        PROVE  ConnOK(d)' /\ (opened'[d] = "unclosed" => Leaked(d)')
    <2>1. ConnOK(d)'
      BY <1>1, <1>5, Elsewhere DEF Local
    <2>2. Leaked(d) => Leaked(d)'
      BY <1>1, <1>3 DEF Leaked, Owned
    <2> QED
      BY <2>1, <2>2 DEF IInv, ConnInv
  <1>6. ConnInv'
    BY <1>5 DEF ConnInv, ConnOK
  <1> QED
    BY <1>2, <1>4, <1>6

(* What a step of s stores, or may store later, was called a success. *)
LEMMA StepStoreInv ==
  ASSUME IInv, NEW s, NEW c, Steppable(s, c), Stepped(s, c)
  PROVE  StoreInv'
  <1>1. c \in Conn /\ s \in Stmt /\ conn[s] = c /\ Owned(s, c) /\ Local(s, c)
        /\ (vdbe[s] = "run" \/ ~isSuccess[s])
        /\ Done(s) \subseteq dirty[c] \cup {s}
    BY LevelFacts DEF Steppable, Owned, Stepped, IInv, StmtInv
  <1>2. \A t \in Stmt \ {s} : vdbe'[t] = vdbe[t] /\ isSuccess'[t] = isSuccess[t]
    BY <1>1 DEF Stepped, Local
  <1>3. ASSUME NEW w \in db'
        PROVE  isSuccess'[w] /\ vdbe'[w] \notin {"run", "refused"}
    <2>1. w \in Stmt
      BY <1>1, <1>3 DEF Local
    <2>2. CASE w \in db
      BY <1>1, <1>2, <2>1, <2>2 DEF IInv, StoreInv
    <2>3. CASE w \notin db /\ w = s
      BY <1>3, <2>3 DEF Stepped
    <2>4. CASE w \notin db /\ w # s
      <3>1. w \in dirty[c] /\ \A o \in Others(s) : ~Writes(o)
        BY <1>1, <1>3, <2>4 DEF Stepped
      <3>2. conn[w] = c /\ Writes(w) /\ isSuccess[w]
        BY <1>1, <3>1 DEF IInv, StoreInv
      <3>3. vdbe[w] \notin {"run", "refused"}
        BY <1>1, <2>1, <2>4, <3>1, <3>2 DEF Others, Running
      <3> QED
        BY <1>2, <2>1, <2>4, <3>2, <3>3
    <2> QED
      BY <2>2, <2>3, <2>4
  <1>4. ASSUME NEW d \in Conn, NEW w \in dirty'[d]
        PROVE  conn'[w] = d /\ Writes(w)' /\ isSuccess'[w]
    <2>1. w \in Stmt /\ conn' = conn /\ (Writes(w)' <=> Writes(w))
      BY <1>1, <1>4 DEF Local, Writes
    <2>2. CASE d # c
      <3>1. w \in dirty[d] /\ conn[w] = d /\ Writes(w) /\ isSuccess[w]
        BY <1>1, <1>4, <2>2 DEF Local, IInv, StoreInv
      <3> QED
        BY <1>1, <1>2, <2>1, <2>2, <3>1
    <2>3. CASE d = c /\ w # s
      <3>1. w \in dirty[c]
        BY <1>1, <1>4, <2>3 DEF Stepped
      <3> QED
        BY <1>1, <1>2, <2>1, <2>3, <3>1 DEF IInv, StoreInv
    <2>4. CASE d = c /\ w = s
      <3>1. isSuccess'[s] /\ s \in Done(s)
        BY <1>4, <2>4 DEF Stepped
      <3>2. Writes(s)
        BY <1>1, <3>1 DEF Done, IInv, StoreInv
      <3> QED
        BY <1>1, <2>1, <2>4, <3>1, <3>2
    <2> QED
      BY <2>2, <2>3, <2>4
  <1> QED
    BY <1>3, <1>4 DEF StoreInv

(* Where the writes of the client are after a step of s. *)
LEMMA StepClaimInv ==
  ASSUME IInv, NEW s, NEW c, Steppable(s, c), Stepped(s, c), Remembers(s)
  PROVE  ClaimInv'
  <1> DEFINE open == {o \in Others(s) : hasMore[o]}
             told == {w \in {s} : Writes(w) /\ isSuccess'[w]}
             ends == {w \in told : ~hasMore'[w]}
  <1>1. c \in Conn /\ s \in Stmt /\ conn[s] = c /\ Owned(s, c) /\ Local(s, c)
        /\ (vdbe[s] = "run" \/ ~isSuccess[s])
    BY DEF Steppable, Owned, Stepped, IInv, StmtInv
  <1>2. \A t \in Stmt \ {s} : vdbe'[t] = vdbe[t] /\ isSuccess'[t] = isSuccess[t]
    BY <1>1 DEF Stepped, Local
  <1>3. /\ claim' = IF autoCommit[c] THEN claim \cup ends ELSE claim
        /\ inTx' = [inTx EXCEPT ![c] = IF autoCommit'[c] \/ autoCommit[c] THEN {}
                                       ELSE (inTx[c] \ {s}) \cup told]
        /\ mixed' = (IF open = {} THEN mixed ELSE mixed \cup open \cup {s})
        /\ pinned' = (IF Others(s) = open THEN pinned ELSE pinned \cup {s})
    BY <1>1 DEF Remembers
  <1>4. /\ mixed \subseteq mixed' /\ pinned \subseteq pinned' /\ open \subseteq mixed'
        /\ (Others(s) # {} => s \in mixed' \cup pinned')
    BY <1>3
  <1>5. /\ ends \subseteq told /\ told \subseteq {s}
        /\ s \in told => Writes(s) /\ isSuccess'[s]
        /\ s \in ends => vdbe'[s] # "run"
    <2>1. hasMore'[s] <=> vdbe'[s] = "run"
      BY <1>1 DEF Stepped, IInv, TypeOK
    <2> QED
      BY <2>1
  (* s is among what its connection has done, unless it was interfered with *)
  <1>6. Writes(s) /\ isSuccess'[s] /\ s \notin mixed => s \in Done(s)
    BY <1>1, LevelFacts DEF Stepped, IInv, ClaimInv
  <1>7. claim' \ (mixed' \cup pinned') \subseteq db'
    <2> SUFFICES ASSUME NEW w \in claim', w \notin mixed', w \notin pinned'
                 PROVE  w \in db'
      OBVIOUS
    <2>1. CASE w \in claim
      BY <1>4, <2>1 DEF Stepped, IInv, ClaimInv
    <2>2. CASE w \notin claim
      <3>1. autoCommit[c] /\ w = s /\ s \in ends
        BY <1>3, <1>5, <2>2
      <3>2. Others(s) = {} /\ s \notin mixed
        BY <1>4, <3>1
      <3> QED
        BY <1>5, <1>6, <3>1, <3>2 DEF Stepped
    <2> QED
      BY <2>1, <2>2
  <1>8. ASSUME NEW d \in Conn
        PROVE  /\ inTx'[d] \ mixed' \subseteq dirty'[d]
               /\ autoCommit'[d] => inTx'[d] = {}
    <2>1. CASE d # c
      <3>1. inTx'[d] = inTx[d] /\ dirty'[d] = dirty[d] /\ autoCommit'[d] = autoCommit[d]
        BY <1>1, <1>3, <1>8, <2>1 DEF Local, IInv, TypeOK
      <3> QED
        BY <1>4, <1>8, <3>1 DEF IInv, ClaimInv
    <2>2. CASE d = c /\ (autoCommit'[c] \/ autoCommit[c])
      <3>1. inTx'[d] = {}
        BY <1>1, <1>3, <2>2 DEF IInv, TypeOK
      <3> QED
        BY <3>1
    <2>3. CASE d = c /\ ~autoCommit'[c] /\ ~autoCommit[c]
      <3>1. inTx'[d] = (inTx[c] \ {s}) \cup told
        BY <1>1, <1>3, <2>3 DEF IInv, TypeOK
      <3>2. (inTx[c] \ {s}) \ mixed' \subseteq dirty'[c]
        BY <1>1, <1>4, <2>3 DEF Stepped, IInv, ClaimInv
      <3>3. told \ mixed' \subseteq dirty'[c]
        BY <1>4, <1>5, <1>6, <2>3 DEF Stepped
      <3> QED
        BY <2>3, <3>1, <3>2, <3>3
    <2> QED
      BY <2>1, <2>2, <2>3
  <1>9. ASSUME NEW t \in Stmt, vdbe'[t] = "run", Writes(t)', t \notin mixed'
        PROVE  t \in dirty'[conn'[t]]
    <2>1. conn' = conn /\ (Writes(t)' <=> Writes(t)) /\ t \notin mixed
      BY <1>1, <1>4, <1>9 DEF Local, Writes
    <2>2. CASE t = s
      BY <1>1, <1>6, <1>9, <2>1, <2>2 DEF Stepped
    <2>3. CASE t # s
      <3>1. vdbe[t] = "run" /\ t \in dirty[conn[t]] /\ place[t] = "result" /\ hasMore[t]
            /\ conn[t] \in Conn
        BY <1>2, <1>9, <2>1, <2>3 DEF IInv, ClaimInv, StmtInv, TypeOK
      <3>2. conn[t] # c
        BY <1>1, <1>4, <1>9, <2>3, <3>1 DEF Others, Running
      <3> QED
        BY <1>1, <2>1, <3>1, <3>2 DEF Local
    <2> QED
      BY <2>2, <2>3
  <1> QED
    BY <1>7, <1>8, <1>9 DEF ClaimInv

LEMMA StepInv ==
  ASSUME IInv, NEW s, NEW c, Steppable(s, c), Step(s),
         place' = [place EXCEPT ![s] = "result"], UNCHANGED <<opened, held>>
  PROVE  IInv'
  <1>1. Stepped(s, c) /\ Remembers(s)
    BY StepMoves DEF Step
  <1> QED
    BY <1>1, StepTypeInv, StepStoreInv, StepClaimInv DEF IInv

-----------------------------------------------------------------------------
(* The actions of the adapter *)

(* The client's handles are no concern of the statements. *)
LEMMA HandleInv ==
  ASSUME IInv, UNCHANGED <<engine, results, history>>,
         held' \in [Conn -> BOOLEAN],
         opened' \in [Conn -> {"no", "open", "closed", "unclosed"}],
         \A c \in Conn : opened'[c] = "unclosed" => opened[c] = "unclosed"
  PROVE  IInv'
  <1>1. /\ db' = db /\ lock' = lock /\ autoCommit' = autoCommit /\ dirty' = dirty
        /\ conn' = conn /\ sql' = sql /\ vdbe' = vdbe
        /\ place' = place /\ hasMore' = hasMore /\ isSuccess' = isSuccess
        /\ inTx' = inTx /\ claim' = claim /\ mixed' = mixed /\ pinned' = pinned
    BY DEF engine, results, history
  <1>2. TypeOK' /\ StmtInv' /\ StoreInv' /\ ClaimInv'
    BY <1>1 DEF IInv, TypeOK, StmtInv, StoreInv, ClaimInv, Writes
  <1>3. ConnInv'
    BY <1>1 DEF IInv, ConnInv, Writer, Running, Writes, Leaked
  <1> QED
    BY <1>2, <1>3 DEF IInv

(* Close finds a statement that is not finalized only if it leaked. *)
LEMMA CloseInv == ASSUME IInv, NEW c \in Conn, Close(c) PROVE IInv'
  <1>1. /\ opened' \in [Conn -> {"no", "open", "closed", "unclosed"}]
        /\ inTx' = [inTx EXCEPT ![c] = {}]
        /\ conn' = conn /\ sql' = sql /\ vdbe' = vdbe /\ db' = db
        /\ place' = place /\ hasMore' = hasMore /\ isSuccess' = isSuccess
        /\ held' = held /\ claim' = claim /\ mixed' = mixed /\ pinned' = pinned
    BY DEF Close, Disconnect, engine, results, IInv, TypeOK
  <1>2. StmtInv'
    BY <1>1 DEF IInv, StmtInv
  <1>3. \A d \in Conn : (Running(d)' = Running(d)) /\ (Leaked(d)' <=> Leaked(d))
    BY <1>1 DEF Running, Leaked
  <1>4. \A s : Writes(s)' <=> Writes(s)
    BY <1>1 DEF Writes
  <1>5. CASE /\ UNCHANGED engine
             /\ opened' = [opened EXCEPT ![c] = "unclosed"]
             /\ \E s \in Stmt : conn[s] = c /\ vdbe[s] \notin {"none", "null"}
    <2>1. lock' = lock /\ autoCommit' = autoCommit /\ dirty' = dirty
      BY <1>5 DEF engine
    <2>2. Leaked(c)
      BY <1>5 DEF Close, Referenced, Leaked, IInv, StmtInv, TypeOK
    <2>3. TypeOK' /\ StoreInv' /\ ClaimInv'
      BY <1>1, <1>4, <2>1 DEF IInv, TypeOK, StoreInv, ClaimInv
    <2>4. ConnInv'
      BY <1>3, <1>4, <1>5, <2>1, <2>2 DEF IInv, TypeOK, ConnInv, Writer
    <2> QED
      BY <1>2, <2>3, <2>4 DEF IInv
  <1>6. CASE /\ Disconnect(c)
             /\ opened' = [opened EXCEPT ![c] = "closed"]
             /\ \A s \in Stmt : conn[s] = c => vdbe[s] \in {"none", "null"}
    <2>1. /\ lock' = [lock EXCEPT ![c] = "none"]
          /\ autoCommit' = [autoCommit EXCEPT ![c] = TRUE]
          /\ dirty' = [dirty EXCEPT ![c] = {}]
      BY <1>6 DEF Disconnect
    <2>2. TypeOK'
      BY <1>1, <2>1 DEF IInv, TypeOK, LockLevel
    <2>3. StoreInv'
      BY <1>1, <1>4, <2>1 DEF IInv, TypeOK, StoreInv
    <2>4. ClaimInv'
      BY <1>1, <1>4, <1>6, <2>1 DEF IInv, TypeOK, ClaimInv
    <2>5. ConnInv'
      BY <1>3, <1>4, <1>6, <2>1 DEF IInv, TypeOK, ConnInv, Writer
    <2> QED
      BY <1>2, <2>2, <2>3, <2>4, <2>5 DEF IInv
  <1> QED
    BY <1>5, <1>6 DEF Close

(* A statement that is prepared has not begun. *)
LEMMA PrepareInv ==
  ASSUME IInv, NEW c \in Conn, NEW s \in Stmt, NEW q \in Uses, Prepare(c, s, q)
  PROVE  IInv'
  <1>1. PICK state \in {"ready", "null"} : vdbe' = [vdbe EXCEPT ![s] = state]
    BY DEF Prepare
  <1>2. /\ place' = [place EXCEPT ![s] = "local"]
        /\ conn' = [conn EXCEPT ![s] = c]
        /\ sql' = [sql EXCEPT ![s] = q]
        /\ db' = db /\ lock' = lock /\ autoCommit' = autoCommit /\ dirty' = dirty
        /\ held' = held /\ hasMore' = hasMore /\ isSuccess' = isSuccess
        /\ inTx' = inTx /\ claim' = claim /\ mixed' = mixed /\ pinned' = pinned
        /\ opened' \in [Conn -> {"no", "open", "closed", "unclosed"}]
        /\ \A d \in Conn : opened'[d] = "unclosed" => opened[d] = "unclosed"
    BY DEF Prepare, history, IInv, TypeOK
  <1>3. q \in Sql /\ place[s] = "unused"
    BY DEF Prepare
  <1>4. TypeOK'
    BY <1>1, <1>2, <1>3 DEF IInv, TypeOK, VdbeState
  <1>5. StmtInv'
    BY <1>1, <1>2, <1>3 DEF IInv, TypeOK, StmtInv
  <1>6. /\ ~isSuccess[s] /\ vdbe[s] = "none"
        /\ \A t \in Stmt \ {s} : /\ conn'[t] = conn[t] /\ vdbe'[t] = vdbe[t]
                                /\ place'[t] = place[t] /\ (Writes(t)' <=> Writes(t))
        /\ vdbe'[s] \in {"ready", "null"}
    BY <1>1, <1>2, <1>3 DEF IInv, TypeOK, StmtInv, Writes
  <1>7. \A d \in Conn : (Running(d)' = Running(d)) /\ (Leaked(d) => Leaked(d)')
    BY <1>3, <1>6 DEF Running, Leaked
  <1>8. \A d \in Conn : s \notin Running(d) /\ (Writer(d)' <=> Writer(d))
                       /\ Running(d) \subseteq Stmt
    BY <1>2, <1>6 DEF Running, Writer
  <1>9. ConnInv'
    BY <1>2, <1>6, <1>7, <1>8 DEF IInv, ConnInv
  <1>10. StoreInv'
    BY <1>2, <1>6 DEF IInv, TypeOK, StoreInv
  <1>11. ClaimInv'
    BY <1>2, <1>6 DEF IInv, TypeOK, ClaimInv
  <1> QED
    BY <1>4, <1>5, <1>9, <1>10, <1>11 DEF IInv

(* A statement that bindParams leaves behind has not begun. *)
LEMMA BindThrowsInv == ASSUME IInv, NEW s \in Stmt, BindThrows(s) PROVE IInv'
  <1>1. /\ place' = [place EXCEPT ![s] = IF vdbe[s] = "null" THEN "gone" ELSE "leaked"]
        /\ place[s] = "local"
        /\ db' = db /\ lock' = lock /\ autoCommit' = autoCommit /\ dirty' = dirty
        /\ conn' = conn /\ sql' = sql /\ vdbe' = vdbe
        /\ opened' = opened /\ held' = held
        /\ hasMore' = hasMore /\ isSuccess' = isSuccess
        /\ inTx' = inTx /\ claim' = claim /\ mixed' = mixed /\ pinned' = pinned
    BY DEF BindThrows, engine, history
  <1>2. TypeOK' /\ StoreInv' /\ ClaimInv'
    BY <1>1 DEF IInv, TypeOK, StoreInv, ClaimInv, Writes
  <1>3. StmtInv'
    BY <1>1 DEF IInv, TypeOK, StmtInv
  <1>4. ConnInv'
    <2>1. \A d \in Conn : Leaked(d) => Leaked(d)'
      BY <1>1 DEF Leaked, IInv, TypeOK
    <2> QED
      BY <1>1, <2>1 DEF IInv, ConnInv, Writer, Running, Writes
  <1> QED
    BY <1>2, <1>3, <1>4 DEF IInv

(* The result is destroyed, and what its statement had left open ends. *)
LEMMA DropResultInv == ASSUME IInv, NEW s \in Stmt, DropResult(s) PROVE IInv'
  <1> DEFINE c == conn[s]
  <1>1. c \in Conn /\ place[s] = "result" /\ Owned(s, c)
    BY DEF DropResult, Owned, IInv, StmtInv
  <1>2. Finalized(s, c) /\ Local(s, c) /\ vdbe'[s] = "none"
    BY <1>1, FinalizeMoves DEF DropResult, Finalized
  <1>3. /\ place' = [place EXCEPT ![s] = "gone"]
        /\ inTx' = [inTx EXCEPT ![c] = IF autoCommit'[c] THEN {} ELSE inTx[c]]
        /\ opened' = opened /\ held' = held
        /\ hasMore' = hasMore /\ isSuccess' = isSuccess
        /\ claim' = claim /\ mixed' = mixed /\ pinned' = pinned
    BY DEF DropResult
  <1>4. /\ conn' = conn /\ sql' = sql
        /\ \A t \in Stmt \ {s} : vdbe'[t] = vdbe[t] /\ place'[t] = place[t]
        /\ place'[s] = "gone"
        /\ \A t : Writes(t)' <=> Writes(t)
    BY <1>2, <1>3 DEF Local, Writes, IInv, TypeOK
  <1>5. TypeOK'
    BY <1>1, <1>2, <1>3 DEF Local, IInv, TypeOK
  <1>6. StmtInv'
    BY <1>1, <1>2, <1>3, <1>4 DEF IInv, StmtInv
  <1>7. ConnInv'
    <2>1. ASSUME NEW d \in Conn
          PROVE  ConnOK(d)' /\ (opened'[d] = "unclosed" => Leaked(d)')
      <3>1. ConnOK(d)'
        BY <1>1, <1>2, <2>1, Elsewhere DEF Local
      <3>2. Leaked(d) => Leaked(d)'
        BY <1>1, <1>4 DEF Leaked
      <3> QED
        BY <1>3, <3>1, <3>2 DEF IInv, ConnInv
    <2> QED
      BY <2>1 DEF ConnInv, ConnOK
  <1>8. StoreInv'
    <2>1. ASSUME NEW w \in db'
          PROVE  isSuccess'[w] /\ vdbe'[w] \notin {"run", "refused"}
      <3>1. CASE w \in db
        BY <1>2, <1>3, <1>4, <3>1 DEF IInv, TypeOK, StoreInv
      <3>2. CASE w \notin db
        <4>1. w \in dirty[c] /\ \A o \in Others(s) : ~Writes(o)
          BY <1>2, <2>1, <3>2 DEF Finalized
        <4>2. w \in Stmt /\ conn[w] = c /\ Writes(w) /\ isSuccess[w]
          BY <1>1, <4>1 DEF IInv, TypeOK, StoreInv
        <4>3. w # s => vdbe[w] \notin {"run", "refused"}
          BY <4>1, <4>2 DEF Others, Running
        <4> QED
          BY <1>2, <1>3, <1>4, <4>2, <4>3
      <3> QED
        BY <3>1, <3>2
    <2>2. \A d \in Conn : dirty'[d] \subseteq dirty[d]
      BY <1>1, <1>2 DEF Finalized, Local
    <2> QED
      BY <1>3, <1>4, <2>1, <2>2 DEF IInv, StoreInv
  <1>9. ClaimInv'
    <2>1. claim' \ (mixed' \cup pinned') \subseteq db'
      BY <1>2, <1>3 DEF Finalized, IInv, ClaimInv
    <2>2. ASSUME NEW d \in Conn
          PROVE  /\ inTx'[d] \ mixed' \subseteq dirty'[d]
                 /\ autoCommit'[d] => inTx'[d] = {}
      <3>1. CASE d # c
        BY <1>1, <1>2, <1>3, <2>2, <3>1 DEF Local, IInv, TypeOK, ClaimInv
      <3>2. CASE d = c /\ autoCommit'[c]
        <4>1. inTx'[d] = {}
          BY <1>1, <1>3, <3>2 DEF IInv, TypeOK
        <4> QED
          BY <4>1
      <3>3. CASE d = c /\ ~autoCommit'[c]
        <4>1. inTx'[d] = inTx[c]
          BY <1>1, <1>3, <3>3 DEF IInv, TypeOK
        <4> QED
          BY <1>1, <1>2, <1>3, <3>3, <4>1 DEF Finalized, IInv, ClaimInv
      <3> QED
        BY <3>1, <3>2, <3>3
    <2>3. ASSUME NEW t \in Stmt, vdbe'[t] = "run", Writes(t)', t \notin mixed'
          PROVE  t \in dirty'[conn'[t]]
      <3>1. t # s /\ vdbe[t] = "run" /\ Writes(t) /\ t \in dirty[conn[t]] /\ conn[t] \in Conn
        BY <1>2, <1>3, <1>4, <2>3 DEF IInv, ClaimInv, StmtInv, TypeOK
      <3>2. CASE conn[t] # c
        BY <1>2, <1>4, <3>1, <3>2 DEF Local
      <3>3. CASE conn[t] = c
        <4>1. t \in Others(s)
          BY <3>1, <3>3 DEF Others, Running
        <4> QED
          BY <1>2, <1>4, <3>1, <3>3, <4>1 DEF Finalized
      <3> QED
        BY <3>2, <3>3
    <2> QED
      BY <2>1, <2>2, <2>3 DEF ClaimInv
  <1> QED
    BY <1>5, <1>6, <1>7, <1>8, <1>9 DEF IInv

-----------------------------------------------------------------------------
(* Construct and Fetch ask for a step of a statement that may be stepped. *)
LEMMA ConstructFetch ==
  ASSUME IInv, NEW s \in Stmt, Construct(s) \/ Fetch(s)
  PROVE  /\ Steppable(s, conn[s]) /\ Step(s)
         /\ place' = [place EXCEPT ![s] = "result"] /\ UNCHANGED <<opened, held>>
  <1>1. place \in [Stmt -> {"unused", "local", "result", "leaked", "gone"}]
    BY DEF IInv, TypeOK
  <1>2. CASE Construct(s)
    BY <1>2 DEF Construct, Steppable, Owned, IInv, StmtInv
  <1>3. CASE Fetch(s)
    BY <1>1, <1>3 DEF Fetch, Steppable, Owned, IInv, StmtInv
  <1> QED
    BY <1>2, <1>3

(* The invariant is inductive. *)
LEMMA NextInv == IInv /\ [Next]_vars => IInv'
  <1> SUFFICES ASSUME IInv, [Next]_vars
               PROVE  IInv'
    OBVIOUS
  <1>1. ASSUME NEW c \in Conn, GetConnection(c)
        PROVE  IInv'
    <2>1. /\ held' \in [Conn -> BOOLEAN]
          /\ opened' \in [Conn -> {"no", "open", "closed", "unclosed"}]
          /\ \A d \in Conn : opened'[d] = "unclosed" => opened[d] = "unclosed"
      BY <1>1 DEF GetConnection, IInv, TypeOK
    <2> QED
      BY <1>1, <2>1, HandleInv DEF GetConnection
  <1>2. ASSUME NEW c \in Conn, DropConnection(c)
        PROVE  IInv'
    <2>1. held' \in [Conn -> BOOLEAN] /\ opened' = opened
      BY <1>2 DEF DropConnection, IInv, TypeOK
    <2> QED
      BY <1>2, <2>1, HandleInv DEF DropConnection, IInv, TypeOK
  <1>3. ASSUME NEW s \in Stmt, TakeConnection(s)
        PROVE  IInv'
    <2>1. held' \in [Conn -> BOOLEAN] /\ opened' = opened
      BY <1>3 DEF TakeConnection, IInv, TypeOK
    <2> QED
      BY <1>3, <2>1, HandleInv DEF TakeConnection, IInv, TypeOK
  <1>4. ASSUME NEW s \in Stmt, Construct(s) \/ Fetch(s)
        PROVE  IInv'
    BY <1>4, ConstructFetch, StepInv
  <1>5. CASE UNCHANGED vars
    <2>1. UNCHANGED <<engine, results, history>> /\ held' = held /\ opened' = opened
      BY <1>5 DEF vars
    <2> QED
      BY <2>1, HandleInv DEF IInv, TypeOK
  <1> QED
    BY <1>1, <1>2, <1>3, <1>4, <1>5, CloseInv, PrepareInv, BindThrowsInv, DropResultInv
       DEF Next

(* Every reachable state of the statements and connections of a program    *)
(* satisfies the invariant, however many results it keeps open at a time.  *)
THEOREM StatementInvariance == Spec => []IInv
  BY InitInv, NextInv, PTL DEF Spec

(* A write reported done outside of a transaction, with every other result *)
(* of its connection read to its end and none failed, is in the file.      *)
THEOREM SuccessIsStored == Spec => []SuccessStored
  <1>1. IInv => SuccessStored
    BY DEF IInv, ClaimInv, SuccessStored
  <1> QED
    BY <1>1, StatementInvariance, PTL

(* Nothing in the file was reported a failure by its QueryResult.          *)
THEOREM FailureIsNotStored == Spec => []FailureNotStored
  <1>1. IInv => FailureNotStored
    BY DEF IInv, StoreInv, FailureNotStored
  <1> QED
    BY <1>1, StatementInvariance, PTL

(* A connection keeps its file lock only for a transaction or for a result *)
(* that has more to fetch or failed.                                       *)
THEOREM LocksAreForAReason == Spec => []LocksHaveAReason
  <1>1. IInv => LocksHaveAReason
    <2> SUFFICES ASSUME IInv, NEW c \in Conn, lock[c] # "none", autoCommit[c]
                 PROVE  \E s \in Stmt : /\ conn[s] = c
                                       /\ place[s] = "result"
                                       /\ (hasMore[s] \/ ~isSuccess[s])
      BY DEF LocksHaveAReason
    <2>1. PICK s \in Stmt : conn[s] = c /\ vdbe[s] \in {"run", "refused"}
      BY DEF IInv, ConnInv, Running
    <2>2. place[s] = "result"
      BY <2>1 DEF IInv, TypeOK, StmtInv
    <2> QED
      BY <2>1, <2>2 DEF IInv, StmtInv
  <1> QED
    BY <1>1, StatementInvariance, PTL

(* No statement runs on a connection without references, which the pool    *)
(* may hand to someone else or ~ConnectionImpl close, and no lock or       *)
(* change is left on it but those of an open transaction.                  *)
THEOREM IdleConnectionsAreQuiet == Spec => []IdleIsQuiet
  <1>1. IInv => IdleIsQuiet
    <2> SUFFICES ASSUME IInv, NEW c \in Conn, ~Referenced(c)
                 PROVE  /\ Running(c) = {}
                        /\ autoCommit[c] => lock[c] = "none" /\ dirty[c] = {}
      BY DEF IdleIsQuiet
    <2>1. ASSUME NEW s \in Running(c)
          PROVE  FALSE
      <3>1. s \in Stmt /\ conn[s] = c /\ vdbe[s] \in {"run", "refused"}
        BY <2>1 DEF Running
      <3>2. place[s] = "result"
        BY <3>1 DEF IInv, TypeOK, StmtInv
      <3> QED
        BY <3>1, <3>2 DEF Referenced
    <2>2. autoCommit[c] => lock[c] = "none" /\ dirty[c] = {}
      BY <2>1 DEF IInv, ConnInv
    <2> QED
      BY <2>1, <2>2
  <1> QED
    BY <1>1, StatementInvariance, PTL

(* sqlite3_close is refused for nothing but a statement that bindParams    *)
(* left behind.                                                            *)
THEOREM OnlyLeaksPreventClose == Spec => []UnclosedByLeak
  <1>1. IInv => UnclosedByLeak
    BY DEF IInv, ConnInv, UnclosedByLeak
  <1> QED
    BY <1>1, StatementInvariance, PTL

(* A commit that is reported done has stored every write that was called a *)
(* success in the transaction, its rows fetched or not, and that ran       *)
(* beside no unread result.                                                *)
THEOREM CommitIsStored == Spec => CommitStores
  <1>1. ASSUME IInv, [Next]_vars, NEW s \in Stmt,
               place[s] = "local", sql[s] = "commit", isSuccess'[s]
        PROVE  inTx[conn[s]] \ mixed \subseteq db'
    <2>1. ~isSuccess[s] /\ conn[s] \in Conn /\ Free(conn[s]) = FALSE
      BY <1>1 DEF IInv, StmtInv, Free
    <2>2. isSuccess' # isSuccess
      BY <1>1, <2>1
    <2>3. PICK t \in Stmt : Construct(t) \/ Fetch(t)
      BY <1>1, <2>2 DEF Next, vars, results, GetConnection, DropConnection, Close,
         Prepare, BindThrows, DropResult, TakeConnection
    <2>4. Steppable(t, conn[t]) /\ Stepped(t, conn[t])
      BY <1>1, <2>3, ConstructFetch, StepMoves
    <2>5. t = s
      BY <1>1, <2>1, <2>4 DEF Stepped
    <2>6. dirty[conn[s]] \subseteq db'
      BY <1>1, <2>4, <2>5 DEF Stepped
    <2> QED
      BY <1>1, <2>1, <2>6 DEF IInv, ClaimInv
  <1>2. IInv /\ [Next]_vars
          => [\A s \in Stmt :
                place[s] = "local" /\ sql[s] = "commit" /\ isSuccess'[s]
                  => inTx[conn[s]] \ mixed \subseteq db']_vars
    BY <1>1
  <1> QED
    BY <1>2, StatementInvariance, PTL DEF Spec, CommitStores
=============================================================================
