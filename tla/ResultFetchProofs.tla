-------------------------- MODULE ResultFetchProofs --------------------------
(***************************************************************************)
(* IInv of ResultFetch is inductive for every bound and every set of       *)
(* counts; the accounting of rows, the position, the counts and the error  *)
(* message follow from it, and every result is a stream of rows in the     *)
(* sense of RowStream.                                                     *)
(*                                                                         *)
(* A step of a statement concerns the proofs by its effect only, which     *)
(* Stepped states and StepMoves derives from the paths of the engine.      *)
(***************************************************************************)
EXTENDS ResultFetch, TLAPS

USE FetchAssumption

Texts == {"statement", "empty", "error"}

LEMMA InitInv == Init => IInv
  <1> SUFFICES ASSUME Init PROVE IInv
    OBVIOUS
  <1>1. collection = <<>> /\ rowIndex = 0 /\ Len(collection) = 0 /\ 1 .. 0 = {}
    BY DEF Init
  <1>2. TypeOK
    <2>1. 0 \in 0 .. MaxRows /\ <<>> \in Seq(1 .. MaxRows)
      OBVIOUS
    <2> QED BY <2>1 DEF Init, TypeOK, Messages
  <1>3. FetchInv
    BY <1>1 DEF Init, FetchInv
  <1>4. RowsInOrder /\ PositionTells /\ MessageOfFailure
    BY <1>1 DEF Init, RowsInOrder, PositionTells, MessageOfFailure
  <1> QED BY <1>2, <1>3, <1>4 DEF IInv

-----------------------------------------------------------------------------
(* sqlite3_step and ResultData::next of a statement in state v that is at  *)
(* row r, or has not started when r = 0.                                   *)
Stepped(v, r) ==
  /\ vm' \in {"null", "row", "end"}
  /\ vm' = "null" <=> v = "null"
  /\ hasMore' \in BOOLEAN /\ isSuccess' \in BOOLEAN
  /\ hasMore' <=> vm' = "row"
  /\ hasMore' => isSuccess'
  /\ v = "null" => ~isSuccess'
  /\ at' = IF vm' = "row" THEN r + 1 ELSE r
  /\ at' \in 0 .. MaxRows
  /\ errCode' \in {"ok", "row", "done", "error"}
  /\ errText' \in {"none", "own", "other"}

(* What the connection's error is right behind the first step. *)
FirstError(t) ==
  IF isSuccess' THEN errText' = "none" /\ errCode' = (IF hasMore' THEN "row" ELSE "done")
  ELSE IF t = "empty" THEN errCode' = "ok" ELSE errCode' = "error" /\ errText' = "own"

LEMMA StepMoves ==
  ASSUME NEW v \in {"null", "ready", "row"}, NEW r \in 0 .. MaxRows,
         NEW code \in {"ok", "row", "done", "error"},
         NEW kept \in {"none", "own", "other"},
         v # "row" => r = 0,
         Steps(v, r, code, kept)
  PROVE  Stepped(v, r)
  <1>1. CASE StepRow(v, r, kept) /\ Says("row")
    <2>1. hasMore' = TRUE /\ isSuccess' = TRUE
      BY <1>1 DEF Says
    <2> QED BY <1>1, <2>1 DEF StepRow, Stepped
  <1>2. CASE StepDone(v, r, kept) /\ Says("done")
    BY <1>2 DEF StepDone, Says, Stepped
  <1>3. CASE (StepError(v, r) \/ StepMisuse(v, r, code, kept)) /\ Says("error")
    BY <1>3 DEF StepError, StepMisuse, Says, Stepped
  <1> QED BY <1>1, <1>2, <1>3 DEF Steps

(* The error behind the first step of a text is the text's own. *)
LEMMA FirstStepError ==
  ASSUME NEW t \in Texts, Steps(Compiled(t), 0, CompileCode(t), CompileText(t))
  PROVE  FirstError(t)
  <1> DEFINE v == Compiled(t)
             code == CompileCode(t)
             kept == CompileText(t)
  <1>1. CASE StepRow(v, 0, kept) /\ Says("row")
    BY <1>1 DEF StepRow, Says, FirstError, Compiled, CompileText, Texts
  <1>2. CASE StepDone(v, 0, kept) /\ Says("done")
    BY <1>2 DEF StepDone, Says, FirstError, Compiled, CompileText, Texts
  <1>3. CASE StepError(v, 0) /\ Says("error")
    BY <1>3 DEF StepError, Says, FirstError, Compiled, Texts
  <1>4. CASE StepMisuse(v, 0, code, kept) /\ Says("error")
    BY <1>4 DEF StepMisuse, Says, FirstError, Compiled, CompileCode, CompileText, Texts
  <1> QED BY <1>1, <1>2, <1>3, <1>4 DEF Steps

LEMMA FirstStep ==
  ASSUME NEW t \in Texts, Steps(Compiled(t), 0, CompileCode(t), CompileText(t))
  PROVE  Stepped(Compiled(t), 0)
  <1>1. Compiled(t) \in {"null", "ready"} /\ CompileCode(t) \in {"ok", "error"}
        /\ CompileText(t) \in {"none", "own"}
    BY DEF Compiled, CompileCode, CompileText
  <1> QED BY <1>1, StepMoves

-----------------------------------------------------------------------------
(* The rows of the collection are the last ones up to the position. *)
LEMMA CollectedRange ==
  ASSUME TypeOK, RowsInOrder
  PROVE  Collected = rowIndex - Len(collection) + 1 .. rowIndex
  <1>1. /\ rowIndex \in Nat /\ Len(collection) \in Nat
        /\ DOMAIN collection = 1 .. Len(collection)
    BY DEF TypeOK
  <1>2. ASSUME NEW x \in rowIndex - Len(collection) + 1 .. rowIndex
        PROVE  x \in Collected
    <2> DEFINE i == x - (rowIndex - Len(collection))
    <2>1. i \in DOMAIN collection
      BY <1>1
    <2>2. collection[i] = x
      BY <1>1, <2>1 DEF RowsInOrder
    <2> QED BY <2>1, <2>2 DEF Collected
  <1>3. ASSUME NEW x \in Collected
        PROVE  x \in rowIndex - Len(collection) + 1 .. rowIndex
    BY <1>1 DEF RowsInOrder, Collected
  <1> QED BY <1>2, <1>3

-----------------------------------------------------------------------------
(* One lemma per action: it preserves the invariant. *)

LEMMA ExecuteInv ==
  ASSUME IInv, NEW t \in Texts, Execute(t)
  PROVE  IInv'
  <1>1. Stepped(Compiled(t), 0)
    BY FirstStep DEF Execute
  <1>2. FirstError(t)
    BY FirstStepError DEF Execute
  <1>3. /\ collection = <<>> /\ wanted = 0 /\ Len(collection) = 0 /\ rowIndex = 0
        /\ given = {} /\ lost = {} /\ 1 .. 0 = {}
    BY DEF IInv, TypeOK, FetchInv, PositionTells, Execute
  <1>4. TypeOK'
    BY <1>1, <1>2, <1>3 DEF IInv, TypeOK, Execute, locals, Stepped, Texts, Messages, errmsg, FirstError
  <1>5. FetchInv'
    BY <1>1, <1>2, <1>3 DEF IInv, FetchInv, Execute, locals, Stepped, Texts, Compiled, errmsg, FirstError
  <1>6. RowsInOrder' /\ PositionTells'
    BY <1>1, <1>3 DEF RowsInOrder, PositionTells, Execute, locals, Stepped
  <1>7. MessageOfFailure'
    BY <1>1, <1>2 DEF MessageOfFailure, Execute, Stepped, Texts, errmsg, FirstError
  <1> QED BY <1>4, <1>5, <1>6, <1>7 DEF IInv

LEMMA FetchKeepsInv ==
  ASSUME IInv, NEW count \in Counts, Fetch(count)
  PROVE  IInv'
  <1>1. collection = <<>> /\ wanted = 0 /\ collection' = <<>>
    BY DEF IInv, FetchInv, Fetch
  <1>2. TypeOK'
    BY <1>1 DEF IInv, TypeOK, Fetch, engine, error, flags
  <1>3. FetchInv'
    BY <1>1 DEF IInv, FetchInv, Fetch, engine, error, flags
  <1>4. RowsInOrder' /\ PositionTells' /\ MessageOfFailure'
    BY <1>1 DEF IInv, RowsInOrder, PositionTells, MessageOfFailure, Fetch,
                engine, error, flags
  <1> QED BY <1>2, <1>3, <1>4 DEF IInv

(* A turn of the loop finds the statement at the row behind the position. *)
LEMMA ReadRowAt ==
  ASSUME IInv, ReadRow
  PROVE  /\ hasMore /\ vm = "row" /\ at = rowIndex + 1 /\ text = "statement"
         /\ errorMessage = "row" /\ at \in 1 .. MaxRows
         /\ Stepped(vm, at)
  <1>1. hasMore /\ vm = "row"
    BY DEF IInv, FetchInv, ReadRow, Finished
  <1>2. at = rowIndex + 1 /\ at \in 1 .. MaxRows
    BY <1>1 DEF IInv, TypeOK, FetchInv, PositionTells
  <1>3. text = "statement" /\ errorMessage = "row"
    BY <1>1, <1>2 DEF IInv, FetchInv, ReadRow
  <1>4. Stepped(vm, at)
    BY <1>1, <1>2, StepMoves DEF IInv, TypeOK, ReadRow
  <1> QED BY <1>1, <1>2, <1>3, <1>4

LEMMA ReadRowInv ==
  ASSUME IInv, ReadRow
  PROVE  IInv'
  <1>0. /\ hasMore /\ vm = "row" /\ at = rowIndex + 1 /\ text = "statement"
        /\ errorMessage = "row" /\ at \in 1 .. MaxRows
        /\ Stepped(vm, at)
    BY ReadRowAt
  <1>1. /\ collection \in Seq(1 .. MaxRows)
        /\ collection' = Append(collection, at)
        /\ rowIndex' = rowIndex + 1
        /\ rowIndex \in Nat /\ Len(collection) \in Nat
    BY DEF IInv, TypeOK, ReadRow
  <1>2. /\ collection' \in Seq(1 .. MaxRows)
        /\ Len(collection') = Len(collection) + 1
        /\ \A i \in 1 .. Len(collection') :
             collection'[i] = IF i <= Len(collection) THEN collection[i] ELSE at
    BY <1>0, <1>1
  <1>3. wanted # 0 /\ (wanted > 0 => counter # wanted)
    BY DEF ReadRow, Finished
  <1>4. TypeOK'
    BY <1>0, <1>1, <1>2 DEF IInv, TypeOK, ReadRow, Stepped
  <1>5. FetchInv'
    <2>1. /\ hasMore' <=> vm' = "row"
          /\ hasMore' => isSuccess' /\ at' >= 1
          /\ vm' # "null" /\ at' \in Nat
      BY <1>0 DEF Stepped
    <2>2. pc' = "loop" /\ text' = "statement" /\ errorMessage' = "row" /\ wanted' = wanted
      BY <1>0 DEF ReadRow
    <2>3. wanted' > 0 => counter' = Len(collection') /\ counter' <= wanted'
      BY <1>2, <1>3 DEF IInv, TypeOK, FetchInv, ReadRow
    <2>4. /\ given' \cup lost' = 1 .. rowIndex' - Len(collection')
          /\ given' \cap lost' = {}
      <3>1. rowIndex' - Len(collection') = rowIndex - Len(collection)
        BY <1>1, <1>2
      <3> QED BY <3>1 DEF IInv, FetchInv, ReadRow
    <2> QED BY <1>3, <2>1, <2>2, <2>3, <2>4 DEF FetchInv
  <1>6. RowsInOrder'
    <2>1. Len(collection') <= rowIndex'
      BY <1>1, <1>2 DEF IInv, RowsInOrder
    <2>2. ASSUME NEW i \in 1 .. Len(collection')
          PROVE  collection'[i] = rowIndex' - Len(collection') + i
      <3>1. CASE i <= Len(collection)
        BY <1>1, <1>2, <3>1 DEF IInv, RowsInOrder
      <3>2. CASE i = Len(collection) + 1
        BY <1>0, <1>1, <1>2, <3>2
      <3> QED BY <1>1, <1>2, <3>1, <3>2
    <2>3. DOMAIN collection' = 1 .. Len(collection')
      BY <1>2
    <2> QED BY <2>1, <2>2, <2>3 DEF RowsInOrder
  <1>7. PositionTells'
    BY <1>0, <1>1 DEF PositionTells, Stepped
  <1>8. MessageOfFailure'
    <2>1. at' >= 1
      BY <1>0 DEF Stepped
    <2> QED BY <1>0, <2>1 DEF MessageOfFailure, ReadRow
  <1> QED BY <1>4, <1>5, <1>6, <1>7, <1>8 DEF IInv

(* The collection leaves fetch, for the client or for good. *)
LEMMA LeaveInv ==
  ASSUME IInv, Return \/ RowThrows
  PROVE  IInv'
  <1>1. /\ Collected = rowIndex - Len(collection) + 1 .. rowIndex
        /\ rowIndex \in Nat /\ Len(collection) \in Nat /\ Len(collection) <= rowIndex
    BY CollectedRange DEF IInv, TypeOK, RowsInOrder
  <1>2. /\ given' \cup lost' = given \cup lost \cup Collected
        /\ given' \cap lost' \subseteq (given \cap lost) \cup (Collected \cap (given \cup lost))
        /\ given' \subseteq given \cup Collected
        /\ lost' \subseteq lost \cup Collected
        /\ collection' = <<>> /\ wanted' = 0 /\ counter' = 0 /\ rowIndex' = rowIndex
    BY DEF Return, RowThrows, Collected
  <1>3. given \cup lost = 1 .. rowIndex - Len(collection) /\ given \cap lost = {}
    BY DEF IInv, FetchInv
  <1>4. given' \cup lost' = 1 .. rowIndex /\ given' \cap lost' = {}
    BY <1>1, <1>2, <1>3
  <1>5. TypeOK'
    <2>1. given' \subseteq 1 .. MaxRows /\ lost' \subseteq 1 .. MaxRows
      BY <1>1, <1>4 DEF IInv, TypeOK
    <2> QED BY <1>2, <2>1 DEF IInv, TypeOK, Return, RowThrows, engine, error, flags
  <1>6. FetchInv'
    BY <1>1, <1>2, <1>4 DEF IInv, FetchInv, Return, RowThrows, engine, error, flags
  <1>7. RowsInOrder' /\ PositionTells' /\ MessageOfFailure'
    BY <1>1, <1>2 DEF IInv, RowsInOrder, PositionTells, MessageOfFailure, Return,
                      RowThrows, engine, error, flags
  <1> QED BY <1>5, <1>6, <1>7 DEF IInv

LEMMA DestroyInv ==
  ASSUME IInv, Destroy
  PROVE  IInv'
  <1>1. /\ collection' = <<>> /\ wanted' = 0 /\ Len(collection') = 0
        /\ rowIndex' = 0 /\ 1 .. 0 = {}
    BY DEF IInv, FetchInv, Destroy, locals
  <1>2. TypeOK'
    <2>1. 0 \in 0 .. MaxRows
      OBVIOUS
    <2> QED BY <2>1 DEF IInv, TypeOK, Messages, Destroy, locals
  <1>3. FetchInv'
    BY <1>1 DEF FetchInv, Destroy
  <1>4. RowsInOrder' /\ PositionTells' /\ MessageOfFailure'
    BY <1>1 DEF RowsInOrder, PositionTells, MessageOfFailure, Destroy
  <1> QED BY <1>2, <1>3, <1>4 DEF IInv

LEMMA OtherStatementInv ==
  ASSUME IInv, OtherStatement
  PROVE  IInv'
  BY DEF IInv, TypeOK, FetchInv, RowsInOrder, PositionTells, MessageOfFailure,
         Messages, OtherStatement, engine, flags, locals

LEMMA StutterInv == IInv /\ UNCHANGED vars => IInv'
  BY DEF IInv, TypeOK, FetchInv, RowsInOrder, PositionTells, MessageOfFailure,
         vars, engine, error, flags, locals

LEMMA NextInv == IInv /\ [Next]_vars => IInv'
  <1> SUFFICES ASSUME IInv, [Next]_vars PROVE IInv'
    OBVIOUS
  <1>1. CASE UNCHANGED vars
    BY <1>1, StutterInv
  <1>2. ASSUME NEW t \in Texts, Execute(t) PROVE IInv'
    BY <1>2, ExecuteInv
  <1>3. ASSUME NEW count \in Counts, Fetch(count) PROVE IInv'
    BY <1>3, FetchKeepsInv
  <1>4. CASE ReadRow
    BY <1>4, ReadRowInv
  <1>5. CASE RowThrows \/ Return
    BY <1>5, LeaveInv
  <1>6. CASE Destroy
    BY <1>6, DestroyInv
  <1>7. CASE OtherStatement
    BY <1>7, OtherStatementInv
  <1> QED BY <1>1, <1>2, <1>3, <1>4, <1>5, <1>6, <1>7 DEF Next, Texts

-----------------------------------------------------------------------------
(* IInv holds in every state of ResultFetch. *)
THEOREM FetchInvariance == Spec => []IInv
  BY InitInv, NextInv, PTL DEF Spec

(* Every row up to the position was returned once, or went with a fetch    *)
(* that threw: readRowsAsCollection skips none and repeats none.           *)
THEOREM RowsAreAccountedFor == Spec => []RowsAccounted
  <1>1. IInv => RowsAccounted
    <2> SUFFICES ASSUME IInv PROVE RowsAccounted
      OBVIOUS
    <2>1. /\ Collected = rowIndex - Len(collection) + 1 .. rowIndex
          /\ rowIndex \in Nat /\ Len(collection) \in Nat /\ Len(collection) <= rowIndex
      BY CollectedRange DEF IInv, TypeOK, RowsInOrder
    <2> QED BY <2>1 DEF IInv, FetchInv, RowsAccounted
  <1> QED BY <1>1, FetchInvariance, PTL

(* The rows of a fetch are consecutive, in order, and end at getPosition. *)
THEOREM RowsAreInOrder == Spec => []RowsInOrder
  <1>1. IInv => RowsInOrder
    BY DEF IInv
  <1> QED BY <1>1, FetchInvariance, PTL

(* getPosition is in step with the statement through every fetch. *)
THEOREM PositionIsRight == Spec => []PositionTells
  <1>1. IInv => PositionTells
    BY DEF IInv
  <1> QED BY <1>1, FetchInvariance, PTL

(* fetch returns what it was asked for unless the rows end first. *)
THEOREM FetchIsComplete == Spec => []FetchedWhatWasAsked
  <1>1. IInv => FetchedWhatWasAsked
    <2> SUFFICES ASSUME IInv, pc = "loop", Finished
                 PROVE  /\ wanted >= 0 => Len(collection) <= wanted
                        /\ hasMore => Len(collection) = wanted
      BY DEF FetchedWhatWasAsked
    <2>1. wanted \in Int /\ counter \in Nat
      BY DEF IInv, TypeOK
    <2>2. CASE wanted = 0
      BY <2>2 DEF IInv, FetchInv
    <2>3. CASE wanted > 0
      BY <2>1, <2>3 DEF IInv, FetchInv, Finished
    <2>4. CASE wanted < 0
      BY <2>1, <2>4 DEF Finished
    <2> QED BY <2>1, <2>2, <2>3, <2>4
  <1> QED BY <1>1, FetchInvariance, PTL

(* getErrorMessage is the message of the failure of execute, never one of  *)
(* another statement, and none of a failure behind the first row.          *)
THEOREM MessagesAreOwn == Spec => []MessageOfFailure
  <1>1. IInv => MessageOfFailure
    BY DEF IInv
  <1> QED BY <1>1, FetchInvariance, PTL

-----------------------------------------------------------------------------
(* Refinement *)

LEMMA StreamInit == Init => Stream!Init
  <1> SUFFICES ASSUME Init PROVE Stream!Init
    OBVIOUS
  <1>1. rowIndex = 0 /\ Len(collection) = 0
    BY DEF Init
  <1>2. rowIndex - Len(collection) = 0
    BY <1>1
  <1> QED BY <1>2 DEF Init, Stream!Init

LEMMA StreamNext ==
  ASSUME IInv, [Next]_vars
  PROVE  [Stream!Next]_(Stream!stream)
  <1> DEFINE length == Len(collection)
  <1>0. /\ rowIndex \in Nat /\ Len(collection) \in Nat /\ Len(collection) <= rowIndex
        /\ collection \in Seq(1 .. MaxRows)
        /\ collection = <<>> <=> Len(collection) = 0
        /\ isSuccess \in BOOLEAN /\ hasMore \in BOOLEAN
    BY DEF IInv, TypeOK, RowsInOrder
  <1>1. CASE UNCHANGED vars
    BY <1>1 DEF vars, flags, locals, Stream!stream
  <1>2. ASSUME NEW t \in Texts, Execute(t) PROVE Stream!Start
    <2>1. Stepped(Compiled(t), 0)
      BY <1>2, FirstStep DEF Execute
    <2>2. collection = <<>> /\ rowIndex = 0 /\ given = {}
      BY <1>2 DEF IInv, TypeOK, FetchInv, PositionTells, Execute
    <2> QED BY <1>2, <2>1, <2>2 DEF Execute, locals, Stepped, Stream!Start
  <1>3. ASSUME NEW count \in Counts, Fetch(count) PROVE UNCHANGED Stream!stream
    BY <1>3 DEF IInv, FetchInv, Fetch, flags, Stream!stream
  <1>4. CASE ReadRow
    <2>1. hasMore /\ pc = "loop" /\ pc' = "loop" /\ given' = given
      BY <1>4, ReadRowAt DEF ReadRow
    <2>2. collection' = Append(collection, at) /\ at \in 1 .. MaxRows
      BY <1>4, ReadRowAt DEF ReadRow
    <2>3. Len(collection') = Len(collection) + 1 /\ collection' # <<>>
      BY <1>0, <2>2
    <2>4. rowIndex' = rowIndex + 1
      BY <1>4 DEF ReadRow
    <2> QED BY <1>0, <2>1, <2>3, <2>4 DEF Stream!stream
  <1>5. ASSUME Return \/ RowThrows
        PROVE  /\ pc = "loop" /\ pc' = "idle" /\ collection' = <<>>
               /\ rowIndex' = rowIndex /\ hasMore' = hasMore /\ isSuccess' = isSuccess
    BY <1>5 DEF Return, RowThrows, flags
  <1>6. Collected = rowIndex - Len(collection) + 1 .. rowIndex
    BY CollectedRange DEF IInv
  <1>7. CASE Return
    <2>1. given' = given \cup Collected
      BY <1>7 DEF Return, Collected
    <2>2. CASE collection = <<>>
      <3>1. Collected = {}
        BY <2>2 DEF Collected
      <3> QED BY <1>5, <1>7, <2>1, <2>2, <3>1 DEF Stream!stream
    <2>3. CASE collection # <<>>
      BY <1>0, <1>5, <1>6, <1>7, <2>1, <2>3 DEF Stream!Next, Stream!Give
    <2> QED BY <2>2, <2>3
  <1>8. CASE RowThrows
    <2>1. hasMore /\ given' = given
      BY <1>8 DEF RowThrows, Finished
    <2>2. CASE collection = <<>>
      BY <1>5, <1>8, <2>1, <2>2 DEF Stream!stream
    <2>3. CASE collection # <<>>
      BY <1>0, <1>5, <1>8, <2>1, <2>3 DEF Stream!Next, Stream!Drop
    <2> QED BY <2>2, <2>3
  <1>9. CASE Destroy
    <2>1. Len(collection') = 0 /\ rowIndex' = 0
      BY <1>9 DEF IInv, FetchInv, Destroy, locals
    <2>2. rowIndex' - Len(collection') = 0
      BY <2>1
    <2> QED BY <1>0, <1>9, <2>2 DEF Destroy, Stream!Next, Stream!Finish
  <1>10. CASE OtherStatement
    BY <1>10 DEF OtherStatement, flags, locals, Stream!stream
  <1> QED BY <1>1, <1>2, <1>3, <1>4, <1>7, <1>8, <1>9, <1>10
          DEF Next, Texts, Stream!Next

(* A result is a stream that is read forwards, in runs of consecutive      *)
(* rows, none of which is offered twice (RowStream).                       *)
THEOREM ResultIsStream == Spec => IsStream
  BY StreamInit, StreamNext, FetchInvariance, PTL DEF Spec, Stream!Spec, IsStream
=============================================================================
