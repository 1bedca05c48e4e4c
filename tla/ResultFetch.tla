----------------------------- MODULE ResultFetch -----------------------------
(***************************************************************************)
(* The rows of a result: what fetch makes of the steps of one statement.   *)
(* Statements has the life of many results and their locks and leaves the  *)
(* rows out; here one result after the other is run on a connection, rows  *)
(* are numbered, mapped, counted and collected, and mapping one may throw. *)
(*                                                                         *)
(* Rows are numbered in the order in which the engine produces them: a     *)
(* SELECT whose tables change underneath it has no other.  The connection  *)
(* remembers one error for all its statements (sqlite3_errmsg), of which   *)
(* QueryResult keeps a copy.                                               *)
(***************************************************************************)
EXTENDS Integers, Sequences

CONSTANTS
  MaxRows,  \* bound: the rows that a statement produces
  Counts    \* the counts that fetch is called with; -1 stands for all rows

ASSUME FetchAssumption == MaxRows \in Nat /\ Counts \subseteq Int

VARIABLES
  text,         \* the text that was executed: a statement, nothing but
                \* comments and blanks, or not SQL
  vm,           \* the statement: "null", "ready", at a "row" or at its "end"
  at,           \* the row that it has produced last, 0 before the first
  errCode,      \* of the connection: what the last call returned,
  errText,      \* and whose text is the last that was kept
  hasMore,      \* of ResultData
  isSuccess,
  rowIndex,
  errorMessage, \* of QueryResult
  pc,           \* "none": there is no result; "idle"; "loop": inside fetch
  wanted,       \* the argument and the locals of fetch
  counter,
  collection,
  given,        \* the rows that a fetch has returned
  lost          \* the rows that went with the collection of one that threw

engine == <<text, vm, at>>
error == <<errCode, errText>>
flags == <<hasMore, isSuccess>>
locals == <<wanted, counter, collection>>
vars == <<engine, error, flags, rowIndex, errorMessage, pc, locals, given, lost>>

Messages == {"ok", "row", "done", "error", "own", "other"}

TypeOK ==
  /\ text \in {"statement", "empty", "error"}
  /\ vm \in {"null", "ready", "row", "end"}
  /\ at \in 0 .. MaxRows
  /\ errCode \in {"ok", "row", "done", "error"}
  /\ errText \in {"none", "own", "other"}
  /\ hasMore \in BOOLEAN
  /\ isSuccess \in BOOLEAN
  /\ rowIndex \in 0 .. MaxRows
  /\ errorMessage \in Messages
  /\ pc \in {"none", "idle", "loop"}
  /\ wanted \in Counts \cup {0}
  /\ counter \in Nat
  /\ collection \in Seq(1 .. MaxRows)
  /\ given \subseteq 1 .. MaxRows
  /\ lost \subseteq 1 .. MaxRows

Init ==
  /\ text = "empty" /\ vm = "null" /\ at = 0
  /\ errCode = "ok" /\ errText = "none"
  /\ hasMore = FALSE /\ isSuccess = FALSE
  /\ rowIndex = 0 /\ errorMessage = "ok"
  /\ pc = "none"
  /\ wanted = 0 /\ counter = 0 /\ collection = <<>>
  /\ given = {} /\ lost = {}

-----------------------------------------------------------------------------
(* The engine *)

(* sqlite3_errmsg: "ok" is the text "not an error", a code stands for its  *)
(* general text.  Only the codes of failures come with a text of their     *)
(* own, and the code of a row does not take an older one away.             *)
errmsg(code, kept) ==
  IF code = "ok" THEN "ok" ELSE IF kept # "none" THEN kept ELSE code

(* sqlite3_prepare_v2 of the text t: the statement, and the new error. *)
Compiled(t) == IF t = "statement" THEN "ready" ELSE "null"
CompileCode(t) == IF t = "error" THEN "error" ELSE "ok"
CompileText(t) == IF t = "error" THEN "own" ELSE "none"

(* sqlite3_step of a statement in state v that produced row r before, with *)
(* the error <<code, kept>> left by the calls before it.  A statement that *)
(* is at its end is reset and runs again.                                  *)
StepRow(v, r, kept) ==
  /\ v # "null"
  /\ at' = (IF v = "row" THEN r ELSE 0) + 1
  /\ at' <= MaxRows
  /\ vm' = "row"
  /\ errCode' = "row" /\ errText' = kept

StepDone(v, r, kept) ==
  /\ v # "null"
  /\ vm' = "end" /\ at' = r
  /\ errCode' = "done" /\ errText' = kept

StepError(v, r) ==
  /\ v # "null"
  /\ vm' = "end" /\ at' = r
  /\ errCode' = "error" /\ errText' = "own"

(* A NULL statement has no connection to leave the error with. *)
StepMisuse(v, r, code, kept) ==
  /\ v = "null"
  /\ vm' = v /\ at' = r
  /\ errCode' = code /\ errText' = kept

-----------------------------------------------------------------------------
(* ResultData and QueryResult *)

(* Mutant: the end of the rows is told from a failure only. *)
SaysMoreAtEnd(value) ==
  hasMore' = (value # "error") /\ isSuccess' = (value # "error")

Says(value) == hasMore' = (value = "row") /\ isSuccess' = (value # "error")

(* ResultData::next *)
Steps(v, r, code, kept) ==
  \/ StepRow(v, r, kept)  /\ Says("row")
  \/ StepDone(v, r, kept) /\ Says("done")
  \/ (StepError(v, r) \/ StepMisuse(v, r, code, kept)) /\ Says("error")

(* Mutant: the message is copied before the statement is stepped. *)
ExecuteCopiesEarly(t) ==
  /\ pc = "none"
  /\ pc' = "idle"
  /\ text' = t
  /\ Steps(Compiled(t), 0, CompileCode(t), CompileText(t))
  /\ rowIndex' = 0
  /\ errorMessage' = errmsg(CompileCode(t), CompileText(t))
  /\ UNCHANGED <<locals, given, lost>>

(* Executor::execute with the constructor of QueryResult: the text is      *)
(* compiled, the statement stepped, and the message copied.                *)
Execute(t) ==
  /\ pc = "none"
  /\ pc' = "idle"
  /\ text' = t
  /\ Steps(Compiled(t), 0, CompileCode(t), CompileText(t))
  /\ rowIndex' = 0
  /\ errorMessage' = errmsg(errCode', errText')
  /\ UNCHANGED <<locals, given, lost>>

(* fetch, readRowsAsCollection *)
Fetch(count) ==
  /\ pc = "idle"
  /\ pc' = "loop"
  /\ wanted' = count
  /\ counter' = 0
  /\ collection' = <<>>
  /\ UNCHANGED <<engine, error, flags, rowIndex, errorMessage, given, lost>>

(* Mutant: one row more than wanted. *)
FinishedLate == wanted = 0 \/ ~hasMore \/ (wanted > 0 /\ counter > wanted)

(* Mutant: the rows are counted, the flag is not looked at. *)
FinishedByCount == wanted = 0 \/ counter = wanted \/ (wanted < 0 /\ ~hasMore)

(* Nothing is wanted, nothing is left, or the count is reached. *)
Finished == wanted = 0 \/ ~hasMore \/ (wanted > 0 /\ counter = wanted)

(* Mutant: the statement is not stepped behind the last row wanted. *)
ReadRowLazily ==
  /\ pc = "loop"
  /\ ~Finished
  /\ collection' = Append(collection, at)
  /\ rowIndex' = rowIndex + 1
  /\ counter' = IF wanted > 0 THEN counter + 1 ELSE counter
  /\ IF counter' = wanted THEN UNCHANGED <<vm, at, error, flags>>
                          ELSE Steps(vm, at, errCode, errText)
  /\ UNCHANGED <<text, errorMessage, pc, wanted, given, lost>>

(* A turn of the loop: the row is mapped, collected and counted, and the   *)
(* statement stepped on.                                                   *)
ReadRow ==
  /\ pc = "loop"
  /\ ~Finished
  /\ collection' = Append(collection, at)
  /\ rowIndex' = rowIndex + 1
  /\ Steps(vm, at, errCode, errText)
  /\ counter' = IF wanted > 0 THEN counter + 1 ELSE counter
  /\ UNCHANGED <<text, errorMessage, pc, wanted, given, lost>>

(* Mutant: the row that cannot be mapped is skipped. *)
RowThrowsOn ==
  /\ pc = "loop"
  /\ ~Finished
  /\ pc' = "idle"
  /\ lost' = lost \cup {collection[i] : i \in DOMAIN collection}
  /\ Steps(vm, at, errCode, errText)
  /\ wanted' = 0 /\ counter' = 0 /\ collection' = <<>>
  /\ UNCHANGED <<text, rowIndex, errorMessage, given>>

(* readOneRow throws; fetch has no handler, and the collection goes.  The  *)
(* statement stays at the row.                                             *)
RowThrows ==
  /\ pc = "loop"
  /\ ~Finished
  /\ pc' = "idle"
  /\ lost' = lost \cup {collection[i] : i \in DOMAIN collection}
  /\ wanted' = 0 /\ counter' = 0 /\ collection' = <<>>
  /\ UNCHANGED <<engine, error, flags, rowIndex, errorMessage, given>>

(* Mutant: the loop is not left at the count. *)
ReturnGoesOn ==
  /\ pc = "loop"
  /\ Finished
  /\ given' = given \cup {collection[i] : i \in DOMAIN collection}
  /\ counter' = 0 /\ collection' = <<>>
  /\ UNCHANGED <<engine, error, flags, rowIndex, errorMessage, pc, wanted, lost>>

Return ==
  /\ pc = "loop"
  /\ Finished
  /\ pc' = "idle"
  /\ given' = given \cup {collection[i] : i \in DOMAIN collection}
  /\ wanted' = 0 /\ counter' = 0 /\ collection' = <<>>
  /\ UNCHANGED <<engine, error, flags, rowIndex, errorMessage, lost>>

(* ~QueryResult.  sqlite3_finalize may report the statement's error again. *)
Destroy ==
  /\ pc = "idle"
  /\ pc' = "none"
  /\ text' = "empty" /\ vm' = "null" /\ at' = 0
  /\ errCode' \in {"ok", "error"}
  /\ errText' \in {"none", "other"}
  /\ hasMore' = FALSE /\ isSuccess' = FALSE
  /\ rowIndex' = 0 /\ errorMessage' = "ok"
  /\ given' = {} /\ lost' = {}
  /\ UNCHANGED locals

(* Another statement of the connection is compiled, stepped or finalized. *)
OtherStatement ==
  /\ pc # "loop"
  /\ errCode' \in {"ok", "row", "done", "error"}
  /\ errText' \in {"none", "other"}
  /\ UNCHANGED <<engine, flags, rowIndex, errorMessage, pc, locals, given, lost>>

Next ==
  \/ \E t \in {"statement", "empty", "error"} : Execute(t)
  \/ \E count \in Counts : Fetch(count)
  \/ ReadRow \/ RowThrows \/ Return
  \/ Destroy \/ OtherStatement

(* fetch goes on once it is called. *)
Fairness == WF_vars(ReadRow \/ RowThrows \/ Return)

Spec == Init /\ [][Next]_vars /\ Fairness

-----------------------------------------------------------------------------
Collected == {collection[i] : i \in DOMAIN collection}

(* Every row up to getPosition was returned by one fetch, went with a      *)
(* fetch that threw or is in the collection at hand: none is skipped and   *)
(* none is read twice, whatever counts the fetches had and whichever of    *)
(* them threw (readRowsAsCollection).                                      *)
RowsAccounted ==
  /\ given \cup lost \cup Collected = 1 .. rowIndex
  /\ given \cap lost = {} /\ Collected \cap (given \cup lost) = {}

(* A fetch collects consecutive rows, in their order, that end at the      *)
(* position (readRowsAsCollection).                                        *)
RowsInOrder ==
  /\ Len(collection) <= rowIndex
  /\ \A i \in DOMAIN collection : collection[i] = rowIndex - Len(collection) + i

(* The position of a result that has more is that of the row in front of   *)
(* the statement's, that of one that ended is the number of its rows       *)
(* (ResultData::next, rowIndex).                                           *)
PositionTells == rowIndex = IF hasMore THEN at - 1 ELSE at

(* fetch returns as many rows as it was asked for unless the result ends   *)
(* or fails first, and all rows for a negative count.                      *)
FetchedWhatWasAsked ==
  pc = "loop" /\ Finished =>
    /\ wanted >= 0 => Len(collection) <= wanted
    /\ hasMore => Len(collection) = wanted

(* getErrorMessage tells why execute failed and nothing about a failure    *)
(* behind the first row, for which it still says that there is a row; a    *)
(* text without a statement fails with "not an error".  It is never the    *)
(* message of another statement (the constructor of QueryResult).          *)
MessageOfFailure ==
  pc # "none" =>
    IF isSuccess THEN errorMessage \in {"row", "done"}
    ELSE errorMessage = IF text = "empty" THEN "ok" ELSE IF at = 0 THEN "own" ELSE "row"

(* A fetch comes to an end where the rows do: a result that has ended is   *)
(* not run again for rows that fetch still wants.                          *)
FetchEnds == pc = "loop" ~> pc # "loop"

(* The result as a stream: a run is taken when fetch returns or throws. *)
Stream == INSTANCE RowStream WITH
  taken <- rowIndex - Len(collection),
  state <- IF pc = "none" THEN "none"
           ELSE IF hasMore \/ collection # <<>> THEN "open"
           ELSE IF isSuccess THEN "ended" ELSE "failed"

(* Results are streams of rows that are read forwards (RowStream). *)
IsStream == Stream!Spec

-----------------------------------------------------------------------------
(* How the flags, the statement, the message and the locals of fetch go    *)
(* together: what the proofs add to the properties above.                  *)
FetchInv ==
  /\ hasMore <=> vm = "row"
  /\ hasMore => isSuccess /\ at >= 1
  /\ vm = "null" => at = 0 /\ ~isSuccess
  /\ pc = "none" => vm = "null"
  /\ pc # "none" => (vm = "null" <=> text # "statement")
  /\ pc # "none" /\ at >= 1 => errorMessage = "row"
  /\ pc # "loop" => wanted = 0
  /\ wanted = 0 => collection = <<>>
  /\ wanted > 0 => counter = Len(collection) /\ counter <= wanted
  /\ given \cup lost = 1 .. rowIndex - Len(collection)
  /\ given \cap lost = {}

(* The inductive invariant of ResultFetchProofs. *)
IInv == TypeOK /\ FetchInv /\ RowsInOrder /\ PositionTells /\ MessageOfFailure
=============================================================================
