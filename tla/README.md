# oatpp-sqlite: TLA+ models, TLC runs and TLAPS proofs

oatpp-sqlite is the SQLite adapter of the Oat++ ORM: a C++ layer of about 2800
lines (`src/src/oatpp-sqlite/`) over a vendored SQLite 3.45.3
(`src/src/sqlite/sqlite3.c`).  The Oat++ core it plugs into (`orm::Transaction`,
`orm::SchemaMigration`, `provider::Pool`, `DbClient`, string templates) is not
in the repository; where a model needs it, it is taken from the way the adapter
uses it and marked external in `PROJECT.json`.

## The system

| Part | State it keeps | Operations | What makes it correct |
|---|---|---|---|
| Schema migration (`Executor.cpp` 267-398) | the version table in the file; the locals of a call | `getSchemaVersion`, `updateSchemaVersion`, `migrateSchema` | a script takes effect whole or not at all, together with its version; versions never claim a script that did not run; nothing is left open |
| SQLite file (`sqlite3.c`: `unixLock`, `btreeBeginTrans`, `vdbeCommit`, `sqlite3VdbeHalt`, `OP_AutoCommit`, `sqlite3RollbackAll`, `sqlite3Close`) | committed content, locks, autocommit flag and dirty pages of each connection | each `sqlite3_step`, `sqlite3_exec`, `sqlite3_close` | what the other parts may rely on |
| Statement execution (`Executor.cpp` 85-265) | a prepared `sqlite3_stmt`, owned by nobody until a `QueryResult` takes it | `execute`, `exec`, `bindParams`, `begin`, `commit`, `rollback` | each statement is finalized once; a failed prepare or bind is reported |
| Query results (`QueryResult.cpp`, `mapping/ResultMapper.cpp`) | row index, has-more and success flags, the statement's own position | construction (first step), `fetch`, `hasMoreToFetch`, `isSuccess`, destruction | each row is handed over once and in order; the end and an error are told apart |
| Connections (`Connection.cpp`, `ConnectionProvider.cpp`, external pool) | the `sqlite3*` handle, the invalidator, the pool's idle list | `get`, pool acquire/release, `invalidate`, destruction | a handle is closed once, when nobody uses it; nothing runs on a pooled connection that comes back, and it keeps nothing but a transaction that its user left open (the invalidator does nothing) |
| Type mapping (`mapping/Serializer.cpp`, `mapping/Deserializer.cpp`, `mapping/type/Blob`) | none (method tables) | `serialize`, `deserialize` for each class | a value read back is the value bound |
| Query templates (`ql_template/Parser.cpp`, `TemplateValueProvider.cpp`, `parseQueryTemplate`, `parseQueryParameter`) | none | `preprocess`, `parseTemplate`, `:name` parameters | a `:` in quotes, dollar quotes or a raw section is text; parameter i of the prepared statement is variable i |

They meet in two places.  `Executor` prepares a statement on a connection and
hands both to a `QueryResult`, which keeps the connection alive (a
`ResourceHandle`), steps the statement once in its constructor and again in
`fetch`, and finalizes it in its destructor.  And every connection, of this
process or another, meets the others in the file's locks: `ConnectionProvider`
calls `sqlite3_open` and nothing else, so the busy timeout is 0, the journal
mode is the default, and a lock that is not free is an immediate `SQLITE_BUSY`.

What is hard here: a connection's open results act on one another inside
SQLite (a statement commits only when no other writer of its connection has
begun and not halted), while each result reports on its own; the schema functions are sequences of engine calls with
other processes in between; every call may fail, some failures roll the whole
transaction back and some leave it open; a `COMMIT` can be refused; a process
can die anywhere; a caller can have its own transaction and cursors on the
connection.  `PROJECT.json` lists each hazard at its line.

## Modules

| Module | Models |
|---|---|
| `FileLocks` | the locks of the connections on the file, and when SQLite grants them |
| `SqliteStatements` | prepared statements: an operator for each value `sqlite3_step` can return, and for `sqlite3_finalize` and `sqlite3_close`, with several statements of a connection under way |
| `Statements` | `Executor`, `QueryResult` and the connections, built from `SqliteStatements`; properties and mutants |
| `StatementsInv`, `StatementsProofs`, `MCStatements` | the inductive invariant, the TLAPS proofs, symmetry for TLC |
| `SqliteFile` | the file and its connections: an operator for each effect an `sqlite3_step` can have |
| `SchemaMigration` | the schema functions and the users of the connections, built from `SqliteFile`; properties and mutants |
| `SchemaHistory` | the abstract specification: versions go up one by one, each script runs once |
| `SchemaMigrationInv` | the inductive invariants, for any migrators and for a single one |
| `SchemaMigrationProofs` | the TLAPS proofs for any migrators |
| `SchemaHistoryProofs` | the TLAPS proof that a single migrator implements `SchemaHistory` |
| `MCSchemaMigration` | symmetry for TLC |
| `ResultFetch` | the rows of one result after the other: `execute`, `fetch`, positions, counts, the error message; properties and mutants |
| `RowStream` | the abstract specification of it: rows are read forwards, in runs that are given or dropped whole |
| `ResultFetchProofs`, `MCResultFetch` | the TLAPS proofs with the refinement, the counts for TLC |
| `SqliteValues` | the values of a column: what its affinity makes of a bound value, and what `sqlite3_column_text` and `sqlite3_column_blob` leave in a cell |
| `TypeMapping` | `Serializer`, `Deserializer` and the reading of a row as collection, map or object, built from `SqliteValues`; properties and mutants |
| `TypeMappingInv` | its inductive invariants |
| `TypeMappingProofs`, `ContentProofs` | the TLAPS proofs about integers, for all widths, and about values of every class |
| `MCTypeMapping` | small widths, formats, values and rows for TLC |
| `QueryTemplate` | the two scans of `Parser` and `parseQueryParameter`; properties and mutants |
| `QueryParameters` | the text with its placeholders, the numbers SQLite gives them, and where `bindParams` binds |
| `QueryTemplateInv`, `QueryTemplateProofs` | the inductive invariant of the scans, the TLAPS proofs |
| `QueryParameterProofs` | the TLAPS proofs about the recursive functions: paths, placeholders and parameter numbers |
| `MCQueryTemplate` | the texts TLC tries: all the ways to put a few pieces together |

### State and actions of SchemaMigration

`db` is the committed content, reduced to what the functions read and write:
whether the version table exists, its rows, and how often each statement of
each script has taken effect (`runs`, counted up to `MaxRuns`).  `lock`,
`autoCommit`, `cache` and `cursor` are per connection: the file lock held
between two calls, the engine's autocommit flag, the uncommitted content, and
whether the user holds an unfinished `SELECT`.  `pc` names the engine call a
schema function makes next, `newVersion`, `stmt` are its locals, `inTx` and
`outcome` record how the call began and ended.

One action is one engine call with everything the C++ code does until the next
one: `CreateTable`, `SelectVersion`, `FetchVersion` (with the comparisons of
`migrateSchema` that follow), `InsertZero`, `Begin`, `ScriptStmt` (one
statement of the script inside `sqlite3_exec`), `UpdateVersion`, `Commit`,
`Rollback` (the destructor of `orm::Transaction`).  Each has its failure
branch: `UNCHANGED file` is a refused lock (or a failed prepare), a kept
`RESERVED` is a statement that was aborted and undone alone, `RollbackTx` is an
error that takes the transaction with it.  The users' actions are `Open`,
`Close`, `UserBegin`, `UserCommit`, `UserRollback`, `UserWrite`, `OpenCursor`,
`CloseCursor`; `Crash` may happen in any state.

A refused lock is possible whenever a statement needs one, even if no modelled
connection holds it: a step of another connection takes and drops locks within
itself, and the model's steps are atomic.  For the same reason `CommitBusy` has
no guard on the others.

What is taken from outside the repository: the constructor of
`orm::Transaction` calls `begin` and throws if that fails; its destructor calls
`rollback` unless `commit` was called.  Whether it also rolls back when
`commit` was called and came back unsuccessful is the constant
`RollbackOnFailedCommit`; both values are checked and proved about.

Scripts contain no transaction control of their own, and the version table is
written by nobody else, apart from the NULL that a file may start with.

The models of migration and of statements share `FileLocks` only.  `SchemaMigration` runs one
statement of a connection at a time (and an unfinished `SELECT` of its user),
with the content of the file in detail; `Statements` overlaps any number of
statements and reduces the content to which writes it holds.  A user that holds
a refused result on the very connection that migrates is in neither.

### State and actions of Statements

`vdbe[s]` is where the virtual machine of statement `s` is: `"ready"` after the
prepare, `"run"` at a row, `"halt"`, `"refused"` (`VDBE_RUN_STATE` after
`SQLITE_BUSY`: to SQLite it is still running), `"null"` for the NULL statement
that a failed prepare leaves, `"none"` once finalized.  `dirty[c]` holds the
writes that connection `c` has done and not committed, `db` those in the file.
`place[s]` says who has the `sqlite3_stmt`: `"local"` is `execute` between the
prepare and the `QueryResult`, `"result"` the `QueryResult`, `"leaked"` nobody.
`hasMore` and `isSuccess` are the two flags of `ResultData`.  `inTx`, `claim`,
`mixed` and `pinned` remember what the client was told and which other results
it held then; no action depends on them.

| Action | Code |
|---|---|
| `GetConnection`, `TakeConnection`, `DropConnection`, `Close` | `Executor::getConnection` with or without a pool, `QueryResult::getConnection`, the end of the client's handle, `~ConnectionImpl` |
| `Prepare` | `execute`/`exec` to `sqlite3_prepare_v2`, whose result is ignored |
| `BindThrows` | `bindParams` throws through `execute` |
| `Construct` | `QueryResult::QueryResult`, with its first `next()` |
| `Fetch` | one turn of the loop of `readRowsAsCollection` |
| `DropResult` | `~QueryResult`: `sqlite3_finalize`, which halts what still runs |

`Construct` and `Fetch` make the `Step` of `ResultData::next`: one of
`StepRow`, `StepDone`, `StepRefused`, `StepError`, `StepMisuse` and the flags
for it.  In the engine everything turns on the halt of a statement: `Sole` (in
autocommit, and no other writer has begun and not halted) decides whether it
commits (`Store`), rolls back (`Discard`) or leaves its changes to the
connection (`Keep`).  A refused lock and an I/O error need no cause in the
model.  A connection is used from one thread at a time (`Free`), as the adapter
has no lock of its own.

### State and actions of QueryTemplate

`text` is the query, `out` what `preprocess` has written, `pos` the caret of
the loop that `phase` names; `cleanSections`, `sectionStart`, `currSection` and
`variables` are the locals of the same names.  One action is one turn of a
loop: `CopyString`, `OpenSection`, `CloseSection`, `CopyChar` and
`Preprocessed` (the return) for `preprocess`; `SkipSection`,
`ParseIdentifier`, `SkipString`, `SkipChar` and `Parsed` for `parseTemplate`.
The skipping of strings is a pair of operators on the text, `QuotesEnd` (behind
the first even number of quotes that no quote follows) and `DollarsEnd`;
`parseQueryParameter` is a function.  `strings` and `stopped` are history: the
strings in `out` that the first loop has copied, and whether the last of them
does not end; no action depends on them.  Positions count from 1.  Only the
classes of characters that the scanners tell apart are there: one letter for
all letters, digits and the underscore, and one character for all without a
meaning.  A parameter that is an empty name is kept, as in the code.

`QueryParameters` adds functions on the state in which `parseTemplate` ends:
`PreparedTemplate` is the text that `parseQueryTemplate` makes of it, with a
`?` for every variable; `ParameterTokens` are the tokens of that text that
SQLite's tokenizer takes for parameters, its own `?` and `:a` among them, and
`ParameterNumber` is the number `sqlite3ExprAssignVarNumber` gives to each.

### State and actions of ResultFetch

`Statements` follows many results through locks and commits and leaves their
rows out; `ResultFetch` follows the rows of one result at a time.  `vm` and `at`
are the statement and the row that it stands at, `hasMore`, `isSuccess`,
`rowIndex` the fields of `ResultData`, `errorMessage` that of `QueryResult`,
and `wanted`, `counter`, `collection` the argument and locals of
`readRowsAsCollection`.  `errCode` and `errText` are the one error that a
connection keeps for all its statements.  `given` and `lost` remember which
rows fetches returned and which went with the collection of one that threw.

| Action | Code |
|---|---|
| `Execute` | prepare, the first `next()`, and the copy of `sqlite3_errmsg` in `QueryResult::QueryResult`; for a statement, for a text of comments and blanks, and for one that does not compile |
| `Fetch`, `ReadRow`, `Return` | `fetch`, a turn of its loop, its end |
| `RowThrows` | `readOneRow` throws (a column without field, a key that is no String, a value that does not fit): nobody catches, the statement stays at its row |
| `Destroy` | `~QueryResult` |
| `OtherStatement` | another statement of the connection, which overwrites the error; never inside `fetch`, as a connection is used from one thread |

`Finished` is the condition of the loop and its `break` in one.  A step of the
statement may end in a row, the end, or any failure at any time.

### State and actions of TypeMapping

One row goes from bound values to read values: `row` holds the values and the
affinities of the columns, `cells` what SQLite keeps of them (`Mem` of
`SqliteValues`: the representations that are valid, a number, a text), `object`
the values read so far, each with its column and the class it was read as.
`phase`, `shape`, `next` and `later` are where the mapping of the row stands:
the type it is read as, the loop over the columns, and the polymorphic fields
that `readOneRowAsObject` leaves for the end.

| Action | Code |
|---|---|
| `Insert` | `bindParams`: `Serializer::serialize` of each value, or its exception; the `INSERT` and `SELECT` around it |
| `Begin`, `Finish` | `readOneRow` of some type; its return |
| `ReadColumn` | a turn of the loop of `readOneRowAsCollection`, `AsMap` or `AsObject`, with `InData` and `Deserializer::deserialize` |
| `ReadLater` | the polymorphic fields, after all others |
| `Forget` | the row is done with |

A row whose mapping throws goes back to `"stored"`: it is still the current row
of its statement, and the client may fetch it again as another type.  Its cells
are converted by then (`Converted`), because `sqlite3_column_text` writes the
text into the cell.

Numbers are counted in halves, so that 3 is 1.5; the formats of floating point
are sets of numbers, to which a conversion rounds.  An integer of class `c` has
`2 * Half[c]` values, whatever the real widths are.  Texts are spellings: a word, or a
number spelled as SQLite prints it or otherwise.

## What the runs check

| Run | Instance | Shows |
|---|---|---|
| `statement_writes` | one connection, four statements: inserts, `INSERT ... RETURNING`, `BEGIN`, `COMMIT` | `SuccessStored`, `CommitStores`: what a result or a commit reports done is in the file, unless it overlapped a result that was unread or had failed. `CommitStores` counts a write in a transaction from its first row on, so that one whose rows are never fetched is not lost when it is finalized. `FailureNotStored`: what is in the file was never reported a failure, nor executed twice by a step past the end |
| `statement_locks` | one pooled connection and one that is closed after use, two statements of every kind, no symmetry | `LocksHaveAReason`: a lock is there for a transaction or for a result that shows it. `IdleIsQuiet`: a result keeps its connection out of the pool until its statement is finalized, and what comes back with a connection is an open transaction or nothing. `UnclosedByLeak`: only a leaked statement keeps a connection from closing. `LocksEnd`: every other lock of the connection that is not pooled is given back. `IInv` of `StatementsInv`, which the proofs rest on |
| `lost_success` | one connection, two statements | violation of `SuccessIsKept`: an insert retried while the failed result of its first attempt is still held reports success and is rolled back |
| `failed_close` | one connection, one statement | violation of `CloseWorks`: after `bindParams` throws, the connection can not be closed |
| `result_fetch` | results of up to five rows, counts -1, 0, 1, 2 and 3 | `RowsAccounted`, `RowsInOrder`: each row up to `getPosition` was given once or went with a fetch that threw, whatever the counts and wherever rows throw or steps fail. `PositionTells`, `FetchedWhatWasAsked`: where the position stands, and when a fetch returns less than it was asked for. `MessageOfFailure`: `getErrorMessage` is about the first step of this result only, so a failure behind the first row leaves it saying that there is a row. `IsStream`: `ResultFetch` implements `RowStream`. `FetchEnds`: no fetch goes on past the end, where a step would run the statement again |
| `type_mapping` | integers of 2, 3, 4 and 5 bits, doubles of 3 bits and floats of 2; all values of all classes in one column of each affinity, pairs of integers, and rows with a polymorphic field and its tag | `RoundTrip`: a value that is read as its own class is the value that was bound, or the row throws, with the exceptions of SQLite that the property names. `IntegersThatFit`, `OrderKept`: what becomes of integers read as another class, and of `UInt64` from 2^63 on. `AnyKeepsContent`: what `Any` finds, also after a first attempt has converted the cell. `SelectorSeesAll`: a polymorphic field has the type that its selector finds in the whole object. `ContentInv`, which the proofs rest on |
| `template_parsing` | all texts of up to six pieces out of one of three kits, each with a letter, `:` and the two markers: beside those `.`; both quotes; `?` and a quote | `ScanInv`, which the proofs rest on. `OnlyMarkersRemoved`: `preprocess` loses nothing and places each section. `VariablesFound`: the variables are the parameters outside of quotes and sections, whole and in order, against a definition that does not scan (for texts without `$` and without the sections of `glued_section`). `ErrorReported`: a text whose string does not end is refused, and no other, although the first scan drops its error. `PathIsName`: name and property path are what is between the dots of the parameter, all of it and in order. `BoundInPlace`: the value of variable i goes to the `?` that stands for it exactly if the text has no parameter of its own before it. `ScanEnds`: neither loop stands still |
| `glued_section` | five pieces | violation of `SectionsAreRaw`: in `:a<!!b:c!!>` the identifier runs on into the section, and `:c` becomes a parameter |
| `migrate_concurrent` | two migrators, no rollback after a failed commit, 2 versions, 2 statements per script | `ScriptsAtomic`, `VersionJustified`, `ScriptCommitsWithVersion`: however the two interleave, fail and die, each commit is one whole migration with its version or prepares the version table. `ReturnMeansApplied`, `NothingLeftOpen`: what the caller may conclude from a call that returned or threw |
| `migrate_alone` | one migrator, two users with cursors and transactions, rollback after a failed commit | `OneByOne`: the file implements `SchemaHistory`. `CallsEnd`: a call never waits. `ReturnMeansApplied` holds here without exception. `LoneInv`, which the proof of `OneByOne` rests on |
| `two_version_rows` | two migrators | violation of `OneVersionRow`: two first calls both insert a row, which `Executor.cpp:340` calls a corrupted table |
| `stale_migration` | two migrators | violation of `PlusOneOnly`, which speaks of a table with one row (two are `two_version_rows`): a migrator that read version 0 before another migrated to 1 and to 2 sets the version from 2 back to 1 and runs the first script again |

The four statements of `statement_writes` are `BEGIN` and `COMMIT` around two
writes, or a write under way beside others; two are enough for a lock and the
result that has it, and two connections for every lock conflict.  A
statement that is executed again and again, or a connection that is opened
anew, is another element of `Stmt` or `Conn`: the model has no counter and needs
no bound beside these two sets.  `Stmt` runs out, so deadlock is not checked.

Five rows and counts up to three let a result be fetched in portions that end
before its last row, at it and behind it, with a throw between two of them; only
one result is alive at a time, and the next one starts anew.

Two to five bits keep the order of the widths, with each class half as wide as
the next or less, so that every pair of classes has numbers that fit, numbers
that are cut and, for the signed and unsigned of one width, numbers that change
sign.  Formats of three and two bits round integers of five and doubles of
three.  The spellings are a word, integers as SQLite prints them and otherwise,
one beyond the integers, and numbers with a point.  A row of one column shows
all there is to one value; three columns are a tag and two polymorphic fields.

Six pieces hold two sections, or a section with a parameter in it behind a
parameter, or a string across a marker; the scanners keep no more memory than
one open section and the position in a string.  Some texts are spelled by two
ways of putting pieces together and count once.

Two versions and two statements per script are the smallest numbers at which a version can
be skipped, repeated or set back and a script can be half done; two migrators
are enough for each race, since `RESERVED` admits one writer, and in the runs
with two migrators each also acts as a user.  `MaxRuns = 2` tells "once" from
"again".

Two consequences of the failed commit, with `RollbackOnFailedCommit = FALSE`,
show in the exceptions the properties make: the call leaves its transaction
open and its `PENDING` lock shuts every other connection out
(`NothingLeftOpen` excepts the outcome `"uncommitted"`); and a retry of
`migrateSchema` on the same connection reads the new version inside that
transaction and returns as if it were committed (`ReturnMeansApplied` excepts
calls that begin inside a transaction).

Fairness in `Statements`: `execute` goes on once it is called
(`BindThrows \/ Construct`), the client's results and handles go out of scope
(`DropResult`, `DropConnection`), and a connection without references is closed
(`Close`): C++ destroys what it leaves, and nothing in these calls waits.
`fetch` needs none, and no step is assumed to succeed.

Fairness in `ResultFetch` is that of the thread inside `fetch`
(`ReadRow \/ RowThrows \/ Return`); that the loop ends is not assumed but
follows from the rows running out.  `TypeMapping` has none: nothing in it goes
wrong by not happening.

Fairness in `QueryTemplate` is `WF_vars(Next)`: one thread runs the two loops,
and nothing in them waits.

Fairness in `SchemaMigration`: `WF_vars(CallStep(c))`, the thread that is inside a schema function
goes on.  Nothing is assumed of users, crashes or other processes, and no call
is assumed to succeed.

## What is proved

### Statements

`StatementsProofs` proves, for any sets of connections and statements, any
subset of the kinds of statement and both kinds of provider, from
`StatementsAssumption` alone: `StatementInvariance` (`Spec => []IInv`) and from
it `SuccessIsStored`, `FailureIsNotStored`, `CommitIsStored`,
`LocksAreForAReason`, `IdleConnectionsAreQuiet`, `OnlyLeaksPreventClose`.

The flags of a result say nothing about locks and changes by themselves, so the
invariant ties them to the engine: `StmtInv` gives the states of the virtual
machine for each owner of a statement and makes `hasMore` the same as standing
at a row; `ConnInv` says that changes and locks outside a transaction are there
for a statement that has not halted; `StoreInv` and `ClaimInv` say where a
write is from the moment its result called it a success, and until which
statement can still take it back.  The proof has two layers.  `Stepped` and
`Finalized` are the effects of a step and of a finalize whatever path of the
engine they took (`MoveRow`, `MoveDone`, `MoveError`, `FinalizeMoves`, over
`EndTxLocal` and `KeepLocal`, the two ways a halt can go); each action of the
adapter preserves the invariant by those effects alone (`StepInv`,
`DropResultInv`, `PrepareInv`, ...).

`LocksEnd` and the two violations are model-checked only.

### Schema migration

`SchemaMigrationProofs` proves, for any set of connections, any numbers of
versions and statements (also 0) and both values of `RollbackOnFailedCommit`,
from `MigrationAssumption` alone:

* `Invariance`: `Spec => []IInv`
* `TypeCorrect`, `AtomicScripts`, `JustifiedVersions`, `ReturnsApplied`,
  `LeavesNothingOpen`: the invariants of the runs, and the type invariant
* `CommitsTogether`: `Spec => ScriptCommitsWithVersion`

None of these invariants is inductive by itself.  What a commit writes is the
cache of a connection, filled by several earlier steps, so `CallInv` states for
each value of `pc` how the cache relates to the committed content (`AheadBy`
while the script runs, `LeftInTx` outside of it) and that the version to write
is due (`Due`: its predecessors are applied).  `LockInv` gives the single
writer: while a connection's cache is ahead, nobody else commits, so that
relation survives the others' steps.  `FileInv` closes the circle: `CommitOK`
keeps versions justified.

The argument is in three layers: a lemma for each engine operation
(`WriteStep`, `CommitTxStep`, ... : `FileStep`), a lemma for each action of the
connection that takes it (`StepOK`), and one lemma (`StepKeeps`) that carries
the rest of the system over any such step.

`SchemaHistoryProofs` proves that a single migrator (`Alone`), beside any number
of connections that lock, read and crash, implements `SchemaHistory` through the
version of the file: `LoneInvariance` (`Spec => []LoneInv`) and
`ImplementsHistory` (`Spec => OneByOne`), for both values of
`RollbackOnFailedCommit`.  With two migrators that is false
(`two_version_rows`, `stale_migration`), and the invariant says why one is
enough: outside of a migration, what the migrator has not committed is at most
the preparation of the version table or one whole migration to the next version
(`LoneCommit`), the version it has read is that of the file when it writes, and
the others have nothing to commit.  `RunOnce` is what the file then shows: the
scripts up to its version have run once each and the others never.  Every step
leaves `db` alone or is a commit of the migrator, and a commit makes
`LoneCommit(db, db')` true, which is a step of `SchemaHistory` or a stutter.

### Results

`ResultFetchProofs` proves, for any number of rows and any set of counts, from
`FetchAssumption` alone: `FetchInvariance` (`Spec => []IInv`),
`RowsAreAccountedFor`, `RowsAreInOrder`, `PositionIsRight`, `FetchIsComplete`,
`MessagesAreOwn`, and `ResultIsStream`: `Spec => IsStream`, the refinement of
`RowStream`.  No property is inductive alone: that fetches neither skip nor
repeat rows needs `hasMore` to be the same as the statement standing at a row,
the position to be the row in front of it, and `given` and `lost` to be exactly
the rows before the collection (`FetchInv`).  As with statements, a step enters
the proofs by its effect (`Stepped`), whatever its outcome.  A row mapped is a
stutter of the stream; the run of rows is taken when `fetch` returns or throws.

### Types

`TypeMappingProofs` proves, for all widths that divide each other, all rows and
all types a row is read as, from the assumptions of the module:
`MappingInvariance` (`Spec => []IInv`), `IntegersArrive` (`IntegersThatFit`) and
`IntegersStayOrdered` (`OrderKept`).  The C++ casts are remainders by a modulus
that is a constant, so the proof starts with what it needs of those:
`Remainder` (a remainder is determined by the quotient), `RemainderShifted` (a
multiple of the modulus makes no difference), and from them `CastTwice`: 64
bits on the way to a narrower class lose nothing of what the class would keep.
`IInv` says that a cell keeps the 64-bit cast of the integer bound to it, or
cannot be read as an integer at all, through every conversion in place
(`ConvertedKeeps`).

`ContentProofs` goes on to the values of all classes, for all formats of the
floating point numbers too: `ContentInvariance` (`Spec => []ContentInv`),
`ValuesComeBack` (`RoundTrip`), `AnyFindsContent` (`AnyKeepsContent`) and
`SelectorsSeeAll` (`SelectorSeesAll`).  A cell is converted in place by what
earlier attempts have read it as, so `Holds` says what it holds of the value
bound to it in whatever representations are valid by then; `StoredHolds`
establishes that for each class and affinity, `ConvertedHolds` carries it over
a conversion, and `ReadBack` and `ReadAny` read it.  A format enters by one
fact: a number of the format is nearest to itself (`NearestSelf`).
`ReadInOrder` says that polymorphic fields are read when all others are, so
that no later column changes what their selector saw (`SelectorKept`).  These
theorems assume of the rows that each value is one a variable of its class can
have (`ValuesAssumption`), and of the types that the tag of an object is not
itself a polymorphic field (`ShapesAssumption`).

### Query templates

`QueryTemplateProofs` proves, for any texts of any length, from `TextsAssumption`
alone: `ScanInvariance` (`Spec => []ScanInv`), `TextKept`
(`OnlyMarkersRemoved`), `ErrorsAgree` (`ErrorReported`) and `FindsVariables`
(`VariablesFound`).  The two loops scan different texts, the second one without
markers, with sections to jump over, and with strings that may have come
together where a marker stood between.  `StringsInv` says what the first loop
leaves behind: strings that lie apart, hold every quote and dollar of `out`, and
end in `out` where they ended in the query (`CopyEnds`, from `StringShift`: a
string ends where it ends whatever is in front of it).  `SectionsInv` says that
no section begins or ends inside one.  So the second loop, which is never inside
one either (`CaretInv`, `Clear`), meets each of them at its first character.
That it then skips as far is `SkippedString`, and for quotes not the same
string: strings without a gap are one to it, so `QuotesSkipped` follows the
chain (`Link`) to its last.  `ErrorsAgree` follows: a string without an end
reaches to the end of `out`, no section that was closed holds it, and the
second loop cannot get past it.

For `FindsVariables` quotes are counted.  Without dollars an even number of
quotes is before every end of a section and before the caret (`ParityInv`), and
inside quotes an even number is only ever between two of them (`EvenInside`): a
section whose position is jumped over is one that is `Glued`, which
`VariablesFound` excludes and `glued_section` shows.  `MarkersStep` carries
`OnlyMarkersRemoved`, which is stated by positions, with no recursion in it,
over each append and each marker.

`QueryParameterProofs` adds, from the same assumption, `PathCutAtDots`
(`PathIsName`) and `ValuesInPlace` (`BoundInPlace`): what the recursive
functions do with a text of any length.  A recursive function is one that
satisfies its equation, so the first thing to prove is that there is one:
`RecursionFromEnd` builds it position by position from the end of the text, for
any step that looks only at positions behind its own (`FromBehind`); the path,
the tokens and the prepared text are instances of it.  Induction over positions
is by `Downward` and `Upward`, which speak of a set of positions and so need no
operator as a parameter.  A path unfolds one label at a time, and the number of
dots counted up to a position is the number of its label (`PartsGrow`).

`ValuesInPlace` has three parts.  The tokens of SQLite are in the order of the
text, and every `?` with an even number of quotes before it is one (`TokensAre`:
each of SQLite's tokens ends where the text is between strings again).  Among
any such `?`s in order, the i-th has the number i exactly if every parameter up
to it is one of them (`NumberInPlace`, by counting: the first i are i of the
numbers taken, so there is room for no other).  And the placeholders are such
`?`s: the variables are pieces of `out` outside of quotes that lie apart
(`VariablesApart`, from `ScanInv`, whose `IdentifiersInv` keeps every variable
inside `out`), and the text up to a placeholder has the quotes that `out` has up
to its variable (`FormattedKeepsQuotes`).  Whether the text compiles is not
needed.

Every invariant and action property that a passing run checks is a theorem.
Only model-checked are `CallsEnd`, `LocksEnd`, `FetchEnds` and `ScanEnds`
(liveness is out of the prover's reach) and the violations.

## What is not modelled

* SQL compilation and execution, the b-tree, the journal and WAL of the vendored
  engine: the adapter relies on them.  They are 98 % of the lines in the
  repository, so the models cover a small share of all lines; of the adapter's
  own code they cover nearly all that has behaviour.
* All statements of a text but the first: `execute` passes no tail to
  `sqlite3_prepare_v2`, and neither the adapter nor the engine looks at the rest.
  `migrateSchema` runs its scripts with `sqlite3_exec`, and there every
  statement is modelled.
* Allocation failures.  One matters to `migrateSchema`: it looks at the message of
  `sqlite3_exec` and not at its return code (`Executor.cpp:377-379`), so a
  script that fails when there is no memory for the message would pass, and be
  committed half applied.  `ScriptsAtomic` is shown for failures that have their
  message.
* A write outside of a transaction whose rows are not fetched commits when
  `~QueryResult` finalizes it, and the result of that is not looked at: the
  commit may fail after `isSuccess` was true.  `Finalize` has that step, and
  `SuccessStored` counts such a write only once its result was read to its end.
* The method tables of the mappers after their construction.  They are indexed
  by class id without a check of their size, and a class registered later is
  past their end; that is one read without a state before it.
* The bytes of texts and blobs, and the names of columns beyond which field
  they are.  SQLite's own parameters `?1`, `?2`; its view of dollar quotes,
  which are variables to it and strings to `Parser`.
* `getKnownCount` (always -1), `last_insert_rowid` and the header of includes:
  no state.
* The Oat++ core: external.
