# Verification of exodbc

TLA+ models of [exodbc](https://github.com/eg-be/exodbc), a C++ wrapper around the ODBC API, with
TLC configurations that check them on small instances and TLAPS proofs for every value of the
constants. Paths below are those of the repository, without the leading `src/`.

The library keeps, on the client's side of an ODBC driver, a picture of what the driver is in:
which statement handles exist, which buffers they write to, whether a statement is prepared, in
which commit mode the connection is, which columns of a table are keys. Nearly everything that
can go wrong is a disagreement between this picture and the driver after a failed call, an unusual
order of calls, or a reuse. The models put the driver beside the object, and the properties say
how the two must relate.

## 1. Inventory

| Component | Code | State | Operations | What makes it correct |
|---|---|---|---|---|
| Handles | `include/exodbc/SqlHandle.h` | raw handle, parent, two signals | allocate, `Free`, `UnbindColumns`, `ResetParams`, destructor | one owner per raw handle, none lost, buffers told when it unbinds |
| Buffers | `ColumnBuffer.h` (`ColumnBindable`, `ColumnBuffer<T>`) | value, length indicator, two maps from raw handle to signal connection | bind as column or parameter, signal handlers, destructor | the driver never has a pointer into a buffer that is gone |
| Descriptors | `SqlDescHandle` in `SqlHandle.h` | descriptor handle of a statement | set fields of numeric columns | read while binding only |
| Statement | `ExecutableStatement.cpp` | database, handle, prepared, scrollable and bound flags | `Init`, `Reset`, `Prepare`, `Execute*`, `Select*`, `Bind*`, `Unbind*` | flags agree with the driver, all or nothing `Init`, no open cursor in the way |
| Scope guard | `StatementCloser` | statement | close at the end of a scope | the cursor is closed on every path |
| Connection | `Database.cpp` | environment, connection handle, open flag, commit mode, `ExecSql` statement, catalog, properties | `Open` (two forms), `Close`, transactions, modes, `ExecSql` | open is fully set up, closed is disconnected, work becomes durable by commit only |
| Catalog | `DatabaseCatalog.cpp` | connection, one statement, its metadata attribute, a copy of the properties | `Init`, `Reset`, `SearchTables`, `FindOneTable`, `Read*`, `List*` | answers are whole and about what was meant, every path closes the cursor, the statement dies before the connection |
| Table | `Table.cpp` | five statements, columns, key indexes, flags | `Open`, `Close`, `Select*`, `Count`, `Insert`, `Update*`, `Delete*`, column and flag setters | statements and columns match the flags; what `Open` made, `Close` takes back |
| Flags | `EnumFlags.h` | bit sets | set, clear, test | laws of sets |
| Logging | `LogManager.cpp`, `LogHandler.cpp` | handlers, global level, custom levels, three mutexes per process and one for `StdLogHandler` | log, register, remove, clear, level setters | order, no call after removal, whole lines, no deadlock |
| Environment | `Environment.cpp` | environment handle, ODBC version | `Init`, copy, `SetOdbcVersion`, `ListDataSources`, `ListDrivers`, pooling, trace | two passes agree, the version remembered is the driver manager's |
| Properties | `SqlInfoProperty.cpp` | cache of `SQLGetInfo` values, product | `Init`, `Reset`, register, read, look up, derive | all that is known is of the present connection, nothing is asked that the driver is too old for |
| Type map | `Sql2BufferTypeMap.cpp` | map from SQL types to C types | `RegisterType`, `ClearType`, look up | every type a driver reports has a buffer type |
| Sizes and values | `ColumnBuffer.cpp`, `ColumnBuffer.h`, `ColumnBufferWrapper.h` | array and length indicator | calculate sizes, set, set to NULL, fetch, send | program and driver read what was set or fetched last |
| Rows and descriptions | `InfoObject`s, `ColumnInfo`, `TableInfo`, `GetDataWrapper.cpp`, ... | one row | read, compare | NULL is kept apart |
| Visitors, wrappers | `ColumnBufferVisitors.cpp`, `*Wrapper` | none | dispatch over buffer types | a column that cannot be NULL is not set to NULL |
| Sample tool | `samples/ExodbcExec` | arguments, statement, string columns, the transaction | 19 commands, SQL, two kinds of pages | the columns shown are those of the last result, the exit code tells what happened |
| Errors, helpers | `Exception.cpp`, `AssertionException`, `ErrorHelper`, `SqlStructHelper` | diagnostics | format | – |

How they interact. A `Database` owns the connection handle, a statement for `ExecSql` and the
catalog. An `ExecutableStatement` shares the `SqlStmtHandle` with every buffer bound to it, and the
handle calls the buffers back through two signals (boost signals2) when it unbinds. A `Table` owns
five `ExecutableStatement`s and a map of buffers and asks the catalog for columns and keys. `Database::Open`
fills the properties, creates the type map and gives the catalog a copy of the properties. All of them log
through the process-wide `LogManager`. The tool `exodbcexec` uses one `Database` and one `ExecutableStatement`.

What is hard about the code:

* **Shared ownership and callbacks.** Buffers, statements and owners go in any order; the entries
  by which they find each other are keyed by raw handle values, which the driver gives out again.
* **Partial failure.** `Init`, `Reset`, `Open`, `Close` and binding consist of many driver calls; any
  of them may throw, and what has been done before has to be taken back.
* **Caches of the driver's state.** Prepared, scrollable, bound, commit mode, opened by connection
  string: each must follow every event that changes the driver.
* **Long legal sequences of calls** on one `Table` or statement that is opened, changed, closed and
  opened again.
* **A world that changes**: tables and data sources come and go between two calls of one question.
* **Boundaries**: sizes of buffers in integers that overflow, texts that just fit, versions in two parts.
* **Threads**, in the logging only: the other classes hold no lock and are not meant to be shared.

There is no persistence and no network protocol of the library's own, so crash recovery and message
loss do not appear. The full list of hazards, each at its line, is in `PROJECT.json`.

## 2. Modules

| Module | Models | Checked by | Proved in |
|---|---|---|---|
| `StmtBinding` | `SqlStmtHandle`, `ColumnBindable`, the bindings in the driver | `MCStmtBinding` | `StmtBindingProofs` |
| `ExecStatement` | one `ExecutableStatement` and the driver's state of its handle | `MCExecStatement` | `DatabaseProofs` |
| `TransactionContract` | abstract: what becomes of work done on a connection | (refined by the next) | – |
| `DatabaseConnection` | `Database`: opening, closing, transactions | `MCDatabaseConnection` | `DatabaseProofs` |
| `Table` | `Table` and what its statements have prepared and bound | `MCTable` | `TableProofs` |
| `LogContract` | abstract: which handlers put out a message, told without threads and mutexes | (refined by the next) | – |
| `Logging` | `LogManager`, `LogHandlerBase`, `StdLogHandler`, `LogLevelSetter` under threads | `MCLogging` | `LoggingProofs` |
| `CatalogQueries` over `InfoRows` | `DatabaseCatalog`, and what callers read from its rows | `MCCatalogQueries` | `CatalogQueriesProofs` |
| `Environment` | `Environment` and the driver manager's data sources | `MCEnvironment` | `EnvironmentProofs` |
| `InfoProperties` | `SqlInfoProperties`, its use by `Database` and catalog, `Sql2BufferTypeMap` | `MCInfoProperties` | `DatabaseProofs` |
| `ColumnValues` over `DisplaySize` | the value of one array column, seen by program and driver; the sizes of buffers | `MCColumnValues` | `ColumnValuesProofs` |
| `ExodbcExec` over `TracPages` | the tool `exodbcexec` and the pages it writes | `MCExodbcExec` | `ExodbcExecProofs` |

Definitions keep the names of the functions they model. Comments that begin with "slip" mark small
variants of a definition with a plausible mistake in it; nothing in a specification uses them. They
exist to confirm that each property notices the mistake it is there for (`PROJECT.json`,
"mutants"). `ExecStatement` and `InfoProperties` give what every module has names of their own (`StatementSpec`,
`infoFaults`), because `DatabaseProofs` extends both beside `DatabaseConnection`.

**Discipline and faults.** Each module lists at its head, as `FaultKinds`, things that callers or drivers
may do and the code does not rule out: a handle freed while buffers are bound to it, a bind call that
throws after it took effect, a driver whose cursors are scrollable anyway. Without them callers keep to
what the library itself and its tests do, and driver calls fail where the code has an answer to it. The
variable `faults`, chosen at first and never changed, is the set of kinds that may happen in a
behaviour. A property that the code keeps only without some of them names those
(`Without({...}) => ...`), and is checked under all the others; one that names none holds under every
fault. So each exception is visible where the property is stated, and section 3 tells what
happens when it is dropped.

### StmtBinding

`handle[o]` is `m_handle` of the `SqlStmtHandle` object `o`, `held` the objects some owner has a
`shared_ptr` to. `entries` are all entries of the buffers' `m_unbindColumnsConnections` and
`m_resetParamsConnections`: an entry has the buffer, the kind, the raw key and the object whose
signal it is connected to. `liveRaw` and `bound` belong to the driver: allocated raw handles and,
for each column or parameter of them, the buffer it writes to. Raw values are recycled.

`Bind` is `BindColumnImpl` / `BindParamImpl`, which skips the map if its key exists; `Unbind` is
`SqlHandle::UnbindColumns` / `ResetParams` with the signal handlers it fires (`Notified` looks the
entry up by `GetHandle()`, as they do); `FreeHandle` clears `m_handle` first and fires the signals
afterwards, in the order of the code; `DestroyBuffer` is `~ColumnBindable`, in which any unbind may
fail and be logged. `DestroyUnreferenced` is part of every action that may drop the last
`shared_ptr`.

### ExecStatement

`db`, `hstmt`, `isPrepared`, `scrollable` and `boundFlag` are the members; `drv` is the driver's
side of the handle. `SQLPrepare`, `SQLExecDirect` and `SQLExecute` give the driver's answers after
the state transition tables of ODBC: refusal (24000) with an open cursor, HY010 with nothing
prepared, loss of the prepared text after a direct execution. `last` is the call made last and how it
ended, so that invariants can speak of outcomes. `TransactionEnds` is the database's commit or rollback,
which keeps or closes the cursor or, as the fault `commit_deletes`, deletes what was prepared
(`SQL_CURSOR_COMMIT_BEHAVIOR`). `Destroy` is the destructor, which catches whatever `ResetParams` and `UnbindColumns`
throw, logs it and gives the handle up all the same (the fault `unbind_lost`).

### DatabaseConnection and TransactionContract

The members of `Database` beside `connected`, `drvAuto`, `drvTx` and the work `pending` in the open
transaction or `durable`. `Open` is `OpenImpl` with success; `OpenFails` covers all its failures,
grouped by how far the commit mode has got (`OpenFailures`), and the handler that frees the
statement and disconnects. `Close` is split by how far it comes (`CloseFailsToFree`,
`CloseFailsToDisconnect`, `Close`), since what it has done stays done. `SetCommitMode` rolls back unless
the cached mode is AUTO, then switches, and the driver commits pending work if auto commit is
switched on. `SetModeOnlyRollsBack` is `SetCommitMode` that fails to switch and
`SetTransactionIsolationMode`, of which only the rollback matters here.

`TransactionContract` says the same of a caller's work without a driver: it becomes durable when it is done
in auto commit mode or committed, and changing the mode or closing gives it up.
`DatabaseConnection!TransactionsKeepContract` maps `open` to `m_dbIsOpen` and `auto` to the
**cached** commit mode, so the refinement fails if the cache ever differs from the driver while work
is done.

### Table

`columns` maps indexes to the column's name in the database, its `ColumnFlags` and who made the
buffer (`AutoColumns` gives consecutive indexes to the columns that have a buffer type, so that behind a skipped
one index and name differ); `given` remembers what the caller has defined. For each of the five statements `stmts` has
whether it is initialised, `m_isPrepared`, whether the driver has a prepared text, and the buffers its
result columns point into. `Open` composes `CreatedColumns`, `Marked` (key columns),
`AllocateStatements`, and what is prepared and bound; there is one action for each place at which it
can fail (`OpenFailsToCreate`, `OpenFailsToMark`, ...), each with what the handler takes back.
Values and SQL texts are left out, except whether a WHERE clause over the key columns is well formed.

### Logging

A step is what a thread does between two acquisitions of a mutex. `call[t]` is where thread `t` is
and which handlers it has still to call. `LogMessage` compares the level under its own mutex,
`LockHandlers` takes `m_logHandlersMutex` and keeps it over `CallHandler`, `BeginLine` and `EndLine` (the
mutex of stderr or stdout is held between these two) until `UnlockHandlers`. `WriteDirectly` is a use of
`WRITE_STDERR_ENDL` outside of the log manager. `SetHandlerFlag` and `SetHandlerLevel` are the two
unprotected assignments of `LogHandlerBase::SetLogLevel`; the two steps of `LogLevelSetter`'s constructor
and its destructor are actions of their own. `saved[t]` has what the living setters of thread `t` have read, the oldest
first, since scopes with setters lie inside of each other; `SetGlobalLogLevel` may be called at any time, while setters live
too. `log`, `wanted` and `baseLevel` are history: `baseLevel` is the level from before the oldest living setter.
`StdLogHandler::m_logMutex` is only ever taken under `m_logHandlersMutex` and is left out.

`LogManager.h:63` calls the class thread-safe. `LogContract` says what that is worth to its callers: a message at or
above the global level is let through (`Accept`); at some later moment all handlers registered then that do not hide it
put it out at once (`Publish`); at no other time does any handler put out anything, and registering, removing and setting levels
happen between these moments. `Logging` implements it (`MessagesKeepContract`) with `registered` as the set of the list of handlers.
A message counts as put out when `m_logHandlersMutex` is unlocked: until then `PublishedLog` leaves it away from the logs of the
handlers that have it already. `settled` says whether handlers get their levels before messages are logged; if not, the contract leaves
open which of the registered handlers hear a message.

### CatalogQueries and InfoRows

`there` are the tables that exist, `support` whether the database has schemas, catalogs and the rules of
PostgreSQL; `hdbc`, `hstmt` and `mode` are the catalog's members, `drv` the driver's side of the
statement with its `SQL_ATTR_METADATA_ID`. The operators `ByAll`, `BySchema`, `ByEither`, `ForOne`, `ForTable` are what the
public functions pass to the private one for what a caller means. The private one takes several steps: `Run` sets the
attribute, closes what an earlier question may have left (`ClosedAtFirst`) and asks, which opens a cursor (`DriverAsked`); then
`FetchRow` for each row, and the loop ends with `SQL_NO_DATA` (`FetchEnds`) or anything else (`FetchFails`). Only then the guard of
the scope closes the cursor (`ClosedAtLast`), which may fail and is logged. Between these steps tables come and go; the result set is
that of the moment of the question (`last.truth`). `Answer` is the driver, which takes
arguments for patterns or identifiers (`TakesPatterns`), and the catalog never for a pattern if it is one of ODBC 2 (the fault
`odbc2`, `DatabaseCatalog.h:122`). `MatchedBy` gives the names a name matches as a pattern: `t_x`
matches `tax`. `SetMetadataAttribute` passes the address of the new value in place of the value
(`AttributesAfter`). The life of the catalog is `InitCatalog`, `InitFails`, `Reset`, `Release` and `CloseDatabase`, which
gives the catalog up before it disconnects, unless a caller holds it.

`InfoRows` says, for each of the five kinds of rows, which members are read how: texts and numbers with or without
a NULL flag, and the ones that are never stored or only half. `LookAtField` is a caller who reads a member.

### Environment

`allocated`, `version` and `dmVersion` are the handle, the version remembered and the one set at the driver
manager. `ListDataSources` is `Begin`, then one step for each call of `SQLDataSources`: `AskLength` in the first
pass, which measures descriptions, `AskFirstText` and `AskNextText` in the second. `SourcesChange` adds, removes and describes
data sources anew between any two of them. `changed` and `seen` are history. `ListDrivers` has the same two passes over
another list and is not repeated.

### InfoProperties

`props` is what is known of each property: from which connection, whether it was read, whether it is marked as unsupported.
Properties nothing depends on share one name per group and version of ODBC: `Since` is the version that has brought a property, as
the headers of ODBC have it and not as the code's ifs do, so those the code registers
together with older ones have names of their own (`Untimely`). `Filled` is `SqlInfoProperties::Init`: register and
read the product, then what the version of the driver (`ParseOdbcVersion`) and the product allow. `OpenOn` is that
part of `Database::OpenImpl` that fills the properties, creates the catalog with its `copy`, and the type map unless there is one.
`InitFails` and `OpenOnFails` are its failures; `InfoAsserts` is a driver that says a text has an odd number of bytes, which is an
`AssertionException` (`SqlInfoProperty.cpp:111`) that nobody catches there.

### ColumnValues and DisplaySize

One array column: `buffer`, `cb` and `capacity` as in `ColumnBuffer<T>`, the value in the row of the database (`stored`),
and the one set or fetched last (`meant`). `ProgramReads` is `GetString` and its like, which trust the terminating zero;
`DriverReads` trusts the indicator. `SetString`, `SetBinary`, `SetNull`, `Fetch` and `Write` overlay the array and set the
indicator as the code does; `Text` keeps what is behind the zero. `DisplaySize` is `CalculateDisplaySize` and
`CreateColumnArrayBufferPtr` in integers that wrap (`Wrapped`), with the longest value of each type beside it.
Lengths are counted in elements: the bytes of a wide character are a matter of units (`Units`).

### ExodbcExec and TracPages

`ParseArguments` is the loop over the arguments and what `main` decides after it, `Connect` opens the database and
creates the statement; then a line of the input is a command (`RunCommand`), SQL (`RunSql`), nothing, or a prefix alone.
`ExecuteSql` covers executing, unbinding and binding with its failures between two columns (`BindFails`), which may also come when
the driver has taken the binding already: nobody remembers that one and `failures` has `"lost"`;
`stmt` has the driver's side of it, the position of the cursor included. `Inform` are the commands that read
properties; those the driver refuses are passed over (`"info"`), here and when the database is opened. `FindShort` and `FindInteractive`
are the search as it is typed and as it asks for each part; `search` has the arguments typed, what they mean by the help
(`Meant`) and what was asked for. An argument is empty if there were two spaces. `TracPages` composes the page about the test tables from what each search and reading returned.
`failures`, `search` and `last` are history.

## 3. Runs

Passing runs; all of them explore the whole state space within their bounds and check deadlock: some
operation is always possible, or the module says that the program has ended.

| Run | Question | Bounds |
|---|---|---|
| `MCStmtBinding` | Do the maps, the handles and the driver agree in every order of use, destruction and failure? | 2 objects, 2 raw handles, 2 buffers, 1 slot; four sets of faults, see below |
| `MCExecStatement` | Do the flags agree with the driver, and is an execution ever refused for a cursor left open? | 3 texts, 2 with results; every set of faults |
| `MCDatabaseConnection` | Are opening and closing all or nothing, and do transactions keep the contract? | 3 units of work; every set of faults |
| `MCTable` | Do statements, columns and keys match what was asked for over any history? | 3 columns, the first without a buffer type, the second nullable and not reported, the third the key; 2 sets of access flags, 2 of column flags, 2 of key indexes; five sets of faults, with none and each kind |
| `MCLogging` | Order, registration, removal, whole lines and the global level with threads at work | 2 threads, 3 handlers (two equal), 2 levels, 3 messages, 2 setters, in one thread inside of each other or in both |
| `MCLoggingLevels` | Is a message put out at once by those that are registered and do not hide it (`LogContract`), and does every call return? | 2 threads, 2 handlers, 2 messages, 1 setter; custom levels changed while logging or not |
| `MCCatalogQueries` | Is an answer whole and about what was meant, and does the statement end with its connection? | 2 tables' names, one matching the other as a pattern; one name of a schema and a catalog, or none; every kind of database; seven sets of faults |
| `MCInfoProperties` | Is what is known of the present connection, and what is asked known to its driver? | six connections (2.0, 2.90, 3.51, 3.80, 4.0 and an unreadable version), two products, three environments' versions, three properties that may fail; five sets of faults |
| `MCEnvironment` | Is a list of data sources whole, and is nothing in it invented? | 2 environments, 2 data sources, one of them of the system, descriptions of 1 or 2; four sets of faults |
| `MCExodbcExec` | Are the columns those of the last result, the exit code what was asked for, searches and pages as meant? | 3 statements (two rows, no row, no result), 10 lists of arguments of the tool and 7 of `!find`, 2 executions, 2 test tables, one of them temporary |
| `MCColumnValues` | Do program and driver read what was set or fetched last? | 22 columns in every type of array, integers of 8 bits, fallback size 5; no fault or any single one |

Why the bounds are enough. Two objects on two raw handles let a raw value be reused by an object while
another one that had it is still in a map, which is what the map's keys could get wrong; two
buffers on one slot let a binding be replaced by that of another buffer, and the two kinds let a
buffer be bound twice. `MCFaultSets` has the failing `SQLFreeHandle`, which loses a raw value for
good, apart from the faults that need raw values to come back. Two select texts and one without a
result set distinguish "a cursor is open" from "executed". Each of three units of work can be durable,
pending or undone at the same time. A column that is skipped before two
others shifts their indexes, so that each index denotes another column than its name says; of these two one is nullable and
not reported, the other a key, which distinguishes all that the code does per column.
Access by WHERE clause and access by key, with all other statements between them, are the two ways a
table is opened. Two threads suffice for each interleaving of a pair of critical
sections; three messages and three handlers let the order of two messages differ between two
handlers in each way. Two tables of which one is matched by the other's name are
what it takes to get the wrong one, or one too many; with a schema or catalog beside tables without, each argument
can decide. Two data sources can be skipped, doubled or swapped, and two lengths make a description longer than
the one measured. A question about two tables has none, one or two rows left at the moment it fails. Two setters are what it
takes for one inside another, and for two that overlap. The seven lists for `!find` have each part left out, an empty schema, an empty type, and `-pc` last,
alone and in front of another argument. The six versions lie on both sides of each comparison the code makes, and in pairs of
which one part is larger and the other smaller. A size of 127 in integers of 8 bits is what 2147483647 is in 32:
the sizes calculated from it overflow, those for `BINARY(64)` only when doubled; `MaxExecutions` of 2 lets a second
result fail after a first one was shown. Messages and setters are bounded by the constants `MaxMessages` and `MaxSetters`,
descriptions by `MaxLength`, executions by `MaxExecutions`, work by `Works`; nothing else is counted.

Type invariants, `InitAllOrNothing`, `ClosedIsDisconnected`, `VersionCurrent` and `HiddenIfSettled` are in no run's properties: those that are
proved are named in section 4, the type invariants of `ExodbcExec` and `ColumnValues` held when TLC was given them
beside the listed ones.

One run ends in a violation, `MCStmtBindingFree`: the code differs from what its comment says (`PROJECT.json`,
"findings"). `Free` clears `m_handle` before its signals fire, so no buffer finds its entry; when the driver gives the
raw value out again a new binding is taken for known, and outlives its buffer.

Other places where the code differs from its comments, or does what its author will not have meant. The models
do what the code does.

| Where | What the code does |
|---|---|
| `ExecutableStatement.h:111` | `Reset` is said to put everything back, but keeps `m_isPrepared` and `m_scrollableCursor` |
| `Database.h:352` | `OpenedWithConnectionString()` stays true after opening with a DSN later |
| `Table.h:227` | manual columns are kept by `Close`, it says; they go once the table has ever created its own |
| `Table.cpp:574` | the parts of a key of several columns are joined with a comma in the WHERE clause |
| `LogHandler.h:102` | flag and custom level of a new handler are not initialised |
| `ExodbcExec.cpp:406` | `--forwardOnlyCursors` is passed as `scrollableCursor` (`ExecutableStatement.h:77`), and `IsForwardOnlyCursor` returns `m_scrollableCursor` (`:168`): `!first`, `!last` and `!prev` assert and end the tool unless it was told to use forward only cursors |
| `samples/ExodbcExec/Command.cpp:611` | the help says empty arguments are ignored (`:818`), but an empty schema or catalog is counted and searched for, and only an empty type is ignored (`DatabaseCatalog.cpp:352`); `-pc` is only seen if it is last, so that with a space behind it, it is taken for a name |
| `samples/ExodbcExec/Command.cpp` (`FindInteractive`) | with a catalog entered and the schema ignored, the text "NULL" is searched for in place of what was entered |
| `ExodbcExec.cpp:89` | the tool shall end "if executing any SQL related call fails" with `--exitOnError`, but goes on after properties that cannot be read (`SqlInfoProperty.cpp:565`) and while writing pages |
| `SqlInfoProperty.cpp:257` | `SQL_ASYNC_NOTIFICATION` of ODBC 3.8 is registered for every driver of ODBC 3; `:246`, `:358`, `:363` and `SQL_OJ_CAPABILITIES` are registered for drivers of ODBC 2 though they came later |
| `LogManager.cpp:35` | a level set with `SetGlobalLogLevel` while a `LogLevelSetter` lives is lost when the setter goes |
| `Database.cpp:405` | `SQLDisconnect` frees the statements of handles that are still alive, which free them again |
| `DatabaseCatalog.cpp` (`SetMetadataAttribute`) | the address of the value is passed in place of the value |
| `ColumnBuffer.cpp:52` | for `SQL_C_TIMESTAMP` a buffer for `SQL_C_TIME` is created |
| `ColumnBuffer.h` (`SetString`) | an empty text calls `back()` of an empty vector |
| `Environment.cpp` (`ListDataSources`) | after an error of the first call of the second pass, a name without a description is stored |
| `Environment.cpp:177` | an `Init` that could not set the version leaves the handle allocated; the next one asserts |

The exceptions in the passing properties are further places where a comment promises more than the code
does. Each can be seen by removing the kind from the `Without` of the property and running TLC again.

| Property | Exception | What the code does |
|---|---|---|
| `NoDanglingIfDisciplined` | `bind_untracked` | a bind call that took effect and throws (`SQL_SUCCESS_WITH_INFO`, or a later field of a numeric descriptor) is not remembered (`ColumnBuffer.h:300`), and the destructor does not take it back |
| `NothingBoundAfterReset` | `bind_partial` | the same, seen from the statement: `m_boundColumns` is not set |
| | `unbind_lost` | `~ExecutableStatement` catches a failing `ResetParams` or `UnbindColumns`, logs it and gives the handle up with buffers still bound (`ExecutableStatement.cpp:64`); a handle others share lives on with them |
| `ColumnsOfResult` | `"lost"` in `failures` | the same in the tool: the driver writes to one buffer more than `columns` knows of. What a fetch does with a buffer that is gone is undefined; the model tells that the binding is there and nothing more |
| `PreparedTruthful` | `mix`, `prepare_fails`, `commit_deletes`, `reuse` | `m_isPrepared` outlives a direct execution, a refused second text, a commit that deletes access plans, and `Reset` |
| `ScrollableReported` | `driver_scrolls` | `SetCursorOptions` writes the flag only if it has to change the attribute (`ExecutableStatement.cpp:129`) |
| `InitAllOrNothing` | `alloc_fails` | the database is set before the handle can be allocated: "initialised" without a handle |
| `OpenFullySetUp` | `disconnect_fails` | `Close` frees statement and catalog before `SQLDisconnect` fails: open, but no longer usable or closable |
| `ClosedIsDisconnected` | `read_opens_tx` | a failing `Open` in manual mode disconnects without ending the transaction, and stays connected |
| `PreparedWhenOpen` | `both_selects` | `Select` executes directly on the statement `SelectByPkValues` has prepared |
| `KeysAsRequested` | `rekey`, `skip` | key flags of an earlier `Open` stay on the buffers; with skipped columns a key index denotes another column |
| `ReadsIntoColumns`, `KeysAsRequested` | `create_open` | `CreateAutoColumnBufferPtrs` exchanges the buffers of an open table |
| `LevelRestored` | `setters` | of `LogLevelSetter`s in two threads that overlap the later one restores the level of the earlier one; setters of one thread lie inside of each other and are not excluded |
| `MessagesKeepContract` (which handlers hear), `HiddenIfSettled` | `uninit`, `custom` | flag and level are written one after the other without a mutex, and neither is ever initialised |
| `NoCursorLeft` | `close_fails` | the guard of the scope only logs that it could not close |
| `AnswersWhole` | `identifier_default` | a driver whose statements start with identifiers is asked with the address of a value (`SetMetadataAttribute`), and may keep taking patterns for names |
| | PostgreSQL with `odbc2`, no catalog given | the null pointer is replaced by "%" (`DatabaseCatalog.cpp`), which such a driver takes for a name |
| `HandleDiesWithConnection` | `outlives` | a catalog kept beyond `Close` frees a handle the driver has freed, and its destructor does not catch |
| `RowsTruthful` | `unset`, `long` | some members are never stored, or two of their four bytes are; a text longer than declared is cut |
| `OfThisConnection`, `VersionRespected` | `no_reset` | registering keeps what is registered, so a second `Init` without `Reset` keeps values of the first |
| `VersionRespected` | the five `Untimely` properties | see `SqlInfoProperty.cpp:257` above; that they are registered for new drivers is not excluded |
| | drivers of 4.0 and later, and versions that cannot be read | the parts are compared one by one, so 4.0 is taken for 3.0; an unknown version counts as 2.0 |
| `ListingWhole`, `NothingInvented` | `dm_fails` | see `ListDataSources` above |
| `ValueKept` | `short`, `exact`, `empty`, `indicator`, and `wide` in CHAR | a row is cut off in a buffer that is too short, and `SQL_SUCCESS_WITH_INFO` taken for success; a text without room for its zero is refused after it was copied; callers may set the indicator to anything; the size calculated is in characters, while UTF-8 takes more bytes |
| `EndsAsTold` | `"page"`, `"info"` in `failures` | see `ExodbcExec.cpp:89` above |
| `SearchesAsMeant` | a catalog entered without a schema; an empty schema or catalog; something behind `-pc` | see `Command.cpp` above |
| `DatesMapped` | `SQL_C_TIMESTAMP` | see `ColumnBuffer.cpp:52` above |

The models also reproduce what no property excludes: `ReadCommitMode` that fails keeps the old mode, where
`Database.h:248` says it sets `CM_UNKNOWN` (what matters, `CacheTruthful`, holds all the same);
`AutoColumns` marks the columns behind a nullable one as nullable; `WriteWhere` works on a table that is not
open; a message that waits for the handlers is forwarded even if the level is raised meanwhile; and the search for a table in upper case, made in a handler
of `CreateTracPages.cpp`, may fail where nobody catches, so that no page is written.

**Fairness.** Only `Logging` has a liveness property, `CallsReturn`. It assumes `WF_vars(Continue(t))` for
each thread: a thread inside the library is scheduled, and locks a mutex that stays free. Nothing is
assumed of threads outside, so they may log for ever or never again. Weak fairness does not promise that a
mutex that is repeatedly taken by others is obtained; since messages are bounded, it is eventually
left alone.

## 4. Proofs

`tlapm` on each of `StmtBindingProofs`, `DatabaseProofs` (of `ExecStatement`, `DatabaseConnection` and `InfoProperties`),
`TableProofs`, `EnvironmentProofs`, `CatalogQueriesProofs`, `ColumnValuesProofs`, `ExodbcExecProofs` and `LoggingProofs`.
Every safety invariant of every passing run is a theorem, and so are the refinements of `TransactionContract` and `LogContract`, for every value of the
constants. The proofs assume nothing but the assumptions on the constants stated in the modules, which TLC evaluates in every
run. Each has the same shape: an inductive invariant, one lemma per action or kind of step that it survives, and the
properties as consequences.

**StmtBinding.** `TypeCorrect` is `Spec => []TypeOK` under every fault. `BindingsAlwaysTracked` and
`NoDanglingBindingEver` are proved for any sets of objects, handles, buffers and slots, in behaviours that
are `Disciplined`: handles with bindings are not freed explicitly, and bind and unbind calls do not
fail half way. This cannot be dropped, as `MCStmtBindingFree` shows.

`NoDanglingBinding` is not inductive: to know that the destructor of a buffer takes all its
bindings back, one has to know that each has an entry (`BindingsTracked`) and that unbinding by the
entry's object reaches the right raw handle. That needs that an object in a map still has the handle it was
entered with (`EntriesMatchHandles`), that no other object has it (`HandlesNotShared`, else
unbinding the one would remove entries of the other), that a handle an owner or an entry points to is allocated
in the driver (`AllocatedIsLive`, else the driver could give it out twice) and that entries belong to living
buffers (`EntriesOfLiving`). The conjunction is `IInv`; the proof that a step keeps
it has one step per action, with lemmas for what unbinding and the destruction of objects do to entries and handles.
Raw handles that could not be freed stay in `liveRaw` without an object, which does no harm.

`HandlesAlwaysOwnedOnce`, `MapsAlwaysAgree` and `NoHandleOrphaned` hold without the discipline, each under the faults its property
does not name. `HandlesOwnedOnce` rests on `liveRaw`: while the connection stays, the driver only gives out raw values nobody
has. Of `MapsAgree` the half about missing entries is `BindingsTracked` again, the half about stale keys needs `EntriesMatchHandles` in all behaviours in
which no handle goes under its buffers, failing bind calls included.
`NoOrphanHandle` is kept because each action that lets go of an object goes through `DestroyUnreferenced`.

**ExecStatement.** `NeverInvalidCursor`, `PreparedAlwaysTruthful`, `FlagsAlwaysTruthful` and `NothingStaysBound` prove
what `MCExecStatement` checks, `StatementTypeCorrect` the types, for any set of texts; the only assumption on the constants is that "no text" is
not a text, and each fault a property needs to exclude is named in the property. The
properties are inductive together, except `NothingBoundAfterReset`: that unbinding what is flagged
leaves nothing bound needs `BoundIsFlagged`, that nothing unflagged is ever bound. `NeverInvalidCursor` rests on
`ClosedFacts`: `SelectClose` comes before every execution, and the driver refuses only with a cursor open.

**DatabaseConnection.** `CacheAlwaysTruthful`, `PendingAlwaysProtected`, `OpenAndCloseAreAllOrNothing` and
`ImplementsContract` are proved for any set of works and under every fault, without a further assumption. The
inductive invariant `IInv` is the conjunction of the properties themselves. `CacheTruthful` carries the
others: because a transaction in the driver's manual mode is always seen in the cached mode, `Close` rolls it
back and `SQLDisconnect` has no reason to refuse, and work pends only where it will be rolled back. In the
refinement each action maps to one of `TransactionContract` or to a stutter; a failing `Open` and a
`ReadCommitMode` of a closed database are `ReadMode`, which the contract allows only because
`PendingIsProtected` says that nothing pends then.

**InfoProperties.** `AlwaysOfThisConnection`, `VersionAlwaysRespected`, `DatesAlwaysMapped` and `InfoTypeCorrect`, for any connections,
products and properties that fail. The inductive invariant `InfoInv` says that nothing is known while nothing is open, that
what is registered is exactly what the driver's version has (`RegisteredForVersion`), that everything read is of the present connection
in the properties and in the catalog's copy, and that a map the `Database` has made itself is the default one for the
environment's version. `VersionRespected` compares this with the versions ODBC gives (`Since`): the version `ParseOdbcVersion`
makes of the two parts is above neither of them (`ParsedVersion`), whatever they are, and below 4.0 it is the one they mean.

**Table.** Seven theorems, over any number of columns. `TypeCorrect` carries most of the arithmetic: that `AutoColumns` numbers the
columns that have a buffer type without a gap (`NamesExist`: the number of such columns before one differs from column to column, so each number is taken). Steps are
first sorted into kinds (`StepKinds`: executing, defining, creating, opening, closing, failing), since most properties care only about
the kind. `StatementsMatchAccess`, `PreparedWhenOpen`, `ReadsIntoColumns` and `FlagsWithinAccess` are inductive on top of
`TypeOK`, given what `Open` leaves behind (`OpenAfterwards`): flags and access change only while the table is closed, and buffers of
an open table only by `CreateAutoColumnBufferPtrs`. `ManualColumnsKeptUnmixed` is not: a failing `Open` removes all columns if
`m_autoCreatedColumns` is set, so `ManualInv` adds that no column is the caller's then. `KeysAsRequested` speaks of open tables
only, but the marks it is about are made and left behind by closed ones; `KeysInv` adds that between any two calls no column is marked
beyond the indexes asked for, and that names and indexes agree. The attempt to prove it showed that they need not: when unsupported columns
are skipped, a key index given with `SetColumnPrimaryKeyIndexes` denotes another column than the one meant, which the bounds used
before did not reach. This is now the fault `skip`, and the run has such a column. (`Table.h:194` warns that the indexes no longer match;
`Table.h:703` asks for those of the database's table all the same.)

**Environment.** `ListsAll` and `ListsNothingElse` are `ListingWhole` and `NothingInvented` for any data sources and lengths.
Both speak of a listing that has returned; the invariant `Passes` says what they follow from while it is under
way. As long as nothing has changed, the first pass has measured every description up to where it stands (`Measured`: none is
longer than the longest), and the second has listed exactly the sources up to where it stands, none cut off (`Listed`). Changes
make these void but not that names ascend and have been read. That the least of a set of names exists rests on
the order of `WellFoundedInduction`. `RemembersVersion` is `VersionCurrent`.

**CatalogQueries.** Seven theorems. `Shape` is what the driver, the catalog and the answers look like; `Patterns`
that the attribute stays as it is unless the driver starts otherwise; `NotKept` that nobody holds the catalog. `AnswersWhole` and
`OfThatTable` speak of a call that has returned; amid its rows what has been fetched and what is left are together what was meant
(`WholeWithTheRest`, `OfThatTableWithTheRest`), and when the loop ends nothing is left. That the
answer is whole at first comes down to one lemma per argument: what the public functions pass fits a table exactly if
what the caller meant does, for tables a database of this kind can hold. `NoCursorLeft` is inductive: an open cursor is one of a
question under way or of one whose guard could not close it, and the next question closes that one before it asks, or does not ask. `HandleDiesWithConnection` needs that
`Close` gives the catalog up before it disconnects.

**ColumnValues.** `ValuesAreKept` is `ValueKept` for any columns and any width of integers. Its invariant `Held` puts the
value at the start of the array, with a zero behind a text, whatever older elements follow, and the indicator at its length or at
"look for the zero". That there is room for the zero is `BuffersAreLongEnough`: for each type of column the
size calculated is beyond the longest value, or, where the integer wraps, not positive, so that no buffer is created at all.

**ExodbcExec.** `AlwaysEndsAsTold`, `ColumnsAreOfTheResult`, `AlwaysSearchesAsMeant` and `PagesAreWhole`, each with an invariant of its
own. `ColumnsInv` says of statement and columns together (`Shows`) that what is bound are the first columns of the present result in
order; the lemma about binding proves it for every number of columns bound before a failure, and for one that was bound and lost.
`AlwaysSearchesAsMeant` rests on `ShortIsMeant`: for any arguments the help has an answer for, how many are left
when `-pc` and empty ones are set aside decides what is searched for. `PageInv` keeps the page's sections as
a function of what the searches returned: each table gets its section from exactly one of found, missed or failed.

**Logging.** All five invariants of `MCLogging`, `HiddenIfSettled`, `TypeOK` and the refinement of `LogContract`, for any number of threads, handlers, messages and levels. `StepEffect` first reduces
every step to one of twelve effects on calls, logs and mutexes. `Places` says who is where: a thread is in
`m_logHandlersMutex` exactly while it calls handlers, and alone there; likewise for a stream and a line; and what it has still to call
is registered, because the handlers change only under the same mutex. `SameOrder` is not inductive. `Order` adds that messages of busy
threads differ and that none occurs twice in a log; that the message under way is in no log of a handler still to be called, and is
the newest in every log that has it (`Newest`); so a message put out is newer, for every pair of handlers, than whatever both have
already. `Restores` says that while setters live they are those of one thread, of which the oldest holds the level from before; `Settles` that nobody
is calling handlers while one is given a level.

`ImplementsLogContract` is `Spec => MessagesKeepContract`. `InitMaps` and `NextMaps` map initial states and steps. All steps between
locking and unlocking stutter, as `PublishedLog` hides the message while it is the newest of some logs (`PublishedInside`, from
`Newest` and `Alone`); `UnlocksMap` is the one that publishes. That the handlers with the message are then exactly those the contract
names needs a further invariant, `Delivered`: of the registered handlers, those that have the message are the ones already called that
do not hide it. It is kept because nobody changes the handlers (mutex) or, if `settled`, their levels (`WantedKept`) meanwhile.

Only model-checked: `CallsReturn`, since liveness under fairness is out of the prover's reach, and the type invariants named in
section 3.

## 5. Not modelled, and why

* The text of SQL and of messages, precision of numbers, columns of one element (a plain assignment of value and
  indicator): data that no property above depends on.
* `ListDrivers`: the two passes of `ListDataSources` over another list.
* `SqlDescHandle` and the descriptors of numeric columns: written while binding only; that this may fail half way is the fault
  `bind_untracked`.
* `EnumFlags`: sets in the models; the shifts and masks themselves are left to `test/EnumFlagsTest.cpp`.
* `ColumnInfo`, `TableInfo` and others beyond how their rows are read; column visitors beyond the refusal of NULL: no state.
* `StdLogHandler` told to write everything to stderr, to stdout or to both (`LogHandler.cpp:93-100`), and messages without a line
  end (`appendEndl` = false): the same writes under the same mutexes.
* The commit mode `UNKNOWN` for a value of the attribute that is neither on nor off (`Database.cpp:464-476`): the driver modelled
  has one of the two.
* Wide characters of two bytes. `ColumnBuffer.h:582` casts `SQLWCHAR` to `wchar_t`; `ColumnValues` takes the two for the
  same, which holds on Windows but not with unixODBC, where `SQLWCHAR` has two bytes and `wchar_t` four.
* Result sets that change while they are fetched: the rows are those of the moment of the question. A driver may give rows that came
  or went meanwhile.
* The use of a handle by several threads: the classes take no lock and their comments promise nothing.
* `Table`'s `m_pSelectCountResultBuffer` (bound once with the count statement, never replaced) and its destructor,
  which does what `Close` does and logs failures.
* Handlers that log themselves: they would lock `m_logHandlersMutex` twice in one thread; no handler of
  the library does.
* The printing of tables in `exodbcexec`, the other samples, tests and build files. The tests were read for how the library
  is used.

## 6. Plan

Done, in this order: `StmtBinding` (what may corrupt memory), `ExecStatement`, `DatabaseConnection` over
`TransactionContract`, `Table`, `Logging` over `LogContract`; then `CatalogQueries`, `InfoProperties`, `Environment`, `ExodbcExec` and
`ColumnValues`; the proofs of every safety invariant and of both refinements.

Left:

1. The type invariants of `ExodbcExec` and `ColumnValues` as theorems.
2. An abstract contract of `Table` (open or closed, which operations are possible) and the refinement of it.
3. A composition of `Table`, `ExecStatement` and `StmtBinding`: columns of a table are buffers that are destroyed
   in `Close` while statements are bound to them.
4. `EnumFlags` as bits against sets.
