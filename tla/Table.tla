-------------------------------- MODULE Table --------------------------------
(***************************************************************************)
(* exodbc::Table (src/Table.cpp): which columns a table has, which of its  *)
(* five statements exist, and what these have prepared and bound, through  *)
(* any sequence of Open, Close and changes in between.  The statements are *)
(* ExecutableStatements: Reset keeps m_isPrepared and ExecuteDirect undoes *)
(* what the driver has prepared (module ExecStatement).  A map of columns  *)
(* is always walked in the order of its indexes, so a list of columns is   *)
(* the set of its members here.                                            *)
(***************************************************************************)
EXTENDS Integers, FiniteSets, Functions, SequencesExt

CONSTANTS
  Indexes,       \* zero-based indexes of the columns of the database's table
  Nullable,      \* those that may be NULL
  Keys,          \* those SQLPrimaryKeys reports
  Unmapped,      \* those whose SQL type has no buffer type (Sql2BufferTypeMap)
  Unreported,    \* those whose SQL type the database does not report
  AccessChoices, \* sets of TableAccessFlags callers use
  FlagChoices,   \* sets of ColumnFlags for columns defined manually
  KeyChoices,    \* arguments of SetColumnPrimaryKeyIndexes
  FaultSets      \* the sets of faults to be considered, below

(***************************************************************************)
(* Disciplined callers define columns by hand or leave it to Open, and     *)
(* mark key columns by flag or by index, each for good.  What callers and  *)
(* driver do beyond is chosen at first and kept.                           *)
(*   "mixed"          columns are set manually on a table that has created *)
(*                    some automatically before                            *)
(*   "rekey"          another set of key columns for the same buffers      *)
(*   "skip"           columns are skipped and key columns given by index   *)
(*   "both_selects"   SelectByPkValues beside Select, or without the flag  *)
(*   "create_open"    CreateAutoColumnBufferPtrs on an open table          *)
(*   "commit_deletes" ending a transaction deletes prepared statements     *)
(*   "reset_fails"    SQLFreeStmt fails when statements are reset          *)
(***************************************************************************)
FaultKinds == {"mixed", "rekey", "skip", "both_selects", "create_open", "commit_deletes",
               "reset_fails"}

AccessFlags == {"select_pk", "select_where", "count_where", "update_pk", "update_where",
                "insert", "delete_pk", "delete_where"}
ColumnFlags == {"select", "update", "insert", "nullable", "key"}

ASSUME IndexesAssumption ==
  IsFiniteSet(Indexes) /\ Indexes # {} /\ Indexes = 0 .. Cardinality(Indexes) - 1
ASSUME ColumnSetsAssumption ==
  UNION {Nullable, Keys, Unmapped, Unreported} \subseteq Indexes /\ UNION KeyChoices \subseteq Indexes
ASSUME ChoicesAssumption ==
  UNION AccessChoices \subseteq AccessFlags /\ UNION FlagChoices \subseteq ColumnFlags
ASSUME FaultsAssumption == FaultSets \subseteq SUBSET FaultKinds

VARIABLES
  isOpen,  \* m_isOpen
  access,  \* m_tableAccessFlags
  pkIndexes, \* m_primaryKeyColumnIndexes
  columns, \* m_columns: by index, the column's name, its flags and who made the buffer
  auto,    \* m_autoCreatedColumns
  given,   \* indexes the caller has defined and not taken back
  stmts,   \* the five ExecutableStatements
  last,    \* operation called last and how it ended
  faults   \* what happens beyond the discipline in this behaviour

vars == <<isOpen, access, pkIndexes, columns, auto, given, stmts, last, faults>>

\* In the order in which Open prepares them; "count" is not prepared.
PrepareOrder == <<"update", "delete", "select", "insert">>
Stmts == ToSet(PrepareOrder) \union {"count"}

Column == [name : Indexes, flags : SUBSET ColumnFlags, by : {"auto", "caller"}]
NoColumns == [i \in {} |-> 0]

\* init: has a handle.  isPrepared: m_isPrepared.  drvPrepared: the driver has a
\* prepared text.  outs: the buffers its result columns are bound to.
Stmt == [init : BOOLEAN, isPrepared : BOOLEAN, drvPrepared : BOOLEAN,
         outs : SUBSET (Indexes \X {"auto", "caller"})]
NewStmt == [init |-> FALSE, isPrepared |-> FALSE, drvPrepared |-> FALSE, outs |-> {}]

Ended(op, res) == last' = [op |-> op, res |-> res] /\ UNCHANGED faults

-----------------------------------------------------------------------------
(* What the flags ask for *)

SelectAccess == access \intersect {"select_where", "select_pk"} # {}
UpdateAccess == access \intersect {"update_where", "update_pk"} # {}
PkStmts == {s \in Stmts : \/ s = "update" /\ "update_pk" \in access
                          \/ s = "delete" /\ "delete_pk" \in access
                          \/ s = "select" /\ "select_pk" \in access}

\* The statements AllocateStatements initialises.
Needed == PkStmts \union {s \in Stmts : \/ s = "select" /\ SelectAccess
                                        \/ s = "insert" /\ "insert" \in access
                                        \/ s = "count" /\ "count_where" \in access}

\* Those Open prepares; the others are executed directly.
Prepares == PkStmts \union (Needed \intersect {"insert"})

\* ColumnFlags derived from the TableAccessFlags.
AccessColumnFlags == {f \in ColumnFlags : \/ f = "select" /\ SelectAccess
                                          \/ f = "update" /\ UpdateAccess
                                          \/ f = "insert" /\ "insert" \in access}

WithFlag(cols, f) == {i \in DOMAIN cols : f \in cols[i].flags}
Skipped(cols) == \E i \in DOMAIN cols : cols[i].name # i
BuffersOf(cols, I) == {<<cols[i].name, cols[i].by>> : i \in I}

-----------------------------------------------------------------------------
(* The steps of Open, as operators on the map of columns *)

\* The columns a buffer can be made for, and the one that becomes the i-th.
Mapped == Indexes \ Unmapped
NameAt(i) == CHOOSE n \in Mapped : Cardinality({m \in Mapped : m < n}) = i

\* The variable `flags' is shared by all rounds of the loop: from the first
\* nullable column on, each is taken for one.
AutoFlags(n) ==
  AccessColumnFlags \union (IF \E j \in Nullable \ Unmapped : j <= n THEN {"nullable"} ELSE {})

\* CreateAutoColumnBufferPtrs: columns without a buffer type are left out, the
\* others get consecutive indexes.
AutoColumns ==
  [i \in 0 .. Cardinality(Mapped) - 1 |->
     [name |-> NameAt(i), flags |-> AutoFlags(NameAt(i)), by |-> "auto"]]

\* Open creates columns only if there are none and an access needs them.
Creates == columns = NoColumns /\ access \notin {{}, {"count_where"}}
CreatedColumns == IF Creates THEN AutoColumns ELSE columns

\* The columns that have to be marked as keys, as indexes into the map.  Keys of
\* the database are looked up by name; a column that is not found is an error.
AsksForKeysAlways(opt) == PkStmts # {} /\ ~opt.noKeys \* slip: indexes do not stand in for them
AsksForKeys(opt) == pkIndexes = {} /\ PkStmts # {} /\ ~opt.noKeys
KeyIndexes(cols, opt) ==
  IF AsksForKeys(opt) THEN {i \in DOMAIN cols : cols[i].name \in Keys}
                      ELSE pkIndexes \intersect DOMAIN cols
KeysFound(cols, opt) ==
  IF AsksForKeys(opt) THEN Keys \subseteq {cols[i].name : i \in DOMAIN cols}
                      ELSE pkIndexes \subseteq DOMAIN cols
MarkKeys(cols, I) ==
  [i \in DOMAIN cols |-> IF i \in I THEN [cols[i] EXCEPT !.flags = @ \union {"key"}] ELSE cols[i]]

\* CheckColumnFlags
FlagsAllowed(cols) ==
  \A i \in DOMAIN cols :
    cols[i].flags \intersect {"select", "update", "insert"} \subseteq AccessColumnFlags

\* CheckSqlTypes, for columns that were not created automatically.
ChecksTypes(opt) == ~(auto \/ Creates) /\ opt.checkTypes
BadTypes(cols) == {i \in DOMAIN cols : cols[i].name \in Unreported}
TypesAllowed(cols, opt) == ChecksTypes(opt) /\ ~opt.skip => BadTypes(cols) = {}
CheckedColumns(cols, opt) ==
  IF ChecksTypes(opt) THEN Restrict(cols, DOMAIN cols \ BadTypes(cols)) ELSE cols

\* GetPrimaryKeyColumnBuffers, and the assertions of BindUpdatePkParameters (the
\* first of its kind) and BindInsertParameters.
KeysBindable(cols) ==
  /\ PkStmts # {} => WithFlag(cols, "key") # {}
  /\ "update" \in PkStmts => WithFlag(cols, "update") \ WithFlag(cols, "key") # {}
InsertBindable(cols) == "insert" \in access => WithFlag(cols, "insert") # {}

\* The markers of a key with several columns are joined with ", ".
KeyClauseValid(cols) == PkStmts # {} => Cardinality(WithFlag(cols, "key")) <= 1

\* The columns bound to the SELECT statement.
AllColumns(cols) == DOMAIN cols \* slip: those without CF_SELECT too
SelectColumns(cols) == WithFlag(cols, "select")

\* Slip: a statement that was prepared once is not prepared again.
BoundStmtsPreparedOnce(cols, prepared) ==
  [s \in Stmts |->
     IF s \notin Needed THEN stmts[s]
     ELSE [init        |-> TRUE,
           isPrepared  |-> stmts[s].isPrepared \/ s \in prepared,
           drvPrepared |-> s \in prepared /\ ~stmts[s].isPrepared,
           outs        |-> IF s = "select" THEN BuffersOf(cols, SelectColumns(cols)) ELSE {}]]

\* The statements once the columns are bound and those in `prepared' prepared.
BoundStmts(cols, prepared) ==
  [s \in Stmts |->
     IF s \notin Needed THEN stmts[s]
     ELSE [init        |-> TRUE,
           isPrepared  |-> stmts[s].isPrepared \/ s \in prepared,
           drvPrepared |-> s \in prepared,
           outs        |-> IF s = "select" THEN BuffersOf(cols, SelectColumns(cols)) ELSE {}]]

\* What has been prepared when the preparation after the n-th one fails.
FirstPrepared(n) == {PrepareOrder[i] : i \in 1 .. n} \intersect Prepares

\* Slip: the DELETE statement is forgotten.
FreedStmtsButDelete ==
  [s \in Stmts |-> IF s = "delete" THEN stmts[s]
                   ELSE [stmts[s] EXCEPT !.init = FALSE, !.drvPrepared = FALSE, !.outs = {}]]

\* ExecutableStatement::Reset of all five.
FreedStmts == [s \in Stmts |-> [stmts[s] EXCEPT !.init = FALSE, !.drvPrepared = FALSE, !.outs = {}]]

\* The handlers of Open: columns are removed if any were ever created here.
ColumnsCleared(cols, wasAuto) == NoColumns \* slip: whoever made them
ColumnsAfterFailure(cols, wasAuto) == IF wasAuto THEN NoColumns ELSE cols

-----------------------------------------------------------------------------
\* A Table right after Init().
Init ==
  /\ isOpen = FALSE
  /\ access \in AccessChoices
  /\ pkIndexes = {}
  /\ columns = NoColumns
  /\ auto = FALSE
  /\ given = {}
  /\ stmts = [s \in Stmts |-> NewStmt]
  /\ last = [op |-> "none", res |-> "ok"]
  /\ faults \in FaultSets

\* SetAccessFlags, SetAccessFlag, ClearAccessFlag
SetAccessFlags(acs) ==
  /\ ~isOpen
  /\ access' = acs
  /\ Ended("none", "ok")
  /\ UNCHANGED <<isOpen, pkIndexes, columns, auto, given, stmts>>

\* SetColumn
SetColumn(i, fs) ==
  /\ ~isOpen
  /\ i \notin DOMAIN columns
  /\ auto => "mixed" \in faults
  /\ "key" \in fs => pkIndexes = {} \/ "rekey" \in faults
  /\ columns' = [j \in DOMAIN columns \union {i} |->
                   IF j = i THEN [name |-> i, flags |-> fs, by |-> "caller"] ELSE columns[j]]
  /\ given' = given \union {i}
  /\ Ended("none", "ok")
  /\ UNCHANGED <<isOpen, access, pkIndexes, auto, stmts>>

\* ClearColumns
ClearColumns ==
  /\ ~isOpen
  /\ columns' = NoColumns
  /\ given' = {}
  /\ Ended("none", "ok")
  /\ UNCHANGED <<isOpen, access, pkIndexes, auto, stmts>>

\* SetColumnFlag and ClearColumnFlag
ChangeColumnFlag(i, f) ==
  /\ ~isOpen
  /\ i \in DOMAIN columns
  /\ f = "key" => pkIndexes = {} \/ "rekey" \in faults
  /\ \E fs \in {columns[i].flags \union {f}, columns[i].flags \ {f}} :
       columns' = [columns EXCEPT ![i].flags = fs]
  /\ Ended("none", "ok")
  /\ UNCHANGED <<isOpen, access, pkIndexes, auto, given, stmts>>

\* SetColumnPrimaryKeyIndexes
SetColumnPrimaryKeyIndexes(I) ==
  /\ ~isOpen
  /\ "rekey" \in faults \/ WithFlag(columns, "key") = {}
  /\ "skip" \in faults \/ ~Skipped(columns)
  /\ pkIndexes' = I
  /\ Ended("none", "ok")
  /\ UNCHANGED <<isOpen, access, columns, auto, given, stmts>>

\* CreateAutoColumnBufferPtrs with setAsTableColumns, called directly: it does
\* not ask whether the table is open.  Buffers nobody else holds are destroyed
\* and take their bindings back (module StmtBinding).
CreateAutoColumnBufferPtrs(skip, queryKeys) ==
  /\ isOpen => "create_open" \in faults
  /\ skip \/ Unmapped = {}
  /\ skip => pkIndexes = {} \/ "skip" \in faults
  /\ queryKeys => Keys \intersect Unmapped = {}
  /\ queryKeys => pkIndexes = {} \/ "rekey" \in faults
  /\ columns' = IF queryKeys
                  THEN MarkKeys(AutoColumns, {i \in DOMAIN AutoColumns : AutoColumns[i].name \in Keys})
                  ELSE AutoColumns
  /\ auto' = TRUE
  /\ given' = {}
  /\ stmts' = [s \in Stmts |-> [stmts[s] EXCEPT !.outs = {o \in @ : o[2] = "caller"}]]
  /\ Ended("none", "ok")
  /\ UNCHANGED <<isOpen, access, pkIndexes>>

-----------------------------------------------------------------------------
\* What Open has made of the columns when it has marked the keys, and when it
\* comes to bind them.
Marked(opt) == MarkKeys(CreatedColumns, KeyIndexes(CreatedColumns, opt))
Checked(opt) == CheckedColumns(Marked(opt), opt)
Removed(opt) == DOMAIN Marked(opt) \ DOMAIN Checked(opt)

\* Open gets as far as the check of the flags.
OpenMarks(opt) ==
  /\ ~isOpen
  /\ \A s \in Needed : ~stmts[s].init
  /\ opt.skip => pkIndexes = {} \/ "skip" \in faults
  /\ Creates => opt.skip \/ Unmapped = {}
  /\ KeysFound(CreatedColumns, opt)

SuitableTypes(opt) == TypesAllowed(Marked(opt), opt) \* slip: flags are not checked
Suitable(opt) == FlagsAllowed(Marked(opt)) /\ TypesAllowed(Marked(opt), opt)

\* Open that succeeds.
Open(opt) ==
  /\ OpenMarks(opt)
  /\ Suitable(opt)
  /\ KeysBindable(Checked(opt)) /\ InsertBindable(Checked(opt)) /\ KeyClauseValid(Checked(opt))
  /\ isOpen' = TRUE
  /\ columns' = Checked(opt)
  /\ auto' = (auto \/ Creates)
  /\ given' = given \ Removed(opt)
  /\ stmts' = BoundStmts(Checked(opt), Prepares)
  /\ Ended("Open", "ok")
  /\ UNCHANGED <<access, pkIndexes>>

\* What the handler of a failing Open does to the columns.
OpenFailsWith(cols, wasAuto, res) ==
  /\ columns' = ColumnsAfterFailure(cols, wasAuto)
  /\ auto' = wasAuto
  /\ Ended("Open", res)
  /\ UNCHANGED <<isOpen, access, pkIndexes>>

\* A statement cannot be allocated: its handler does not touch the columns.
OpenFailsToAllocate ==
  /\ ~isOpen
  /\ Needed # {}
  /\ stmts' = FreedStmts
  /\ Ended("Open", "failed")
  /\ UNCHANGED <<isOpen, access, pkIndexes, columns, auto, given>>

\* The table is not found, or its columns cannot be read or mapped.
OpenFailsToCreate ==
  /\ ~isOpen
  /\ stmts' = FreedStmts
  /\ UNCHANGED given
  /\ OpenFailsWith(columns, auto, "failed")

\* The keys cannot be read, or a key column is missing: the database's keys come
\* in any order, those found before the missing one have been marked.
MarkedBeforeFailure(cols, opt) ==
  IF ~AsksForKeys(opt)
    THEN {{i \in KeyIndexes(cols, opt) : \A j \in pkIndexes \ DOMAIN cols : i < j}}
    ELSE IF KeysFound(cols, opt) THEN {{}} ELSE SUBSET KeyIndexes(cols, opt)

OpenFailsToMark(opt) ==
  /\ ~isOpen
  /\ Creates => opt.skip \/ Unmapped = {}
  /\ AsksForKeys(opt) \/ ~KeysFound(CreatedColumns, opt)
  /\ stmts' = FreedStmts
  /\ UNCHANGED given
  /\ \E front \in MarkedBeforeFailure(CreatedColumns, opt) :
       OpenFailsWith(MarkKeys(CreatedColumns, front), auto \/ Creates, "failed")

\* Flags or types do not fit.
OpenFailsToCheck(opt) ==
  /\ OpenMarks(opt)
  /\ ~Suitable(opt)
  /\ stmts' = FreedStmts
  /\ UNCHANGED given
  /\ OpenFailsWith(Marked(opt), auto \/ Creates, "failed")

\* A bind or Prepare fails: the statements before it have been prepared, and
\* remember it when they are reset.
OpenFailsToBind(opt) ==
  /\ OpenMarks(opt)
  /\ Suitable(opt)
  /\ \E n \in 0 .. Len(PrepareOrder) - 1 :
       /\ ~(KeysBindable(Checked(opt)) /\ KeyClauseValid(Checked(opt))) => n = 0
       /\ stmts' = [s \in Stmts |->
                      [FreedStmts[s] EXCEPT !.isPrepared = @ \/ s \in FirstPrepared(n)]]
  /\ given' = given \ Removed(opt)
  /\ OpenFailsWith(Checked(opt), auto \/ Creates,
                   IF KeysBindable(Checked(opt)) /\ ~KeyClauseValid(Checked(opt))
                     THEN "42000" ELSE "failed")

\* The same, and a Reset in the handler throws too: nothing is cleaned up.
OpenFailsToReset(opt) ==
  /\ "reset_fails" \in faults
  /\ OpenMarks(opt)
  /\ Suitable(opt)
  /\ KeysBindable(Checked(opt)) /\ KeyClauseValid(Checked(opt))
  /\ \E n \in 0 .. Len(PrepareOrder) - 1 :
       stmts' = BoundStmts(Checked(opt), FirstPrepared(n))
  /\ given' = given \ Removed(opt)
  /\ columns' = Checked(opt)
  /\ auto' = (auto \/ Creates)
  /\ Ended("Open", "failed")
  /\ UNCHANGED <<isOpen, access, pkIndexes>>

\* Close: drop automatic columns, reset the statements, be closed.
Close ==
  /\ isOpen
  /\ columns' = ColumnsAfterFailure(columns, auto)
  /\ stmts' = FreedStmts
  /\ isOpen' = FALSE
  /\ Ended("Close", "ok")
  /\ UNCHANGED <<access, pkIndexes, auto, given>>

\* One Reset throws: what comes after it in FreeStatements is not done.
CloseFails ==
  /\ isOpen
  /\ "reset_fails" \in faults
  /\ columns' = ColumnsAfterFailure(columns, auto)
  /\ \E done \in {{}, {"count"}, {"count", "select"}, {"count", "select", "insert"},
                  {"count", "select", "insert", "update"}} :
       stmts' = [s \in Stmts |-> IF s \in done THEN FreedStmts[s]
                                 ELSE [stmts[s] EXCEPT !.outs = IF auto THEN {} ELSE @]]
  /\ Ended("Close", "failed")
  /\ UNCHANGED <<isOpen, access, pkIndexes, auto, given>>

-----------------------------------------------------------------------------
\* Select and SelectBySqlStmt: ExecuteDirect on m_execStmtSelect.
Select ==
  /\ isOpen
  /\ "select_where" \in access
  /\ columns # NoColumns
  /\ stmts["select"].init
  /\ "select_pk" \in access => "both_selects" \in faults
  /\ stmts' = [stmts EXCEPT !["select"].drvPrepared = FALSE]
  /\ Ended("Select", "ok")
  /\ UNCHANGED <<isOpen, access, pkIndexes, columns, auto, given>>

\* ExecutePrepared of one statement, for the operation op.
ExecutePrepared(op, s) ==
  /\ \E res \in IF ~stmts[s].isPrepared \/ ~stmts[s].init THEN {"assertion"}
                ELSE IF stmts[s].drvPrepared THEN {"ok", "failed"} ELSE {"HY010"} :
       Ended(op, res)
  /\ UNCHANGED <<isOpen, access, pkIndexes, columns, auto, given, stmts>>

\* SelectByPkValues does not look at the access flags.
SelectByPkValues ==
  /\ isOpen
  /\ "select_pk" \in access \/ "both_selects" \in faults
  /\ ExecutePrepared("SelectByPkValues", "select")

\* Insert, UpdateByPkValues, DeleteByPkValues
Write(s) ==
  /\ isOpen
  /\ s \in Prepares \intersect {"insert", "update", "delete"}
  /\ ExecutePrepared("Write", s)

\* Delete and Update with a WHERE clause use a statement of their own and need
\* columns, but not an open table.
WriteWhere ==
  /\ columns # NoColumns
  /\ \/ "delete_where" \in access
     \/ "update_where" \in access /\ WithFlag(columns, "update") # {}
  /\ Ended("WriteWhere", "ok")
  /\ UNCHANGED <<isOpen, access, pkIndexes, columns, auto, given, stmts>>

\* Database::CommitTrans with SQL_CB_DELETE.
TransactionEnds ==
  /\ "commit_deletes" \in faults
  /\ stmts' = [s \in Stmts |-> [stmts[s] EXCEPT !.drvPrepared = FALSE]]
  /\ UNCHANGED <<isOpen, access, pkIndexes, columns, auto, given, last, faults>>

OpenOptions == [skip : BOOLEAN, noKeys : BOOLEAN, checkTypes : BOOLEAN]

Next ==
  \/ \E acs \in AccessChoices : SetAccessFlags(acs)
  \/ \E i \in Indexes, fs \in FlagChoices : SetColumn(i, fs)
  \/ \E i \in Indexes, f \in {"update", "key"} : ChangeColumnFlag(i, f)
  \/ \E I \in KeyChoices : SetColumnPrimaryKeyIndexes(I)
  \/ \E skip, queryKeys \in BOOLEAN : CreateAutoColumnBufferPtrs(skip, queryKeys)
  \/ ClearColumns
  \/ \E opt \in OpenOptions : Open(opt) \/ OpenFailsToMark(opt) \/ OpenFailsToCheck(opt)
                                \/ OpenFailsToBind(opt) \/ OpenFailsToReset(opt)
  \/ OpenFailsToAllocate \/ OpenFailsToCreate
  \/ Close \/ CloseFails
  \/ Select \/ SelectByPkValues \/ WriteWhere \/ TransactionEnds
  \/ \E s \in Stmts : Write(s)

Spec == Init /\ [][Next]_vars

-----------------------------------------------------------------------------
(* Properties *)

TypeOK ==
  /\ {isOpen, auto} \subseteq BOOLEAN
  /\ access \subseteq AccessFlags
  /\ pkIndexes \subseteq Indexes
  /\ DOMAIN columns \subseteq Indexes
  /\ \A i \in DOMAIN columns : columns[i] \in Column
  /\ given \subseteq Indexes
  /\ stmts \in [Stmts -> Stmt]
  /\ last.res \in {"ok", "failed", "assertion", "42000", "HY010"}
  /\ faults \in FaultSets

\* Faults that do not happen.
Without(kinds) == faults \intersect kinds = {}

\* Open and Close are all or nothing: an open table has exactly the statements
\* its access flags need, one that is closed or could not be opened has none.
StatementsMatchAccess ==
  Without({"reset_fails"}) => \A s \in Stmts : stmts[s].init <=> isOpen /\ s \in Needed

\* Whatever was opened, closed and changed before: what an open table executes
\* prepared is prepared in the driver, unless a direct execution or the end of a
\* transaction undoes it.
PreparedWhenOpen ==
  Without({"both_selects", "commit_deletes", "reset_fails"}) =>
    /\ isOpen => \A s \in Prepares : stmts[s].isPrepared /\ stmts[s].drvPrepared
    /\ last.res \notin {"HY010", "assertion"}

\* "If ColumnBuffers were created automatically during open, those ColumnBuffers
\* are removed": columns the caller defined are only removed by the caller, or as
\* unsupported.
ManualColumnsKept == \A i \in given : i \in DOMAIN columns /\ columns[i].by = "caller"

\* The same for callers who leave all columns to the table once it has created
\* some: m_autoCreatedColumns is never set back.
ManualColumnsKeptUnmixed == Without({"mixed"}) => ManualColumnsKept

\* Nothing exchanges or drops the buffers of an open table.
OpenTableKeepsColumns == Without({"create_open", "reset_fails"})

\* The key columns of the WHERE clauses are those whose indexes in the database
\* table the caller passed.  Marks of an earlier Open stay on the buffers, and a
\* skipped column has no index.
KeysAsRequested ==
  isOpen /\ pkIndexes # {} /\ OpenTableKeepsColumns /\ Without({"rekey", "skip"}) =>
    {columns[i].name : i \in WithFlag(columns, "key")} = pkIndexes

\* The fields a SELECT of an open table names are read into exactly the buffers
\* its columns have: no value goes astray, no buffer keeps an old one, unless the
\* buffers are exchanged or dropped under an open table.
ReadsIntoColumns ==
  isOpen /\ SelectAccess /\ OpenTableKeepsColumns =>
    stmts["select"].outs = BuffersOf(columns, WithFlag(columns, "select"))

\* No column of an open table takes part in an operation the table may not do,
\* although flags, access and columns can be changed in any order and Open or
\* Close may fail anywhere.
FlagsWithinAccess == isOpen => FlagsAllowed(columns)
=============================================================================
