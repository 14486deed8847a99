------------------------- MODULE DatabaseConnection -------------------------
(***************************************************************************)
(* exodbc::Database (src/Database.cpp): opening, closing and the           *)
(* transactions of one connection, with the driver on the other side.      *)
(* Every driver call may fail at its place in the code; what the object    *)
(* remembers (open, commit mode, which handles it has) is compared with    *)
(* what the driver is in.                                                  *)
(***************************************************************************)

CONSTANTS
  Works,     \* units of work for ExecSql
  FaultSets  \* the sets of faults to be considered, below

(***************************************************************************)
(* What goes wrong beyond failing calls, or is special about the driver;   *)
(* chosen at first and kept.                                               *)
(*   "disconnect_fails" SQLDisconnect may fail although nothing is open    *)
(*   "free_fails"       SQLFreeHandle of the ExecSql statement may fail    *)
(*   "read_opens_tx"    reading the catalog opens a transaction in manual  *)
(*                      commit mode, and SQLDisconnect is refused (25000)  *)
(*                      until it ends                                      *)
(*   "no_transactions"  SQL_TXN_CAPABLE is SQL_TC_NONE                     *)
(***************************************************************************)
FaultKinds == {"disconnect_fails", "free_fails", "read_opens_tx", "no_transactions"}

ASSUME FaultsAssumption == FaultSets \subseteq SUBSET FaultKinds

VARIABLES
  dbc,         \* m_pHDbc is allocated, m_pEnv is set
  isOpen,      \* m_dbIsOpen
  withString,  \* m_dbOpenedWithConnectionString
  commitMode,  \* m_commitMode
  execStmt,    \* m_pHStmtExecSql is allocated
  catalog,     \* m_pDbCatalog is set (and m_props read)
  connected,   \* driver: the connection exists
  drvAuto,     \* driver: SQL_ATTR_AUTOCOMMIT is on
  drvTx,       \* driver: a transaction is open, be it only for reading
  pending,     \* driver: work of the open transaction
  durable,     \* database: committed work
  faults       \* what happens beyond the discipline in this behaviour

object == <<dbc, isOpen, withString, commitMode, execStmt, catalog>>
driver == <<connected, drvAuto, drvTx, pending, durable>>
vars == <<object, driver, faults>>

CommitModes == {"AUTO", "MANUAL", "UNKNOWN"}

-----------------------------------------------------------------------------
(* Parts of the actions *)

\* m_props.GetSupportsTransactions()
SupportsTransactions == "no_transactions" \notin faults

\* SQLEndTran(SQL_ROLLBACK) takes effect.
RolledBack ==
  /\ pending' = {}
  /\ drvTx' = FALSE
  /\ UNCHANGED durable

KeepTransaction == UNCHANGED <<pending, drvTx, durable>>

\* SQLDisconnect is refused (25000) while a manual transaction is open.
CanDisconnect(auto, tx) == auto \/ ~tx

\* Where OpenImpl can fail: before it knows the commit mode, when it changes
\* it, and when it reads the types afterwards.
OpenFailures == {"early", "set_mode", "types"}

\* The connection as OpenImpl leaves it, up to failure f or to the end, if it
\* starts with auto commit a.
AutoAfter(f, a) == IF f \in {"early", "set_mode"} THEN a ELSE a /\ ~SupportsTransactions
ModeAfterAssumed(f, a) == "AUTO"       \* slip: the default mode is taken for granted
ModeAfter(f, a) == IF f = "early" THEN commitMode
                   ELSE IF AutoAfter(f, a) THEN "AUTO" ELSE "MANUAL"
TxAfter(f, a) == "read_opens_tx" \in faults /\ f \in {"types", "done"} /\ ~AutoAfter(f, a)

StartModes == IF SupportsTransactions THEN BOOLEAN ELSE {TRUE}

-----------------------------------------------------------------------------
Init ==
  /\ dbc = FALSE /\ isOpen = FALSE /\ withString = FALSE
  /\ commitMode = "UNKNOWN"
  /\ execStmt = FALSE /\ catalog = FALSE
  /\ connected = FALSE /\ drvAuto = TRUE /\ drvTx = FALSE
  /\ pending = {} /\ durable = {}
  /\ faults \in FaultSets

\* Database::Init, called by the constructors that take an Environment.
InitDatabase ==
  /\ ~dbc
  /\ dbc' = TRUE
  /\ UNCHANGED <<isOpen, withString, commitMode, execStmt, catalog, driver, faults>>

\* Both Open functions: SQLConnect succeeds; the one with a connection string
\* notes it, the other one does not take the note back.
Connects(how) ==
  /\ dbc /\ ~isOpen /\ ~connected
  /\ withString' = (withString \/ how = "string")
  /\ UNCHANGED <<dbc, pending, durable, faults>>

\* OpenImpl: statement, properties, catalog, attributes, commit mode, types.
Open(how) ==
  /\ Connects(how)
  /\ ~execStmt
  /\ \E a \in StartModes :
       /\ commitMode' = ModeAfter("done", a)
       /\ drvAuto' = AutoAfter("done", a)
       /\ drvTx' = TxAfter("done", a)
  /\ isOpen' = TRUE /\ execStmt' = TRUE /\ catalog' = TRUE /\ connected' = TRUE

\* A failure frees the statement again and disconnects; a failing SQLDisconnect
\* is only logged.
OpenFails(how) ==
  /\ Connects(how)
  /\ \E a \in StartModes, f \in OpenFailures :
       /\ execStmt => f = "early"           \* the assertion of OpenImpl
       /\ f = "set_mode" => a /\ SupportsTransactions
       /\ commitMode' = ModeAfter(f, a)
       /\ drvAuto' = AutoAfter(f, a)
       /\ connected' \in BOOLEAN
       /\ connected' => "disconnect_fails" \in faults \/ ~CanDisconnect(drvAuto', TxAfter(f, a))
       /\ ~connected' => CanDisconnect(drvAuto', TxAfter(f, a))
       /\ drvTx' = (connected' /\ TxAfter(f, a))
  /\ execStmt' \in IF "free_fails" \in faults THEN {execStmt, TRUE} ELSE {execStmt}
  /\ UNCHANGED <<isOpen, catalog>>

\* Slip: Close does not end the transaction.
CloseBeginsWithoutRollback ==
  /\ isOpen
  /\ KeepTransaction
  /\ UNCHANGED <<dbc, withString, commitMode, drvAuto, faults>>

\* Close: roll back in manual mode, ...
CloseBegins ==
  /\ isOpen
  /\ IF commitMode = "MANUAL" THEN RolledBack ELSE KeepTransaction
  /\ UNCHANGED <<dbc, withString, commitMode, drvAuto, faults>>

\* ... free the statement, which asserts that there is one, ...
CloseFailsToFree ==
  /\ CloseBegins
  /\ ~execStmt \/ "free_fails" \in faults
  /\ UNCHANGED <<isOpen, execStmt, catalog, connected>>

\* ... drop the catalog and disconnect.  Only then is the database closed.
CloseFailsToDisconnect ==
  /\ CloseBegins
  /\ execStmt
  /\ "disconnect_fails" \in faults \/ ~CanDisconnect(drvAuto, drvTx')
  /\ execStmt' = FALSE
  /\ catalog' = FALSE
  /\ UNCHANGED <<isOpen, connected>>

Close ==
  /\ CloseBegins
  /\ execStmt
  /\ CanDisconnect(drvAuto, drvTx')
  /\ execStmt' = FALSE
  /\ catalog' = FALSE
  /\ connected' = FALSE
  /\ isOpen' = FALSE

\* CommitTrans
CommitTrans ==
  /\ connected
  /\ durable' = durable \union pending
  /\ pending' = {}
  /\ drvTx' = FALSE
  /\ UNCHANGED <<object, connected, drvAuto, faults>>

\* RollbackTrans
RollbackTrans ==
  /\ connected
  /\ RolledBack
  /\ UNCHANGED <<object, connected, drvAuto, faults>>

\* ExecSql, w being done in the driver's commit mode.
ExecSql(w) ==
  /\ isOpen /\ execStmt /\ connected
  /\ w \notin pending \union durable
  /\ IF drvAuto THEN durable' = durable \union {w} /\ UNCHANGED <<pending, drvTx>>
                ELSE pending' = pending \union {w} /\ drvTx' = TRUE /\ UNCHANGED durable
  /\ UNCHANGED <<object, connected, drvAuto, faults>>

\* Slip: a failing ReadCommitMode forgets the mode.
ReadCommitModeForgets ==
  /\ dbc
  /\ \/ commitMode' = (IF drvAuto THEN "AUTO" ELSE "MANUAL")
     \/ commitMode' = "UNKNOWN"
  /\ UNCHANGED <<dbc, isOpen, withString, execStmt, catalog, driver, faults>>

\* ReadCommitMode: on failure the exception leaves the cached mode alone.
ReadCommitMode ==
  /\ dbc
  /\ \/ commitMode' = (IF drvAuto THEN "AUTO" ELSE "MANUAL")
     \/ UNCHANGED commitMode
  /\ UNCHANGED <<dbc, isOpen, withString, execStmt, catalog, driver, faults>>

\* SetCommitMode first rolls back unless the mode is AUTO, which needs a
\* connection, ...
NeverRollsBackFirst == FALSE \* slip: pending work is left to the driver
RollsBackFirst == commitMode # "AUTO"
RollbackUnlessAuto == IF RollsBackFirst THEN connected /\ RolledBack ELSE KeepTransaction

\* ... then switches.  The driver commits what is pending when auto commit is
\* switched on; a mode that is not MANUAL switches it on.
SetCommitMode(mode) ==
  /\ dbc
  /\ mode = "MANUAL" => SupportsTransactions
  /\ drvAuto' = (mode # "MANUAL")
  /\ commitMode' = mode
  /\ IF RollsBackFirst
       THEN connected /\ RolledBack
       ELSE /\ durable' = IF drvAuto' THEN durable \union pending ELSE durable
            /\ pending' = IF drvAuto' THEN {} ELSE pending
            /\ UNCHANGED drvTx
  /\ UNCHANGED <<dbc, isOpen, withString, execStmt, catalog, connected, faults>>

\* SetCommitMode whose SQLSetConnectAttr fails, and SetTransactionIsolationMode
\* whether or not it fails: what remains is the rollback.
SetModeOnlyRollsBack ==
  /\ dbc
  /\ RollbackUnlessAuto
  /\ UNCHANGED <<object, connected, drvAuto, faults>>

Next ==
  \/ InitDatabase
  \/ \E how \in {"string", "dsn"} : Open(how) \/ OpenFails(how)
  \/ Close \/ CloseFailsToFree \/ CloseFailsToDisconnect
  \/ CommitTrans \/ RollbackTrans
  \/ \E w \in Works : ExecSql(w)
  \/ ReadCommitMode \/ SetModeOnlyRollsBack
  \/ \E mode \in CommitModes : SetCommitMode(mode)

Spec == Init /\ [][Next]_vars

-----------------------------------------------------------------------------
(* Properties *)

TypeOK ==
  /\ {dbc, isOpen, withString, execStmt, catalog, connected, drvAuto, drvTx} \subseteq BOOLEAN
  /\ commitMode \in CommitModes
  /\ pending \subseteq Works
  /\ durable \subseteq Works
  /\ faults \in FaultSets

\* Faults that do not happen.
Without(kinds) == faults \intersect kinds = {}

\* GetCommitMode() never claims a mode the driver is not in while the database
\* is open, whichever call failed half way.
CacheTruthful ==
  isOpen => /\ commitMode = "MANUAL" => ~drvAuto
            /\ commitMode # "MANUAL" => drvAuto

\* Pending work is always on an open connection in a mode in which Close and
\* SetCommitMode roll it back.
PendingIsProtected == pending # {} => isOpen /\ connected /\ commitMode = "MANUAL"

\* The promise of TransactionContract: nothing becomes durable except by a
\* commit or in auto commit mode, nothing pending survives Close.
Contract == INSTANCE TransactionContract WITH
              open <- isOpen, auto <- commitMode # "MANUAL"
TransactionsKeepContract == Contract!Spec

\* "We assume that we are fully opened, all statements are allocated": an open
\* database has its connection, statement and catalog.  Close takes the latter
\* two away before SQLDisconnect may refuse.
OpenFullySetUp ==
  isOpen => dbc /\ connected /\ (Without({"disconnect_fails"}) => execStmt /\ catalog)

\* "If we fail, disconnect": a database that is not open is not connected, if
\* nothing keeps SQLDisconnect from working.  Open does not end a transaction
\* that reading the catalog has begun.
ClosedIsDisconnected ==
  /\ ~isOpen /\ Without({"disconnect_fails", "read_opens_tx"}) => ~connected
  /\ ~isOpen /\ Without({"free_fails"}) => ~execStmt
=============================================================================
