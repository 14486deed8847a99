---------------------------- MODULE ExecStatement ----------------------------
(***************************************************************************)
(* One exodbc::ExecutableStatement (src/ExecutableStatement.cpp) and the   *)
(* driver's state of its statement handle, as the ODBC state transition    *)
(* tables define it.  The object caches what the driver knows better: that *)
(* something is prepared, that the cursor is scrollable, that buffers are  *)
(* bound.  The module is about when these caches and the driver agree.     *)
(* Names other modules of the database have, too, begin with Statement, so *)
(* that DatabaseProofs can extend all of them.                             *)
(***************************************************************************)

CONSTANTS
  Queries,            \* SQL texts
  Selects,            \* those that produce a result set
  NoQuery,            \* no text
  StatementFaultSets  \* the sets of faults to be considered, below

(***************************************************************************)
(* What callers and driver do beyond the discipline; chosen at first and   *)
(* kept.                                                                   *)
(*   "mix"            ExecuteDirect on a statement that has been prepared  *)
(*   "prepare_fails"  a second Prepare is refused by the driver            *)
(*   "reuse"          Init after Reset of a prepared or scrollable one     *)
(*   "bind_partial"   a bind call takes effect in the driver and throws    *)
(*   "unbind_lost"    SQLFreeStmt fails in the destructor, which only logs *)
(*   "alloc_fails"    the statement handle cannot be allocated             *)
(*   "driver_scrolls" cursors of the driver are scrollable from the start  *)
(*   "commit_deletes" ending a transaction deletes what was prepared       *)
(*                    (SQL_CURSOR_COMMIT_BEHAVIOR is SQL_CB_DELETE)        *)
(***************************************************************************)
StatementFaultKinds == {"mix", "prepare_fails", "reuse", "bind_partial", "unbind_lost",
                        "alloc_fails", "driver_scrolls", "commit_deletes"}

ASSUME QueriesAssumption == Selects \subseteq Queries /\ NoQuery \notin Queries
ASSUME StatementFaultsAssumption == StatementFaultSets \subseteq SUBSET StatementFaultKinds

VARIABLES
  db,              \* m_pDb is set: IsInitialized()
  hstmt,           \* m_pHStmt is set, the handle is allocated
  isPrepared,      \* m_isPrepared
  scrollable,      \* m_scrollableCursor
  boundFlag,       \* m_boundColumns and m_boundParams
  drv,             \* the driver's side of the handle, or its last state
  last,            \* operation called last and how it ended
  statementFaults  \* what happens beyond the discipline in this behaviour

statementVars == <<db, hstmt, isPrepared, scrollable, boundFlag, drv, last, statementFaults>>
cached == <<isPrepared, scrollable, boundFlag>>

Kinds == {"columns", "params"}
MaybeQuery == Queries \union {NoQuery}

\* "ok", an AssertionException, a SQLSTATE or any other SqlResultException
Results == {"ok", "assertion", "24000", "HY010", "HY106", "failed"}
Ops == {"none", "Init", "Reset", "Prepare", "ExecuteDirect", "ExecutePrepared",
        "SelectClose", "SelectNext", "SelectFetchScroll", "Bind", "Unbind"}

\* SQL_ATTR_CURSOR_SCROLLABLE of a new handle.
DefaultScroll == "driver_scrolls" \in statementFaults

NewHandle == [prepared |-> NoQuery, executed |-> NoQuery, scroll |-> DefaultScroll, bound |-> {}]

\* State S5 to S7 of the ODBC tables: a cursor is open.
CursorOpen(d) == d.executed \in Selects

Closed(d) == [d EXCEPT !.executed = NoQuery]

\* The driver's answers to SQLPrepare, SQLExecDirect and SQLExecute: its next
\* state and the outcome.  All three are refused while a cursor is open; a
\* direct execution, or a text that is refused, undoes what was prepared.
InvalidCursor(d) == {[drv |-> d, res |-> "24000"]}

SQLPrepare(d, q) ==
  IF CursorOpen(d) THEN InvalidCursor(d)
  ELSE {[drv |-> [Closed(d) EXCEPT !.prepared = q], res |-> "ok"],
        [drv |-> [Closed(d) EXCEPT !.prepared = NoQuery], res |-> "failed"]}

SQLExecDirect(d, q) ==
  IF CursorOpen(d) THEN InvalidCursor(d)
  ELSE {[drv |-> [d EXCEPT !.executed = q, !.prepared = NoQuery], res |-> "ok"],
        [drv |-> [d EXCEPT !.executed = NoQuery, !.prepared = NoQuery], res |-> "failed"]}

SQLExecute(d) ==
  IF CursorOpen(d) THEN InvalidCursor(d)
  ELSE IF d.prepared = NoQuery THEN {[drv |-> d, res |-> "HY010"]}
  ELSE {[drv |-> [d EXCEPT !.executed = d.prepared], res |-> "ok"],
        [drv |-> Closed(d), res |-> "failed"]}

\* SQLFreeStmt for what Reset and the destructor believe to be bound.
UnboundColumns(d) == [Closed(d) EXCEPT !.bound = @ \ {"columns"}] \* slip: parameters stay
Unbound(d) == [Closed(d) EXCEPT !.bound = @ \ boundFlag]

\* m_isPrepared after SQLPrepare has ended with res.
PreparedBeforeCheck(res) == TRUE \* slip: set before the return code is looked at
PreparedAfter(res) == isPrepared \/ res = "ok"

Ended(op, res) == last' = [op |-> op, res |-> res] /\ UNCHANGED statementFaults

\* A call that throws before it changed anything.
Throws(op, res) == Ended(op, res) /\ UNCHANGED <<db, hstmt, cached, drv>>

-----------------------------------------------------------------------------
\* The default constructor.
StatementInit ==
  /\ statementFaults \in StatementFaultSets
  /\ db = FALSE
  /\ hstmt = FALSE
  /\ isPrepared = FALSE
  /\ scrollable = FALSE
  /\ boundFlag = {}
  /\ drv = NewHandle
  /\ last = [op |-> "none", res |-> "ok"]

\* Slip: the flag is not written at all.
SetCursorOptionsOnly(want) ==
  /\ drv' = [NewHandle EXCEPT !.scroll = want]
  /\ UNCHANGED scrollable

\* SetCursorOptions: the flag is written only when the attribute has to be
\* changed, or when it is not supported and not needed.
SetCursorOptions(want) ==
  \/ /\ DefaultScroll = want
     /\ drv' = NewHandle
     /\ UNCHANGED scrollable
  \/ /\ DefaultScroll # want
     /\ drv' = [NewHandle EXCEPT !.scroll = want]
     /\ scrollable' = want
  \/ /\ ~want                  \* SQLSTATE HYC00: the driver has no scrollable cursors
     /\ drv' = [NewHandle EXCEPT !.scroll = FALSE]
     /\ scrollable' = FALSE

\* Init() of an empty statement, on an open Database; the constructors that
\* take a Database call it too.
InitStatement(want) ==
  /\ ~db
  /\ "reuse" \in statementFaults \/ ~(isPrepared \/ scrollable)
  /\ UNCHANGED <<isPrepared, boundFlag>>
  /\ \/ /\ SetCursorOptions(want)
        /\ db' = TRUE
        /\ hstmt' = TRUE
        /\ Ended("Init", "ok")
     \/ \* SetCursorOptions threw: Reset()
        /\ Ended("Init", "failed")
        /\ UNCHANGED <<db, hstmt, scrollable, drv>>
     \/ \* make_shared<SqlStmtHandle> threw, after m_pDb was set
        /\ "alloc_fails" \in statementFaults
        /\ db' = TRUE
        /\ Ended("Init", "failed")
        /\ UNCHANGED <<hstmt, scrollable, drv>>

InitAsserts == db /\ Throws("Init", "assertion")

\* Reset: unbind columns, then params, then drop the handle and the database.
\* Each SQLFreeStmt may fail and leaves the rest undone.
Reset ==
  \/ /\ db' = FALSE
     /\ hstmt' = FALSE
     /\ boundFlag' = {}
     /\ drv' = Unbound(drv)
     /\ Ended("Reset", "ok")
     /\ UNCHANGED <<isPrepared, scrollable>>
  \/ /\ boundFlag # {}
     /\ \E done \in {{}, {"columns"}} :
          /\ done \subseteq boundFlag
          /\ boundFlag \ done # {}
          /\ boundFlag' = boundFlag \ done
          /\ drv' = [drv EXCEPT !.bound = @ \ done]
     /\ Ended("Reset", "failed")
     /\ UNCHANGED <<db, hstmt, isPrepared, scrollable>>

\* ~ExecutableStatement, after which a new one may be constructed.  Columns and
\* parameters are unbound each in a try block of their own: what cannot be is
\* logged, and the handle given up all the same.
Destroy ==
  /\ db' = FALSE
  /\ hstmt' = FALSE
  /\ isPrepared' = FALSE
  /\ scrollable' = FALSE
  /\ boundFlag' = {}
  /\ \E kept \in SUBSET (boundFlag \intersect drv.bound) :
       /\ kept # {} => "unbind_lost" \in statementFaults
       /\ drv' = [Unbound(drv) EXCEPT !.bound = @ \union kept]
  /\ Ended("none", "ok")

\* Prepare does not close an open cursor first.
Prepare(q) ==
  /\ hstmt
  /\ \E answer \in SQLPrepare(drv, q) :
       /\ answer.res = "failed" /\ isPrepared => "prepare_fails" \in statementFaults
       /\ drv' = answer.drv
       /\ isPrepared' = PreparedAfter(answer.res)
       /\ Ended("Prepare", answer.res)
  /\ UNCHANGED <<db, hstmt, scrollable, boundFlag>>

\* SelectClose: SQLFreeStmt(SQL_CLOSE), no effect if nothing is open.
SelectClose ==
  /\ hstmt
  /\ drv' = Closed(drv)
  /\ Ended("SelectClose", "ok")
  /\ UNCHANGED <<db, hstmt, cached>>

\* Slip: the cursor of the execution before is left open.
ExecuteDirectOnOpenCursor(q) ==
  /\ hstmt
  /\ \E answer \in SQLExecDirect(drv, q) :
       /\ drv' = answer.drv
       /\ Ended("ExecuteDirect", answer.res)
  /\ UNCHANGED <<db, hstmt, cached>>

\* ExecuteDirect: SelectClose, then SQLExecDirect.
ExecuteDirect(q) ==
  /\ hstmt
  /\ isPrepared => "mix" \in statementFaults
  /\ \E answer \in SQLExecDirect(Closed(drv), q) :
       /\ drv' = answer.drv
       /\ Ended("ExecuteDirect", answer.res)
  /\ UNCHANGED <<db, hstmt, cached>>

\* ExecutePrepared: the flag is asserted, then SelectClose and SQLExecute.
ExecutePrepared ==
  /\ isPrepared
  /\ hstmt
  /\ \E answer \in SQLExecute(Closed(drv)) :
       /\ drv' = answer.drv
       /\ Ended("ExecutePrepared", answer.res)
  /\ UNCHANGED <<db, hstmt, cached>>

ExecutePreparedAsserts ==
  /\ ~isPrepared \/ ~hstmt
  /\ Throws("ExecutePrepared", "assertion")

\* SQLFetch and SQLFetchScroll need an open cursor.
FetchError == IF drv.executed = NoQuery THEN "HY010" ELSE "24000"

SelectNext ==
  /\ hstmt
  /\ Throws("SelectNext", IF CursorOpen(drv) THEN "ok" ELSE FetchError)

\* SelectPrev, SelectFirst, SelectLast, SelectAbsolute, SelectRelative
SelectFetchScroll ==
  Throws("SelectFetchScroll",
         IF ~scrollable \/ ~hstmt THEN "assertion"
         ELSE IF ~CursorOpen(drv) THEN FetchError
         ELSE IF drv.scroll THEN "ok" ELSE "HY106")

\* BindColumn and BindParameter: the flag is set after the buffer's visitor.
Bind(k) ==
  /\ hstmt
  /\ \/ /\ boundFlag' = boundFlag \union {k}
        /\ drv' = [drv EXCEPT !.bound = @ \union {k}]
        /\ Ended("Bind", "ok")
     \/ /\ "bind_partial" \in statementFaults
        /\ drv' = [drv EXCEPT !.bound = @ \union {k}]
        /\ Ended("Bind", "failed")
        /\ UNCHANGED boundFlag
  /\ UNCHANGED <<db, hstmt, isPrepared, scrollable>>

\* UnbindColumns and UnbindParams, which keep the flags.
Unbind(k) ==
  /\ hstmt
  /\ drv' = [drv EXCEPT !.bound = @ \ {k}]
  /\ Ended("Unbind", "ok")
  /\ UNCHANGED <<db, hstmt, cached>>

\* A buffer bound to the handle is destroyed elsewhere (module StmtBinding).
BufferDestroyed(k) ==
  /\ k \in drv.bound
  /\ drv' = [drv EXCEPT !.bound = @ \ {k}]
  /\ UNCHANGED <<db, hstmt, cached, last, statementFaults>>

\* Database::CommitTrans or RollbackTrans ends the transaction under the
\* statement: the driver keeps the cursor, closes it, or deletes the statement's
\* access plan.
TransactionEnds ==
  /\ hstmt
  /\ \/ drv' = Closed(drv)
     \/ /\ "commit_deletes" \in statementFaults
        /\ drv' = [Closed(drv) EXCEPT !.prepared = NoQuery]
  /\ UNCHANGED <<db, hstmt, cached, last, statementFaults>>

StatementNext ==
  \/ \E want \in BOOLEAN : InitStatement(want)
  \/ InitAsserts \/ Reset \/ Destroy
  \/ \E q \in Queries : Prepare(q) \/ ExecuteDirect(q)
  \/ ExecutePrepared \/ ExecutePreparedAsserts
  \/ SelectClose \/ SelectNext \/ SelectFetchScroll
  \/ \E k \in Kinds : Bind(k) \/ Unbind(k) \/ BufferDestroyed(k)
  \/ TransactionEnds

StatementSpec == StatementInit /\ [][StatementNext]_statementVars

-----------------------------------------------------------------------------
(* Properties *)

StatementTypeOK ==
  /\ db \in BOOLEAN
  /\ hstmt \in BOOLEAN
  /\ isPrepared \in BOOLEAN
  /\ scrollable \in BOOLEAN
  /\ boundFlag \subseteq Kinds
  /\ drv \in [prepared : MaybeQuery, executed : MaybeQuery, scroll : BOOLEAN, bound : SUBSET Kinds]
  /\ last \in [op : Ops, res : Results]
  /\ statementFaults \in StatementFaultSets

\* Faults that do not happen.
StatementWithout(kinds) == statementFaults \intersect kinds = {}

\* IsPrepared() tells the truth about the driver: what the assertion of
\* ExecutePrepared lets through can be executed.  It does not for callers who mix
\* direct and prepared execution or use a statement again, and if the driver
\* gives up what was prepared.
PreparedTruthful ==
  StatementWithout({"mix", "prepare_fails", "reuse", "commit_deletes"}) =>
    /\ hstmt => (isPrepared <=> drv.prepared # NoQuery)
    /\ ~(last.op = "ExecutePrepared" /\ last.res = "HY010")

\* No execution is refused because of a cursor an earlier one left open,
\* however the calls are mixed.
NoInvalidCursor ==
  ~(last.op \in {"ExecuteDirect", "ExecutePrepared"} /\ last.res = "24000")

\* IsForwardOnlyCursor(), and the assertion of SelectFetchScroll: the flag is
\* set exactly if the driver's cursor is scrollable.  A driver whose cursors are
\* scrollable anyway is not noticed by SetCursorOptions.
ScrollableReported ==
  StatementWithout({"driver_scrolls", "reuse"}) => (hstmt => (scrollable <=> drv.scroll))

\* Once the handle is given up, the driver has no pointer into a buffer that
\* was bound through this statement, unless a bind call misreports its effect,
\* or the destructor fails to unbind and nobody but the log learns of it.
NothingBoundAfterReset ==
  StatementWithout({"bind_partial", "unbind_lost"}) => (~hstmt => drv.bound = {})

\* Init gives both the handle and the database, or neither, if a handle can be
\* allocated.
InitAllOrNothing == StatementWithout({"alloc_fails"}) => (db <=> hstmt)
=============================================================================
