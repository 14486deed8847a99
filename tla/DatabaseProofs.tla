--------------------------- MODULE DatabaseProofs ---------------------------
(***************************************************************************)
(* What a Database promises, for any units of work and whatever fails: the *)
(* cached commit mode is true, pending work is protected by it, opening    *)
(* and closing are all or nothing as far as the driver lets them, and the  *)
(* connection implements TransactionContract.  When the flags of a         *)
(* statement executed on it agree with the driver, for any SQL texts.  And *)
(* that what it knows of its connection is of the present one, for any     *)
(* drivers and products.                                                   *)
(***************************************************************************)
EXTENDS DatabaseConnection, ExecStatement, InfoProperties, TLAPS

(* The inductive invariant.  CacheTruthful is what the other parts rest on:
   it makes the rollback of Close happen whenever the driver has an open
   transaction in manual mode, so that SQLDisconnect is not refused, and work
   pend only where Close and SetCommitMode look for it. *)
IInv ==
  /\ TypeOK
  /\ CacheTruthful
  /\ PendingIsProtected
  /\ OpenFullySetUp
  /\ ClosedIsDisconnected

LEMMA InitIInv == Init => IInv
  BY DEF Init, IInv, TypeOK, CommitModes, CacheTruthful, PendingIsProtected,
         OpenFullySetUp, ClosedIsDisconnected, Without

-----------------------------------------------------------------------------
(* Steps keep the types. *)

LEMMA NextTypeOK == TypeOK /\ [Next]_vars => TypeOK'
<1> SUFFICES ASSUME TypeOK, [Next]_vars PROVE TypeOK'
  OBVIOUS
<1> USE DEF TypeOK, CommitModes, object, driver
<1>1. CASE InitDatabase
  BY <1>1 DEF InitDatabase
<1>2. ASSUME NEW how \in {"string", "dsn"}, Open(how) PROVE TypeOK'
  <2>1. PICK a \in BOOLEAN : /\ commitMode' = ModeAfter("done", a)
                             /\ drvAuto' = AutoAfter("done", a)
                             /\ drvTx' = TxAfter("done", a)
    BY <1>2 DEF Open, StartModes
  <2>2. commitMode' \in CommitModes /\ drvAuto' \in BOOLEAN /\ drvTx' \in BOOLEAN
    BY <2>1 DEF ModeAfter, AutoAfter, TxAfter, SupportsTransactions
  <2> QED BY <1>2, <2>2 DEF Open, Connects
<1>3. ASSUME NEW how \in {"string", "dsn"}, OpenFails(how) PROVE TypeOK'
  <2>1. PICK a \in BOOLEAN, f \in OpenFailures :
          /\ commitMode' = ModeAfter(f, a)
          /\ drvAuto' = AutoAfter(f, a)
          /\ connected' \in BOOLEAN
          /\ drvTx' = (connected' /\ TxAfter(f, a))
    BY <1>3 DEF OpenFails, StartModes
  <2>2. commitMode' \in CommitModes /\ drvAuto' \in BOOLEAN /\ drvTx' \in BOOLEAN
    BY <2>1 DEF ModeAfter, AutoAfter, TxAfter, SupportsTransactions
  <2>3. execStmt' \in BOOLEAN
    BY <1>3 DEF OpenFails
  <2> QED BY <1>3, <2>1, <2>2, <2>3 DEF OpenFails, Connects
<1>4. CASE Close \/ CloseFailsToFree \/ CloseFailsToDisconnect
  BY <1>4 DEF Close, CloseFailsToFree, CloseFailsToDisconnect, CloseBegins, RolledBack,
              KeepTransaction
<1>5. CASE CommitTrans \/ RollbackTrans
  BY <1>5 DEF CommitTrans, RollbackTrans, RolledBack
<1>6. ASSUME NEW w \in Works, ExecSql(w) PROVE TypeOK'
  BY <1>6 DEF ExecSql
<1>7. CASE ReadCommitMode \/ SetModeOnlyRollsBack
  BY <1>7 DEF ReadCommitMode, SetModeOnlyRollsBack, RollbackUnlessAuto, RolledBack, KeepTransaction
<1>8. ASSUME NEW mode \in CommitModes, SetCommitMode(mode) PROVE TypeOK'
  BY <1>8 DEF SetCommitMode, RolledBack
<1>9. CASE UNCHANGED vars
  BY <1>9 DEF vars
<1> QED
  BY <1>1, <1>2, <1>3, <1>4, <1>5, <1>6, <1>7, <1>8, <1>9 DEF Next

-----------------------------------------------------------------------------
(* Steps keep the rest: one step per action, one below it per conjunct the
   action can disturb. *)

LEMMA NextIInv == IInv /\ [Next]_vars => IInv'
<1> SUFFICES ASSUME IInv, [Next]_vars PROVE IInv'
  OBVIOUS
<1>0. TypeOK'
  BY NextTypeOK DEF IInv
<1> USE <1>0 DEF IInv, object, driver
<1>1. CASE InitDatabase
  BY <1>1 DEF InitDatabase, CacheTruthful, PendingIsProtected, OpenFullySetUp,
              ClosedIsDisconnected, Without
<1>2. ASSUME NEW how \in {"string", "dsn"}, Open(how) PROVE IInv'
  <2>1. CacheTruthful'
    BY <1>2 DEF Open, ModeAfter, AutoAfter, CacheTruthful
  <2>2. PendingIsProtected'
    BY <1>2 DEF Open, Connects, PendingIsProtected
  <2>3. OpenFullySetUp' /\ ClosedIsDisconnected'
    BY <1>2 DEF Open, Connects, OpenFullySetUp, ClosedIsDisconnected
  <2> QED BY <2>1, <2>2, <2>3
<1>3. ASSUME NEW how \in {"string", "dsn"}, OpenFails(how) PROVE IInv'
  <2>1. ~isOpen /\ ~isOpen' /\ pending' = pending /\ faults' = faults
    BY <1>3 DEF OpenFails, Connects
  <2>2. CacheTruthful' /\ PendingIsProtected' /\ OpenFullySetUp'
    BY <2>1 DEF CacheTruthful, PendingIsProtected, OpenFullySetUp
  <2>3. Without({"disconnect_fails", "read_opens_tx"}) => ~connected'
    BY <1>3 DEF OpenFails, Without, CanDisconnect, TxAfter
  <2>4. Without({"free_fails"}) => ~execStmt'
    BY <1>3, <2>1 DEF OpenFails, Without, ClosedIsDisconnected
  <2>5. ClosedIsDisconnected'
    BY <2>1, <2>3, <2>4 DEF ClosedIsDisconnected, Without
  <2> QED BY <2>2, <2>5
<1>4. ASSUME CloseBegins,
             isOpen' => UNCHANGED <<isOpen, connected>>,
             ~isOpen' => ~connected' /\ ~execStmt',
             isOpen' /\ Without({"disconnect_fails"}) => UNCHANGED <<execStmt, catalog>>
      PROVE  IInv'
  <2>1. pending' = {} /\ dbc' = dbc /\ faults' = faults
    BY <1>4 DEF CloseBegins, RolledBack, KeepTransaction, PendingIsProtected
  <2>2. CacheTruthful'
    BY <1>4 DEF CloseBegins, CacheTruthful
  <2>3. OpenFullySetUp'
    BY <1>4, <2>1 DEF CloseBegins, OpenFullySetUp, Without
  <2>4. ClosedIsDisconnected'
    BY <1>4 DEF ClosedIsDisconnected
  <2>5. PendingIsProtected'
    BY <2>1 DEF PendingIsProtected
  <2> QED BY <2>2, <2>3, <2>4, <2>5
<1>5. CASE Close
  <2>1. CloseBegins /\ ~isOpen' /\ ~connected' /\ ~execStmt'
    BY <1>5 DEF Close
  <2> QED BY <1>4, <2>1
<1>6. CASE CloseFailsToFree
  <2>1. CloseBegins /\ isOpen' /\ UNCHANGED <<isOpen, connected, execStmt, catalog>>
    BY <1>6 DEF CloseFailsToFree, CloseBegins
  <2> QED BY <1>4, <2>1
<1>7. CASE CloseFailsToDisconnect
  <2>1. CloseBegins /\ isOpen' /\ UNCHANGED <<isOpen, connected>>
    BY <1>7 DEF CloseFailsToDisconnect, CloseBegins
  <2>2. CanDisconnect(drvAuto, drvTx')  \* after the rollback, or in auto commit mode
    BY <2>1 DEF CloseBegins, RolledBack, CacheTruthful, CanDisconnect
  <2>3. ~Without({"disconnect_fails"})
    BY <1>7, <2>2 DEF CloseFailsToDisconnect, Without
  <2> QED BY <1>4, <2>1, <2>3
<1>8. CASE CommitTrans \/ RollbackTrans
  BY <1>8 DEF CommitTrans, RollbackTrans, RolledBack, CacheTruthful, PendingIsProtected,
              OpenFullySetUp, ClosedIsDisconnected, Without
<1>9. ASSUME NEW w \in Works, ExecSql(w) PROVE IInv'
  BY <1>9 DEF ExecSql, CacheTruthful, PendingIsProtected, OpenFullySetUp,
              ClosedIsDisconnected, Without
<1>10. CASE ReadCommitMode
  BY <1>10 DEF ReadCommitMode, CacheTruthful, PendingIsProtected, OpenFullySetUp,
               ClosedIsDisconnected, Without
<1>11. CASE SetModeOnlyRollsBack
  BY <1>11 DEF SetModeOnlyRollsBack, RollbackUnlessAuto, RolledBack, KeepTransaction,
               CacheTruthful, PendingIsProtected, OpenFullySetUp, ClosedIsDisconnected, Without
<1>12. ASSUME NEW mode \in CommitModes, SetCommitMode(mode) PROVE IInv'
  <2>1. pending' = {}  \* rolled back, or the mode was AUTO and nothing pended
    BY <1>12 DEF SetCommitMode, RollsBackFirst, RolledBack, PendingIsProtected
  <2>2. CacheTruthful'
    BY <1>12 DEF SetCommitMode, CacheTruthful
  <2>3. PendingIsProtected'
    BY <2>1 DEF PendingIsProtected
  <2>4. OpenFullySetUp' /\ ClosedIsDisconnected'
    BY <1>12 DEF SetCommitMode, OpenFullySetUp, ClosedIsDisconnected, Without
  <2> QED BY <2>2, <2>3, <2>4
<1>13. CASE UNCHANGED vars
  BY <1>13 DEF vars, CacheTruthful, PendingIsProtected, OpenFullySetUp,
               ClosedIsDisconnected, Without
<1> QED
  BY <1>1, <1>2, <1>3, <1>5, <1>6, <1>7, <1>8, <1>9, <1>10, <1>11, <1>12, <1>13 DEF Next

LEMMA AlwaysIInv == Spec => []IInv
<1>1. Init => IInv
  BY InitIInv
<1>2. IInv /\ [Next]_vars => IInv'
  BY NextIInv
<1> QED BY <1>1, <1>2, PTL DEF Spec

-----------------------------------------------------------------------------
(* The theorems. *)

\* Database keeps its types, with every commit mode and whatever fails.
THEOREM TypeCorrect == Spec => []TypeOK
  BY AlwaysIInv, PTL DEF IInv

\* GetCommitMode() never claims a mode the driver is not in while the database
\* is open, after any sequence of successful and failing calls.
THEOREM CacheAlwaysTruthful == Spec => []CacheTruthful
  BY AlwaysIInv, PTL DEF IInv

\* Work that is not committed is always where Close and SetCommitMode roll it
\* back.
THEOREM PendingAlwaysProtected == Spec => []PendingIsProtected
  BY AlwaysIInv, PTL DEF IInv

\* Open makes all of a connection and Close takes all of it back, if the driver
\* does not refuse to disconnect.
THEOREM OpenAndCloseAreAllOrNothing == Spec => [](OpenFullySetUp /\ ClosedIsDisconnected)
  BY AlwaysIInv, PTL DEF IInv

-----------------------------------------------------------------------------
(* Refinement of TransactionContract: each step maps to a step of the contract
   or to a stutter. *)

LEMMA InitMaps == Init => Contract!Init
  BY DEF Init, Contract!Init

LEMMA NextMaps == IInv /\ [Next]_vars => [Contract!Next]_(Contract!vars)
<1> SUFFICES ASSUME IInv, [Next]_vars
             PROVE  Contract!Next \/ UNCHANGED Contract!vars
  OBVIOUS
<1> USE DEF IInv, object, driver, Contract!vars
<1>1. CASE InitDatabase
  BY <1>1 DEF InitDatabase
<1>2. ASSUME NEW how \in {"string", "dsn"}, Open(how) PROVE Contract!Open
  BY <1>2 DEF Open, Connects, Contract!Open
<1>3. ASSUME NEW how \in {"string", "dsn"}, OpenFails(how) PROVE Contract!ReadMode
  BY <1>3 DEF OpenFails, Connects, PendingIsProtected, Contract!ReadMode
<1>4. CASE Close
  BY <1>4 DEF Close, CloseBegins, RolledBack, KeepTransaction, PendingIsProtected,
              Contract!Close, Contract!Next
<1>5. CASE CloseFailsToFree \/ CloseFailsToDisconnect
  <2>1. Contract!RollbackAndSetMode
    BY <1>5 DEF CloseFailsToFree, CloseFailsToDisconnect, CloseBegins, RolledBack,
                KeepTransaction, PendingIsProtected, Contract!RollbackAndSetMode
  <2> QED BY <2>1 DEF Contract!Next
<1>6. CASE CommitTrans
  BY <1>6 DEF CommitTrans, Contract!Commit, Contract!Next
<1>7. CASE RollbackTrans
  BY <1>7 DEF RollbackTrans, RolledBack, Contract!RollbackAndSetMode, Contract!Next
<1>8. ASSUME NEW w \in Works, ExecSql(w) PROVE Contract!Do(w)
  <2>1. drvAuto <=> commitMode # "MANUAL"
    BY <1>8 DEF ExecSql, CacheTruthful
  <2> QED BY <1>8, <2>1 DEF ExecSql, Contract!Do
<1>9. CASE ReadCommitMode
  <2>1. CASE isOpen
    BY <1>9, <2>1 DEF ReadCommitMode, CacheTruthful
  <2>2. CASE ~isOpen
    BY <1>9, <2>2 DEF ReadCommitMode, PendingIsProtected, Contract!ReadMode, Contract!Next
  <2> QED BY <2>1, <2>2
<1>10. CASE SetModeOnlyRollsBack
  BY <1>10 DEF SetModeOnlyRollsBack, RollbackUnlessAuto, RolledBack, KeepTransaction,
               Contract!RollbackAndSetMode, Contract!Next
<1>11. ASSUME NEW mode \in CommitModes, SetCommitMode(mode) PROVE Contract!RollbackAndSetMode
  BY <1>11 DEF SetCommitMode, RollsBackFirst, RolledBack, PendingIsProtected,
               Contract!RollbackAndSetMode
<1>12. CASE UNCHANGED vars
  BY <1>12 DEF vars
<1> QED
  BY <1>1, <1>2, <1>3, <1>4, <1>5, <1>6, <1>7, <1>8, <1>9, <1>10, <1>11, <1>12
     DEF Next, Contract!Next

\* What a caller is promised about transactions holds of every behaviour of
\* the connection: nothing becomes durable but by a commit or in auto commit
\* mode, and Close gives up what is pending.
THEOREM ImplementsContract == Spec => TransactionsKeepContract
<1>1. Init => Contract!Init
  BY InitMaps
<1>2. IInv /\ [Next]_vars => [Contract!Next]_(Contract!vars)
  BY NextMaps
<1> QED
  BY <1>1, <1>2, AlwaysIInv, PTL DEF Spec, TransactionsKeepContract, Contract!Spec

-----------------------------------------------------------------------------
(* A statement: the flags of an ExecutableStatement and the driver. *)

\* Whatever the driver has bound is flagged, unless a bind call misreports its
\* effect: Reset and the destructor unbind what is flagged and no more.
BoundIsFlagged == StatementWithout({"bind_partial", "unbind_lost"}) => drv.bound \subseteq boundFlag

\* The inductive invariant.
StatementInv ==
  /\ StatementTypeOK
  /\ PreparedTruthful
  /\ NoInvalidCursor
  /\ ScrollableReported
  /\ BoundIsFlagged
  /\ NothingBoundAfterReset
  /\ InitAllOrNothing

Drv == [prepared : MaybeQuery, executed : MaybeQuery, scroll : BOOLEAN, bound : SUBSET Kinds]

-----------------------------------------------------------------------------
(* The driver *)

LEMMA NewHandleType == NewHandle \in Drv
  BY DEF NewHandle, Drv, MaybeQuery, DefaultScroll

\* Closing a cursor changes nothing else, and no cursor is open afterwards.
LEMMA ClosedFacts ==
  ASSUME NEW d \in Drv
  PROVE  /\ Closed(d) \in Drv
         /\ ~CursorOpen(Closed(d))
         /\ Closed(d).prepared = d.prepared
         /\ Closed(d).scroll = d.scroll
         /\ Closed(d).bound = d.bound
  BY QueriesAssumption DEF Closed, CursorOpen, Drv, MaybeQuery

\* What the driver answers to a text: neither binding nor cursor type changes,
\* a refusal for an open cursor needs one, and what is prepared afterwards.
LEMMA PrepareFacts ==
  ASSUME NEW d \in Drv, NEW q \in Queries, NEW answer \in SQLPrepare(d, q)
  PROVE  /\ answer.drv \in Drv /\ answer.res \in {"ok", "failed", "24000"}
         /\ answer.drv.scroll = d.scroll /\ answer.drv.bound = d.bound
         /\ answer.res = "ok" => answer.drv.prepared = q
         /\ answer.res = "failed" => answer.drv.prepared = NoQuery
         /\ answer.res = "24000" => answer.drv = d
<1> USE DEF Drv, MaybeQuery
<1>1. CASE answer \in InvalidCursor(d)
  BY <1>1 DEF InvalidCursor
<1>2. CASE answer = [drv |-> [Closed(d) EXCEPT !.prepared = q], res |-> "ok"]
  BY <1>2, ClosedFacts
<1>3. CASE answer = [drv |-> [Closed(d) EXCEPT !.prepared = NoQuery], res |-> "failed"]
  BY <1>3, ClosedFacts
<1> QED BY <1>1, <1>2, <1>3 DEF SQLPrepare

LEMMA ExecDirectFacts ==
  ASSUME NEW d \in Drv, ~CursorOpen(d), NEW q \in Queries, NEW answer \in SQLExecDirect(d, q)
  PROVE  /\ answer.drv \in Drv /\ answer.res \in {"ok", "failed"}
         /\ answer.drv.scroll = d.scroll /\ answer.drv.bound = d.bound
         /\ answer.drv.prepared = NoQuery
<1>1. answer.res \in {"ok", "failed"}
      /\ answer.drv \in {[d EXCEPT !.executed = q, !.prepared = NoQuery],
                         [d EXCEPT !.executed = NoQuery, !.prepared = NoQuery]}
  BY DEF SQLExecDirect
<1> QED BY <1>1 DEF Drv, MaybeQuery

LEMMA ExecuteFacts ==
  ASSUME NEW d \in Drv, ~CursorOpen(d), NEW answer \in SQLExecute(d)
  PROVE  /\ answer.drv \in Drv /\ answer.res \in {"ok", "failed", "HY010"}
         /\ answer.drv.scroll = d.scroll /\ answer.drv.bound = d.bound
         /\ answer.drv.prepared = d.prepared
         /\ answer.res = "HY010" => d.prepared = NoQuery
<1>1. CASE d.prepared = NoQuery
  BY <1>1 DEF SQLExecute
<1>2. CASE d.prepared # NoQuery
  <2>1. answer.res \in {"ok", "failed"}
        /\ answer.drv \in {[d EXCEPT !.executed = d.prepared], Closed(d)}
    BY <1>2 DEF SQLExecute
  <2> QED BY <2>1 DEF Closed, Drv, MaybeQuery
<1> QED BY <1>1, <1>2

LEMMA UnboundFacts ==
  ASSUME NEW d \in Drv, drv = d
  PROVE  /\ Unbound(d) \in Drv
         /\ Unbound(d).bound = d.bound \ boundFlag
  BY DEF Unbound, Closed, Drv, MaybeQuery

-----------------------------------------------------------------------------
(* Initial states and steps *)

LEMMA StatementInitInv == StatementInit => StatementInv
<1> SUFFICES ASSUME StatementInit PROVE StatementInv
  OBVIOUS
<1>1. drv \in Drv /\ drv.bound = {}
  BY NewHandleType DEF StatementInit, NewHandle
<1>2. StatementTypeOK
  BY <1>1 DEF StatementInit, StatementTypeOK, Drv, Ops, Results
<1> QED
  BY <1>1, <1>2 DEF StatementInit, StatementInv, PreparedTruthful, NoInvalidCursor, ScrollableReported,
                    BoundIsFlagged, NothingBoundAfterReset, InitAllOrNothing

\* SetCursorOptions makes a fresh handle whose cursor is as the flag says, if
\* the flag was not set before and the driver's default is forward-only.
LEMMA SetCursorOptionsFacts ==
  ASSUME StatementTypeOK, NEW want \in BOOLEAN, SetCursorOptions(want)
  PROVE  /\ drv' \in Drv
         /\ drv'.prepared = NoQuery
         /\ drv'.bound = {}
         /\ scrollable' \in BOOLEAN
         /\ ~scrollable /\ ~DefaultScroll => (scrollable' <=> drv'.scroll)
<1>1. /\ NewHandle \in Drv /\ DefaultScroll \in BOOLEAN
      /\ NewHandle.prepared = NoQuery /\ NewHandle.bound = {} /\ NewHandle.scroll = DefaultScroll
  BY NewHandleType DEF NewHandle, DefaultScroll
<1>2. CASE DefaultScroll = want /\ drv' = NewHandle /\ UNCHANGED scrollable
  BY <1>1, <1>2 DEF StatementTypeOK
<1>3. ASSUME NEW s \in BOOLEAN, drv' = [NewHandle EXCEPT !.scroll = s], scrollable' = s
      PROVE  drv' \in Drv /\ drv'.prepared = NoQuery /\ drv'.bound = {} /\ drv'.scroll = s
  BY <1>1, <1>3 DEF Drv
<1> QED
  BY <1>2, <1>3 DEF SetCursorOptions

\* The parts of the invariant that speak of the outcome of a call hold after
\* every call that is no execution.
LEMMA NoExecution ==
  ASSUME NEW op, NEW res, Ended(op, res), op \notin {"ExecuteDirect", "ExecutePrepared"}
  PROVE  NoInvalidCursor' /\ ~(last'.op = "ExecutePrepared" /\ last'.res = "HY010")
  BY DEF Ended, NoInvalidCursor

LEMMA StatementNextInv == StatementInv /\ [StatementNext]_statementVars => StatementInv'
<1> SUFFICES ASSUME StatementInv, [StatementNext]_statementVars PROVE StatementInv'
  OBVIOUS
<1>0. drv \in Drv /\ NewHandle \in Drv /\ StatementTypeOK
  BY NewHandleType DEF StatementInv, StatementTypeOK, Drv
<1> USE DEF StatementInv, cached
<1>1. ASSUME NEW want \in BOOLEAN, InitStatement(want) PROVE StatementInv'
  <2>1. CASE SetCursorOptions(want) /\ db' = TRUE /\ hstmt' = TRUE /\ Ended("Init", "ok")
    <3>1. /\ drv' \in Drv /\ drv'.prepared = NoQuery /\ drv'.bound = {}
          /\ scrollable' \in BOOLEAN
          /\ ~scrollable /\ ~DefaultScroll => (scrollable' <=> drv'.scroll)
      BY <1>0, <2>1, SetCursorOptionsFacts
    <3>2. StatementTypeOK'
      BY <1>1, <2>1, <3>1 DEF InitStatement, StatementTypeOK, Drv, Ended, Ops, Results
    <3>3. PreparedTruthful' /\ NoInvalidCursor'
      BY <1>1, <2>1, <3>1 DEF InitStatement, Ended, PreparedTruthful, NoInvalidCursor, StatementWithout
    <3>4. ScrollableReported'
      BY <1>1, <2>1, <3>1 DEF InitStatement, Ended, ScrollableReported, StatementWithout, DefaultScroll
    <3>5. BoundIsFlagged' /\ NothingBoundAfterReset' /\ InitAllOrNothing'
      BY <2>1, <3>1 DEF BoundIsFlagged, NothingBoundAfterReset, InitAllOrNothing
    <3> QED BY <3>2, <3>3, <3>4, <3>5
  <2>2. ASSUME Ended("Init", "failed"),
               UNCHANGED <<hstmt, scrollable, drv, isPrepared, boundFlag>>,
               db' = db \/ (db' = TRUE /\ "alloc_fails" \in statementFaults)
        PROVE  StatementInv'
    <3>1. StatementTypeOK'
      BY <2>2 DEF Ended, StatementTypeOK, Ops, Results
    <3>2. InitAllOrNothing'
      BY <2>2 DEF Ended, InitAllOrNothing, StatementWithout
    <3> QED
      BY <2>2, <3>1, <3>2 DEF Ended, PreparedTruthful, NoInvalidCursor, ScrollableReported,
                              BoundIsFlagged, NothingBoundAfterReset, StatementWithout
  <2> QED BY <1>1, <2>1, <2>2 DEF InitStatement
<1>2. ASSUME NEW op \in Ops \ {"ExecuteDirect"}, NEW res \in Results, Throws(op, res),
             op = "ExecutePrepared" => res \notin {"24000", "HY010"}
      PROVE  StatementInv'
  BY <1>2 DEF Throws, Ended, StatementTypeOK, PreparedTruthful, NoInvalidCursor,
              ScrollableReported, BoundIsFlagged, NothingBoundAfterReset, InitAllOrNothing, StatementWithout
<1>3. CASE InitAsserts \/ ExecutePreparedAsserts \/ SelectNext \/ SelectFetchScroll
  BY <1>2, <1>3 DEF InitAsserts, ExecutePreparedAsserts, SelectNext, SelectFetchScroll, FetchError,
                    Ops, Results
<1>4. ASSUME ~hstmt', ~db', boundFlag' = {},
             NEW kept \in SUBSET Kinds, drv' = [Unbound(drv) EXCEPT !.bound = @ \union kept],
             kept # {} => "unbind_lost" \in statementFaults,
             isPrepared' \in BOOLEAN, scrollable' \in BOOLEAN,
             db' \in BOOLEAN, hstmt' \in BOOLEAN,
             NEW op \in {"Reset", "none"}, Ended(op, "ok")
      PROVE  StatementInv'
  <2>1. drv' \in Drv /\ drv'.bound = (drv.bound \ boundFlag) \union kept
    <3>1. Unbound(drv) \in Drv /\ Unbound(drv).bound = drv.bound \ boundFlag
      BY <1>0, UnboundFacts
    <3> QED BY <1>4, <3>1 DEF Drv
  <2>2. StatementWithout({"bind_partial", "unbind_lost"}) => drv'.bound = {}
    <3>1. StatementWithout({"bind_partial", "unbind_lost"}) => kept = {}
      BY <1>4 DEF StatementWithout
    <3> QED BY <2>1, <3>1 DEF BoundIsFlagged
  <2>3. StatementTypeOK'
    BY <1>4, <2>1 DEF StatementTypeOK, Drv, Ended, Ops, Results
  <2> QED BY <1>4, <2>2, <2>3 DEF Ended, PreparedTruthful, NoInvalidCursor, ScrollableReported,
                BoundIsFlagged, NothingBoundAfterReset, InitAllOrNothing, StatementWithout
<1>5. CASE Reset
  <2>1. CASE Ended("Reset", "ok") /\ db' = FALSE /\ hstmt' = FALSE /\ boundFlag' = {}
             /\ drv' = Unbound(drv) /\ UNCHANGED <<isPrepared, scrollable>>
    <3>1. Unbound(drv) \in Drv
      BY <1>0, UnboundFacts
    <3>2. drv' = [Unbound(drv) EXCEPT !.bound = @ \union {}]
      BY <2>1, <3>1 DEF Drv
    <3>3. {} \in SUBSET Kinds /\ ({} # {} => "unbind_lost" \in statementFaults)
      OBVIOUS
    <3>4. /\ ~hstmt' /\ ~db' /\ db' \in BOOLEAN /\ hstmt' \in BOOLEAN
          /\ isPrepared' \in BOOLEAN /\ scrollable' \in BOOLEAN
      BY <1>0, <2>1 DEF StatementTypeOK
    <3> QED BY <1>4, <2>1, <3>2, <3>3, <3>4
  <2>2. ASSUME NEW done \in {{}, {"columns"}}, Ended("Reset", "failed"),
               boundFlag' = boundFlag \ done, drv' = [drv EXCEPT !.bound = @ \ done],
               UNCHANGED <<db, hstmt, isPrepared, scrollable>>
        PROVE  StatementInv'
    <3>1. drv' \in Drv /\ drv'.bound = drv.bound \ done /\ drv'.prepared = drv.prepared
          /\ drv'.scroll = drv.scroll
      BY <1>0, <2>2 DEF Drv
    <3>2. StatementTypeOK'
      BY <2>2, <3>1 DEF StatementTypeOK, Drv, Ended, Ops, Results
    <3> QED BY <2>2, <3>1, <3>2 DEF Ended, PreparedTruthful, NoInvalidCursor, ScrollableReported,
                  BoundIsFlagged, NothingBoundAfterReset, InitAllOrNothing, StatementWithout
  <2> QED BY <1>5, <2>1, <2>2 DEF Reset
<1>6. CASE Destroy
  <2>1. PICK kept \in SUBSET (boundFlag \intersect drv.bound) :
          /\ kept # {} => "unbind_lost" \in statementFaults
          /\ drv' = [Unbound(drv) EXCEPT !.bound = @ \union kept]
    BY <1>6 DEF Destroy
  <2>2. kept \in SUBSET Kinds
    BY <1>0 DEF Drv
  <2> QED BY <1>4, <1>6, <2>1, <2>2 DEF Destroy
<1>7. ASSUME NEW q \in Queries, Prepare(q) PROVE StatementInv'
  <2>1. PICK answer \in SQLPrepare(drv, q) :
          /\ answer.res = "failed" /\ isPrepared => "prepare_fails" \in statementFaults
          /\ drv' = answer.drv
          /\ isPrepared' = PreparedAfter(answer.res)
          /\ Ended("Prepare", answer.res)
    BY <1>7 DEF Prepare
  <2>2. /\ drv' \in Drv /\ answer.res \in {"ok", "failed", "24000"}
        /\ drv'.scroll = drv.scroll /\ drv'.bound = drv.bound
    BY <1>0, <2>1, PrepareFacts
  <2>3. StatementTypeOK'
    BY <1>7, <2>1, <2>2 DEF Prepare, StatementTypeOK, Drv, Ended, Ops, Results, PreparedAfter
  <2>4. StatementWithout({"prepare_fails", "mix", "reuse", "commit_deletes"})
          => (isPrepared' <=> drv'.prepared # NoQuery)
    <3>1. /\ answer.res = "ok" => drv'.prepared = q
          /\ answer.res = "failed" => drv'.prepared = NoQuery
          /\ answer.res = "24000" => drv' = drv
      BY <1>0, <2>1, PrepareFacts
    <3>2. isPrepared' = (isPrepared \/ answer.res = "ok")
      BY <2>1 DEF PreparedAfter
    <3> QED BY <1>7, <2>1, <2>2, <3>1, <3>2, QueriesAssumption DEF Prepare, PreparedTruthful, StatementWithout
  <2>5. NoInvalidCursor' /\ ~(last'.op = "ExecutePrepared" /\ last'.res = "HY010")
    BY <2>1, NoExecution
  <2> QED BY <1>7, <2>1, <2>2, <2>3, <2>4, <2>5 DEF Prepare, Ended, PreparedTruthful,
                ScrollableReported, BoundIsFlagged, NothingBoundAfterReset, InitAllOrNothing, StatementWithout
<1>8. ASSUME NEW q \in Queries, ExecuteDirect(q) PROVE StatementInv'
  <2>1. PICK answer \in SQLExecDirect(Closed(drv), q) :
          drv' = answer.drv /\ Ended("ExecuteDirect", answer.res)
    BY <1>8 DEF ExecuteDirect
  <2>2. /\ drv' \in Drv /\ answer.res \in {"ok", "failed"}
        /\ drv'.scroll = drv.scroll /\ drv'.bound = drv.bound
        /\ drv'.prepared = NoQuery
    BY <1>0, <2>1, ClosedFacts, ExecDirectFacts
  <2>3. StatementTypeOK'
    BY <1>8, <2>1, <2>2 DEF ExecuteDirect, StatementTypeOK, Drv, Ended, Ops, Results
  <2> QED BY <1>8, <2>1, <2>2, <2>3 DEF ExecuteDirect, Ended, PreparedTruthful, NoInvalidCursor,
                ScrollableReported, BoundIsFlagged, NothingBoundAfterReset, InitAllOrNothing, StatementWithout
<1>9. CASE ExecutePrepared
  <2>1. PICK answer \in SQLExecute(Closed(drv)) :
          drv' = answer.drv /\ Ended("ExecutePrepared", answer.res)
    BY <1>9 DEF ExecutePrepared
  <2>2. /\ drv' \in Drv /\ answer.res \in {"ok", "failed", "HY010"}
        /\ drv'.scroll = drv.scroll /\ drv'.bound = drv.bound
        /\ drv'.prepared = drv.prepared
        /\ answer.res = "HY010" => drv.prepared = NoQuery
    BY <1>0, <2>1, ClosedFacts, ExecuteFacts
  <2>3. StatementTypeOK'
    BY <1>9, <2>1, <2>2 DEF ExecutePrepared, StatementTypeOK, Drv, Ended, Ops, Results
  <2> QED BY <1>9, <2>1, <2>2, <2>3 DEF ExecutePrepared, Ended, PreparedTruthful, NoInvalidCursor,
                ScrollableReported, BoundIsFlagged, NothingBoundAfterReset, InitAllOrNothing, StatementWithout
<1>10. ASSUME NEW k \in Kinds, Bind(k) PROVE StatementInv'
  <2>1. drv' = [drv EXCEPT !.bound = @ \union {k}]
    BY <1>10 DEF Bind
  <2>2. drv' \in Drv /\ drv'.bound = drv.bound \union {k} /\ drv'.prepared = drv.prepared
        /\ drv'.scroll = drv.scroll
    BY <1>0, <2>1 DEF Drv
  <2>3. StatementTypeOK'
    BY <1>10, <2>2 DEF Bind, StatementTypeOK, Drv, Ended, Ops, Results
  <2> QED BY <1>10, <2>2, <2>3 DEF Bind, Ended, PreparedTruthful, NoInvalidCursor,
                ScrollableReported, BoundIsFlagged, NothingBoundAfterReset, InitAllOrNothing, StatementWithout
<1>11. ASSUME NEW k \in Kinds, Unbind(k) \/ BufferDestroyed(k) PROVE StatementInv'
  <2>1. drv' = [drv EXCEPT !.bound = @ \ {k}]
    BY <1>11 DEF Unbind, BufferDestroyed
  <2>2. drv' \in Drv /\ drv'.bound = drv.bound \ {k} /\ drv'.prepared = drv.prepared
        /\ drv'.scroll = drv.scroll
    BY <1>0, <2>1 DEF Drv
  <2>3. StatementTypeOK'
    BY <1>11, <2>2 DEF Unbind, BufferDestroyed, StatementTypeOK, Drv, Ended, Ops, Results
  <2> QED BY <1>11, <2>2, <2>3 DEF Unbind, BufferDestroyed, Ended, PreparedTruthful,
                NoInvalidCursor, ScrollableReported, BoundIsFlagged, NothingBoundAfterReset,
                InitAllOrNothing, StatementWithout
<1>12. CASE SelectClose \/ TransactionEnds
  <2>1. /\ drv' \in Drv /\ drv'.bound = drv.bound /\ drv'.scroll = drv.scroll
        /\ "commit_deletes" \notin statementFaults => drv'.prepared = drv.prepared
    <3>1. Closed(drv) \in Drv /\ Closed(drv).prepared = drv.prepared
          /\ Closed(drv).bound = drv.bound /\ Closed(drv).scroll = drv.scroll
      BY <1>0, ClosedFacts
    <3> QED BY <1>12, <3>1 DEF SelectClose, TransactionEnds, Drv, MaybeQuery
  <2>2. StatementTypeOK'
    BY <1>12, <2>1 DEF SelectClose, TransactionEnds, StatementTypeOK, Drv, Ended, Ops, Results
  <2> QED BY <1>12, <2>1, <2>2 DEF SelectClose, TransactionEnds, Ended, PreparedTruthful,
                NoInvalidCursor, ScrollableReported, BoundIsFlagged, NothingBoundAfterReset,
                InitAllOrNothing, StatementWithout
<1>13. CASE UNCHANGED statementVars
  BY <1>13 DEF statementVars, StatementTypeOK, PreparedTruthful, NoInvalidCursor, ScrollableReported, BoundIsFlagged,
               NothingBoundAfterReset, InitAllOrNothing, StatementWithout
<1> QED
  BY <1>1, <1>3, <1>5, <1>6, <1>7, <1>8, <1>9, <1>10, <1>11, <1>12, <1>13 DEF StatementNext

LEMMA StatementAlwaysInv == StatementSpec => []StatementInv
<1>1. StatementInit => StatementInv
  BY StatementInitInv
<1>2. StatementInv /\ [StatementNext]_statementVars => StatementInv'
  BY StatementNextInv
<1> QED BY <1>1, <1>2, PTL DEF StatementSpec

-----------------------------------------------------------------------------
(* The theorems. *)

\* The flags and the driver's tables keep their types.
THEOREM StatementTypeCorrect == StatementSpec => []StatementTypeOK
  BY StatementAlwaysInv, PTL DEF StatementInv

\* However calls of ExecuteDirect, Prepare, ExecutePrepared and the fetching
\* functions are mixed, no execution is refused for a cursor left open.
THEOREM NeverInvalidCursor == StatementSpec => []NoInvalidCursor
  BY StatementAlwaysInv, PTL DEF StatementInv

\* For disciplined callers, ExecutePrepared is let through by its assertion
\* exactly if the driver has something prepared.
THEOREM PreparedAlwaysTruthful == StatementSpec => []PreparedTruthful
  BY StatementAlwaysInv, PTL DEF StatementInv

\* IsForwardOnlyCursor() tells the truth, and Init gives all or nothing, if the
\* driver's default is forward-only and a handle can be allocated.
THEOREM FlagsAlwaysTruthful == StatementSpec => [](ScrollableReported /\ InitAllOrNothing)
  BY StatementAlwaysInv, PTL DEF StatementInv

\* After Reset or destruction the driver has no buffer that was bound through
\* the statement, if bind calls do not misreport their effect and the destructor
\* does not fail to unbind.
THEOREM NothingStaysBound == StatementSpec => []NothingBoundAfterReset
  BY StatementAlwaysInv, PTL DEF StatementInv

-----------------------------------------------------------------------------
(* What is known of the connection: properties and type map. *)

Property == [from : Connections \union {None}, read : BOOLEAN, unsupported : BOOLEAN]

\* What a map of properties may hold: a value that has been read is some connection's.
PropsOK(p) ==
  \A id \in DOMAIN p : p[id] \in Property /\ (p[id].read <=> p[id].from # None)

\* Exactly what the version of the driver has is registered.
RegisteredForVersion ==
  InfoWithout({"no_reset"}) /\ open # None =>
    /\ VersionOf(open, failed) # UNKNOWN
    /\ DOMAIN props = DbmsProperties \union LaterProperties(VersionOf(open, failed))

\* The inductive invariant.  A Database that is closed has no properties left, for
\* RegisterProperty would keep them.
InfoInv ==
  /\ InfoTypeOK
  /\ PropsOK(props) /\ PropsOK(copy)
  /\ open = None => props = NoProps
  /\ RegisteredForVersion
  /\ OfThisConnection
  /\ own => types = DefaultSql2BufferMap(env)

\* The version that is made of the parts is never above them.
LEMMA ParsedVersion ==
  ASSUME NEW parts \in Seq(Int), ParseOdbcVersion(parts) # UNKNOWN
  PROVE  /\ ParseOdbcVersion(parts) \in Versions
         /\ ParseOdbcVersion(parts) >= V_3 => AtLeast(parts, <<3, 0>>)
         /\ ParseOdbcVersion(parts) >= V_3_8 => AtLeast(parts, <<3, 80>>)
         /\ parts[1] <= 3 /\ AtLeast(parts, <<3, 0>>) => ParseOdbcVersion(parts) >= V_3
         /\ parts[1] <= 3 /\ AtLeast(parts, <<3, 80>>) => ParseOdbcVersion(parts) >= V_3_8
<1>1. Len(parts) = 2 /\ parts[1] \in Int /\ parts[2] \in Int /\ parts[1] >= 0 /\ parts[2] >= 0
  <2>1. Len(parts) = 2 /\ \A j \in DOMAIN parts : IsNumber(parts[j])
    BY DEF ParseOdbcVersion
  <2>2. 1 \in DOMAIN parts /\ 2 \in DOMAIN parts
    BY <2>1
  <2> QED BY <2>1, <2>2 DEF IsNumber
<1>2. ParseOdbcVersion(parts) = CASE parts[1] >= 3 /\ parts[2] >= 80 -> V_3_8
                                  [] parts[1] >= 3 /\ parts[2] < 80  -> V_3
                                  [] parts[1] = 2                    -> V_2
                                  [] OTHER                           -> UNKNOWN
  BY DEF ParseOdbcVersion
<1> QED BY <1>1, <1>2 DEF UNKNOWN, V_2, V_3, V_3_8, Versions, AtLeast

\* A driver that cannot be asked is taken for one of ODBC 2.
LEMMA VersionFacts ==
  ASSUME NEW c \in Connections, NEW failing, VersionOf(c, failing) # UNKNOWN
  PROVE  /\ VersionOf(c, failing) \in Versions
         /\ VersionOf(c, failing) >= V_3 => AtLeast(DriverVersion[c], <<3, 0>>)
         /\ VersionOf(c, failing) >= V_3_8 => AtLeast(DriverVersion[c], <<3, 80>>)
         /\ "DRIVER_ODBC_VER" \notin failing /\ DriverVersion[c][1] <= 3 =>
              /\ AtLeast(DriverVersion[c], <<3, 0>>) => VersionOf(c, failing) >= V_3
              /\ AtLeast(DriverVersion[c], <<3, 80>>) => VersionOf(c, failing) >= V_3_8
<1>1. DriverVersion[c] \in Seq(Int)
  BY DriverVersionAssumption
<1> QED BY <1>1, ParsedVersion DEF VersionOf, Versions, V_2, V_3, V_3_8

\* What is registered for a version.
LEMMA RegisteredFacts ==
  ASSUME NEW v \in Versions
  PROVE  LET ids == DbmsProperties \union LaterProperties(v) IN
           /\ AskedFor \subseteq ids
           /\ v < V_3 => ids \intersect MissingInPostgreSQL = {}
           /\ DbmsProperties \intersect MissingInPostgreSQL = {}
<1>1. \A ids : \A since \in {V_3, V_3_8} :
        From(V_2, since, ids) = {} /\ (v < V_3 => From(v, since, ids) = {})
  BY DEF From, Versions, V_2, V_3, V_3_8
<1>2. DriverProperties(V_2) \subseteq DriverProperties(v) /\ (v < V_3 => DriverProperties(v) = DriverProperties(V_2))
  BY <1>1 DEF DriverProperties
<1>3. DataSourceProperties(V_2) \subseteq DataSourceProperties(v)
      /\ (v < V_3 => DataSourceProperties(v) = DataSourceProperties(V_2))
  BY <1>1 DEF DataSourceProperties
<1>4. SupportedSqlProperties(V_2) \subseteq SupportedSqlProperties(v)
      /\ (v < V_3 => SupportedSqlProperties(v) = SupportedSqlProperties(V_2))
  BY <1>1 DEF SupportedSqlProperties
<1>5. SqlLimitsProperties(V_2) \subseteq SqlLimitsProperties(v)
      /\ (v < V_3 => SqlLimitsProperties(v) = SqlLimitsProperties(V_2))
  BY <1>1 DEF SqlLimitsProperties
<1>6. ConversionProperties(V_2) \subseteq ConversionProperties(v)
      /\ (v < V_3 => ConversionProperties(v) = ConversionProperties(V_2))
  BY <1>1 DEF ConversionProperties
<1>7. LaterProperties(V_2) \subseteq LaterProperties(v) /\ (v < V_3 => LaterProperties(v) = LaterProperties(V_2))
  BY <1>2, <1>3, <1>4, <1>5, <1>6 DEF LaterProperties
<1>8. v >= V_3 \/ v < V_3
  BY DEF Versions, V_2, V_3, V_3_8
<1>10. AskedFor \subseteq DbmsProperties \union LaterProperties(V_2)
  BY <1>1 DEF AskedFor, DbmsProperties, LaterProperties, DriverProperties, DataSourceProperties,
     SqlLimitsProperties
<1>11. (DbmsProperties \union LaterProperties(V_2)) \intersect MissingInPostgreSQL = {}
  BY <1>1 DEF MissingInPostgreSQL, DbmsProperties, LaterProperties, DriverProperties, DataSourceProperties,
     SupportedSqlProperties, SqlLimitsProperties, ScalarFunctionProperties, ConversionProperties
<1> QED BY <1>7, <1>8, <1>10, <1>11

\* What is registered from a version on, and since when ODBC has it.
OfVersion3 ==
  {"MAX_ASYNC_CONCURRENT_STATEMENTS", "ASYNC_NOTIFICATION", "driver 3", "CURSOR_SENSITIVITY", "data source 3",
   "CATALOG_NAME", "sql 3", "limits 3", "CONVERT_INTERVAL_YEAR_MONTH", "CONVERT_INTERVAL_DAY_TIME"}

LEMMA LaterByVersion ==
  ASSUME NEW v \in Versions
  PROVE  LaterProperties(v) = LaterProperties(V_2) \union (IF v >= V_3 THEN OfVersion3 ELSE {})
                                \union (IF v >= V_3_8 THEN {"driver 3.80"} ELSE {})
<1>1. \A ids : /\ From(V_2, V_3, ids) = {} /\ From(V_2, V_3_8, ids) = {}
               /\ From(v, V_3, ids) = (IF v >= V_3 THEN ids ELSE {})
               /\ From(v, V_3_8, ids) = (IF v >= V_3_8 THEN ids ELSE {})
  BY DEF From, Versions, V_2, V_3, V_3_8
<1>2. LaterProperties(v) = LaterProperties(V_2)
        \union From(v, V_3, {"MAX_ASYNC_CONCURRENT_STATEMENTS", "ASYNC_NOTIFICATION", "driver 3"})
        \union From(v, V_3_8, {"driver 3.80"})
        \union From(v, V_3, {"CURSOR_SENSITIVITY", "data source 3"})
        \union From(v, V_3, {"CATALOG_NAME", "sql 3"}) \union From(v, V_3, {"limits 3"})
        \union From(v, V_3, {"CONVERT_INTERVAL_YEAR_MONTH", "CONVERT_INTERVAL_DAY_TIME"})
  <2> DEFINE D3 == {"MAX_ASYNC_CONCURRENT_STATEMENTS", "ASYNC_NOTIFICATION", "driver 3"}
             D38 == {"driver 3.80"}
             S3 == {"CURSOR_SENSITIVITY", "data source 3"}
             Q3 == {"CATALOG_NAME", "sql 3"}
             L3 == {"limits 3"}
             C3 == {"CONVERT_INTERVAL_YEAR_MONTH", "CONVERT_INTERVAL_DAY_TIME"}
  <2>1. DriverProperties(v) = DriverProperties(V_2) \union From(v, V_3, D3) \union From(v, V_3_8, D38)
    BY <1>1 DEF DriverProperties
  <2>2. DataSourceProperties(v) = DataSourceProperties(V_2) \union From(v, V_3, S3)
    BY <1>1 DEF DataSourceProperties
  <2>3. SupportedSqlProperties(v) = SupportedSqlProperties(V_2) \union From(v, V_3, Q3)
    BY <1>1 DEF SupportedSqlProperties
  <2>4. SqlLimitsProperties(v) = SqlLimitsProperties(V_2) \union From(v, V_3, L3)
    BY <1>1 DEF SqlLimitsProperties
  <2>5. ConversionProperties(v) = ConversionProperties(V_2) \union From(v, V_3, C3)
    BY <1>1 DEF ConversionProperties
  <2> HIDE DEF D3, D38, S3, Q3, L3, C3
  <2>6. LaterProperties(v) = LaterProperties(V_2) \union From(v, V_3, D3) \union From(v, V_3_8, D38)
          \union From(v, V_3, S3) \union From(v, V_3, Q3) \union From(v, V_3, L3) \union From(v, V_3, C3)
    BY <2>1, <2>2, <2>3, <2>4, <2>5 DEF LaterProperties
  <2> QED BY <2>6 DEF D3, D38, S3, Q3, L3, C3
<1>3. CASE v >= V_3
  <2>1. LaterProperties(v) = LaterProperties(V_2)
        \union {"MAX_ASYNC_CONCURRENT_STATEMENTS", "ASYNC_NOTIFICATION", "driver 3"}
        \union From(v, V_3_8, {"driver 3.80"}) \union {"CURSOR_SENSITIVITY", "data source 3"}
        \union {"CATALOG_NAME", "sql 3"} \union {"limits 3"}
        \union {"CONVERT_INTERVAL_YEAR_MONTH", "CONVERT_INTERVAL_DAY_TIME"}
    BY <1>1, <1>2, <1>3
  <2>2. OfVersion3 = {"MAX_ASYNC_CONCURRENT_STATEMENTS", "ASYNC_NOTIFICATION", "driver 3"}
        \union {"CURSOR_SENSITIVITY", "data source 3"} \union {"CATALOG_NAME", "sql 3"} \union {"limits 3"}
        \union {"CONVERT_INTERVAL_YEAR_MONTH", "CONVERT_INTERVAL_DAY_TIME"}
    BY DEF OfVersion3
  <2>3. LaterProperties(v) = LaterProperties(V_2) \union OfVersion3 \union From(v, V_3_8, {"driver 3.80"})
    BY <2>1, <2>2
  <2> QED BY <1>1, <1>3, <2>3
<1>4. CASE ~(v >= V_3)
  BY <1>1, <1>2, <1>4
<1> QED BY <1>3, <1>4

LEMMA SinceWhen ==
  /\ \A id \in DbmsProperties \union LaterProperties(V_2) : Since(id) = First \/ id \in Untimely
  /\ \A id \in OfVersion3 : Since(id) = IF id = "ASYNC_NOTIFICATION" THEN <<3, 80>> ELSE <<3, 0>>
  /\ Since("driver 3.80") = <<3, 80>>
<1>1. \A ids : From(V_2, V_3, ids) = {} /\ From(V_2, V_3_8, ids) = {}
  BY DEF From, V_2, V_3, V_3_8
<1>2. DbmsProperties \union LaterProperties(V_2) =
        {"DBMS_NAME", "dbms", "DRIVER_NAME", "DRIVER_ODBC_VER", "SEARCH_PATTERN_ESCAPE",
         "ODBC_INTERFACE_CONFORMANCE", "driver", "CATALOG_TERM", "SCHEMA_TERM", "TXN_CAPABLE",
         "TXN_ISOLATION_OPTION", "data source", "INDEX_KEYWORDS", "SQL_CONFORMANCE", "OJ_CAPABILITIES", "sql",
         "MAX_CATALOG_NAME_LEN", "MAX_SCHEMA_NAME_LEN", "MAX_TABLE_NAME_LEN", "MAX_COLUMN_NAME_LEN",
         "limits", "scalar functions", "conversions"}
  BY <1>1 DEF DbmsProperties, LaterProperties, DriverProperties, DataSourceProperties, SupportedSqlProperties,
     SqlLimitsProperties, ScalarFunctionProperties, ConversionProperties
<1>3. \A id \in DbmsProperties \union LaterProperties(V_2) : Since(id) = First \/ id \in Untimely
  BY <1>2 DEF Since, Untimely
<1>4. \A id \in OfVersion3 : Since(id) = IF id = "ASYNC_NOTIFICATION" THEN <<3, 80>> ELSE <<3, 0>>
  BY DEF OfVersion3, Since
<1>5. Since("driver 3.80") = <<3, 80>>
  BY DEF Since
<1> QED BY <1>3, <1>4, <1>5

\* Registering, marking and reading keep a map what it may be.
LEMMA RegisteredOK ==
  ASSUME NEW p, PropsOK(p), NEW ids
  PROVE  PropsOK(Registered(p, ids)) /\ DOMAIN Registered(p, ids) = DOMAIN p \union ids
<1>1. Unread \in Property /\ ~Unread.read /\ Unread.from = None
  BY DEF Unread, Property
<1> QED BY <1>1 DEF PropsOK, Registered

LEMMA MarkedOK ==
  ASSUME NEW p, PropsOK(p), NEW ids
  PROVE  PropsOK(Marked(p, ids)) /\ DOMAIN Marked(p, ids) = DOMAIN p
BY DEF PropsOK, Marked, Property

LEMMA ReadOK ==
  ASSUME NEW p, PropsOK(p), NEW c \in Connections, NEW ids, NEW failing
  PROVE  PropsOK(ReadFrom(p, c, ids, failing)) /\ DOMAIN ReadFrom(p, c, ids, failing) = DOMAIN p
BY ConnectionsAssumption DEF PropsOK, ReadFrom, Property

\* What becomes of one property.
LEMMA MarkedFields ==
  ASSUME NEW p, PropsOK(p), NEW ids, NEW id \in DOMAIN p
  PROVE  /\ Marked(p, ids)[id].unsupported <=> id \in ids \/ p[id].unsupported
         /\ Marked(p, ids)[id].read <=> p[id].read
         /\ Marked(p, ids)[id].from = p[id].from
<1>1. p[id] \in Property
  BY DEF PropsOK
<1>2. CASE id \in ids
  <2>1. Marked(p, ids)[id] = [p[id] EXCEPT !.unsupported = TRUE]
    BY <1>2 DEF Marked
  <2> QED BY <1>1, <1>2, <2>1 DEF Property
<1>3. CASE id \notin ids
  BY <1>3 DEF Marked
<1> QED BY <1>2, <1>3

LEMMA ReadFields ==
  ASSUME NEW p, PropsOK(p), NEW c \in Connections, NEW ids, NEW failing, NEW id \in DOMAIN p
  PROVE  LET r == ReadFrom(p, c, ids, failing)[id] IN
           /\ r.unsupported <=> p[id].unsupported
           /\ r.read <=> id \in ids \ failing \/ p[id].read
           /\ id \in ids \ failing => r.from = c
           /\ id \notin ids \ failing => r.from = p[id].from
<1>1. p[id] \in Property
  BY DEF PropsOK
<1>2. CASE id \in ids \ failing
  <2>1. ReadFrom(p, c, ids, failing)[id] = [p[id] EXCEPT !.from = c, !.read = TRUE]
    BY <1>2 DEF ReadFrom
  <2> QED BY <1>1, <1>2, <2>1 DEF Property
<1>3. CASE id \notin ids \ failing
  <2>1. ReadFrom(p, c, ids, failing)[id] = p[id]
    BY <1>3 DEF ReadFrom
  <2> QED BY <1>3, <2>1
<1> QED BY <1>2, <1>3

LEMMA EnsureReadFacts ==
  ASSUME NEW p, PropsOK(p), NEW c \in Connections, NEW id \in DOMAIN p
  PROVE  /\ PropsOK(EnsureRead(p, c, id)) /\ DOMAIN EnsureRead(p, c, id) = DOMAIN p
         /\ EnsureRead(p, c, id)[id].read
         /\ EnsureRead(p, c, id)[id].from = (IF p[id].read THEN p[id].from ELSE c)
         /\ \A other \in DOMAIN p \ {id} : EnsureRead(p, c, id)[other] = p[other]
<1>1. ReadFrom(p, c, {id}, {})[id].read /\ ReadFrom(p, c, {id}, {})[id].from = c
  BY DEF ReadFrom, PropsOK, Property
<1>2. \A other \in DOMAIN p \ {id} : ReadFrom(p, c, {id}, {})[other] = p[other]
  BY DEF ReadFrom
<1>3. PropsOK(ReadFrom(p, c, {id}, {})) /\ DOMAIN ReadFrom(p, c, {id}, {}) = DOMAIN p
  BY ReadOK
<1> QED BY <1>1, <1>2, <1>3 DEF EnsureRead

LEMMA FilledOK ==
  ASSUME PropsOK(props), NEW c \in Connections, NEW v, NEW failing
  PROVE  LET p == Filled(c, v, failing) IN
           /\ PropsOK(p)
           /\ DOMAIN p = DOMAIN props \union DbmsProperties \union LaterProperties(v)
           /\ Detected(p) \in {"PostgreSQL", "other"}
<1> DEFINE p1 == EnsureRead(Registered(props, DbmsProperties), c, "DBMS_NAME")
           m == IF Detected(p1) = "PostgreSQL" /\ v >= V_3 THEN MissingInPostgreSQL ELSE {}
           p2 == Registered(p1, LaterProperties(v))
           p3 == Marked(p2, m)
           p4 == AllRead(p3, c, failing)
<1>1. "DBMS_NAME" \in DOMAIN Registered(props, DbmsProperties)
  BY RegisteredOK DEF DbmsProperties
<1>2. /\ PropsOK(p1) /\ DOMAIN p1 = DOMAIN props \union DbmsProperties /\ p1["DBMS_NAME"].read
  <2> DEFINE q == Registered(props, DbmsProperties)
  <2>1. PropsOK(q) /\ "DBMS_NAME" \in DOMAIN q /\ DOMAIN q = DOMAIN props \union DbmsProperties
    BY <1>1, RegisteredOK
  <2> HIDE DEF q
  <2>2. p1 = EnsureRead(q, c, "DBMS_NAME")
    BY DEF q
  <2> HIDE DEF p1
  <2> QED BY <2>1, <2>2, EnsureReadFacts
<1> HIDE DEF p1
<1>3. /\ PropsOK(p2) /\ DOMAIN p2 = DOMAIN p1 \union LaterProperties(v)
      /\ p2["DBMS_NAME"].read
  BY <1>1, <1>2, RegisteredOK DEF Registered, DbmsProperties
<1> HIDE DEF m
<1>4. PropsOK(p3) /\ DOMAIN p3 = DOMAIN p2 /\ p3["DBMS_NAME"].read
  <2>1. "DBMS_NAME" \in DOMAIN p2 /\ p2["DBMS_NAME"] \in Property
    BY <1>2, <1>3 DEF DbmsProperties, PropsOK
  <2> HIDE DEF p2
  <2> QED BY <1>3, <2>1, MarkedOK DEF Marked, Property
<1> HIDE DEF p3
<1>5. PropsOK(p4) /\ DOMAIN p4 = DOMAIN p3 /\ p4["DBMS_NAME"].read
  <2>1. "DBMS_NAME" \in DOMAIN p3 /\ p3["DBMS_NAME"] \in Property
    BY <1>2, <1>3, <1>4 DEF DbmsProperties, PropsOK
  <2>2. PICK ids : p4 = ReadFrom(p3, c, ids, failing)
    BY DEF AllRead
  <2>3. PropsOK(p4) /\ DOMAIN p4 = DOMAIN p3
    BY <1>4, <2>2, ReadOK
  <2> QED BY <1>4, <2>1, <2>2, <2>3 DEF ReadFrom, Property
<1>6. Detected(p4) \in {"PostgreSQL", "other"}
  <2>1. "DBMS_NAME" \in DOMAIN p4
    BY <1>2, <1>3, <1>4, <1>5 DEF DbmsProperties
  <2>2. p4["DBMS_NAME"].from \in Connections
    BY <1>5, <2>1 DEF PropsOK, Property
  <2> QED BY <2>2, ProductAssumption DEF Detected
<1>7. Filled(c, v, failing) = p4
  BY DEF Filled, p1, m, p3
<1> QED BY <1>2, <1>3, <1>4, <1>5, <1>6, <1>7

\* What is known of a property right after Init filled an object that was empty.
Fresh(r, c, id, failing) ==
  /\ r.unsupported <=> id \in Missing(Product[c])
  /\ r.read <=> id \notin Missing(Product[c]) \union failing
  /\ r.read => r.from = c

LEMMA FilledFresh ==
  ASSUME props = NoProps, NEW c \in Connections, NEW v \in Versions, NEW failing, "DBMS_NAME" \notin failing
  PROVE  LET p == Filled(c, v, failing) IN
           /\ DOMAIN p = DbmsProperties \union LaterProperties(v)
           /\ \A id \in DOMAIN p : Fresh(p[id], c, id, failing)
           /\ Detected(p) = Product[c]
<1> DEFINE ids == DbmsProperties \union LaterProperties(v)
           p1 == EnsureRead(Registered(props, DbmsProperties), c, "DBMS_NAME")
           m == IF Detected(p1) = "PostgreSQL" /\ v >= V_3 THEN MissingInPostgreSQL ELSE {}
           p2 == Registered(p1, LaterProperties(v))
           p3 == Marked(p2, m)
           p4 == AllRead(p3, c, failing)
           Named(r, id) == ~r.unsupported /\ (r.read <=> id = "DBMS_NAME") /\ (r.read => r.from = c)
<1>0. "DBMS_NAME" \in DbmsProperties
  BY DEF DbmsProperties
<1>1. PropsOK(p1) /\ DOMAIN p1 = DbmsProperties /\ \A id \in DbmsProperties : Named(p1[id], id)
  <2> DEFINE q == Registered(props, DbmsProperties)
  <2>1. PropsOK(NoProps) /\ DOMAIN NoProps = {}
    BY DEF PropsOK, NoProps
  <2>2. PropsOK(q) /\ DOMAIN q = DbmsProperties
    BY <2>1, RegisteredOK
  <2>3. \A id \in DbmsProperties : q[id] = Unread
    BY <2>1 DEF Registered
  <2> HIDE DEF q
  <2>4. \A id \in DbmsProperties : ~q[id].unsupported /\ ~q[id].read
    BY <2>3 DEF Unread
  <2>5. p1 = ReadFrom(q, c, {"DBMS_NAME"}, {})
    BY <1>0, <2>4 DEF EnsureRead, q
  <2> HIDE DEF p1
  <2>6. PropsOK(p1) /\ DOMAIN p1 = DbmsProperties
    BY <2>2, <2>5, ReadOK
  <2>7. ASSUME NEW id \in DbmsProperties PROVE Named(p1[id], id)
    BY <2>2, <2>4, <2>5, ReadFields
  <2> QED BY <2>6, <2>7
<1> HIDE DEF p1
<1>2. Detected(p1) = Product[c]
  BY <1>0, <1>1 DEF Detected
<1>3. PropsOK(p2) /\ DOMAIN p2 = ids /\ \A id \in ids : Named(p2[id], id)
  <2>1. PropsOK(p2) /\ DOMAIN p2 = ids
    BY <1>1, RegisteredOK
  <2>2. \A id \in ids : p2[id] = (IF id \in DbmsProperties THEN p1[id] ELSE Unread)
    BY <1>1 DEF Registered
  <2>3. ~Unread.unsupported /\ ~Unread.read
    BY DEF Unread
  <2> HIDE DEF p2
  <2>4. \A id \in ids : Named(p2[id], id)
    BY <1>0, <1>1, <2>2, <2>3
  <2> QED BY <2>1, <2>4
<1> HIDE DEF p2
<1>4. \A id \in ids : id \in m <=> id \in Missing(Product[c])
  <2>1. v >= V_3 \/ ids \intersect MissingInPostgreSQL = {}
    <3>1. v >= V_3 \/ v < V_3
      BY DEF Versions, V_2, V_3, V_3_8
    <3>2. v < V_3 => ids \intersect MissingInPostgreSQL = {}
      BY RegisteredFacts
    <3> QED BY <3>1, <3>2
  <2> QED BY <1>2, <2>1 DEF Missing
<1>5. "DBMS_NAME" \notin Missing(Product[c])
  BY DEF Missing, MissingInPostgreSQL
<1> HIDE DEF m
<1>6. PropsOK(p3) /\ DOMAIN p3 = ids
  BY <1>3, MarkedOK
<1>7. ASSUME NEW id \in ids
      PROVE  /\ p3[id].unsupported <=> id \in Missing(Product[c])
             /\ p3[id].read <=> id = "DBMS_NAME"
             /\ p3[id].read => p3[id].from = c
  BY <1>3, <1>4, MarkedFields
<1> HIDE DEF p3
<1>8. PropsOK(p4) /\ DOMAIN p4 = ids
  BY <1>6, ReadOK DEF AllRead
<1>9. ASSUME NEW id \in ids PROVE Fresh(p4[id], c, id, failing)
  <2> DEFINE some == {x \in DOMAIN p3 : ~p3[x].unsupported}
  <2>1. id \in some <=> id \notin Missing(Product[c])
    BY <1>6, <1>7
  <2>2. p4 = ReadFrom(p3, c, some, failing)
    BY DEF AllRead
  <2> HIDE DEF some, p4
  <2>3. /\ p4[id].unsupported <=> p3[id].unsupported
        /\ p4[id].read <=> id \in some \ failing \/ p3[id].read
        /\ id \in some \ failing => p4[id].from = c
        /\ id \notin some \ failing => p4[id].from = p3[id].from
    BY <1>6, <2>2, ReadFields
  <2> QED BY <1>5, <1>7, <2>1, <2>3 DEF Fresh
<1>10. Detected(p4) = Product[c]
  <2>1. "DBMS_NAME" \in ids
    BY <1>0
  <2>2. Fresh(p4["DBMS_NAME"], c, "DBMS_NAME", failing)
    BY <1>9, <2>1
  <2> HIDE DEF p4
  <2> QED BY <1>5, <2>2 DEF Detected, Fresh
<1>11. Filled(c, v, failing) = p4
  BY DEF Filled, p1, p2, m, p3
<1> QED BY <1>8, <1>9, <1>10, <1>11

\* A Database that has made its map has the default one, of its own environment.
LEMMA MapForFacts ==
  ASSUME NEW v, own => types = DefaultSql2BufferMap(env), own' = (own \/ types = NoMap), types' = MapFor(v),
         env' = env
  PROVE  own' => types' = DefaultSql2BufferMap(env')
BY DEF MapFor

LEMMA InitInfoInv == InfoInit => InfoInv
BY DEF InfoInit, InfoInv, InfoTypeOK, PropsOK, NoProps, RegisteredForVersion, OfThisConnection

LEMMA FailingFragile == \A failing \in Failing : failing \subseteq Fragile
BY DEF Failing

\* Opening an object that is closed.
LEMMA OpenOnInfoInv ==
  ASSUME InfoInv, NEW c \in Connections, OpenOn(c)
  PROVE  InfoInv'
<1>1. PICK failing \in Failing :
        LET v == VersionOf(c, failing)
            p == Filled(c, v, failing)
        IN /\ v # UNKNOWN /\ "DBMS_NAME" \notin failing
           /\ props' = p /\ dbms' = Detected(p)
           /\ failed' = failing
           /\ copy' = EnsureRead(p, c, "SEARCH_PATTERN_ESCAPE")
           /\ types' = MapFor(v) /\ own' = (own \/ types = NoMap)
  BY DEF OpenOn
<1> DEFINE v == VersionOf(c, failing)
           p == Filled(c, v, failing)
<1>2. /\ open = None /\ open' = c /\ UNCHANGED <<env, infoFaults>> /\ props = NoProps /\ open' # None
      /\ InfoTypeOK /\ PropsOK(props) /\ PropsOK(copy) /\ (own => types = DefaultSql2BufferMap(env))
  BY ConnectionsAssumption DEF OpenOn, InfoInv
<1>3. v \in Versions /\ failing \subseteq Fragile
  BY <1>1, VersionFacts, FailingFragile
<1>4. /\ props' = p /\ DOMAIN p = DbmsProperties \union LaterProperties(v)
      /\ \A id \in DOMAIN p : Fresh(p[id], c, id, failing)
      /\ dbms' = Product[c] /\ PropsOK(p) /\ failed' = failing
  <2>1. PropsOK(p) /\ props' = p /\ failed' = failing
    BY <1>1, <1>2, FilledOK
  <2>2. /\ DOMAIN p = DbmsProperties \union LaterProperties(v)
        /\ \A id \in DOMAIN p : Fresh(p[id], c, id, failing)
        /\ Detected(p) = Product[c]
    BY <1>1, <1>2, <1>3, FilledFresh
  <2> QED BY <1>1, <2>1, <2>2
<1>5. AskedFor \subseteq DOMAIN p /\ "SEARCH_PATTERN_ESCAPE" \in DOMAIN p
  BY <1>3, <1>4, RegisteredFacts DEF AskedFor
<1>6. copy' = EnsureRead(p, c, "SEARCH_PATTERN_ESCAPE")
  BY <1>1
<1>7. own' => types' = DefaultSql2BufferMap(env')
  BY <1>1, <1>2, MapForFacts
<1>8. v # UNKNOWN /\ v = VersionOf(open', failed') /\ own' \in BOOLEAN
  BY <1>1, <1>2, <1>4 DEF InfoTypeOK
<1> HIDE DEF p
<1>9. /\ DOMAIN copy' = DOMAIN p /\ PropsOK(copy')
      /\ \A id \in DOMAIN copy' \ {"SEARCH_PATTERN_ESCAPE"} : copy'[id] = p[id]
      /\ copy'["SEARCH_PATTERN_ESCAPE"].from = c
  <2>1. /\ DOMAIN copy' = DOMAIN p /\ PropsOK(copy')
        /\ \A id \in DOMAIN p \ {"SEARCH_PATTERN_ESCAPE"} : copy'[id] = p[id]
        /\ copy'["SEARCH_PATTERN_ESCAPE"].from
             = (IF p["SEARCH_PATTERN_ESCAPE"].read THEN p["SEARCH_PATTERN_ESCAPE"].from ELSE c)
    BY <1>4, <1>5, <1>6, EnsureReadFacts
  <2>2. p["SEARCH_PATTERN_ESCAPE"].read => p["SEARCH_PATTERN_ESCAPE"].from = c
    BY <1>4, <1>5 DEF Fresh
  <2> QED BY <2>1, <2>2
<1> HIDE DEF v
<1>10. OfThisConnection'
  <2>1. \A id \in DOMAIN props' :
          /\ props'[id].unsupported = (id \in Missing(Product[open']))
          /\ props'[id].read = (id \notin Missing(Product[open']) \union failed')
          /\ props'[id].from = (IF props'[id].read THEN open' ELSE None)
    <3> SUFFICES ASSUME NEW id \in DOMAIN p
                 PROVE  /\ p[id].unsupported = (id \in Missing(Product[c]))
                        /\ p[id].read = (id \notin Missing(Product[c]) \union failing)
                        /\ p[id].from = (IF p[id].read THEN c ELSE None)
      BY <1>2, <1>4
    <3>1. Fresh(p[id], c, id, failing) /\ p[id].unsupported \in BOOLEAN /\ p[id].read \in BOOLEAN
          /\ (p[id].read <=> p[id].from # None)
      BY <1>4 DEF PropsOK, Property
    <3>2. p[id].unsupported = (id \in Missing(Product[c]))
      BY <3>1 DEF Fresh
    <3>3. p[id].read = (id \notin Missing(Product[c]) \union failing)
      BY <3>1 DEF Fresh
    <3> QED BY <3>1, <3>2, <3>3 DEF Fresh
  <2> QED BY <1>2, <1>4, <1>5, <1>9, <2>1 DEF OfThisConnection
<1>11. InfoTypeOK'
  <2>1. dbms' \in {"PostgreSQL", "other"}
    BY <1>4, ProductAssumption
  <2>2. \A q \in {props', copy'} : \A id \in DOMAIN q : q[id] \in Property
    BY <1>4, <1>9 DEF PropsOK
  <2> QED BY <1>2, <1>3, <1>4, <1>8, <2>1, <2>2 DEF InfoTypeOK, Property
<1>12. RegisteredForVersion'
  BY <1>4, <1>8 DEF RegisteredForVersion, VersionOf
<1> QED BY <1>2, <1>4, <1>7, <1>9, <1>10, <1>11, <1>12 DEF InfoInv

LEMMA NextInfoInv == InfoInv /\ [InfoNext]_infoVars => InfoInv'
<1> SUFFICES ASSUME InfoInv, [InfoNext]_infoVars PROVE InfoInv'
  OBVIOUS
<1>1. /\ InfoTypeOK /\ PropsOK(props) /\ PropsOK(copy)
      /\ open = None => props = NoProps
      /\ env \in Versions /\ infoFaults \in InfoFaultSets /\ open \in Connections \union {None}
      /\ dbms \in {"PostgreSQL", "other", "UNKNOWN"} /\ failed \subseteq Fragile /\ own \in BOOLEAN
      /\ own => types = DefaultSql2BufferMap(env)
  BY DEF InfoInv, InfoTypeOK
<1>2. PropsOK(NoProps)
  BY DEF PropsOK, NoProps
\* A step that leaves the object closed, or happens where nobody calls Reset.
<1>3. ASSUME PropsOK(props'), PropsOK(copy'), open' \in Connections \union {None},
             dbms' \in {"PostgreSQL", "other", "UNKNOWN"}, failed' \subseteq Fragile, own' \in BOOLEAN,
             own' => types' = DefaultSql2BufferMap(env), UNCHANGED <<env, infoFaults>>,
             open' = None => props' = NoProps,
             open' = None \/ "no_reset" \in infoFaults
      PROVE  InfoInv'
  <2>1. InfoTypeOK'
    <3>1. \A q \in {props', copy'} : \A id \in DOMAIN q : q[id] \in Property
      BY <1>3 DEF PropsOK
    <3> QED BY <1>1, <1>3, <3>1 DEF InfoTypeOK, Property
  <2>2. OfThisConnection' /\ RegisteredForVersion'
    BY <1>3 DEF OfThisConnection, RegisteredForVersion, InfoWithout
  <2> QED BY <1>3, <2>1, <2>2 DEF InfoInv
<1>4. ASSUME NEW c \in Connections, OpenOn(c) PROVE InfoInv'
  BY <1>4, OpenOnInfoInv
<1>5. ASSUME NEW c \in Connections, InitFails(c) PROVE InfoInv'
  BY <1>1, <1>2, <1>3, <1>5 DEF InitFails
<1>10. ASSUME NEW c \in Connections, InfoAsserts(c) PROVE InfoInv'
  <2>1. dbms' \in {"PostgreSQL", "other", "UNKNOWN"}
    BY <1>1, <1>10, ProductAssumption DEF InfoAsserts
  <2> QED BY <1>1, <1>2, <1>3, <1>10, <2>1 DEF InfoAsserts
<1>6. ASSUME NEW c \in Connections, OpenOnFails(c) PROVE InfoInv'
  <2>1. PICK failing \in Failing :
          LET v == VersionOf(c, failing) IN
            /\ dbms' = Detected(Filled(c, v, failing))
            /\ types' = MapFor(v) /\ own' = (own \/ types = NoMap)
    BY <1>6 DEF OpenOnFails
  <2>2. dbms' \in {"PostgreSQL", "other"}
    BY <1>1, <2>1, FilledOK
  <2>3. own' \in BOOLEAN /\ (own' => types' = DefaultSql2BufferMap(env))
    BY <1>1, <2>1, MapForFacts DEF MapFor
  <2> QED BY <1>1, <1>2, <1>3, <1>6, <2>2, <2>3 DEF OpenOnFails
<1>7. CASE CloseAndReset
  BY <1>1, <1>2, <1>3, <1>7 DEF CloseAndReset, Cleared
<1>8. ASSUME NEW c \in Connections, InitAgain(c) PROVE InfoInv'
  <2>1. PICK failing \in Failing :
          LET v == VersionOf(c, failing) IN
            /\ props' = Filled(c, v, failing) /\ dbms' = Detected(Filled(c, v, failing))
            /\ failed' = failing
    BY <1>8 DEF InitAgain
  <2>2. PropsOK(props') /\ dbms' \in {"PostgreSQL", "other"} /\ failed' \subseteq Fragile
    BY <1>1, <2>1, FilledOK, FailingFragile
  <2> QED BY <1>1, <1>3, <1>8, <2>2, ConnectionsAssumption DEF InitAgain
<1>9. CASE SetSql2BufferTypeMap \/ ChangeMap \/ UNCHANGED infoVars
  <2>1. UNCHANGED <<env, open, failed, props, dbms, copy, infoFaults>>
        /\ own' \in BOOLEAN /\ (own' => types' = DefaultSql2BufferMap(env))
    <3>1. CASE SetSql2BufferTypeMap
      BY <3>1 DEF SetSql2BufferTypeMap
    <3>2. CASE ChangeMap
      BY <3>2 DEF ChangeMap
    <3>3. CASE UNCHANGED infoVars
      BY <1>1, <3>3 DEF infoVars
    <3> QED BY <1>9, <3>1, <3>2, <3>3
  <2> QED BY <2>1 DEF InfoInv, InfoTypeOK, PropsOK, RegisteredForVersion, VersionOf, OfThisConnection,
             InfoWithout
<1> QED BY <1>4, <1>5, <1>6, <1>7, <1>8, <1>9, <1>10 DEF InfoNext

LEMMA AlwaysInfoInv == InfoSpec => []InfoInv
BY InitInfoInv, NextInfoInv, PTL DEF InfoSpec

\* The default map, by the version of the environment it was made for.
LEMMA DefaultDates ==
  ASSUME NEW v \in Versions,
         NEW t \in (IF v >= V_3 THEN DateTypes \union NewDateTypes ELSE DateTypes)
  PROVE  GetBufferType(DefaultSql2BufferMap(v), t) \in (IF v >= V_3 THEN NewDateTypes ELSE DateTypes)
<1>1. GetBufferType(DefaultSql2BufferMap(v), t) = (IF v >= V_3 THEN NewOf[t] ELSE t)
  BY DEF GetBufferType, DefaultSql2BufferMap, DefaultMap
<1>2. t \in DateTypes \union NewDateTypes => NewOf[t] \in NewDateTypes
  BY DEF NewOf, DateTypes, NewDateTypes
<1> QED BY <1>1, <1>2

\* SqlInfoProperties keeps its types, whatever fails and in whatever order it is
\* initialised.
THEOREM InfoTypeCorrect == InfoSpec => []InfoTypeOK
  BY AlwaysInfoInv, PTL DEF InfoInv

\* After any number of connections to any drivers, opened, closed and failed in
\* any order, SqlInfoProperties holds what the present one says and nothing of an
\* earlier one, and so does the catalog's copy.
THEOREM AlwaysOfThisConnection == InfoSpec => []OfThisConnection
  BY AlwaysInfoInv, PTL DEF InfoInv

\* RegisterDriverProperties and the others (SqlInfoProperty.cpp:228-490) with
\* ParseOdbcVersion: whatever the parts of the version, a driver is asked for what
\* ODBC has by that version and for nothing later, but for the five named.
THEOREM VersionAlwaysRespected == InfoSpec => []VersionRespected
<1>1. InfoInv => VersionRespected
  <2> SUFFICES ASSUME InfoInv, InfoWithout({"no_reset"}), open # None, NEW id \in LaterProperties(V_3_8)
               PROVE  /\ id \in DOMAIN props \ Untimely
                           => Since(id) = First \/ AtLeast(DriverVersion[open], Since(id))
                      /\ Known(DriverVersion[open]) /\ AtLeast(DriverVersion[open], Since(id)) => id \in DOMAIN props
    BY DEF VersionRespected
  <2> DEFINE v == VersionOf(open, failed)
             parts == DriverVersion[open]
  <2>1. open \in Connections /\ v # UNKNOWN /\ DOMAIN props = DbmsProperties \union LaterProperties(v)
    BY DEF InfoInv, InfoTypeOK, RegisteredForVersion
  <2>2. /\ v \in Versions
        /\ v >= V_3 => AtLeast(parts, <<3, 0>>)
        /\ v >= V_3_8 => AtLeast(parts, <<3, 80>>)
        /\ Known(parts) /\ AtLeast(parts, <<3, 0>>) => v >= V_3
        /\ Known(parts) /\ AtLeast(parts, <<3, 80>>) => v >= V_3_8
        /\ v >= V_3_8 => v >= V_3
    BY <2>1, VersionFacts DEF Known, Versions, V_2, V_3, V_3_8
  <2>3. V_3_8 \in Versions /\ V_3_8 >= V_3 /\ V_3_8 >= V_3_8
    BY DEF Versions, V_3, V_3_8
  <2>4. id \in LaterProperties(V_2) \/ id \in OfVersion3 \/ id = "driver 3.80"
    BY <2>3, LaterByVersion
  <2> HIDE DEF v, parts
  <2>5. DOMAIN props = DbmsProperties \union LaterProperties(V_2) \union (IF v >= V_3 THEN OfVersion3 ELSE {})
                         \union (IF v >= V_3_8 THEN {"driver 3.80"} ELSE {})
    BY <2>1, <2>2, LaterByVersion
  <2>6. CASE id \in DbmsProperties \union LaterProperties(V_2)
    BY <2>5, <2>6, SinceWhen
  <2>7. CASE id \in OfVersion3 /\ id \notin DbmsProperties \union LaterProperties(V_2)
    <3>1. "ASYNC_NOTIFICATION" \in Untimely
      BY DEF Untimely
    <3>2. id \in DOMAIN props <=> v >= V_3
      BY <2>5, <2>7 DEF OfVersion3
    <3> QED BY <2>2, <2>7, <3>1, <3>2, SinceWhen DEF parts
  <2>8. CASE id = "driver 3.80" /\ id \notin DbmsProperties \union LaterProperties(V_2)
    <3>1. id \in DOMAIN props <=> v >= V_3_8
      BY <2>5, <2>8 DEF OfVersion3
    <3> QED BY <2>2, <2>8, <3>1, SinceWhen DEF parts
  <2> QED BY <2>4, <2>6, <2>7, <2>8
<1> QED BY <1>1, AlwaysInfoInv, PTL

\* The Sql2BufferTypeMap a Database has made maps every date of its driver manager
\* to a type of the environment's version, whatever it is connected to.
THEOREM DatesAlwaysMapped == InfoSpec => []DatesMapped
<1>1. InfoInv => DatesMapped
  BY DefaultDates DEF InfoInv, InfoTypeOK, DatesMapped, CreateColumnBufferPtr
<1> QED BY <1>1, AlwaysInfoInv, PTL
=============================================================================
