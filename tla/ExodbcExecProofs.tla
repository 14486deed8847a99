--------------------------- MODULE ExodbcExecProofs ---------------------------
(***************************************************************************)
(* What exodbcexec promises, for any queries with any numbers of columns   *)
(* and rows and any arguments: it shows the columns of the last result,    *)
(* ends as its options say, searches what it was told to search and leaves *)
(* no test table out of a page.                                            *)
(***************************************************************************)
EXTENDS ExodbcExec, TLAPS

-----------------------------------------------------------------------------
(* How the steps end. *)

Names == Commands \union {"none"}
Results == {"ok", "sql", "other"}

\* What every command or SQL text comes to, whatever it does.
Outcome(c, res) ==
  /\ Ended(c, res)
  /\ failures \subseteq failures'
  /\ res = "sql" => "driver" \in failures'
  /\ res # "sql" => failures' \subseteq failures \union {"page", "info"}

\* The steps of Run that execute something.
Runs == RunCommand \/ RunSql \/ RunPrefix

LEMMA OutcomeOf ==
  ASSUME NEW c
  PROVE  /\ Succeeds(c) => Outcome(c, "ok")
         /\ DriverFails(c) => Outcome(c, "sql")
         /\ Asserts(c) => Outcome(c, "other")
         /\ \A p : Written(p, c) => Outcome(c, "ok")
<1>1. Succeeds(c) => Outcome(c, "ok")
  BY DEF Succeeds, Outcome
<1>2. DriverFails(c) => Outcome(c, "sql")
  BY DEF DriverFails, Outcome
<1>3. Asserts(c) => Outcome(c, "other")
  BY DEF Asserts, Outcome
<1>4. \A p : Written(p, c) => Outcome(c, "ok")
  BY DEF Written, Outcome
<1> QED BY <1>1, <1>2, <1>3, <1>4

LEMMA NamesOfCommands ==
  {"ExecuteSql", "First", "Last", "Next", "Prev", "PrintCurrent", "PrintAll", "Commit",
   "Rollback", "Exit", "DbInfo", "ListTypes", "ListSchemas", "ListCatalogs",
   "Find", "InteractiveFind", "TracDbInfo", "TracTestTables", "Help"} = Commands
BY DEF Commands, AliasesOf

LEMMA CommandEnds ==
  ASSUME NEW c, Execute(c)
  PROVE  c \in Commands \ {"ExecuteSql"} /\ \E res \in Results : Outcome(c, res)
<1> USE NamesOfCommands, OutcomeOf
<1>1. ASSUME c \in {"First", "Last", "Next", "Prev"}, Select(c) PROVE \E res \in Results : Outcome(c, res)
  BY <1>1 DEF Select, Results
<1>2. ASSUME PrintCurrent PROVE \E res \in Results : Outcome("PrintCurrent", res)
  BY <1>2 DEF PrintCurrent, Results
<1>3. ASSUME PrintAll PROVE \E res \in Results : Outcome("PrintAll", res)
  BY <1>3 DEF PrintAll, PrintRemaining, Results
<1>4. ASSUME EndTransaction(c) PROVE \E res \in Results : Outcome(c, res)
  BY <1>4 DEF EndTransaction, Results
<1>5. ASSUME Inform(c) PROVE \E res \in Results : Outcome(c, res)
  <2>1. ASSUME Ended(c, "ok"), failures' = failures \union {"info"} PROVE Outcome(c, "ok")
    BY <2>1 DEF Outcome
  <2> QED BY <1>5, <2>1 DEF Inform, Results
<1>6. ASSUME Find(c) PROVE \E res \in Results : Outcome(c, res)
  BY <1>6 DEF Find, Results
<1>7. ASSUME TracTestTables PROVE \E res \in Results : Outcome("TracTestTables", res)
  BY <1>7 DEF TracTestTables, PageFails, Results
<1>8. ASSUME TracDbInfo PROVE \E res \in Results : Outcome("TracDbInfo", res)
  BY <1>8 DEF TracDbInfo, PageFails, Results
<1>9. c \in Commands \ {"ExecuteSql"}
  BY DEF Execute, Lists
<1> QED BY <1>1, <1>2, <1>3, <1>4, <1>5, <1>6, <1>7, <1>8, <1>9 DEF Execute

LEMMA SqlEnds ==
  ASSUME ExecuteSql \/ UnbindFails
  PROVE  \E res \in Results : Outcome("ExecuteSql", res)
<1> USE DEF Results
<1>1. CASE ExecuteSql
  <2>1. ASSUME NEW q, BindFails(q) PROVE \E res \in Results : Outcome("ExecuteSql", res)
    <3>1. ASSUME Ended("ExecuteSql", "sql"), failures' = failures \union {"driver", "lost"}
          PROVE  Outcome("ExecuteSql", "sql")
      BY <3>1 DEF Outcome
    <3> QED BY <2>1, <3>1, OutcomeOf DEF BindFails
  <2> QED BY <1>1, <2>1, OutcomeOf DEF ExecuteSql
<1>2. CASE UnbindFails
  BY <1>2, OutcomeOf DEF UnbindFails
<1> QED BY <1>1, <1>2

LEMMA RunsEnd ==
  ASSUME Runs
  PROVE  at = "run" /\ \E c \in Names, res \in Results : Outcome(c, res)
<1>1. CASE RunCommand
  BY <1>1, CommandEnds DEF RunCommand, Names
<1>2. CASE RunSql
  BY <1>2, SqlEnds, NamesOfCommands DEF RunSql, Names, Results
<1>3. CASE RunPrefix
  BY <1>3, OutcomeOf DEF RunPrefix, Names, Results
<1> QED BY <1>1, <1>2, <1>3 DEF Runs

\* The steps of main before Run.
LEMMA ReturnsEnd ==
  ASSUME ParseArguments \/ ConnectFails \/ Connect
  PROVE  /\ at \in {"parse", "connect"}
         /\ UNCHANGED <<argv, columns, shown, output, last>>
         /\ failures' = failures \/ (at' \in {"run", "ended"} /\ failures' = failures \union {"info"})
         /\ \/ at' \in {"connect", "run"} /\ code' = code
            \/ at' = "ended" /\ code' \in {-1, 1, 2}
<1>1. StopCode \in {-1, 2}
  BY DEF StopCode
<1>2. CASE ParseArguments
  BY <1>1, <1>2 DEF ParseArguments, Return, NotRunning, results, output
<1>3. CASE ConnectFails
  BY <1>3 DEF ConnectFails, Return, NotRunning, results, output
<1>4. CASE Connect
  BY <1>4 DEF Connect, output
<1> QED BY <1>2, <1>3, <1>4

-----------------------------------------------------------------------------
(* The ways to end. *)

\* Nothing has happened before Run, and main has not returned before its end.
BeforeRun ==
  /\ at \in {"parse", "connect", "run", "ended"}
  /\ at # "ended" => code = 0
  /\ at \in {"parse", "connect"} => failures = {} /\ last = [command |-> "none", res |-> "ok"] /\ columns = << >> /\ shown = 0

EndInv == BeforeRun /\ EndsAsTold

LEMMA EndInit == Init => EndInv
BY DEF Init, EndInv, BeforeRun, EndsAsTold

LEMMA EndStep == EndInv /\ [Next]_vars => EndInv'
<1> SUFFICES ASSUME EndInv, [Next]_vars PROVE EndInv'
  OBVIOUS
<1>1. CASE UNCHANGED vars
  BY <1>1 DEF EndInv, BeforeRun, EndsAsTold, exitOnError, Given, vars
<1>2. CASE ParseArguments \/ ConnectFails \/ Connect
  <2>1. /\ at \in {"parse", "connect"}
        /\ argv' = argv /\ columns' = columns /\ shown' = shown /\ last' = last
        /\ failures' = failures \/ (at' \in {"run", "ended"} /\ failures' = failures \union {"info"})
        /\ \/ at' \in {"connect", "run"} /\ code' = code
           \/ at' = "ended" /\ code' \in {-1, 1, 2}
    BY <1>2, ReturnsEnd DEF output
  <2> QED BY <2>1 DEF EndInv, BeforeRun, EndsAsTold, exitOnError, Given
<1>3. CASE Runs
  <2>1. at = "run"
    BY <1>3, RunsEnd
  <2>2. PICK c \in Names, res \in Results : Outcome(c, res)
    BY <1>3, RunsEnd
  <2>3. exitOnError' = exitOnError
    BY <2>2 DEF exitOnError, Given, Outcome, Ended
  <2>4. /\ last' = [command |-> c, res |-> res]
        /\ at' = IF Continues(c, res) THEN "run" ELSE "ended"
        /\ code' = IF Continues(c, res) THEN code ELSE CodeAfter(res)
    BY <2>2 DEF Outcome, Ended
  <2>5. /\ failures \subseteq failures' /\ (res = "sql" => "driver" \in failures')
        /\ res # "sql" => failures' \subseteq failures \union {"page", "info"}
    BY <2>2 DEF Outcome
  <2>6. last'.command = c /\ last'.res = res
    BY <2>4
  <2>7. code = 0 /\ (exitOnError => failures \subseteq {"page", "info"})
    BY <2>1 DEF EndInv, BeforeRun, EndsAsTold
  <2>8. CASE Continues(c, res)
    BY <2>3, <2>4, <2>5, <2>6, <2>7, <2>8 DEF BeforeRun, EndsAsTold, EndInv, Continues
  <2>9. CASE ~Continues(c, res)
    BY <2>3, <2>4, <2>5, <2>6, <2>7, <2>9 DEF BeforeRun, EndsAsTold, EndInv, Continues, CodeAfter, Results
  <2> QED BY <2>8, <2>9
<1>4. CASE SkipEmpty \/ Finished
  BY <1>1, <1>4 DEF SkipEmpty, Finished
<1> QED BY <1>1, <1>2, <1>3, <1>4 DEF Next, Runs

(* How the tool ends is what it was told to do about errors, whatever commands it is
   given (ExodbcExec.cpp, Run and main). *)
THEOREM AlwaysEndsAsTold == Spec => []EndsAsTold
<1>1. EndInv => EndsAsTold
  BY DEF EndInv
<1> QED BY EndInit, EndStep, <1>1, PTL DEF Spec

-----------------------------------------------------------------------------
(* What is shown. *)

AStatement == [scroll : BOOLEAN, query : Queries \union {NoQuery}, exec : Nat, open : BOOLEAN, pos : Nat,
               bound : SUBSET [exec : Nat, nr : Nat]]

\* The columns are the first ones of the execution whose result there is.
Shows(s, cols) ==
  /\ s \in AStatement
  /\ s.open => s.query # NoQuery
  /\ \E k \in Nat : /\ cols = ColumnsOf(s.exec, k)
                    /\ k # 0 => s.query # NoQuery /\ k <= NrOfColumns[s.query]
  /\ Elements(cols) \subseteq s.bound

\* Nothing else is bound, unless a bind call threw after it took effect.
OnlyThese(s, cols) == s.bound = Elements(cols) \/ "lost" \in failures

\* The row in the buffers is one of the result.
RowShown(s, cols, row) == row # 0 => cols # << >> /\ s.query # NoQuery /\ row <= NrOfRows[s.query]

ColumnsInv ==
  /\ Shows(stmt, columns) /\ OnlyThese(stmt, columns) /\ shown \in Nat /\ RowShown(stmt, columns, shown)
  /\ at \in {"parse", "connect"} => columns = << >> /\ shown = 0 /\ last.command = "none"
  /\ last = [command |-> "ExecuteSql", res |-> "ok"] =>
       stmt.query # NoQuery /\ columns = ColumnsOf(stmt.exec, NrOfColumns[stmt.query])

LEMMA ColumnsTyped ==
  ASSUME NEW n \in Nat, NEW k \in Nat
  PROVE  /\ ColumnsOf(n, k) \in Seq([exec : Nat, nr : Nat]) /\ Len(ColumnsOf(n, k)) = k
         /\ Elements(ColumnsOf(n, k)) \in SUBSET [exec : Nat, nr : Nat]
         /\ ColumnsOf(n, k) = << >> <=> k = 0
<1>1. \A i \in 1 .. k : Column(n, i) \in [exec : Nat, nr : Nat]
  BY DEF Column
<1>2. ColumnsOf(n, k) \in Seq([exec : Nat, nr : Nat]) /\ Len(ColumnsOf(n, k)) = k
  BY <1>1 DEF ColumnsOf
<1>3. Elements(ColumnsOf(n, k)) \in SUBSET [exec : Nat, nr : Nat]
  <2>1. \A i \in DOMAIN ColumnsOf(n, k) : ColumnsOf(n, k)[i] \in [exec : Nat, nr : Nat]
    BY <1>1 DEF ColumnsOf
  <2> QED BY <2>1 DEF Elements
<1>4. ColumnsOf(n, k) = << >> <=> k = 0
  BY <1>2
<1> QED BY <1>2, <1>3, <1>4

LEMMA NoColumns == \A n \in Nat : ColumnsOf(n, 0) = << >> /\ Elements(<< >>) = {}
BY ColumnsTyped DEF Elements

LEMMA ColumnsInit == Init => ColumnsInv
<1> SUFFICES ASSUME Init PROVE ColumnsInv
  OBVIOUS
<1>1. /\ stmt = NoStatement /\ columns = << >> /\ shown = 0
      /\ last = [command |-> "none", res |-> "ok"]
  BY DEF Init
<1>2. NoStatement \in AStatement /\ NoStatement.exec = 0 /\ ~NoStatement.open /\ NoStatement.bound = {}
  BY DEF NoStatement, AStatement
<1>3. Shows(NoStatement, << >>)
  BY <1>2, NoColumns DEF Shows
<1> QED BY <1>1, <1>2, <1>3, NoColumns DEF ColumnsInv, RowShown, OnlyThese

(* A result that is closed or moved in is still shown. *)
LEMMA ShownStill ==
  ASSUME NEW s, NEW cols, Shows(s, cols), NEW pos \in Nat, NEW open \in BOOLEAN, open => s.open
  PROVE  Shows([s EXCEPT !.pos = pos], cols) /\ Shows([s EXCEPT !.open = open], cols)
BY DEF Shows, AStatement

(* What UnbindColumns leaves: nothing, unless something was lost. *)
LEMMA UnboundIs ==
  ASSUME Shows(stmt, columns), OnlyThese(stmt, columns)
  PROVE  /\ Unbound(stmt) \in AStatement /\ Unbound(stmt).exec = stmt.exec
         /\ Unbound(stmt).open = stmt.open /\ Unbound(stmt).query = stmt.query
         /\ Unbound(stmt).bound = {} \/ "lost" \in failures
<1>1. stmt \in AStatement
  BY DEF Shows
<1>2. CASE columns # << >>
  BY <1>1, <1>2 DEF Unbound, AStatement
<1>3. CASE columns = << >>
  BY <1>1, <1>3, NoColumns DEF Unbound, OnlyThese
<1> QED BY <1>2, <1>3

(* BindColumns shows the first columns of the new result, and binds no others but one
   that is not listed. *)
LEMMA BindShows ==
  ASSUME Shows(stmt, columns), OnlyThese(stmt, columns), NEW q \in Queries, NEW k \in Nat, NEW n \in Nat,
         k <= NrOfColumns[q], k <= n, BindColumns(q, k, n)
  PROVE  /\ Shows(stmt', columns') /\ stmt'.query = q
         /\ columns' = ColumnsOf(stmt'.exec, k)
         /\ k = n => stmt'.bound = Elements(columns') \/ "lost" \in failures
<1> DEFINE s == WithResult(Unbound(stmt), q)
<1>1. NrOfColumns[q] \in Nat
  BY ResultsAssumption
<1>2. s \in AStatement /\ s.query = q /\ q # NoQuery /\ (s.bound = {} \/ "lost" \in failures)
  <2> DEFINE u == Unbound(stmt)
  <2>1. u \in AStatement /\ u.exec \in Nat /\ (u.bound = {} \/ "lost" \in failures)
    BY UnboundIs DEF AStatement
  <2> HIDE DEF u
  <2>2. s = [u EXCEPT !.query = q, !.exec = u.exec + 1, !.open = NrOfColumns[q] > 0, !.pos = 0]
    BY DEF u, WithResult
  <2>3. (NrOfColumns[q] > 0) \in BOOLEAN /\ u.exec + 1 \in Nat
    BY <1>1, <2>1
  <2> HIDE DEF s
  <2> QED BY <2>1, <2>2, <2>3, QueriesAssumption DEF AStatement
<1> HIDE DEF s
<1> DEFINE new == Elements(ColumnsOf(s.exec, n))
<1>3. columns' = ColumnsOf(s.exec, k) /\ stmt' = [s EXCEPT !.bound = Rebound(s.bound, new)]
  BY DEF BindColumns, s
<1>4. s.exec \in Nat
  BY <1>2 DEF AStatement
<1>5. new \in SUBSET [exec : Nat, nr : Nat] /\ Elements(columns') \subseteq new
  <2>1. new \in SUBSET [exec : Nat, nr : Nat]
    BY <1>4, ColumnsTyped
  <2>2. Elements(ColumnsOf(s.exec, k)) \subseteq new
    BY DEF Elements, ColumnsOf
  <2> QED BY <1>3, <2>1, <2>2
<1> HIDE DEF new
<1>6. Rebound(s.bound, new) \in SUBSET [exec : Nat, nr : Nat] /\ new \subseteq Rebound(s.bound, new)
      /\ (s.bound = {} => Rebound(s.bound, new) = new)
  BY <1>2, <1>5 DEF Rebound, AStatement
<1>7. /\ stmt' \in AStatement /\ stmt'.exec = s.exec /\ stmt'.query = q
      /\ stmt'.bound = Rebound(s.bound, new)
  BY <1>2, <1>3, <1>6 DEF AStatement
<1>8. k = n => stmt'.bound = Elements(columns') \/ "lost" \in failures
  BY <1>2, <1>3, <1>6, <1>7 DEF new
<1> QED BY <1>2, <1>3, <1>5, <1>6, <1>7, <1>8 DEF Shows

(* A refused text shows nothing. *)
LEMMA RefusalShows ==
  ASSUME Shows(stmt, columns), OnlyThese(stmt, columns), ExecutionRefused
  PROVE  Shows(stmt', columns') /\ (stmt'.bound = Elements(columns') \/ "lost" \in failures)
<1> DEFINE u == Unbound(stmt)
<1>1. /\ u \in AStatement /\ u.exec = stmt.exec /\ u.open = stmt.open /\ u.query = stmt.query
      /\ u.bound = {} \/ "lost" \in failures
  BY UnboundIs
<1>2. stmt' \in {u, WithoutResult(u)} /\ columns' = << >>
  BY DEF ExecutionRefused
<1> HIDE DEF u
<1>3. /\ stmt' \in AStatement /\ stmt'.exec = u.exec /\ stmt'.bound = u.bound
      /\ stmt'.open => u.open /\ stmt'.query = u.query
  BY <1>1, <1>2 DEF WithoutResult, Closed, AStatement
<1>4. stmt'.open => stmt'.query # NoQuery
  BY <1>1, <1>3 DEF Shows
<1>5. u.exec \in Nat
  BY <1>1 DEF AStatement
<1> QED BY <1>1, <1>2, <1>3, <1>4, <1>5, NoColumns DEF Shows

(* What the commands do to the result and to what is shown of it. *)
Moves ==
  /\ columns' = columns
  /\ \/ stmt' = stmt
     \/ \E pos \in Nat : stmt' = [stmt EXCEPT !.pos = pos]
     \/ stmt' = Closed(stmt)
  /\ \/ shown' = shown
     \/ columns # << >> /\ shown' \in 1 .. NrOfRows[stmt.query]

LEMMA RowsTyped ==
  ASSUME Shows(stmt, columns), stmt.query # NoQuery
  PROVE  Last \in Nat \ {0} /\ Last = NrOfRows[stmt.query] + 1 /\ NrOfRows[stmt.query] \in Nat /\ stmt.pos \in Nat
BY ResultsAssumption DEF Shows, AStatement, Last

LEMMA FetchMoves ==
  ASSUME Shows(stmt, columns), stmt.query # NoQuery, NEW pos \in Nat, FetchAt(pos)
  PROVE  Moves
<1>1. Last = NrOfRows[stmt.query] + 1 /\ NrOfRows[stmt.query] \in Nat
  BY RowsTyped
<1> HIDE DEF Last
<1> QED BY <1>1 DEF FetchAt, HasRow, Moves

LEMMA SelectMoves ==
  ASSUME Shows(stmt, columns), NEW c \in {"First", "Last", "Next", "Prev"}, Select(c)
  PROVE  Moves
<1>1. CASE UNCHANGED results
  BY <1>1 DEF results, Moves
<1>2. CASE stmt.open /\ FetchAt(Target(c))
  <2>1. stmt.query # NoQuery
    BY <1>2 DEF Shows
  <2>2. Last \in Nat \ {0} /\ stmt.pos \in Nat
    BY <2>1, RowsTyped
  <2> HIDE DEF Last
  <2>3. After(stmt.pos) \in Nat /\ Before(stmt.pos) \in Nat
    BY <2>2 DEF After, Before
  <2>4. Target(c) \in Nat
    BY <2>2, <2>3 DEF Target
  <2> QED BY <1>2, <2>1, <2>4, FetchMoves
<1> QED BY <1>1, <1>2 DEF Select

LEMMA PrintMoves ==
  ASSUME Shows(stmt, columns), PrintAll
  PROVE  Moves
<1>1. CASE UNCHANGED results
  BY <1>1 DEF results, Moves
<1>2. CASE columns # << >> /\ stmt.open /\ PrintRemaining
  <2>1. stmt.query # NoQuery
    BY <1>2 DEF Shows
  <2>2. Last \in Nat \ {0} /\ stmt.pos \in Nat /\ Last = NrOfRows[stmt.query] + 1 /\ NrOfRows[stmt.query] \in Nat
    BY <2>1, RowsTyped
  <2> HIDE DEF Last
  <2>3. PICK to \in stmt.pos .. Last - 1 :
          \/ FetchAt(Last)
          \/ /\ stmt' = [stmt EXCEPT !.pos = to]
             /\ shown' = IF to > stmt.pos THEN to ELSE shown
             /\ columns' = columns
    BY <1>2 DEF PrintRemaining
  <2>4. CASE FetchAt(Last)
    BY <2>1, <2>2, <2>4, FetchMoves
  <2>5. CASE /\ stmt' = [stmt EXCEPT !.pos = to]
             /\ shown' = IF to > stmt.pos THEN to ELSE shown
             /\ columns' = columns
    <3>1. to \in Nat /\ to <= NrOfRows[stmt.query]
      BY <2>2
    <3>2. shown' = shown \/ shown' \in 1 .. NrOfRows[stmt.query]
      BY <2>2, <2>5, <3>1
    <3> QED BY <1>2, <2>5, <3>1, <3>2 DEF Moves
  <2> QED BY <2>3, <2>4, <2>5
<1> QED BY <1>1, <1>2 DEF PrintAll

LEMMA CommandMoves ==
  ASSUME Shows(stmt, columns), NEW c, Execute(c)
  PROVE  Moves
<1>1. CASE c \in {"First", "Last", "Next", "Prev"} /\ Select(c)
  BY <1>1, SelectMoves
<1>2. CASE PrintAll
  BY <1>2, PrintMoves
<1>3. CASE EndTransaction(c)
  BY <1>3 DEF EndTransaction, Moves
<1>4. CASE PrintCurrent \/ Inform(c) \/ Find(c) \/ TracTestTables \/ TracDbInfo
  BY <1>4 DEF PrintCurrent, Inform, Find, TracTestTables, TracDbInfo, results, Moves
<1> QED BY <1>1, <1>2, <1>3, <1>4 DEF Execute

LEMMA MovesKeep ==
  ASSUME ColumnsInv, Moves
  PROVE  /\ Shows(stmt', columns') /\ stmt'.bound = stmt.bound /\ columns' = columns
         /\ shown' \in Nat /\ RowShown(stmt', columns', shown')
<1>1. Shows(stmt, columns)
  BY DEF ColumnsInv
<1>2. columns' = columns /\ stmt'.query = stmt.query /\ stmt'.bound = stmt.bound
  BY <1>1 DEF Moves, Closed, Shows, AStatement
<1>3. Shows(stmt', columns)
  BY <1>1, ShownStill DEF Moves, Closed
<1>4. columns # << >> => stmt.query # NoQuery /\ NrOfRows[stmt.query] \in Nat
  <2>1. ASSUME columns # << >> PROVE stmt.query # NoQuery
    <3>1. PICK k \in Nat : /\ columns = ColumnsOf(stmt.exec, k)
                           /\ k # 0 => stmt.query # NoQuery
      BY <1>1 DEF Shows
    <3>2. stmt.exec \in Nat
      BY <1>1 DEF Shows, AStatement
    <3> QED BY <2>1, <3>1, <3>2, NoColumns
  <2> QED BY <1>1, <2>1, RowsTyped
<1>5. shown' = shown \/ (columns # << >> /\ shown' \in 1 .. NrOfRows[stmt.query])
  BY DEF Moves
<1> QED BY <1>2, <1>3, <1>4, <1>5 DEF ColumnsInv, RowShown

LEMMA ColumnsStep == ColumnsInv /\ [Next]_vars => ColumnsInv'
<1> SUFFICES ASSUME ColumnsInv, [Next]_vars PROVE ColumnsInv'
  OBVIOUS
<1>0. Shows(stmt, columns) /\ OnlyThese(stmt, columns)
  BY DEF ColumnsInv
<1>1. CASE UNCHANGED vars
  BY <1>1 DEF ColumnsInv, OnlyThese, vars
<1>2. CASE ParseArguments \/ ConnectFails
  <2>1. UNCHANGED <<stmt, columns, shown, failures, last>> /\ at \in {"parse", "connect"}
    BY <1>2 DEF ParseArguments, ConnectFails, Return, NotRunning, results
  <2> QED BY <2>1 DEF ColumnsInv, OnlyThese
<1>3. CASE Connect
  <2>1. UNCHANGED <<columns, shown, last>> /\ at \in {"parse", "connect"}
    BY <1>3 DEF Connect
  <2>2. columns = << >> /\ shown = 0
    BY <2>1 DEF ColumnsInv
  <2>3. stmt' = stmt \/ stmt' = [NoStatement EXCEPT !.scroll = forwardOnlyCursors]
    BY <1>3 DEF Connect
  <2>4. forwardOnlyCursors \in BOOLEAN
    BY DEF forwardOnlyCursors, Given
  <2>5. /\ Shows([NoStatement EXCEPT !.scroll = forwardOnlyCursors], << >>)
        /\ [NoStatement EXCEPT !.scroll = forwardOnlyCursors].bound = {}
    BY <2>4, NoColumns DEF Shows, NoStatement, AStatement
  <2>6. Shows(stmt', columns')
    BY <1>0, <2>1, <2>2, <2>3, <2>5
  <2>7. last'.command = "none" /\ failures \subseteq failures'
    BY <1>3, <2>1 DEF ColumnsInv, Connect
  <2>8. OnlyThese(stmt, columns)'
    BY <1>0, <2>1, <2>2, <2>3, <2>5, <2>7, NoColumns DEF OnlyThese
  <2> QED BY <2>1, <2>2, <2>6, <2>7, <2>8 DEF ColumnsInv, RowShown
<1>4. CASE RunCommand
  <2>1. PICK c : at = "run" /\ Execute(c)
    BY <1>4 DEF RunCommand
  <2>2. Moves
    BY <1>0, <2>1, CommandMoves
  <2>3. PICK res \in Results : Outcome(c, res)
    BY <2>1, CommandEnds
  <2>4. c # "ExecuteSql"
    BY <2>1, CommandEnds
  <2>5. at' \in {"run", "ended"} /\ last'.command # "ExecuteSql" /\ failures \subseteq failures'
    BY <2>3, <2>4 DEF Outcome, Ended
  <2>6. OnlyThese(stmt, columns)'
    BY <1>0, <2>2, <2>5, MovesKeep DEF OnlyThese
  <2> QED BY <2>2, <2>5, <2>6, MovesKeep DEF ColumnsInv
<1>5. CASE at = "run" /\ ExecuteSql
  <2>1. shown' = 0 /\ RowShown(stmt', columns', shown')
    BY <1>5 DEF ExecuteSql, RowShown
  <2>2. ASSUME Shows(stmt', columns'), OnlyThese(stmt, columns)',
               NEW res \in {"sql", "other"}, Ended("ExecuteSql", res)
        PROVE  ColumnsInv'
    <3>1. at' \in {"run", "ended"} /\ last'.res # "ok"
      BY <2>2 DEF Ended
    <3> QED BY <2>1, <2>2, <3>1 DEF ColumnsInv
  <2>3. CASE ExecutionRefused /\ DriverFails("ExecuteSql")
    <3>1. Ended("ExecuteSql", "sql") /\ failures \subseteq failures'
      BY <2>3 DEF DriverFails
    <3>2. OnlyThese(stmt, columns)'
      BY <1>0, <2>3, <3>1, RefusalShows DEF OnlyThese
    <3> QED BY <1>0, <2>2, <2>3, <3>1, <3>2, RefusalShows
  <2>4. ASSUME NEW q \in Queries, BindColumns(q, NrOfColumns[q], NrOfColumns[q]), Succeeds("ExecuteSql")
        PROVE  ColumnsInv'
    <3>1. NrOfColumns[q] \in Nat
      BY ResultsAssumption
    <3>2. /\ Shows(stmt', columns') /\ stmt'.query = q
          /\ columns' = ColumnsOf(stmt'.exec, NrOfColumns[q])
          /\ stmt'.bound = Elements(columns') \/ "lost" \in failures
      BY <1>0, <2>4, <3>1, BindShows
    <3>3. at' \in {"run", "ended"} /\ failures' = failures
      BY <2>4 DEF Succeeds, Ended
    <3>4. OnlyThese(stmt, columns)'
      BY <3>2, <3>3 DEF OnlyThese
    <3> QED BY <2>1, <3>2, <3>3, <3>4, QueriesAssumption DEF ColumnsInv
  <2>5. ASSUME NEW q \in Queries, BindFails(q) PROVE ColumnsInv'
    <3>1. NrOfColumns[q] \in Nat
      BY ResultsAssumption
    <3>2. ASSUME NEW k \in 0 .. NrOfColumns[q], BindColumns(q, k, k),
                 DriverFails("ExecuteSql") \/ Asserts("ExecuteSql")
          PROVE  ColumnsInv'
      <4>1. Shows(stmt', columns') /\ (stmt'.bound = Elements(columns') \/ "lost" \in failures)
        BY <1>0, <3>1, <3>2, BindShows
      <4>2. \E res \in {"sql", "other"} : Ended("ExecuteSql", res)
        BY <3>2 DEF DriverFails, Asserts
      <4>3. failures \subseteq failures'
        BY <3>2 DEF DriverFails, Asserts
      <4> QED BY <2>2, <4>1, <4>2, <4>3 DEF OnlyThese
    <3>3. ASSUME NEW k \in 1 .. NrOfColumns[q], BindColumns(q, k - 1, k), Ended("ExecuteSql", "sql"),
                 failures' = failures \union {"driver", "lost"}
          PROVE  ColumnsInv'
      <4>1. k \in Nat /\ k - 1 \in Nat /\ k - 1 <= NrOfColumns[q] /\ k - 1 <= k
        BY <3>1
      <4>2. Shows(stmt', columns')
        BY <1>0, <3>3, <4>1, BindShows
      <4>3. OnlyThese(stmt, columns)'
        BY <3>3 DEF OnlyThese
      <4> QED BY <2>2, <3>3, <4>2, <4>3
    <3> QED BY <2>5, <3>2, <3>3 DEF BindFails
  <2> QED BY <1>5, <2>3, <2>4, <2>5 DEF ExecuteSql
<1>6. CASE UnbindFails \/ RunPrefix
  <2>1. UNCHANGED <<stmt, columns, shown>> /\ failures \subseteq failures'
    BY <1>6 DEF UnbindFails, RunPrefix, results, DriverFails, Asserts
  <2>2. at' \in {"run", "ended"} /\ last'.res \in {"sql", "other"}
    BY <1>6 DEF UnbindFails, RunPrefix, DriverFails, Asserts, Ended
  <2> QED BY <2>1, <2>2 DEF ColumnsInv, OnlyThese
<1>7. CASE SkipEmpty \/ Finished
  BY <1>1, <1>7 DEF SkipEmpty, Finished
<1> QED BY <1>1, <1>2, <1>3, <1>4, <1>5, <1>6, <1>7 DEF Next, RunSql

(* What is printed are the columns of the result set executed last, and a row of it,
   wherever an execution or the binding of a column has failed (ExodbcExec.cpp,
   ExecuteSql and BindColumns). *)
THEOREM ColumnsAreOfTheResult == Spec => []ColumnsOfResult
<1>1. ColumnsInv => ColumnsOfResult
  <2> SUFFICES ASSUME ColumnsInv PROVE ColumnsOfResult
    OBVIOUS
  <2>1. PICK k \in Nat : /\ columns = ColumnsOf(stmt.exec, k)
                         /\ k # 0 => stmt.query # NoQuery /\ k <= NrOfColumns[stmt.query]
    BY DEF ColumnsInv, Shows
  <2>2. stmt.exec \in Nat /\ stmt.query \in Queries \union {NoQuery}
    BY DEF ColumnsInv, Shows, AStatement
  <2>3. Len(columns) = k /\ (columns = << >> <=> k = 0)
    BY <2>1, <2>2, ColumnsTyped
  <2>4. Elements(columns) \subseteq stmt.bound /\ (stmt.bound = Elements(columns) \/ "lost" \in failures)
    BY DEF ColumnsInv, Shows, OnlyThese
  <2>5. last = [command |-> "ExecuteSql", res |-> "ok"] => Len(columns) = NrOfColumns[stmt.query]
    <3> SUFFICES ASSUME last = [command |-> "ExecuteSql", res |-> "ok"]
                 PROVE  Len(columns) = NrOfColumns[stmt.query]
      OBVIOUS
    <3>1. stmt.query \in Queries /\ columns = ColumnsOf(stmt.exec, NrOfColumns[stmt.query])
      BY <2>2 DEF ColumnsInv
    <3>2. NrOfColumns[stmt.query] \in Nat
      BY <3>1, ResultsAssumption
    <3> QED BY <2>2, <3>1, <3>2, ColumnsTyped
  <2> QED BY <2>1, <2>3, <2>4, <2>5 DEF ColumnsInv, RowShown, ColumnsOfResult
<1> QED BY ColumnsInit, ColumnsStep, <1>1, PTL DEF Spec

-----------------------------------------------------------------------------
(* What is searched. *)

(* Every argument is passed on in its place, if none that matters is empty. *)
LEMMA ShortIsMeant ==
  ASSUME NEW args \in FindArgs, NEW supported, AsTheHelpHasThem(args)
  PROVE  FindShort(args, supported) = Meant(args)
<1> DEFINE n == IF PrintColumns(args) THEN Len(args) - 1 ELSE Len(args)
           Text(i, default) == IF n >= i THEN args[i] ELSE default
<1>1. Len(args) \in Nat /\ DOMAIN args = 1 .. Len(args) /\ (args # << >> => Len(args) # 0)
  <2>1. args \in Seq(STRING)
    BY FindArgsAssumption
  <2> QED BY <2>1
<1>2. ASSUME NEW i \in 1 .. 4 PROVE n >= i <=> i \in DOMAIN args /\ args[i] # "-pc"
  <2> DEFINE len == Len(args)
  <2>0. \A j \in 1 .. len : args[j] = "-pc" => j = len
    BY <1>1 DEF AsTheHelpHasThem
  <2>1. CASE PrintColumns(args)
    <3>1. args[len] = "-pc" /\ len >= 1 /\ n = len - 1
      BY <1>1, <2>1 DEF PrintColumns
    <3>2. len \in Nat /\ DOMAIN args = 1 .. len
      BY <1>1
    <3> HIDE DEF len, n
    <3> QED BY <2>0, <3>1, <3>2
  <2>2. CASE ~PrintColumns(args)
    <3>1. n = len
      BY <2>2
    <3>2. len \in Nat /\ DOMAIN args = 1 .. len
      BY <1>1
    <3>3. len # 0 => args[len] # "-pc"
      BY <1>1, <2>2 DEF PrintColumns
    <3> HIDE DEF len, n
    <3> QED BY <2>0, <3>1, <3>2, <3>3
  <2> QED BY <2>1, <2>2
<1>3. \A i \in {2, 3} : Text(i, "none") # ""
  <2> HIDE DEF n
  <2>1. ASSUME NEW i \in {2, 3}, n >= i PROVE args[i] # ""
    <3>1. i \in 1 .. 4
      OBVIOUS
    <3>2. i \in DOMAIN args
      BY <1>2, <2>1, <3>1
    <3> QED BY <3>2 DEF AsTheHelpHasThem
  <2> QED BY <2>1
<1> HIDE DEF n
<1>4. FindShort(args, supported) =
        [name |-> Text(1, "%"), schema |-> Text(2, "none"), catalog |-> Text(3, "none"),
         type |-> EmptyAs(Text(4, "none"), "none")]
  BY <1>3 DEF FindShort, FindFirst, EmptyAs, n
<1>5. Meant(args) =
        [name |-> Text(1, "%"), schema |-> Text(2, "none"), catalog |-> Text(3, "none"),
         type |-> EmptyAs(Text(4, "none"), "none")]
  <2> DEFINE Taken(i, default) == IF i \in DOMAIN args /\ args[i] # "-pc" THEN args[i] ELSE default
  <2>1. ASSUME NEW i \in 1 .. 4, NEW default PROVE Taken(i, default) = Text(i, default)
    BY <1>2
  <2>2. /\ Taken(1, "%") = Text(1, "%") /\ Taken(2, "none") = Text(2, "none")
        /\ Taken(3, "none") = Text(3, "none") /\ Taken(4, "none") = Text(4, "none")
    BY <2>1
  <2>3. Meant(args) = [name |-> Taken(1, "%"), schema |-> EmptyAs(Taken(2, "none"), "none"),
                       catalog |-> EmptyAs(Taken(3, "none"), "none"), type |-> EmptyAs(Taken(4, "none"), "none")]
    BY DEF Meant
  <2>4. EmptyAs(Text(2, "none"), "none") = Text(2, "none") /\ EmptyAs(Text(3, "none"), "none") = Text(3, "none")
    BY <1>3 DEF EmptyAs
  <2> HIDE DEF Text, Taken
  <2> QED BY <2>2, <2>3, <2>4
<1> QED BY <1>4, <1>5

LEMMA SearchStep == SearchesAsMeant /\ [Next]_vars => SearchesAsMeant'
<1> SUFFICES ASSUME SearchesAsMeant, [Next]_vars PROVE SearchesAsMeant'
  OBVIOUS
<1>1. CASE search' = search
  BY <1>1 DEF SearchesAsMeant
<1>2. CASE search' = NoFind
  BY <1>2 DEF NoFind, SearchesAsMeant
<1>3. ASSUME NEW c, Find(c) PROVE SearchesAsMeant'
  <2>1. ASSUME NEW args \in FindArgs, NEW supported \in SUBSET {"schema", "catalog"}, AsTheHelpHasThem(args)
        PROVE  FindShort(args, supported) = Meant(args)
    BY <2>1, ShortIsMeant
  <2>2. ASSUME NEW haveSchem \in BOOLEAN, NEW haveCat \in BOOLEAN, haveSchem \/ ~haveCat
        PROVE  FindInteractive(haveSchem, haveCat) = Entered(haveSchem, haveCat)
    BY <2>2 DEF FindInteractive, Entered
  <2>3. ASSUME NEW haveSchem \in BOOLEAN, NEW haveCat \in BOOLEAN
        PROVE  /\ Entered(haveSchem, haveCat).schema # "none" <=> haveSchem
               /\ Entered(haveSchem, haveCat).catalog = "none" <=> ~haveCat
    BY <2>3 DEF Entered
  <2>4. CASE \E args \in FindArgs, supported \in SUBSET {"schema", "catalog"} :
               search' = [typed |-> args, meant |-> Meant(args), asked |-> FindShort(args, supported)]
    BY <2>1, <2>4 DEF SearchesAsMeant
  <2>5. CASE \E haveSchem, haveCat \in BOOLEAN :
               search' = [typed |-> << >>, meant |-> Entered(haveSchem, haveCat),
                          asked |-> FindInteractive(haveSchem, haveCat)]
    BY <2>2, <2>3, <2>5 DEF SearchesAsMeant
  <2> QED BY <1>3, <2>4, <2>5 DEF Find
<1>4. ASSUME NEW c, Execute(c), ~Find(c) PROVE search' = NoFind
  <2>1. Select(c) \/ EndTransaction(c) \/ Inform(c) => search' = NoFind
    BY DEF Select, EndTransaction, Inform, Quiet
  <2>2. PrintCurrent \/ PrintAll => search' = NoFind
    BY DEF PrintCurrent, PrintAll, PrintRemaining, Quiet
  <2>3. TracTestTables \/ TracDbInfo => search' = NoFind
    BY DEF TracTestTables, TracDbInfo, PageFails, Written, Quiet
  <2> QED BY <1>4, <2>1, <2>2, <2>3 DEF Execute
<1>5. CASE RunCommand
  BY <1>2, <1>3, <1>4, <1>5 DEF RunCommand
<1>6. CASE RunSql \/ RunPrefix
  BY <1>2, <1>6 DEF RunSql, RunPrefix, ExecuteSql, UnbindFails, Quiet
<1>7. CASE ParseArguments \/ ConnectFails \/ Connect
  BY <1>1, <1>7, ReturnsEnd DEF output
<1>8. CASE SkipEmpty \/ Finished \/ UNCHANGED vars
  BY <1>1, <1>8 DEF SkipEmpty, Finished, vars
<1> QED BY <1>5, <1>6, <1>7, <1>8 DEF Next

(* What is entered for !find and !ifind is searched for, each in its place, with and
   without -pc and an empty type ignored, for any arguments among which no schema or
   catalog is empty and nothing follows -pc, except a catalog without a schema
   (Command.cpp, Find::Execute). *)
THEOREM AlwaysSearchesAsMeant == Spec => []SearchesAsMeant
<1>1. Init => SearchesAsMeant
  BY DEF Init, NoFind, SearchesAsMeant
<1> QED BY <1>1, SearchStep, PTL DEF Spec

-----------------------------------------------------------------------------
(* What is written about the test tables. *)

WholeFor(sections, t) ==
  \E s \in sections :
    /\ {x \in sections : x.table = t} = {s}
    /\ s.is = "table" => s.structure # "left out" /\ (s.content = "left out" => t \in TmpTables)

LEMMA TablesPageWhole ==
  ASSUME NEW lower \in [TestTables -> Endings], NEW upper \in [TestTables -> Endings], ~Escapes(lower, upper),
         NEW structure \in [Found(lower, upper) -> Readings], NEW content \in [Found(lower, upper) -> Readings],
         NEW t \in TestTables
  PROVE  WholeFor(TablesPage(lower, upper, structure, content).sections, t)
<1> DEFINE tables == {SectionOf(u, structure[u], content[u]) : u \in Found(lower, upper)}
           notes == Notes(lower, upper)
           sections == notes \union tables
<1>1. TablesPage(lower, upper, structure, content).sections = sections
  BY DEF TablesPage
<1>2. \A u \in TestTables : u \in Found(lower, upper) <=> lower[u] = "found" \/ (lower[u] = "none" /\ upper[u] = "found")
  BY DEF Found
<1>3. \A x \in notes : \E u \in TestTables :
        \/ x = Note(u, "warning") /\ lower[u] = "none" /\ upper[u] = "none"
        \/ x = Note(u, "error") /\ lower[u] = "failed"
  BY DEF Notes
<1>4. \A u \in TestTables : /\ Note(u, "warning").table = u /\ Note(u, "warning").is = "warning"
                            /\ Note(u, "error").table = u /\ Note(u, "error").is = "error"
  BY DEF Note, Section
<1>5. ASSUME NEW u \in Found(lower, upper)
      PROVE  /\ SectionOf(u, structure[u], content[u]).table = u
             /\ SectionOf(u, structure[u], content[u]).structure \in Readings
             /\ SectionOf(u, structure[u], content[u]).content = IF u \in TmpTables THEN "left out" ELSE content[u]
  BY DEF SectionOf, Section
<1>6. Found(lower, upper) \subseteq TestTables
  BY DEF Found
<1>7. lower[t] \in {"found", "none", "failed"} /\ upper[t] \in {"found", "none", "failed"}
  BY DEF Endings
<1>8. ~(lower[t] = "none" /\ upper[t] = "failed")
  BY DEF Escapes
<1>9. CASE t \in Found(lower, upper)
  <2> DEFINE s == SectionOf(t, structure[t], content[t])
  <2>1. s \in sections /\ s.table = t
    BY <1>5, <1>9
  <2>2. ASSUME NEW x \in sections, x.table = t PROVE x = s
    <3>1. CASE x \in notes
      <4>1. PICK u \in TestTables :
              \/ x = Note(u, "warning") /\ lower[u] = "none" /\ upper[u] = "none"
              \/ x = Note(u, "error") /\ lower[u] = "failed"
        BY <1>3, <3>1
      <4>2. u = t
        BY <1>4, <2>2, <4>1
      <4> QED BY <1>2, <1>9, <4>1, <4>2
    <3>2. CASE x \in tables
      <4>1. PICK u \in Found(lower, upper) : x = SectionOf(u, structure[u], content[u])
        BY <3>2
      <4> QED BY <1>5, <2>2, <4>1
    <3> QED BY <3>1, <3>2
  <2>3. s.structure # "left out" /\ (s.content = "left out" => t \in TmpTables)
    <3>1. content[t] \in Readings /\ s.structure \in Readings
      BY <1>5, <1>9
    <3>2. s.content = IF t \in TmpTables THEN "left out" ELSE content[t]
      BY <1>5, <1>9
    <3> QED BY <3>1, <3>2 DEF Readings
  <2> HIDE DEF s, sections
  <2>4. {x \in sections : x.table = t} = {s}
    BY <2>1, <2>2
  <2> QED BY <1>1, <2>1, <2>3, <2>4 DEF WholeFor
<1>10. CASE t \notin Found(lower, upper)
  <2> DEFINE s == Note(t, IF lower[t] = "failed" THEN "error" ELSE "warning")
  <2>1. lower[t] = "failed" \/ (lower[t] = "none" /\ upper[t] = "none")
    BY <1>2, <1>7, <1>8, <1>10
  <2>2. s \in notes
    BY <2>1 DEF Notes
  <2>3. s.table = t /\ s.is # "table"
    BY <1>4
  <2>4. \A x \in sections : x.table = t => x = s
    <3>1. ASSUME NEW x \in tables PROVE x.table # t
      <4>1. PICK u \in Found(lower, upper) : x = SectionOf(u, structure[u], content[u])
        OBVIOUS
      <4> QED BY <1>5, <1>10, <4>1
    <3>2. \A x \in notes : x.table = t => x = s
      BY <1>3, <1>4
    <3> QED BY <3>1, <3>2
  <2> HIDE DEF s, tables, notes
  <2>5. {x \in sections : x.table = t} = {s}
    BY <2>2, <2>3, <2>4
  <2> QED BY <1>1, <2>2, <2>3, <2>5 DEF WholeFor
<1> QED BY <1>9, <1>10

PageInv ==
  /\ page.written /\ ~excel /\ last.command = "TracTestTables" => \A t \in TestTables : WholeFor(page.sections, t)
  /\ at \in {"parse", "connect"} => ~page.written

LEMMA PageStep == PageInv /\ [Next]_vars => PageInv'
<1> SUFFICES ASSUME PageInv, [Next]_vars PROVE PageInv'
  OBVIOUS
<1>1. ASSUME page' = NoPage PROVE PageInv'
  BY <1>1 DEF NoPage, PageInv
<1>2. CASE ParseArguments \/ ConnectFails
  BY <1>2 DEF ParseArguments, ConnectFails, Return, NotRunning, output, PageInv
<1>3. CASE Connect
  BY <1>3 DEF Connect, output, PageInv
<1>4. ASSUME NEW c, at = "run", Execute(c) PROVE PageInv'
  <2>1. Select(c) \/ EndTransaction(c) \/ Inform(c) \/ Find(c) => page' = NoPage
    BY DEF Select, EndTransaction, Inform, Find, Quiet
  <2>2. PrintCurrent \/ PrintAll => page' = NoPage
    BY DEF PrintCurrent, PrintAll, PrintRemaining, Quiet
  <2>3. CASE TracDbInfo
    <3>1. CASE Written(InfoPage, "TracDbInfo")
      <4>1. last'.command = "TracDbInfo" /\ at' \in {"run", "ended"}
        BY <3>1 DEF Written, Ended
      <4> QED BY <4>1 DEF PageInv
    <3> QED BY <1>1, <2>3, <3>1 DEF TracDbInfo, PageFails, Quiet
  <2>4. CASE TracTestTables
    <3>1. ASSUME NEW lower \in [TestTables -> Endings], NEW upper \in [TestTables -> Endings], ~Escapes(lower, upper),
                 NEW structure \in [Found(lower, upper) -> Readings], NEW content \in [Found(lower, upper) -> Readings],
                 Written(TablesPage(lower, upper, structure, content), "TracTestTables")
          PROVE  PageInv'
      <4>1. page' = TablesPage(lower, upper, structure, content) \/ page' = NoPage
        BY <3>1 DEF Written
      <4>2. at' \in {"run", "ended"}
        BY <3>1 DEF Written, Ended
      <4>3. \A t \in TestTables : WholeFor(TablesPage(lower, upper, structure, content).sections, t)
        BY <3>1, TablesPageWhole
      <4> QED BY <1>1, <4>1, <4>2, <4>3 DEF PageInv
    <3>2. ASSUME NEW p, excel, Written(p, "TracTestTables") PROVE PageInv'
      <4>1. excel' = excel /\ at' \in {"run", "ended"}
        BY <3>2 DEF Written, Ended
      <4> QED BY <3>2, <4>1 DEF PageInv
    <3> QED BY <1>1, <2>4, <3>1, <3>2 DEF TracTestTables, PageFails, Quiet
  <2> QED BY <1>1, <1>4, <2>1, <2>2, <2>3, <2>4 DEF Execute
<1>5. CASE RunCommand
  BY <1>4, <1>5 DEF RunCommand
<1>6. CASE RunSql \/ RunPrefix
  BY <1>1, <1>6 DEF RunSql, RunPrefix, ExecuteSql, UnbindFails, Quiet
<1>7. CASE SkipEmpty \/ Finished \/ UNCHANGED vars
  BY <1>7 DEF SkipEmpty, Finished, vars, PageInv
<1> QED BY <1>2, <1>3, <1>5, <1>6, <1>7 DEF Next

(* A page about the test tables has exactly one section for each of them and hides
   nothing that was not read (CreateTracPages.cpp, GetTestTableLines). *)
THEOREM PagesAreWhole == Spec => []PageWhole
<1>1. Init => PageInv
  BY DEF Init, NoPage, PageInv
<1>2. PageInv => PageWhole
  BY DEF PageInv, PageWhole, WholeFor
<1> QED BY <1>1, <1>2, PageStep, PTL DEF Spec
=============================================================================
