------------------------------ MODULE ExodbcExec ------------------------------
(***************************************************************************)
(* exodbcexec (samples/ExodbcExec): a tool that reads commands and SQL     *)
(* from its input, executes them with one ExecutableStatement, binds a     *)
(* string buffer to every column of a result set and prints records.       *)
(* Every call of the library may throw, and what main returns tells how    *)
(* the tool ended.                                                         *)
(***************************************************************************)
EXTENDS Integers, Sequences, FiniteSets, TracPages

CONSTANTS
  Queries,         \* SQL texts a database may accept
  NoQuery,         \* no text
  NrOfColumns,     \* columns of the result set of each query, 0 if there is none
  NrOfRows,        \* and its rows
  MaxExecutions,   \* bound: executions that succeed
  ArgLists,        \* what main is called with, the program's name left out
  FindArgs         \* what may follow !find, split at every space

ASSUME QueriesAssumption == NoQuery \notin Queries
ASSUME ResultsAssumption == /\ NrOfColumns \in [Queries -> Nat]
                            /\ NrOfRows \in [Queries -> Nat]
                            /\ MaxExecutions \in Nat
ASSUME FindArgsAssumption == FindArgs \subseteq Seq(STRING)

VARIABLES
  argv,      \* the arguments of main
  at,        \* "parse", "connect", "run", or "ended"
  code,      \* what main returns once it has ended
  excel,     \* the database is Excel
  stmt,      \* *m_pStmt and the driver's side of its handle
  columns,   \* m_currentColumns: which column of which execution each shows
  shown,     \* the row the buffers hold, 0 if none was fetched
  printed,   \* the rows the last command has printed
  search,    \* what it was to search if it was Find, and what it did search
  page,      \* the page it has written
  failures,  \* what has gone wrong: a call of a command ("driver"), one while a
             \* page was made ("page") or a property was read ("info"); "lost" is
             \* a bind call that took effect and threw
  last       \* the command executed last and how it ended

vars == <<argv, at, code, excel, stmt, columns, shown, printed, search, page, failures, last>>
results == <<stmt, columns, shown>>
output == <<printed, search, page>>

-----------------------------------------------------------------------------
(* The arguments. *)

Given(key) == \E i \in DOMAIN argv : argv[i] = key

\* Where a key is followed by something: any argument is, an option too.
WithValue(key) == {i \in 1 .. Len(argv) - 1 : argv[i] = key}
Latest(S) == CHOOSE i \in S : \A j \in S : j <= i
Value(key, default) == IF WithValue(key) = {} THEN default ELSE argv[Latest(WithValue(key)) + 1]

\* The values of these are checked when they are met.
Accepted == [key \in {"--charColSize", "--charColType", "--odbcVersion", "--logLevel"} |->
  CASE key = "--charColSize" -> {"0", "10"}
    [] key = "--charColType" -> {"SQLCHAR", "SQLWCHAR"}
    [] key = "--odbcVersion" -> {"2", "3", "3.8"}
    [] key = "--logLevel"    -> {"Debug", "Info", "Output", "Warning", "Error"}]

Refused(i) == \E key \in DOMAIN Accepted : i \in WithValue(key) /\ argv[i + 1] \notin Accepted[key]

\* The loop over the arguments returns at the first of them.
Stops == {i \in DOMAIN argv : argv[i] = "--help" \/ Refused(i)}
StopCode == IF argv[CHOOSE i \in Stops : \A j \in Stops : i <= j] = "--help" THEN -1 ELSE 2

OneSource == (Value("-DSN", "") # "") # (Value("-CS", "") # "")

exitOnError == Given("--exitOnError")
forwardOnlyCursors == Given("--forwardOnlyCursors")

\* LOG_OUTPUT reaches the console and files unless the global level is above.
Visible == ~Given("--silent") /\ Value("--logLevel", "Info") \in {"Debug", "Info", "Output"}

-----------------------------------------------------------------------------
(* The commands. *)

\* GetAliases of every command, in the order of registration.
AliasesOf == [c \in {"ExecuteSql", "First", "Last", "Next", "Prev", "PrintCurrent", "PrintAll", "Commit",
                     "Rollback", "Exit", "DbInfo", "ListTypes", "ListSchemas", "ListCatalogs",
                     "Find", "InteractiveFind", "TracDbInfo", "TracTestTables", "Help"} |->
  CASE c = "ExecuteSql"      -> {"execSql"}
    [] c = "First"           -> {"first", "sf"}
    [] c = "Last"            -> {"last", "sl"}
    [] c = "Next"            -> {"next", "sn"}
    [] c = "Prev"            -> {"prev", "sp"}
    [] c = "PrintCurrent"    -> {"printCurrent", "pc"}
    [] c = "PrintAll"        -> {"printAll", "pa"}
    [] c = "Commit"          -> {"commitTrans", "ct"}
    [] c = "Rollback"        -> {"rollbackTrans", "rt"}
    [] c = "Exit"            -> {"exit", "e", "quit", "q"}
    [] c = "DbInfo"          -> {"dbInfo"}
    [] c = "ListTypes"       -> {"listTypes", "lt"}
    [] c = "ListSchemas"     -> {"listSchemas", "ls"}
    [] c = "ListCatalogs"    -> {"listCatalogs", "lc"}
    [] c = "Find"            -> {"find", "f"}
    [] c = "InteractiveFind" -> {"ifind", "if"}
    [] c = "TracDbInfo"      -> {"tracDbInfo", "tdbi"}
    [] c = "TracTestTables"  -> {"tracTestTableInfo", "ttti"}
    [] c = "Help"            -> {"help", "h"}]

Commands == DOMAIN AliasesOf
Hidden == {"ExecuteSql"}

\* What RegisterCommand asserts for every command.
Unregistered == \A c, d \in Commands : c # d => AliasesOf[c] \cap AliasesOf[d] = {}

\* GetCommand for what follows the prefix: hidden commands are not found, and
\* what is not found is executed as SQL.
GetCommand(word) == {c \in Commands \ Hidden : word \in AliasesOf[c]}

Words == UNION {AliasesOf[c] : c \in Commands}

-----------------------------------------------------------------------------
(* How a command ends: the handlers of Run. *)

\* Slip: every exception is handled as the handler of Exception does.
CodeAfterAny(res) == IF res = "ok" THEN 0 ELSE 20

CodeAfter(res) == IF res = "sql" THEN 10 ELSE IF res = "other" THEN 20 ELSE 0

Continues(c, res) == (res = "ok" /\ c # "Exit") \/ (res = "sql" /\ ~exitOnError)

Ended(c, res) ==
  /\ last' = [command |-> c, res |-> res]
  /\ at' = IF Continues(c, res) THEN "run" ELSE "ended"
  /\ code' = IF Continues(c, res) THEN code ELSE CodeAfter(res)
  /\ UNCHANGED <<argv, excel>>

Succeeds(c) == Ended(c, "ok") /\ UNCHANGED failures
\* A SqlResultException, and any other exception of the library.
DriverFails(c) == Ended(c, "sql") /\ failures' = failures \union {"driver"}
Asserts(c) == Ended(c, "other") /\ UNCHANGED failures

\* What was typed for Find, what is meant by it and what the driver is asked
\* for; "none" stands for an argument that is ignored.
NoSearch == [name |-> "%", schema |-> "none", catalog |-> "none", type |-> "none"]
NoFind == [typed |-> << >>, meant |-> NoSearch, asked |-> NoSearch]

\* A command without output.
Quiet == printed' = << >> /\ search' = NoFind /\ page' = NoPage

-----------------------------------------------------------------------------
(* SQL *)

NoStatement == [scroll |-> FALSE, query |-> NoQuery, exec |-> 0, open |-> FALSE, pos |-> 0, bound |-> {}]

Column(n, i) == [exec |-> n, nr |-> i]
ColumnsOf(n, k) == [i \in 1 .. k |-> Column(n, i)]
Elements(s) == {s[i] : i \in DOMAIN s}

\* UnbindColumns, if a column is listed.
Unbound(s) == IF columns # << >> THEN [s EXCEPT !.bound = {}] ELSE s
\* SelectClose, and a text that is refused leaves no result.
Closed(s) == [s EXCEPT !.open = FALSE]
WithoutResult(s) == [Closed(s) EXCEPT !.query = NoQuery]
WithResult(s, q) == [s EXCEPT !.query = q, !.exec = @ + 1, !.open = NrOfColumns[q] > 0, !.pos = 0]

\* Slip: columns are unbound after the statement has been executed.
RefusedBeforeUnbinding == stmt' = WithoutResult(stmt) /\ UNCHANGED columns

\* ExecuteDirect throws: when it closes the old result, or as the text is refused.
ExecutionRefused ==
  /\ stmt' \in {Unbound(stmt), WithoutResult(Unbound(stmt))}
  /\ columns' = << >>

\* A column that is bound replaces what was bound to its number.
Rebound(old, new) == {b \in old : \A c \in new : b.nr # c.nr} \union new

\* BindColumns: one column after the other, those the driver has bound are listed.
\* The last one is not if SQLBindCol tells more than success: the call throws.
BindColumns(q, listed, taken) ==
  LET s == WithResult(Unbound(stmt), q)
  IN /\ columns' = ColumnsOf(s.exec, listed)
     /\ stmt' = [s EXCEPT !.bound = Rebound(@, Elements(ColumnsOf(s.exec, taken)))]

\* GetNrOfColumns, DescribeColumn, the creation of a buffer or BindColumn throws,
\* and the columns bound so far stay bound and listed.
BindFails(q) ==
  \/ \E k \in 0 .. NrOfColumns[q] : /\ k < NrOfColumns[q] \/ k = 0
                                    /\ BindColumns(q, k, k)
                                    /\ DriverFails("ExecuteSql") \/ Asserts("ExecuteSql")
  \/ \E k \in 1 .. NrOfColumns[q] : /\ BindColumns(q, k - 1, k)
                                    /\ Ended("ExecuteSql", "sql")
                                    /\ failures' = failures \union {"driver", "lost"}

ExecuteSql ==
  /\ shown' = 0
  /\ Quiet
  /\ \/ \* a text that no command and no database knows, too
        ExecutionRefused /\ DriverFails("ExecuteSql")
     \/ \E q \in Queries :
          /\ stmt.exec < MaxExecutions
          /\ \/ BindColumns(q, NrOfColumns[q], NrOfColumns[q]) /\ Succeeds("ExecuteSql")
             \/ BindFails(q)

\* SQLFreeStmt(SQL_UNBIND) throws: everything is as before.
UnbindFails ==
  /\ columns # << >>
  /\ DriverFails("ExecuteSql")
  /\ Quiet
  /\ UNCHANGED results

-----------------------------------------------------------------------------
(* Moving through the result set. *)

Last == NrOfRows[stmt.query] + 1
HasRow(pos) == pos \in 1 .. Last - 1

\* SQLFetch and SQLFetchScroll fill every buffer that is bound, if there is a row.
FetchAt(pos) ==
  /\ stmt' = [stmt EXCEPT !.pos = pos]
  /\ shown' = IF HasRow(pos) /\ columns # << >> THEN pos ELSE shown
  /\ UNCHANGED columns

After(pos) == IF pos < Last THEN pos + 1 ELSE Last
Before(pos) == IF pos > 0 THEN pos - 1 ELSE 0
Target(c) == CASE c = "Next"  -> After(stmt.pos)
               [] c = "Prev"  -> Before(stmt.pos)
               [] c = "First" -> IF Last = 1 THEN Last ELSE 1
               [] c = "Last"  -> IF Last = 1 THEN Last ELSE Last - 1

\* SelectFetchScroll asserts that the cursor is scrollable.
Refuses(c) == c \in {"First", "Last", "Prev"} /\ ~stmt.scroll

Select(c) ==
  /\ Quiet
  /\ \/ Refuses(c) /\ Asserts(c) /\ UNCHANGED results
     \/ ~Refuses(c) /\ DriverFails(c) /\ UNCHANGED results
     \/ ~Refuses(c) /\ stmt.open /\ FetchAt(Target(c)) /\ Succeeds(c)

\* What is printed is what the buffers hold, fetched or not.
PrintCurrent ==
  /\ printed' = IF columns # << >> /\ Visible THEN <<shown>> ELSE << >>
  /\ Succeeds("PrintCurrent")
  /\ search' = NoFind /\ page' = NoPage
  /\ UNCHANGED results

Rows(from, to) == [i \in 1 .. to - from + 1 |-> from + i - 1]

\* IsForwardOnlyCursor() returns m_scrollableCursor.
IsForwardOnlyCursor == stmt.scroll

\* SelectNext until there is nothing left, or it throws.
PrintRemaining ==
  \E to \in stmt.pos .. Last - 1 :
    /\ printed' = IF Visible THEN Rows(stmt.pos + 1, to) ELSE << >>
    /\ \/ to = Last - 1 /\ FetchAt(Last) /\ Succeeds("PrintAll")
       \/ /\ DriverFails("PrintAll")
          /\ stmt' = [stmt EXCEPT !.pos = to]
          /\ shown' = IF to > stmt.pos THEN to ELSE shown
          /\ UNCHANGED columns
    /\ search' = NoFind /\ page' = NoPage

PrintAll ==
  \/ columns = << >> /\ Quiet /\ Succeeds("PrintAll") /\ UNCHANGED results
  \/ columns # << >> /\ IsForwardOnlyCursor /\ stmt.open /\ stmt.pos < Last /\ PrintRemaining
  \/ columns # << >> /\ IsForwardOnlyCursor /\ stmt.open /\ stmt.pos = Last
     /\ Quiet /\ Succeeds("PrintAll") /\ UNCHANGED results
  \/ columns # << >> /\ IsForwardOnlyCursor /\ ~stmt.open
     /\ Quiet /\ DriverFails("PrintAll") /\ UNCHANGED results
  \/ columns # << >> /\ ~IsForwardOnlyCursor   \* SelectFirst asserts
     /\ Quiet /\ Asserts("PrintAll") /\ UNCHANGED results

\* Commit and Rollback: the driver may close the cursor.
EndTransaction(c) ==
  /\ Quiet
  /\ UNCHANGED <<columns, shown>>
  /\ \/ stmt' \in {stmt, Closed(stmt)} /\ Succeeds(c)
     \/ UNCHANGED stmt /\ DriverFails(c)

-----------------------------------------------------------------------------
(* Commands about the database. *)

\* Exit, Help, DbInfo and ListCatalog change nothing; the last two ask the driver.
Lists == {"DbInfo", "ListTypes", "ListSchemas", "ListCatalogs"}

\* DbInfo reads all properties anew, and takes no notice of those it cannot read.
Inform(c) ==
  /\ Quiet
  /\ UNCHANGED results
  /\ \/ Succeeds(c)
     \/ c = "DbInfo" /\ Ended(c, "ok") /\ failures' = failures \union {"info"}
     \/ c \in Lists /\ (DriverFails(c) \/ Asserts(c))

\* What SearchTables makes of an empty argument.
EmptyAs(text, default) == IF text = "" THEN default ELSE text

\* Find::Execute in short mode, with the first n arguments.  The driver is given an
\* empty schema or catalog as it is, but none if the database has no schemas
\* (or catalogs) and both are searched; and no empty type.
FindFirst(n, args, supported) ==
  LET Text(i, default) == IF n >= i THEN args[i] ELSE default
      Both == n >= 3
      Passed(i, what) == IF Both /\ what \notin supported THEN EmptyAs(Text(i, "none"), "none") ELSE Text(i, "none")
  IN [name    |-> Text(1, "%"),
      schema  |-> Passed(2, "schema"),
      catalog |-> Passed(3, "catalog"),
      type    |-> EmptyAs(Text(4, "none"), "none")]

\* printColumns: the last argument is -pc.
PrintColumns(args) == args # << >> /\ args[Len(args)] = "-pc"

\* Slip: a final -pc is counted as an argument.
FindShortCounting(args, supported) == FindFirst(Len(args), args, supported)

FindShort(args, supported) ==
  FindFirst(IF PrintColumns(args) THEN Len(args) - 1 ELSE Len(args), args, supported)

\* Interactively, where NULL is to be entered for what is to be ignored.  With
\* a catalog alone it is the text entered for the schema that is searched.
FindInteractive(haveSchem, haveCat) ==
  [name    |-> "name",
   schema  |-> IF haveSchem THEN "schema" ELSE "none",
   catalog |-> IF haveCat THEN IF haveSchem THEN "catalog" ELSE "NULL" ELSE "none",
   type    |-> "type"]

\* What the help says is meant by the arguments: each stands for what its place
\* says, and an empty schema, catalog or type is ignored.
Meant(args) ==
  LET Text(i, default) == IF i \in DOMAIN args /\ args[i] # "-pc" THEN args[i] ELSE default
  IN [name    |-> Text(1, "%"),
      schema  |-> EmptyAs(Text(2, "none"), "none"),
      catalog |-> EmptyAs(Text(3, "none"), "none"),
      type    |-> EmptyAs(Text(4, "none"), "none")]

\* What a user who is asked for them means by the texts entered.
Entered(haveSchem, haveCat) == [name    |-> "name",
                                schema  |-> IF haveSchem THEN "schema" ELSE "none",
                                catalog |-> IF haveCat THEN "catalog" ELSE "none",
                                type    |-> "type"]

\* SearchTables, and ReadColumnInfo for each table if -pc is given, may throw.
Find(c) ==
  /\ printed' = << >>
  /\ page' = NoPage
  /\ UNCHANGED results
  /\ \/ /\ c = "Find"
        /\ \E args \in FindArgs, supported \in SUBSET {"schema", "catalog"} :
             search' = [typed |-> args, meant |-> Meant(args), asked |-> FindShort(args, supported)]
     \/ /\ c = "InteractiveFind"
        /\ \E haveSchem, haveCat \in BOOLEAN :
             search' = [typed |-> << >>, meant |-> Entered(haveSchem, haveCat),
                        asked |-> FindInteractive(haveSchem, haveCat)]
  /\ Succeeds(c) \/ DriverFails(c) \/ Asserts(c)

\* All lines of a page are collected before the file is opened.
PageFails(c) == /\ Quiet
                /\ DriverFails(c) \/ Asserts(c)

\* What the handlers of GetTestTableLines catch is written into the page.
FailedInside(p) == \E s \in p.sections : s.is = "error" \/ "failed" \in {s.structure, s.content}

Written(p, c) ==
  /\ page' = IF Visible THEN p ELSE NoPage
  /\ printed' = << >>
  /\ Ended(c, "ok")
  /\ failures' = failures \union (IF FailedInside(p) THEN {"page"} ELSE {})
  /\ search' = NoFind

TracTestTables ==
  /\ UNCHANGED results
  /\ \/ PageFails("TracTestTables")
     \/ \E lower, upper \in [TestTables -> Endings] :
          /\ ~excel
          /\ NotSearchedTwice(lower, upper) /\ ~Escapes(lower, upper)
          /\ \E structure, content \in [Found(lower, upper) -> Readings] :
               Written(TablesPage(lower, upper, structure, content), "TracTestTables")
     \/ \E there \in SUBSET TestTables : \E structure, content \in [there -> Readings] :
          excel /\ Written(ExcelPage(there, structure, content), "TracTestTables")

TracDbInfo ==
  /\ UNCHANGED results
  /\ PageFails("TracDbInfo") \/ Written(InfoPage, "TracDbInfo")

-----------------------------------------------------------------------------
(* main and Run. *)

NotRunning == UNCHANGED <<argv, excel, results, output, failures, last>>

\* main returns before there is a tool to run.
Return(c) == at' = "ended" /\ code' = c /\ NotRunning

ParseArguments ==
  /\ at = "parse"
  /\ IF Len(argv) = 0 THEN Return(2)
     ELSE IF Stops # {} THEN Return(StopCode)
     ELSE IF ~OneSource THEN Return(2)
     ELSE at' = "connect" /\ UNCHANGED code /\ NotRunning

\* Environment, Database::Open, SetCommitMode or the statement throws.
ConnectFails == at = "connect" /\ Return(1)

\* The constructor of ExodbcExec: m_forwardOnlyCursors is what Init and the
\* constructor of ExecutableStatement take for scrollableCursor.
Connect ==
  /\ at = "connect"
  /\ IF Unregistered THEN /\ at' = "run"
                          /\ stmt' = [NoStatement EXCEPT !.scroll = forwardOnlyCursors]
                     ELSE at' = "ended" /\ UNCHANGED stmt
  /\ code' = IF Unregistered THEN code ELSE 1
  /\ excel' \in BOOLEAN
  /\ failures' \in {failures, failures \union {"info"}}   \* Open reads properties, too
  /\ UNCHANGED <<argv, columns, shown, output, last>>

Execute(c) ==
  \/ c \in {"First", "Last", "Next", "Prev"} /\ Select(c)
  \/ c = "PrintCurrent" /\ PrintCurrent
  \/ c = "PrintAll" /\ PrintAll
  \/ c \in {"Commit", "Rollback"} /\ EndTransaction(c)
  \/ c \in Lists \union {"Exit", "Help"} /\ Inform(c)
  \/ c \in {"Find", "InteractiveFind"} /\ Find(c)
  \/ c = "TracTestTables" /\ TracTestTables
  \/ c = "TracDbInfo" /\ TracDbInfo

\* A command is known; text without a prefix, or after one, is SQL else.
RunCommand == at = "run" /\ \E c \in UNION {GetCommand(word) : word \in Words} : Execute(c)
RunSql == at = "run" /\ (ExecuteSql \/ UnbindFails)

\* A prefix and nothing else: GetCommand asserts that there is a name.
RunPrefix == at = "run" /\ Quiet /\ Asserts("none") /\ UNCHANGED results

\* Empty lines are skipped.  At its end the input consists of them.
SkipEmpty == at = "run" /\ UNCHANGED vars

Finished == at = "ended" /\ UNCHANGED vars

Init ==
  /\ argv \in ArgLists
  /\ at = "parse"
  /\ code = 0
  /\ excel = FALSE
  /\ stmt = NoStatement
  /\ columns = << >>
  /\ shown = 0
  /\ printed = << >>
  /\ search = NoFind
  /\ page = NoPage
  /\ failures = {}
  /\ last = [command |-> "none", res |-> "ok"]

Next == ParseArguments \/ ConnectFails \/ Connect \/ RunCommand \/ RunSql \/ RunPrefix \/ SkipEmpty \/ Finished

Spec == Init /\ [][Next]_vars

-----------------------------------------------------------------------------
(* Properties *)

TypeOK ==
  /\ argv \in ArgLists
  /\ at \in {"parse", "connect", "run", "ended"}
  /\ code \in {-1, 0, 1, 2, 10, 20}
  /\ excel \in BOOLEAN
  /\ stmt.query \in Queries \union {NoQuery} /\ stmt.exec \in 0 .. MaxExecutions
  /\ shown \in Nat
  /\ failures \subseteq {"driver", "page", "info", "lost"}
  /\ last \in [command : Commands \union {"none"}, res : {"ok", "sql", "other"}]

\* What Print shows are the columns of the result set that was executed last, in
\* their order and from the first one on; these are bound, and no others unless a bind
\* call has thrown after it took effect; and all of them, unless binding has
\* failed.  Whatever fails on the way from one result set to the next, no column
\* of an earlier one is shown again.
ColumnsOfResult ==
  /\ columns = ColumnsOf(stmt.exec, Len(columns))
  /\ Elements(columns) \subseteq stmt.bound
  /\ stmt.bound = Elements(columns) \/ "lost" \in failures
  /\ columns # << >> => stmt.query # NoQuery /\ Len(columns) <= NrOfColumns[stmt.query]
  /\ last = [command |-> "ExecuteSql", res |-> "ok"] => Len(columns) = NrOfColumns[stmt.query]
  /\ shown # 0 => columns # << >> /\ shown <= NrOfRows[stmt.query]

\* How the tool ends is what it is told to do about errors: with --exitOnError it
\* does not go on once the driver has refused anything, except while it writes
\* a page about test tables and while properties of the database are read, which
\* go on without what they cannot get; without it no refusal ends it; and 0 means
\* that it was asked to exit.
EndsAsTold ==
  /\ at = "run" /\ exitOnError => failures \subseteq {"page", "info"}
  /\ code = 10 => exitOnError /\ "driver" \in failures
  /\ last.res = "sql" /\ at = "ended" => code = 10
  /\ at = "ended" /\ code = 0 => last.command = "Exit"

\* The arguments of !find are what the help takes them for: -pc comes last, and
\* neither the schema nor the catalog is empty (two spaces make an argument).
AsTheHelpHasThem(args) ==
  /\ \A i \in DOMAIN args : args[i] = "-pc" => i = Len(args)
  /\ \A i \in DOMAIN args \intersect {2, 3} : args[i] # ""

\* Every pattern a user of !find or !ifind gives is searched for in its own
\* place and nothing else is, with and without -pc, and an empty type is ignored;
\* except if a catalog is entered and the schema ignored, if something follows
\* -pc, and if an empty schema or catalog is given, which the help says is
\* ignored and the code searches for.
SearchesAsMeant ==
  /\ AsTheHelpHasThem(search.typed)
  /\ search.meant.schema # "none" \/ search.meant.catalog = "none"
  => search.asked = search.meant

\* A page about the test tables has exactly one section for every one of them,
\* and says of each table that was found what could not be read: nothing is left
\* out but the content of temporary tables.
PageWhole ==
  page.written /\ ~excel /\ last.command = "TracTestTables" /\ last.res = "ok" /\ Visible =>
    \A t \in TestTables :
      \E s \in page.sections :
        /\ {x \in page.sections : x.table = t} = {s}
        /\ s.is = "table" => s.structure # "left out" /\ (s.content = "left out" => t \in TmpTables)
=============================================================================
