--------------------------- MODULE CatalogQueries ---------------------------
(***************************************************************************)
(* exodbc::DatabaseCatalog (src/DatabaseCatalog.cpp): one statement handle *)
(* on which all questions about tables, columns and keys are asked, and a  *)
(* cached copy of the statement's SQL_ATTR_METADATA_ID, which decides      *)
(* whether the driver takes names for patterns or for identifiers.  The    *)
(* driver and the connection the statement belongs to are beside it.       *)
(***************************************************************************)
EXTENDS FiniteSets, InfoRows

CONSTANTS
  Tables,       \* tables that may exist: records of a name, a schema and a catalog
  Names,        \* names of tables
  Spaces,       \* names of schemas and catalogs
  MatchedBy,    \* the names each of them matches when it is taken for a pattern
  NoName,       \* the schema or catalog of a table that has none
  Null,         \* a null pointer as an argument
  All,          \* the pattern "%"
  Empty,        \* the empty string
  FaultSets     \* the sets of faults to be considered, below

(***************************************************************************)
(*   "identifier_default"  statements of the driver start with             *)
(*                         SQL_ATTR_METADATA_ID set to SQL_TRUE            *)
(*   "outlives"    a caller keeps the catalog beyond Database::Close       *)
(*   "init_fails"  Init throws after it has started                        *)
(*   "free_fails"  SQLFreeHandle returns SQL_ERROR                         *)
(*   "close_fails" SQLFreeStmt(SQL_CLOSE) fails                            *)
(*   "odbc2"       the environment is of ODBC 2                            *)
(*   "unset"       callers read members the readers leave unset            *)
(*   "long"        texts exceed the lengths the driver has declared        *)
(***************************************************************************)
FaultKinds == {"identifier_default", "outlives", "init_fails", "free_fails",
               "close_fails", "odbc2", "unset", "long"}

ASSUME FaultsAssumption == FaultSets \subseteq SUBSET FaultKinds
ASSUME MatchAssumption == /\ MatchedBy \in [Names \union Spaces -> SUBSET (Names \union Spaces)]
                          /\ \A n \in Names \union Spaces : n \in MatchedBy[n]
ASSUME NamesAssumption == /\ {NoName, Null, All, Empty} \cap (Names \union Spaces) = {}
                          /\ NoName \notin {Null, All, Empty} /\ Null \notin {All, Empty} /\ All # Empty
ASSUME TablesAssumption ==
  Tables \subseteq [name : Names, schema : Spaces \union {NoName}, catalog : Spaces \union {NoName}]

VARIABLES
  there,      \* the tables that exist in the database
  support,    \* what the database has of: schemas, catalogs, PostgreSQL
  connected,  \* the connection is open
  held,       \* a caller keeps the catalog when the Database gives it up
  hdbc,       \* m_pHdbc is set
  hstmt,      \* m_pHStmt has a handle
  mode,       \* m_stmtMode: "pattern" or "identifier"
  drv,        \* the driver's side of the statement
  found,      \* a TableInfo a caller has got, or none
  row,        \* the field a caller has looked at last
  last,       \* the call made last, or under way: what was meant, how it ended,
              \* what it returned; what was there when the driver was asked, and
              \* the rows that are still to be fetched
  faults      \* what happens beyond the discipline in this behaviour

vars == <<there, support, connected, held, hdbc, hstmt, mode, drv, found, row, last, faults>>
catalog == <<hdbc, hstmt, mode, drv>>
world == <<there, support, connected, held>>

Supports == {"schemas", "catalogs", "postgres"}
NoTable == [name |-> NoName, schema |-> NoName, catalog |-> NoName]
NoRow == [kind |-> "none", field |-> "none", report |-> "none"]
Call(op, res, q, truth, rows, left) ==
  [op |-> op, res |-> res, asked |-> q, truth |-> truth, rows |-> rows, left |-> left]
Nothing == Call("none", "ok", NoTable, {}, {}, {})

Arguments == Names \union Spaces \union {NoName, Null, All, Empty}
Question == [name : Arguments, schema : Arguments, catalog : Arguments]
Results == {"ok", "assertion", "not_allowed", "not_found", "failed", "cursor_open",
            "fetching", "terminated"}
Searches == {"SearchTables", "FindOneTable"}
Lists == {"ListSchemas", "ListCatalogs"}
ReadsOfTable == {"ReadColumnInfo", "ReadPrimaryKeyInfo", "ReadSpecialColumnInfo"}
Ops == {"none", "Init", "Reset", "Destroy", "ReadSqlTypeInfo"} \union Searches \union Lists \union ReadsOfTable

\* The statement of the driver, as it is allocated, and when there is none.
NewStmt == [live |-> TRUE, id |-> "identifier_default" \in faults, cursor |-> FALSE]
NoStmt == [live |-> FALSE, id |-> FALSE, cursor |-> FALSE]

\* Tables a database of this kind can hold.
Possible(sup) == {t \in Tables : /\ (t.schema = NoName) = ("schemas" \notin sup)
                                 /\ (t.catalog = NoName) = ("catalogs" \notin sup)}

RowKindOf(op) ==
  CASE op \in Searches            -> "table"
    [] op = "ReadColumnInfo"      -> "column"
    [] op = "ReadPrimaryKeyInfo"  -> "key"
    [] op = "ReadSpecialColumnInfo"  -> "special"
    [] op = "ReadSqlTypeInfo"     -> "type"

-----------------------------------------------------------------------------
(* What the driver answers. *)

\* An argument taken for a pattern, or literally.
Fits(arg, value, asPattern) ==
  \/ arg = Null
  \/ arg = All /\ asPattern
  \/ arg = Empty /\ value = NoName
  \/ arg \in DOMAIN MatchedBy /\ value \in (IF asPattern THEN MatchedBy[arg] ELSE {arg})

\* SQLTables takes three patterns, but none for the catalog before ODBC 3,
\* SQLColumns two and the others none; with SQL_ATTR_METADATA_ID all are
\* identifiers.
CatalogPatterns == "odbc2" \notin faults
TakesPatterns(op, field) ==
  \/ op \in Searches /\ (field = "catalog" => CatalogPatterns)
  \/ op = "ReadColumnInfo" /\ field # "catalog"

Answer(op, q, id) ==
  {t \in there : \A field \in DOMAIN q : Fits(q[field], t[field], ~id /\ TakesPatterns(op, field))}

\* An identifier must not be a null pointer; ReadColumnInfo passes none for the
\* name of the column.
Refuses(op, q, id) ==
  id /\ (Null \in {q.name, q.schema, q.catalog} \/ op = "ReadColumnInfo")

-----------------------------------------------------------------------------
(* What the public functions pass for what their callers mean, where Null    *)
(* stands for what a caller leaves out.                                      *)

Ask(n, s, c) == [name |-> n, schema |-> s, catalog |-> c]

\* An empty name of what is not supported is not passed.
OrNull(arg, what) == IF arg = Empty /\ what \notin support THEN Null ELSE arg

\* PostgreSQL is passed "%" in place of null pointers by SearchTables.
OrAll(q) == [f \in DOMAIN q |-> IF q[f] = Null /\ "postgres" \in support THEN All ELSE q[f]]

\* SearchTables(table, schema, catalog).
ByAll(n, s, c) == Ask(n, OrNull(s, "schemas"), OrNull(c, "catalogs"))

\* SearchTables(table, schemaOrCatalog) with and without the kind of the second.
BySchema(n, s) == Ask(n, s, Null)
ByCatalog(n, c) == Ask(n, Null, c)
ByEither(n, e) == IF "schemas" \in support THEN BySchema(n, e) ELSE ByCatalog(n, e)
EitherIsClear == ("schemas" \in support) # ("catalogs" \in support)

\* SearchTables(table).
ByName(n) == Ask(n, Null, Null)

\* FindOneTable leaves out what is empty.
ForOne(n, s, c) ==
  CASE s # Empty /\ c # Empty -> ByAll(n, s, c)
    [] s # Empty /\ c = Empty -> BySchema(n, s)
    [] s = Empty /\ c # Empty -> ByCatalog(n, c)
    [] OTHER                  -> ByName(n)

\* Slip: schema and catalog are taken for each other.
ForTableSwapped(ti) == Ask(ti.name, IF ti.catalog = NoName THEN Null ELSE ti.catalog,
                                    IF ti.schema = NoName THEN Null ELSE ti.schema)

\* The Read functions pass the names of a TableInfo as they are.
ForTable(ti) == Ask(ti.name, IF ti.schema = NoName THEN Null ELSE ti.schema,
                             IF ti.catalog = NoName THEN Null ELSE ti.catalog)

-----------------------------------------------------------------------------
(* One call on the statement. *)

Running == last.res # "terminated"

\* No call is under way: nobody but the caller of the last one uses the catalog.
Idle == last.res \notin {"fetching", "terminated"}

Returns(call) == last' = call /\ row' = NoRow /\ UNCHANGED faults
Ended(op, res, q, rows) == Returns(Call(op, res, q, {}, rows, {}))

\* The call throws and has changed nothing.
Throws(op, res, q) == Idle /\ Ended(op, res, q, {}) /\ UNCHANGED <<world, catalog, found>>

\* SetMetadataAttribute passes the address of the new value in place of the value:
\* what a driver makes of it cannot be known.
AttributesAfter == IF mode = "identifier" THEN {[mode |-> "pattern", id |-> b] : b \in BOOLEAN}
                                          ELSE {[mode |-> mode, id |-> drv.id]}

\* Nothing is known to the statement, or the attribute cannot be set.
CannotAsk(op, q) ==
  \/ ~hstmt /\ Throws(op, "assertion", q)
  \/ hstmt /\ (~drv.live \/ (mode = "identifier" /\ op # "ReadSqlTypeInfo")) /\ Throws(op, "failed", q)

\* The driver after StatementCloser has closed: at first, where a failure is
\* thrown, and at the end of the scope, where it is only logged.
ClosedAtFirst(d) == [d EXCEPT !.cursor = FALSE]
LeftOpen(d) == {d}                                      \* slip: nothing closes at the end
ClosedAtLast(d) == {[d EXCEPT !.cursor = FALSE]} \union (IF "close_fails" \in faults THEN {d} ELSE {})

\* The statement, with the attributes a, becomes d.
Becomes(a, d) ==
  /\ mode' = a.mode /\ drv' = [d EXCEPT !.id = a.id]
  /\ UNCHANGED <<world, hdbc, hstmt, found>>

\* The catalog function itself: an open cursor, or the driver, refuses it, or
\* there is a result set to be fetched from.
DriverAsked(op, q, a, answer, refused) ==
  LET d == ClosedAtFirst(drv) IN
    \/ d.cursor /\ Becomes(a, d) /\ Ended(op, "cursor_open", q, {})
    \/ Becomes(a, d) /\ Ended(op, "failed", q, {})
    \/ /\ ~d.cursor /\ ~refused
       /\ Becomes(a, [d EXCEPT !.cursor = TRUE])
       /\ Returns(Call(op, "fetching", q, there, {}, answer))

\* The private SearchTables and Read functions up to their loop: the attribute,
\* the guard of the scope, the question.  The caller means q, the driver is
\* passed p.
Run(op, q, p) ==
  \/ CannotAsk(op, q)
  \/ /\ Idle /\ hstmt /\ drv.live
     /\ \E a \in AttributesAfter :
          \/ "close_fails" \in faults /\ Becomes(a, drv) /\ Ended(op, "failed", q, {})
          \/ DriverAsked(op, q, a, Answer(op, p, a.id), Refuses(op, p, a.id))

\* Rows are read while SQLFetch returns SQL_SUCCESS, ...
FetchRow ==
  /\ last.res = "fetching"
  /\ \E t \in last.left : last' = [last EXCEPT !.rows = @ \union {t}, !.left = @ \ {t}]
  /\ UNCHANGED <<world, catalog, found, row, faults>>

\* The loop has been left: exactly one row is a table that FindOneTable returns.
LoopLeft(rows) ==
  /\ drv' \in ClosedAtLast(drv)
  /\ IF last.op = "FindOneTable" => Cardinality(rows) = 1
       THEN Returns(Call(last.op, "ok", last.asked, last.truth, rows, {}))
       ELSE Ended(last.op, "not_found", last.asked, {})
  /\ UNCHANGED <<world, hdbc, hstmt, mode, found>>

\* Slip: whatever is not SQL_SUCCESS is taken for the end.
FetchTakenForEnd == last.res = "fetching" /\ LoopLeft(last.rows)

\* ... the end must be SQL_NO_DATA, ...
FetchEnds == last.res = "fetching" /\ last.left = {} /\ LoopLeft(last.rows)

\* ... else, or if a row cannot be read, what was read is given up.
FetchFails ==
  /\ last.res = "fetching"
  /\ drv' \in ClosedAtLast(drv)
  /\ Ended(last.op, "failed", last.asked, {})
  /\ UNCHANGED <<world, hdbc, hstmt, mode, found>>

SearchTables ==
  \E n \in Names \union {All} :
    \/ \E s, c \in Spaces \union {Empty, All} :
         Run("SearchTables", Ask(n, s, c), OrAll(ByAll(n, s, c)))
    \/ \E e \in Spaces \union {Empty, All} :
         \/ Run("SearchTables", BySchema(n, e), OrAll(BySchema(n, e)))
         \/ Run("SearchTables", ByCatalog(n, e), OrAll(ByCatalog(n, e)))
         \/ EitherIsClear /\ Run("SearchTables", ByEither(n, e), OrAll(ByEither(n, e)))
    \/ ~EitherIsClear /\ Throws("SearchTables", "not_allowed", ByName(n))
    \/ Run("SearchTables", ByName(n), OrAll(ByName(n)))

\* FindOneTable: anything but exactly one table is an exception.
FindOneTable ==
  \E n \in Names, s, c \in Spaces \union {Empty} :
    Run("FindOneTable", Ask(n, IF s = Empty THEN Null ELSE s, IF c = Empty THEN Null ELSE c),
        OrAll(ForOne(n, s, c)))

\* ListSchemas and ListCatalogs ask SQLTables for names in place of tables:
\* what is listed is the schemas, or catalogs, of all tables.
List(op) ==
  \/ CannotAsk(op, NoTable)
  \/ /\ Idle /\ hstmt /\ drv.live
     /\ \E a \in AttributesAfter :
          \/ "close_fails" \in faults /\ Becomes(a, drv) /\ Ended(op, "failed", NoTable, {})
          \/ DriverAsked(op, NoTable, a, {NoTable}, FALSE)

ReadOfTable(op) == found # NoTable /\ Run(op, found, ForTable(found))

\* ReadSqlTypeInfo does not touch the attribute.
ReadSqlTypeInfo ==
  LET a == [mode |-> mode, id |-> drv.id] IN
    \/ CannotAsk("ReadSqlTypeInfo", NoTable)
    \/ /\ Idle /\ hstmt /\ drv.live
       /\ \/ "close_fails" \in faults /\ Becomes(a, drv) /\ Ended("ReadSqlTypeInfo", "failed", NoTable, {})
          \/ DriverAsked("ReadSqlTypeInfo", NoTable, a, {NoTable}, FALSE)

\* What a caller keeps of an answer, for the Read functions.
KeepTableInfo ==
  /\ Idle /\ last.op \in Searches /\ last.rows # {}
  /\ found' \in last.rows
  /\ last' = Nothing /\ row' = NoRow
  /\ UNCHANGED <<world, catalog, faults>>

\* A caller looks at a field of one of the rows.
FieldsLookedAt(k) == Fields(k) \ (IF "unset" \in faults THEN {} ELSE UnsetMembers(k))
ReportsOf(k, f) == {"value"} \union (IF f \in MayBeNull(k) THEN {"null"} ELSE {})
                     \union (IF f \in Texts(k) /\ "long" \in faults THEN {"long"} ELSE {})

LookAtField ==
  /\ Idle /\ last.op \in Searches \union ReadsOfTable \union {"ReadSqlTypeInfo"} /\ last.rows # {}
  /\ \E f \in FieldsLookedAt(RowKindOf(last.op)) : \E r \in ReportsOf(RowKindOf(last.op), f) :
       row' = [kind |-> RowKindOf(last.op), field |-> f, report |-> r]
  /\ last' = Nothing
  /\ UNCHANGED <<world, catalog, found, faults>>

-----------------------------------------------------------------------------
(* The life of the catalog. *)

\* Init, and the constructor that calls it: m_pHdbc is set first.
InitCatalog ==
  /\ Idle /\ connected /\ ~hdbc
  /\ hdbc' = TRUE /\ hstmt' = TRUE
  /\ drv' = NewStmt
  /\ mode' = (IF NewStmt.id THEN "identifier" ELSE "pattern")
  /\ Ended("Init", "ok", NoTable, {})
  /\ UNCHANGED <<world, found>>

\* Reading the escape character, allocating the statement or reading its
\* attribute fails.
InitFails ==
  /\ Idle /\ connected /\ ~hdbc /\ "init_fails" \in faults
  /\ hdbc' = TRUE
  /\ \E allocated \in BOOLEAN :
       hstmt' = allocated /\ drv' = (IF allocated THEN NewStmt ELSE NoStmt)
  /\ Ended("Init", "failed", NoTable, {})
  /\ UNCHANGED <<world, mode, found>>

InitAgain == hdbc /\ Throws("Init", "assertion", NoTable)

\* Reset that succeeds.
Frees ==
  \/ ~hstmt /\ hdbc' = FALSE /\ UNCHANGED <<hstmt, drv>>
  \/ hstmt /\ drv.live /\ hdbc' = FALSE /\ hstmt' = FALSE /\ drv' = NoStmt

\* Free throws: the handle is still valid, or it is gone and m_handle is cleared.
FreeThrows ==
  \/ hstmt /\ drv.live /\ "free_fails" \in faults /\ UNCHANGED <<hdbc, hstmt, drv>>
  \/ hstmt /\ ~drv.live /\ hstmt' = FALSE /\ UNCHANGED <<hdbc, drv>>

Reset ==
  /\ Idle
  /\ \/ Frees /\ Ended("Reset", "ok", NoTable, {})
     \/ FreeThrows /\ Ended("Reset", "failed", NoTable, {})
  /\ UNCHANGED <<world, mode, found>>

\* The destructor calls Reset; another catalog starts anew.
Destroyed == Frees /\ mode' = "pattern" /\ Ended("Destroy", "ok", NoTable, {})

\* It does not catch: the program ends.
Ends == FreeThrows /\ UNCHANGED <<mode, connected>> /\ Ended("Destroy", "terminated", NoTable, {})

\* The last owner gives the catalog up.
Release ==
  /\ Idle /\ (held \/ ~connected)
  /\ Ends \/ (Destroyed /\ UNCHANGED connected)
  /\ held' = FALSE
  /\ UNCHANGED <<there, support, found>>

\* A caller of Database::GetDbCatalog keeps what it got.
Hold ==
  /\ Idle /\ "outlives" \in faults /\ hdbc /\ ~held
  /\ held' = TRUE
  /\ Ended("none", "ok", NoTable, {})
  /\ UNCHANGED <<there, support, connected, catalog, found>>

\* Slip: the connection is closed first.
CloseDisconnectsFirst ==
  /\ Idle /\ connected
  /\ connected' = FALSE /\ drv' = NoStmt /\ hstmt' = FALSE
  /\ Ended("Destroy", IF hstmt THEN "terminated" ELSE "ok", NoTable, {})
  /\ UNCHANGED <<hdbc, mode, there, support, held, found>>

\* Database::Close gives the catalog up, then disconnects: the driver frees what
\* statements the connection has left.
CloseDatabase ==
  /\ Idle /\ connected
  /\ \/ ~held /\ Ends
     \/ ~held /\ Destroyed /\ connected' = FALSE
     \/ /\ held /\ drv' = NoStmt /\ connected' = FALSE
        /\ Ended("none", "ok", NoTable, {}) /\ UNCHANGED <<hdbc, hstmt, mode>>
  /\ UNCHANGED <<there, support, held, found>>

OpenDatabase ==
  /\ Idle /\ ~connected
  /\ connected' = TRUE
  /\ Ended("none", "ok", NoTable, {})
  /\ UNCHANGED <<there, support, held, catalog, found>>

\* Others create and drop tables, also while rows are fetched.
TablesChange ==
  /\ Running
  /\ \E t \in Possible(support) : there' \in {there \union {t}, there \ {t}}
  /\ there' # there
  /\ Returns(IF Idle THEN Nothing ELSE last)
  /\ UNCHANGED <<support, connected, held, catalog, found>>

Terminated == ~Running /\ UNCHANGED vars

Init ==
  /\ faults \in FaultSets
  /\ support \in {sup \in SUBSET Supports : "postgres" \in sup => {"schemas", "catalogs"} \subseteq sup}
  /\ there \in SUBSET Possible(support)
  /\ connected = FALSE /\ held = FALSE
  /\ hdbc = FALSE /\ hstmt = FALSE /\ mode = "pattern" /\ drv = NoStmt
  /\ found = NoTable /\ row = NoRow /\ last = Nothing

Next ==
  \/ InitCatalog \/ InitFails \/ InitAgain
  \/ Reset \/ Release \/ Hold
  \/ OpenDatabase \/ CloseDatabase \/ TablesChange
  \/ FetchRow \/ FetchEnds \/ FetchFails
  \/ SearchTables \/ FindOneTable \/ KeepTableInfo \/ LookAtField
  \/ \E op \in Lists : List(op)
  \/ \E op \in ReadsOfTable : ReadOfTable(op)
  \/ ReadSqlTypeInfo
  \/ Terminated

Spec == Init /\ [][Next]_vars

-----------------------------------------------------------------------------
(* What makes it correct. *)

Without(kinds) == faults \cap kinds = {}

TypeOK ==
  /\ faults \in FaultSets
  /\ support \subseteq Supports /\ there \subseteq Tables
  /\ connected \in BOOLEAN /\ held \in BOOLEAN /\ hdbc \in BOOLEAN /\ hstmt \in BOOLEAN
  /\ mode \in {"pattern", "identifier"}
  /\ drv \in [live : BOOLEAN, id : BOOLEAN, cursor : BOOLEAN]
  /\ found \in Tables \union {NoTable}
  /\ last.op \in Ops /\ last.res \in Results /\ last.asked \in Question
  /\ last.truth \union last.rows \union last.left \subseteq Tables \union {NoTable}

\* No question is refused because of the result set of an earlier one, however that
\* ended and whether or not closing worked then; and once a call has returned or
\* thrown, before or amid the rows, no result set is open as long as closing works.
NoCursorLeft ==
  /\ last.res # "cursor_open"
  /\ Without({"close_fails"}) /\ drv.cursor => last.res = "fetching"

\* What a search is about, with what the caller means by its arguments: nothing
\* for what is left out, tables without a schema or catalog for an empty name, and
\* an empty name means nothing where the database does not have such.
Meant(arg, value, what, asPattern) ==
  (arg = Empty /\ what \notin support) \/ Fits(arg, value, asPattern)

MeantTables(q) == {t \in last.truth : /\ Fits(q.name, t.name, TRUE)
                                      /\ Meant(q.schema, t.schema, "schemas", TRUE)
                                      /\ Meant(q.catalog, t.catalog, "catalogs", CatalogPatterns)}

\* With PostgreSQL and ODBC 2 a catalog that is left out becomes the name "%".
Misnamed(q) == ~CatalogPatterns /\ "postgres" \in support /\ q.catalog = Null

\* A search that returns has all the tables that matched what was meant when the
\* driver was asked and no other, and FindOneTable the only one: no answer is a
\* part of the truth, however the arguments were given and whatever the database
\* supports, what becomes of its tables meanwhile and wherever fetching fails.
AnswersWhole ==
  /\ Without({"identifier_default"}) /\ last.op \in Searches /\ last.res = "ok" /\ ~Misnamed(last.asked)
  => last.rows = MeantTables(last.asked)

\* The columns, keys and special columns read for a TableInfo are those of that
\* table, as long as it exists, and of no other, if its names match nothing else when
\* they are taken for patterns.
Literal(ti) == \A f \in {"name", "schema", "catalog"} :
                 ti[f] # NoName => MatchedBy[ti[f]] = {ti[f]}

OfThatTable ==
  (last.op \in ReadsOfTable /\ last.res = "ok" /\ Literal(last.asked)) =>
    last.rows = {last.asked} \cap last.truth

\* A catalog that has a statement has one the driver knows, so that giving the
\* catalog up does not end the program: the Database destroys it before it
\* disconnects, unless a caller has kept it.
HandleDiesWithConnection ==
  Without({"outlives"}) =>
    /\ hstmt => drv.live /\ connected
    /\ ~Running => "free_fails" \in faults

\* A catalog has a connection exactly when it has a statement: initialising it
\* can be tried again after anything but an Init or Free that failed.
InitAllOrNothing == Without({"init_fails", "outlives"}) => (hdbc <=> hstmt)

\* A caller who looks at a flag before the member learns what the driver reported,
\* or, without a flag, a value, or an empty text for NULL.
RowsTruthful ==
  (Without({"unset", "long"}) /\ row # NoRow) => LearnsTruth(row.kind, row.field, row.report)
=============================================================================
