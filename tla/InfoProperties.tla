--------------------------- MODULE InfoProperties ---------------------------
(***************************************************************************)
(* exodbc::SqlInfoProperties (src/SqlInfoProperty.cpp), with the Database  *)
(* that fills them when it opens (src/Database.cpp), the copy its catalog  *)
(* takes, and the Sql2BufferTypeMap it creates.  Which properties are      *)
(* registered depends on the version of the driver and the product; how    *)
(* types are mapped depends on the version of the environment.  Names that *)
(* other modules of the database have, too, begin with Info, so that       *)
(* DatabaseProofs can extend all of them.                                  *)
(***************************************************************************)
EXTENDS Integers, Sequences, FiniteSets

CONSTANTS
  Connections,     \* data sources to connect to
  Product,         \* the product each of them is: "PostgreSQL" or "other"
  DriverVersion,   \* the parts of SQL_DRIVER_ODBC_VER: numbers, negative for text
  None,            \* no connection; no type
  Fragile,         \* properties that may fail to be read
  InfoFaultSets    \* the sets of faults to be considered, below

(***************************************************************************)
(*   "fails"     SQLGetInfo fails for some of the fragile properties       *)
(*   "no_reset"  Init is called again and nobody has called Reset          *)
(*   "odd_size"  a driver says that a text has an odd number of bytes      *)
(*   "maps"      callers set and change type maps of their own             *)
(***************************************************************************)
InfoFaultKinds == {"fails", "no_reset", "odd_size", "maps"}

ASSUME InfoFaultsAssumption == InfoFaultSets \subseteq SUBSET InfoFaultKinds
ASSUME ConnectionsAssumption == None \notin Connections
ASSUME ProductAssumption == Product \in [Connections -> {"PostgreSQL", "other"}]
ASSUME DriverVersionAssumption == DriverVersion \in [Connections -> Seq(Int)]

VARIABLES
  env,       \* the ODBC version of the environment
  open,      \* the connection the properties were last initialised with, or None
  failed,    \* the properties SQLGetInfo failed for at that time
  props,     \* m_props: for each property registered what is known
  dbms,      \* m_dbms
  copy,      \* m_props of the catalog
  types,     \* the Sql2BufferTypeMap, or none
  own,       \* the Database has created it itself
  infoFaults \* what happens beyond the discipline in this behaviour

infoVars == <<env, open, failed, props, dbms, copy, types, own, infoFaults>>

-----------------------------------------------------------------------------
(* Versions. *)

UNKNOWN == 0
V_2 == 2
V_3 == 3
V_3_8 == 380
Versions == {V_2, V_3, V_3_8}

IsNumber(part) == part >= 0

\* Slip: the second part is looked at alone.
MinorVersion(parts) ==
  IF Len(parts) # 2 \/ \E i \in DOMAIN parts : ~IsNumber(parts[i]) THEN UNKNOWN
  ELSE CASE parts[2] >= 80 -> V_3_8
         [] parts[1] >= 3  -> V_3
         [] parts[1] = 2   -> V_2
         [] OTHER          -> UNKNOWN

ParseOdbcVersion(parts) ==
  IF Len(parts) # 2 \/ \E i \in DOMAIN parts : ~IsNumber(parts[i]) THEN UNKNOWN
  ELSE CASE parts[1] >= 3 /\ parts[2] >= 80 -> V_3_8
         [] parts[1] >= 3 /\ parts[2] < 80  -> V_3
         [] parts[1] = 2                    -> V_2
         [] OTHER                           -> UNKNOWN

-----------------------------------------------------------------------------
(* What is registered: the properties something depends on by name, those    *)
(* that are younger than the versions they are registered for, and one name  *)
(* for all the others of a group.                                            *)

From(v, since, ids) == IF v >= since THEN ids ELSE {}

DbmsProperties == {"DBMS_NAME", "dbms"}

DriverProperties(v) ==
  {"DRIVER_NAME", "DRIVER_ODBC_VER", "SEARCH_PATTERN_ESCAPE", "ODBC_INTERFACE_CONFORMANCE", "driver"}
    \union From(v, V_3, {"MAX_ASYNC_CONCURRENT_STATEMENTS", "ASYNC_NOTIFICATION", "driver 3"})
    \union From(v, V_3_8, {"driver 3.80"})

DataSourceProperties(v) ==
  {"CATALOG_TERM", "SCHEMA_TERM", "TXN_CAPABLE", "TXN_ISOLATION_OPTION", "data source"}
    \union From(v, V_3, {"CURSOR_SENSITIVITY", "data source 3"})

SupportedSqlProperties(v) ==
  {"INDEX_KEYWORDS", "SQL_CONFORMANCE", "OJ_CAPABILITIES", "sql"}
    \union From(v, V_3, {"CATALOG_NAME", "sql 3"})

SqlLimitsProperties(v) ==
  {"MAX_CATALOG_NAME_LEN", "MAX_SCHEMA_NAME_LEN", "MAX_TABLE_NAME_LEN", "MAX_COLUMN_NAME_LEN",
   "limits"} \union From(v, V_3, {"limits 3"})

ScalarFunctionProperties == {"scalar functions"}

ConversionProperties(v) ==
  {"conversions"} \union From(v, V_3, {"CONVERT_INTERVAL_YEAR_MONTH", "CONVERT_INTERVAL_DAY_TIME"})

\* What is registered once the product is known.
LaterProperties(v) ==
  DriverProperties(v) \union DataSourceProperties(v) \union SupportedSqlProperties(v)
    \union SqlLimitsProperties(v) \union ScalarFunctionProperties \union ConversionProperties(v)

\* The version of ODBC a property has come with, as ODBC itself has it: those of
\* ODBC 1 and 2.0 every driver is taken to have.
First == <<2, 0>>
Since(id) ==
  CASE id \in {"ASYNC_NOTIFICATION", "driver 3.80"} -> <<3, 80>>
    [] id \in {"ODBC_INTERFACE_CONFORMANCE", "MAX_ASYNC_CONCURRENT_STATEMENTS", "driver 3",
               "CURSOR_SENSITIVITY", "data source 3", "INDEX_KEYWORDS", "SQL_CONFORMANCE", "CATALOG_NAME",
               "sql 3", "limits 3", "CONVERT_INTERVAL_YEAR_MONTH", "CONVERT_INTERVAL_DAY_TIME"} -> <<3, 0>>
    [] id = "OJ_CAPABILITIES" -> <<2, 1>>
    [] OTHER -> First

\* Known not to exist with PostgreSQL.
MissingInPostgreSQL == {"MAX_ASYNC_CONCURRENT_STATEMENTS", "CURSOR_SENSITIVITY",
                        "CONVERT_INTERVAL_YEAR_MONTH", "CONVERT_INTERVAL_DAY_TIME"}
Missing(product) == IF product = "PostgreSQL" THEN MissingInPostgreSQL ELSE {}

-----------------------------------------------------------------------------
(* The map of properties. *)

NoProps == [id \in {} |-> None]
Unread == [from |-> None, read |-> FALSE, unsupported |-> FALSE]

\* RegisterProperty inserts into a std::map: what is there already stays.
Registered(p, ids) ==
  [id \in DOMAIN p \union ids |-> IF id \in DOMAIN p THEN p[id] ELSE Unread]

\* MarkAsUnsupported, for what has just been registered.
Marked(p, ids) == [id \in DOMAIN p |-> IF id \in ids THEN [p[id] EXCEPT !.unsupported = TRUE] ELSE p[id]]

\* ReadProperty: a property that fails keeps what it holds.
ReadFrom(p, c, ids, failing) ==
  [id \in DOMAIN p |-> IF id \in ids \ failing THEN [p[id] EXCEPT !.from = c, !.read = TRUE] ELSE p[id]]

\* EnsurePropertyRead, without forceUpdate.
EnsureRead(p, c, id) == IF p[id].read THEN p ELSE ReadFrom(p, c, {id}, {})
EnsureFails(p, id, failing) == ~p[id].read /\ id \in failing

\* ReadAllProperties skips what is marked, and only logs what fails.
AllRead(p, c, failing) == ReadFrom(p, c, {id \in DOMAIN p : ~p[id].unsupported}, failing)

\* DetectDbms: from the name that has been read.
Detected(p) == Product[p["DBMS_NAME"].from]

-----------------------------------------------------------------------------
(* Sql2BufferTypeMap. *)

DateTypes == {"DATE", "TIME", "TIMESTAMP"}
NewDateTypes == {"TYPE_DATE", "TYPE_TIME", "TYPE_TIMESTAMP"}
NewOf == [d \in DateTypes \union NewDateTypes |->
            CASE d \in {"DATE", "TYPE_DATE"} -> "TYPE_DATE"
              [] d \in {"TIME", "TYPE_TIME"} -> "TYPE_TIME"
              [] OTHER                       -> "TYPE_TIMESTAMP"]

OtherTypes == [t \in {"SMALLINT", "INTEGER", "BIGINT", "CHAR", "VARCHAR", "WCHAR", "WVARCHAR",
                      "DOUBLE", "FLOAT", "REAL", "BINARY", "VARBINARY", "LONGVARBINARY",
                      "NUMERIC", "DECIMAL"} |->
  CASE t = "SMALLINT"                                 -> "SSHORT"
    [] t = "INTEGER"                                  -> "SLONG"
    [] t = "BIGINT"                                   -> "SBIGINT"
    [] t \in {"CHAR", "VARCHAR"}                      -> "CHAR"
    [] t \in {"WCHAR", "WVARCHAR"}                    -> "WCHAR"
    [] t \in {"DOUBLE", "FLOAT"}                      -> "DOUBLE"
    [] t = "REAL"                                     -> "FLOAT"
    [] t \in {"BINARY", "VARBINARY", "LONGVARBINARY"} -> "BINARY"
    [] t \in {"NUMERIC", "DECIMAL"}                   -> "NUMERIC"]

NoMap == [map |-> OtherTypes, default |-> "none"]

\* RegisterType overwrites.
Overwritten(m, ids, c) == [t \in DOMAIN m \union ids |-> IF t \in ids THEN c ELSE m[t]]

\* DefaultSql2BufferMap: from ODBC 3 on the old types of dates go to the new ones.
DefaultMap(v) ==
  LET dates == IF v >= V_3 THEN DateTypes \union NewDateTypes ELSE DateTypes IN
    [t \in DOMAIN OtherTypes \union dates |->
       IF t \in dates THEN (IF v >= V_3 THEN NewOf[t] ELSE t) ELSE OtherTypes[t]]

DefaultSql2BufferMap(v) == [map |-> DefaultMap(v), default |-> None]
CharSql2BufferMap == [map |-> [t \in {} |-> None], default |-> "CHAR"]
WCharSql2BufferMap == [map |-> [t \in {} |-> None], default |-> "WCHAR"]
CharAsWCharSql2BufferMap(v) ==
  [map |-> Overwritten(DefaultMap(v), {"CHAR", "VARCHAR"}, "WCHAR"), default |-> None]
WCharAsCharSql2BufferMap(v) ==
  [map |-> Overwritten(DefaultMap(v), {"WCHAR", "WVARCHAR"}, "CHAR"), default |-> None]

Supplied(v) == {CharSql2BufferMap, WCharSql2BufferMap, CharAsWCharSql2BufferMap(v),
                WCharAsCharSql2BufferMap(v)}

\* GetBufferType; None when it throws.
GetBufferType(m, t) == IF t \in DOMAIN m.map THEN m.map[t] ELSE m.default

\* CreateColumnBufferPtr: the C type of the buffer a column of this C type gets.
CreateColumnBufferPtr(c) == IF c = "TIMESTAMP" THEN "TIME" ELSE c

-----------------------------------------------------------------------------
(* Filling the properties. *)

Failing == IF "fails" \in infoFaults THEN SUBSET Fragile ELSE {{}}

\* The version of the driver, ODBC 2 if it cannot be asked.
VersionOf(c, failing) ==
  IF "DRIVER_ODBC_VER" \in failing THEN V_2 ELSE ParseOdbcVersion(DriverVersion[c])

\* Slip: the product is looked up after all has been registered.
FilledBefore(c, v, failing) ==
  LET p == EnsureRead(Registered(props, DbmsProperties), c, "DBMS_NAME")
      m == IF dbms = "PostgreSQL" /\ v >= V_3 THEN MissingInPostgreSQL ELSE {}
  IN AllRead(Marked(Registered(p, LaterProperties(v)), m), c, failing)

\* Init, from the name of the product on.
Filled(c, v, failing) ==
  LET p == EnsureRead(Registered(props, DbmsProperties), c, "DBMS_NAME")
      m == IF Detected(p) = "PostgreSQL" /\ v >= V_3 THEN MissingInPostgreSQL ELSE {}
  IN AllRead(Marked(Registered(p, LaterProperties(v)), m), c, failing)

\* Slip: the map is created for the version of the driver.
MapForDriver(v) == IF types = NoMap THEN DefaultSql2BufferMap(v) ELSE types

\* A map is created if there is none, for the version of the environment.
MapFor(v) == IF types = NoMap THEN DefaultSql2BufferMap(env) ELSE types

\* The properties cannot be read; whatever is thrown, they are reset.
InitFails(c) ==
  /\ open = None
  /\ \E failing \in Failing :
       \/ VersionOf(c, failing) = UNKNOWN
       \/ EnsureFails(Registered(props, DbmsProperties), "DBMS_NAME", failing)
  /\ props' = NoProps
  /\ UNCHANGED <<env, open, failed, dbms, copy, types, own, infoFaults>>

\* A text of an odd size is an AssertionException, and only an SqlResultException is
\* caught: Init ends there, before the product is known or, reading all, after it.
InfoAsserts(c) ==
  /\ open = None
  /\ "odd_size" \in infoFaults
  /\ dbms' \in {dbms} \union (IF VersionOf(c, {}) = UNKNOWN THEN {} ELSE {Product[c]})
  /\ props' = NoProps
  /\ UNCHANGED <<env, open, failed, copy, types, own, infoFaults>>

\* Something fails later, say the catalog that asks again for the escape character:
\* the product and the map of types stay as they are by then.
OpenOnFails(c) ==
  /\ open = None
  /\ "fails" \in infoFaults
  /\ \E failing \in Failing :
       LET v == VersionOf(c, failing) IN
         /\ v # UNKNOWN /\ "DBMS_NAME" \notin failing
         /\ dbms' = Detected(Filled(c, v, failing))
         /\ types' = MapFor(v) /\ own' = (own \/ types = NoMap)
  /\ props' = NoProps
  /\ UNCHANGED <<env, open, failed, copy, infoFaults>>

OpenOn(c) ==
  /\ open = None
  /\ \E failing \in Failing, again \in Failing :
       LET v == VersionOf(c, failing)
           p == Filled(c, v, failing)
       IN /\ v # UNKNOWN /\ "DBMS_NAME" \notin failing
          /\ ~EnsureFails(p, "SEARCH_PATTERN_ESCAPE", again)
          /\ props' = p /\ dbms' = Detected(p)
          /\ failed' = failing
          /\ copy' = EnsureRead(p, c, "SEARCH_PATTERN_ESCAPE")
          /\ types' = MapFor(v) /\ own' = (own \/ types = NoMap)
  /\ open' = c
  /\ UNCHANGED <<env, infoFaults>>

\* Reset clears the properties, not the product.
Cleared(p) == NoProps

\* Database::Close gives the catalog up and resets.
CloseAndReset ==
  /\ open # None
  /\ open' = None
  /\ props' = Cleared(props) /\ copy' = NoProps
  /\ UNCHANGED <<env, failed, dbms, types, own, infoFaults>>

\* SqlInfoProperties::Init on an object that has been initialised before.
InitAgain(c) ==
  /\ "no_reset" \in infoFaults
  /\ open # None
  /\ \E failing \in Failing :
       LET v == VersionOf(c, failing)
           p == Filled(c, v, failing)
       IN /\ v # UNKNOWN
          /\ ~EnsureFails(Registered(props, DbmsProperties), "DBMS_NAME", failing)
          /\ props' = p /\ dbms' = Detected(p)
          /\ failed' = failing
  /\ open' = c
  /\ UNCHANGED <<env, copy, types, own, infoFaults>>

\* Database::SetSql2BufferTypeMap, with one of the maps there are.
SetSql2BufferTypeMap ==
  /\ "maps" \in infoFaults
  /\ types' \in Supplied(env) /\ own' = FALSE
  /\ UNCHANGED <<env, open, failed, props, dbms, copy, infoFaults>>

\* RegisterType and ClearType, on the map in use.
ChangeMap ==
  /\ "maps" \in infoFaults
  /\ types # NoMap /\ own' = FALSE
  /\ \E t \in {"BIT", "CHAR"} :
       \/ types' = [types EXCEPT !.map = Overwritten(@, {t}, "CHAR")]
       \/ types' = [types EXCEPT !.map = [s \in (DOMAIN @) \ {t} |-> @[s]]]
  /\ UNCHANGED <<env, open, failed, props, dbms, copy, infoFaults>>

InfoInit ==
  /\ infoFaults \in InfoFaultSets
  /\ env \in Versions
  /\ open = None /\ failed = {}
  /\ props = NoProps /\ dbms = "UNKNOWN" /\ copy = NoProps
  /\ types = NoMap /\ own = FALSE

InfoNext ==
  \/ \E c \in Connections : OpenOn(c) \/ InitFails(c) \/ InfoAsserts(c) \/ OpenOnFails(c) \/ InitAgain(c)
  \/ CloseAndReset \/ SetSql2BufferTypeMap \/ ChangeMap

InfoSpec == InfoInit /\ [][InfoNext]_infoVars

-----------------------------------------------------------------------------
(* What makes it correct. *)

InfoWithout(kinds) == infoFaults \cap kinds = {}

InfoTypeOK ==
  /\ infoFaults \in InfoFaultSets
  /\ env \in Versions
  /\ open \in Connections \union {None} /\ failed \subseteq Fragile
  /\ dbms \in {"PostgreSQL", "other", "UNKNOWN"}
  /\ \A p \in {props, copy} : \A id \in DOMAIN p :
       p[id] \in [from : Connections \union {None}, read : BOOLEAN, unsupported : BOOLEAN]
  /\ own \in BOOLEAN

\* What the getters of the library ask for without looking if it is registered.
AskedFor ==
  {"DBMS_NAME", "DRIVER_NAME", "DRIVER_ODBC_VER", "SEARCH_PATTERN_ESCAPE", "TXN_CAPABLE",
   "TXN_ISOLATION_OPTION", "SCHEMA_TERM", "CATALOG_TERM", "MAX_CATALOG_NAME_LEN",
   "MAX_SCHEMA_NAME_LEN", "MAX_TABLE_NAME_LEN", "MAX_COLUMN_NAME_LEN"}

\* While the Database is open all that is known is of this connection, whatever it
\* has been connected to before: the product, what that product is known not to
\* have, each value that could be read, and nothing else; the catalog's copy says
\* the same, and has the escape character in any case; and everything is registered
\* that a getter asks for, whatever the version of the driver.
OfThisConnection ==
  (InfoWithout({"no_reset"}) /\ open # None) =>
    /\ dbms = Product[open]
    /\ \A id \in DOMAIN props :
         /\ props[id].unsupported = (id \in Missing(Product[open]))
         /\ props[id].read = (id \notin Missing(Product[open]) \union failed)
         /\ props[id].from = (IF props[id].read THEN open ELSE None)
    /\ DOMAIN copy = DOMAIN props
    /\ \A id \in DOMAIN copy \ {"SEARCH_PATTERN_ESCAPE"} : copy[id] = props[id]
    /\ copy["SEARCH_PATTERN_ESCAPE"].from = open
    /\ AskedFor \subseteq DOMAIN props

\* A property is registered exactly if it has come into ODBC by the version of the
\* driver, however the parts of the version compare: asking for one the driver does
\* not know fails and for one that is missing throws.  Five are registered for
\* drivers that are too old for them; a driver whose version cannot be asked is
\* taken for one of ODBC 2, and one of 4.0 and later by its second part.
Untimely == {"ASYNC_NOTIFICATION", "ODBC_INTERFACE_CONFORMANCE", "INDEX_KEYWORDS", "SQL_CONFORMANCE",
             "OJ_CAPABILITIES"}

AtLeast(parts, since) == parts[1] > since[1] \/ (parts[1] = since[1] /\ parts[2] >= since[2])
Known(parts) == Len(parts) = 2 /\ parts[1] <= 3 /\ "DRIVER_ODBC_VER" \notin failed

VersionRespected ==
  (InfoWithout({"no_reset"}) /\ open # None) =>
    \A id \in LaterProperties(V_3_8) :
      /\ id \in DOMAIN props \ Untimely => Since(id) = First \/ AtLeast(DriverVersion[open], Since(id))
      /\ Known(DriverVersion[open]) /\ AtLeast(DriverVersion[open], Since(id)) => id \in DOMAIN props

\* A Database that has made its own map knows a type for every type of a date its
\* driver manager reports, and one of the version of the environment, whatever the
\* version of the driver it happens to be connected to first; and the buffer that
\* is made for it is of that type, but for timestamps of ODBC 2.
DatesMapped ==
  (open # None /\ own) =>
    \A t \in (IF env >= V_3 THEN DateTypes \union NewDateTypes ELSE DateTypes) :
      LET c == GetBufferType(types, t) IN
        /\ c \in (IF env >= V_3 THEN NewDateTypes ELSE DateTypes)
        /\ c # "TIMESTAMP" => CreateColumnBufferPtr(c) = c
=============================================================================
