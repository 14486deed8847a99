------------------------------ MODULE TracPages ------------------------------
(***************************************************************************)
(* The pages exodbcexec writes about a database (CreateTracPages.cpp of    *)
(* samples/ExodbcExec): one about the driver, and one with a section for   *)
(* every table of the tests, whether it is found or not.                   *)
(***************************************************************************)

CONSTANTS
  TestTables,   \* the names of the tables of the tests
  TmpTables     \* those that end in _tmp

ASSUME TestTablesAssumption == TmpTables \subseteq TestTables

\* How a call ends: as wanted, with a NotFoundException, or any other one.
Endings == {"found", "none", "failed"}

\* The parts of a section, if reading them succeeds or fails.
Readings == {"read", "failed"}

NoPage == [written |-> FALSE, sections |-> {}]

Section(t, is, structure, content) == [table |-> t, is |-> is, structure |-> structure, content |-> content]
Note(t, is) == Section(t, is, "left out", "left out")

\* What FindOneTable is asked: the name in lower case, and in upper case if
\* there is none.
Found(lower, upper) == {t \in TestTables : "found" \in {lower[t]} \union (IF lower[t] = "none" THEN {upper[t]} ELSE {})}

\* Only names that are not found in lower case are searched in upper case.
NotSearchedTwice(lower, upper) == \A t \in TestTables : lower[t] # "none" => upper[t] = "none"

\* The second search is made in the handler of the first one's exception:
\* what it throws is caught by nobody here, unless it is a NotFoundException.
Escapes(lower, upper) == \E t \in TestTables : lower[t] = "none" /\ upper[t] = "failed"

\* Slip: an error is not worth a section of its own.
NotesOnMissing(lower, upper) ==
  {Note(t, "warning") : t \in {x \in TestTables : lower[x] = "none" /\ upper[x] = "none"}}

\* The sections of tables that were not found, which come first.
Notes(lower, upper) ==
  {Note(t, "warning") : t \in {x \in TestTables : lower[x] = "none" /\ upper[x] = "none"}}
    \union {Note(t, "error") : t \in {x \in TestTables : lower[x] = "failed"}}

\* GetTestTableStructureLines and GetTestTableContentLines: each may fail by
\* itself, and temporary tables have no content to be shown.
SectionOf(t, structure, content) ==
  Section(t, "table", structure, IF t \in TmpTables THEN "left out" ELSE content)

TablesPage(lower, upper, structure, content) ==
  [written  |-> TRUE,
   sections |-> Notes(lower, upper)
                  \union {SectionOf(t, structure[t], content[t]) : t \in Found(lower, upper)}]

\* With Excel everything there is gets a section, and nothing is missed.
ExcelPage(there, structure, content) ==
  [written |-> TRUE, sections |-> {SectionOf(t, structure[t], content[t]) : t \in there}]

\* The groups of SqlInfoProperties in GetDbInfoLines, and GetTypeLines.
InfoSections == {"Driver", "DataSource", "DBMS", "SqlLimits", "SupportedSql", "ScalarFunction",
                 "Conversion", "Datatypes"}
InfoPage == [written |-> TRUE, sections |-> {Note(s, "info") : s \in InfoSections}]
=============================================================================
