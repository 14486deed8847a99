----------------------------- MODULE MCExodbcExec -----------------------------
(* A small instance of ExodbcExec for TLC. *)
EXTENDS ExodbcExec, TLC

\* Two columns and two rows, one column and no row, an update.
MCQueries == {"two", "empty", "update"}
MCNrOfColumns == ("two" :> 2) @@ ("empty" :> 1) @@ ("update" :> 0)
MCNrOfRows == ("two" :> 2) @@ ("empty" :> 0) @@ ("update" :> 0)

\* Sources missing, given once and twice; wrong values; options, one of them
\* where a password is expected.
MCArgLists == {
  << >>, <<"-DSN">>, <<"-DSN", "db">>, <<"-DSN", "db", "-CS", "c">>,
  <<"-CS", "c", "--silent", "--exitOnError">>, <<"-CS", "c", "--forwardOnlyCursors">>,
  <<"-DSN", "db", "-P", "--exitOnError", "--forwardOnlyCursors">>,
  <<"-DSN", "db", "--logLevel", "loud", "--help">>, <<"-DSN", "db", "--help", "--logLevel", "loud">>,
  <<"-DSN", "db", "--charColSize", "-1">>}

\* Arguments left out, an empty schema and an empty type, -pc at the end, alone and
\* in front of a space.
MCFindArgs == {
  << >>, <<"-pc">>, <<"n", "s", "-pc">>, <<"n", "s", "c", "t">>, <<"n", "s", "c", "", "-pc">>, <<"n", "", "c">>,
  <<"n", "-pc", "">>}
=============================================================================
