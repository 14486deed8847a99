--------------------------- MODULE MCColumnValues ---------------------------
(* A column of every kind, in integers of 8 bits.                            *)
EXTENDS ColumnValues

MCCTypes == {"CHAR", "WCHAR", "BINARY"}
Col(t, size, digits, nullable) == [type |-> t, size |-> size, radix |-> 10, digits |-> digits, nullable |-> nullable]
MCColumns ==
  {Col("VARCHAR", 1, 0, TRUE), Col("WCHAR", 3, 0, FALSE), Col("VARCHAR", IntMax, 0, TRUE),
   Col("VARCHAR", NoTotal, 0, TRUE), Col("NUMERIC", 2, 1, TRUE), Col("VARBINARY", 2, 0, TRUE),
   Col("LONGVARBINARY", NoTotal, 0, TRUE), Col("BINARY", 64, 0, TRUE), Col("TYPE_DATE", 10, 0, TRUE),
   Col("TYPE_TIME", 8, 0, TRUE), Col("TIME", 11, 3, TRUE), Col("TYPE_TIMESTAMP", 19, 0, TRUE),
   Col("TIMESTAMP", 23, 6, FALSE)}
  \union {Col(t, 0, 0, TRUE) : t \in DOMAIN FixedSize}
MCFaultSets == {{}} \union {{f} : f \in FaultKinds}
=============================================================================
