------------------------------ MODULE InfoRows ------------------------------
(***************************************************************************)
(* How a row of a catalog function becomes a TableInfo, ColumnInfo,        *)
(* PrimaryKeyInfo, SpecialColumnInfo or SqlTypeInfo: each field is fetched *)
(* with GetDataWrapper::GetData into a member that the constructor has not *)
(* initialised, with or without a flag for NULL.  A field is described by  *)
(* what its reader does with it, and its data by what can be told apart.   *)
(***************************************************************************)
LOCAL INSTANCE Naturals

RowKinds == {"table", "column", "key", "special", "type"}

\* What the driver reports for a field is "value", a value, "long", a value longer
\* than the buffer provided for it, or "null".  What a member then holds is "value",
\* the value, "cut", its first characters, "empty", the empty string, or "garbage",
\* what was in memory before (in part, if the member is wider than the C type).

\* Fields fetched as text: those whose NULL is remembered, and the others.
FlaggedTexts == [k \in RowKinds |->
  CASE k = "table"   -> {"catalog", "schema"}
    [] k = "column"  -> {"catalog", "schema", "remarks", "defaultValue", "isNullable"}
    [] k = "key"     -> {"catalog", "schema", "keyName"}
    [] k = "special" -> {}
    [] k = "type"    -> {"literalPrefix", "literalSuffix", "createParams", "localTypeName"}]

PlainTexts == [k \in RowKinds |->
  CASE k = "table"   -> {"tableName", "tableType", "tableRemarks"}
    [] k = "column"  -> {"tableName", "columnName", "typeName"}
    [] k = "key"     -> {"tableName", "columnName"}
    [] k = "special" -> {"columnName", "sqlTypeName"}
    [] k = "type"    -> {"typeName"}]

\* Fields fetched as numbers of the width of their member.
FlaggedNumbers == [k \in RowKinds |->
  CASE k = "column"  -> {"columnSize", "bufferSize", "decimalDigits", "numPrecRadix",
                         "sqlDatetimeSub", "charOctetLength"}
    [] k = "special" -> {"scope"}
    [] k = "type"    -> {"columnSize", "unsigned", "autoUniqueValue", "minimumScale",
                         "maximumScale", "sqlDateTimeSub"}
    [] OTHER         -> {}]

PlainNumbers == [k \in RowKinds |->
  CASE k = "column"  -> {"sqlType", "nullable", "sqlDataType", "ordinalPosition"}
    [] k = "key"     -> {"keySequence"}
    [] k = "special" -> {"sqlType", "columnSize", "bufferLength", "decimalDigits"}
    [] k = "type"    -> {"sqlType", "nullable", "caseSensitive", "searchable",
                         "fixedPrecisionScale", "sqlDataType"}
    [] OTHER         -> {}]

\* SQLINTEGER members fetched as SQL_C_SSHORT: the upper half is not written.
HalfWritten == [k \in RowKinds |-> IF k = "type" THEN {"numPrecRadix", "intervalPrecision"} ELSE {}]

\* Fetched into a local variable and never stored.
NotStored == [k \in RowKinds |-> IF k = "special" THEN {"pseudoColumn"} ELSE {}]

Flagged(k) == FlaggedTexts[k] \union FlaggedNumbers[k] \union HalfWritten[k]
Texts(k) == FlaggedTexts[k] \union PlainTexts[k]
Fields(k) == Flagged(k) \union PlainTexts[k] \union PlainNumbers[k] \union NotStored[k]

\* Fields the ODBC specification allows to be NULL.
MayBeNull(k) == Flagged(k) \union (IF k = "special" THEN {"bufferLength", "decimalDigits"}
                                   ELSE IF k = "table" THEN {"tableRemarks"} ELSE {})

\* Slip: the truncation of a text is not noticed, and NULL is not looked at.
StoredIgnoringNull(k, f, r) ==
  IF f \in Texts(k) THEN CASE r = "value" -> "value" [] r = "long" -> "cut" [] OTHER -> "garbage"
  ELSE IF r = "null" \/ f \in HalfWritten[k] \union NotStored[k] THEN "garbage" ELSE "value"

\* GetDataWrapper::GetData: SQL_SUCCESS_WITH_INFO, for a text that does not fit,
\* counts as success; a text is emptied first, a number that is NULL not written.
Stored(k, f, r) ==
  IF f \in Texts(k) THEN CASE r = "value" -> "value" [] r = "long" -> "cut" [] OTHER -> "empty"
  ELSE IF r = "null" \/ f \in HalfWritten[k] \union NotStored[k] THEN "garbage" ELSE "value"

\* The flag kept for the field says NULL.
SaysNull(k, f, r) == f \in Flagged(k) /\ r = "null"

\* What a caller who looks at the flag first learns is what the driver reported.
LearnsTruth(k, f, r) ==
  \/ SaysNull(k, f, r) /\ r = "null"
  \/ Stored(k, f, r) = "value" /\ r = "value"
  \/ Stored(k, f, r) = "empty" /\ r = "null"

\* Members the readers leave unset or half set, whatever the driver reports.
UnsetMembers(k) == HalfWritten[k] \union NotStored[k]
                     \union (MayBeNull(k) \cap PlainNumbers[k])
=============================================================================
