----------------------------- MODULE DisplaySize -----------------------------
(***************************************************************************)
(* How long the buffer is that the library creates for a column it fetches *)
(* as text or as binary data (src/ColumnBuffer.cpp), in the integers of    *)
(* the code, and what the columns can hold.                                *)
(***************************************************************************)
LOCAL INSTANCE Integers

CONSTANTS
  IntMax,     \* the largest SQLINTEGER, a power of 2 less 1
  Fallback    \* SQL_NO_TOTAL_BUFFER_LENGTH

NoTotal == -4     \* SQL_NO_TOTAL

ASSUME IntMaxAssumption == IntMax \in Nat /\ IntMax > 6
ASSUME FallbackAssumption == Fallback \in 1 .. IntMax

\* What the compilers make of an SQLINTEGER that overflows.
Wrapped(n) == ((n + IntMax + 1) % (2 * (IntMax + 1))) - (IntMax + 1)

Characters == {"CHAR", "WCHAR", "VARCHAR", "WVARCHAR"}
Decimals == {"NUMERIC", "DECIMAL"}
Binaries == {"BINARY", "VARBINARY", "LONGVARBINARY"}
Dates == {"DATE", "TYPE_DATE"}
Times == {"TIME", "TYPE_TIME"}
Timestamps == {"TIMESTAMP", "TYPE_TIMESTAMP"}
FixedSize == [t \in {"BIT", "TINYINT", "SMALLINT", "INTEGER", "BIGINT", "REAL", "FLOAT", "DOUBLE", "GUID"} |->
  CASE t = "BIT"      -> 1  + 1
    [] t = "TINYINT"  -> 4  + 1
    [] t = "SMALLINT" -> 6  + 1
    [] t = "INTEGER"  -> 11 + 1
    [] t = "BIGINT"   -> 20 + 1
    [] t = "REAL"     -> 14 + 1
    [] t = "GUID"     -> 36 + 1
    [] OTHER          -> 24 + 1]

\* CalculateDisplaySize; 0 where it throws.
CalculateDisplaySize(col) ==
  LET length == IF col.size = NoTotal THEN Fallback ELSE col.size IN
    CASE col.type \in Characters /\ col.size > 0                   -> Wrapped(col.size + 1)
      [] col.type \in Decimals /\ col.radix = 10 /\ col.size > 0   -> Wrapped(col.size + 2 + 1)
      [] col.type \in DOMAIN FixedSize                             -> FixedSize[col.type]
      [] col.type \in Binaries /\ length > 0                       -> Wrapped(length * 2 + 1)
      [] col.type \in Dates                                        -> 11 + 1
      [] col.type \in Times /\ col.digits >= 0      -> IF col.digits = 0 THEN 8 + 1 ELSE 9 + col.digits + 1
      [] col.type \in Timestamps /\ col.digits >= 0 -> IF col.digits = 0 THEN 19 + 1 ELSE 20 + col.digits + 1
      [] OTHER                                                     -> 0

\* The constructor that is given a number of elements; 0 where it throws.
NrOfElements(n) == IF n = NoTotal THEN Fallback ELSE IF n > 0 THEN n ELSE 0

\* CreateColumnArrayBufferPtr, for one of the array types.
CreatedElements(col, cType) ==
  NrOfElements(IF cType = "BINARY" THEN col.size ELSE CalculateDisplaySize(col))

\* Characters of the longest number of each type, of a Boolean and of a GUID.
LongestFixed == [t \in DOMAIN FixedSize |->
  CASE t = "BIT" -> 1 [] t = "TINYINT" -> 4 [] t = "SMALLINT" -> 6 [] t = "INTEGER" -> 11
    [] t = "BIGINT" -> 20 [] t = "REAL" -> 14 [] t = "GUID" -> 36 [] OTHER -> 24]

\* The characters of the longest text, or the bytes, a value of the column has.
Longest(col, cType) ==
  CASE cType = "BINARY"              -> col.size
    [] cType # "BINARY" /\ col.type \in Binaries -> col.size * 2
    [] col.type \in Characters       -> col.size
    [] col.type \in Decimals         -> col.size + 2
    [] col.type \in DOMAIN FixedSize -> LongestFixed[col.type]
    [] col.type \in Dates            -> 10
    [] col.type \in Times      -> IF col.digits = 0 THEN 8 ELSE 9 + col.digits
    [] col.type \in Timestamps -> IF col.digits = 0 THEN 19 ELSE 20 + col.digits
=============================================================================
