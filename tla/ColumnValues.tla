---------------------------- MODULE ColumnValues ----------------------------
(***************************************************************************)
(* The value of one array column: exodbc::ColumnBuffer of characters or    *)
(* bytes (include/exodbc/ColumnBuffer.h) with its length indicator, as the *)
(* program sets and reads it, also through StringColumnWrapper and Table,  *)
(* and as the driver fills it from a row and sends it as a parameter.      *)
(* Both sides share one array and one indicator that says NULL, a length,  *)
(* or that there is a terminating zero.                                    *)
(***************************************************************************)
EXTENDS Integers, Sequences, SequencesExt, DisplaySize

CONSTANTS
  Columns,    \* columns: records of a type, a size, a radix, digits, and if it is nullable
  CTypes,     \* of "CHAR", "WCHAR" and "BINARY", those in use
  Narrow,     \* a character that is one unit of a buffer
  Wide,       \* a character that is two units of a buffer of CHAR
  FaultSets   \* the sets of faults to be considered, below

(***************************************************************************)
(*   "short"      the caller has made the buffer, too short for the column *)
(*   "exact"      the caller sets texts that leave no room for the zero    *)
(*   "empty"      the caller sets an empty text                            *)
(*   "wide"       texts have characters of more than one unit              *)
(*   "indicator"  the caller sets the indicator without a value            *)
(***************************************************************************)
FaultKinds == {"short", "exact", "empty", "wide", "indicator"}

ASSUME FaultsAssumption == FaultSets \subseteq SUBSET FaultKinds
ASSUME CTypesAssumption == CTypes \subseteq {"CHAR", "WCHAR", "BINARY"}
ASSUME CharactersAssumption == Wide \notin {Narrow, "b"} /\ {Narrow, Wide} \cap {"0", "NULL"} = {}
ASSUME ColumnsAssumption ==
  Columns \subseteq [type : STRING, size : 0 .. IntMax \union {NoTotal}, radix : Nat, digits : Nat, nullable : BOOLEAN]

VARIABLES
  column,     \* the column of the database
  cType,      \* sqlCType
  capacity,   \* m_nrOfElements, or 0 if the buffer could not be created
  buffer,     \* m_buffer
  cb,         \* m_cb
  stored,     \* the value in the row of the database
  meant,      \* the value set or fetched last
  ended,      \* the program has run into undefined behaviour
  faults      \* what happens beyond the discipline in this behaviour

vars == <<column, cType, capacity, buffer, cb, stored, meant, ended, faults>>

NULL_DATA == -1     \* SQL_NULL_DATA
NTS == -3           \* SQL_NTS

Zero == "0"
Null == <<"NULL">>
Beyond == <<"beyond the buffer">>

-----------------------------------------------------------------------------
(* Texts and units. *)

Repeated(c, n) == [i \in 1 .. n |-> c]

\* A wide character is two units of CHAR, as in UTF-8, and one of WCHAR.
Units(text) ==
  IF cType = "CHAR" /\ Wide \in Range(text)
  THEN FlattenSeq([i \in DOMAIN text |-> IF text[i] = Wide THEN <<"w1", "w2">> ELSE <<text[i]>>])
  ELSE text

Letters == {Narrow, "b"} \union (IF "wide" \in faults THEN {Wide} ELSE {})

\* A column whose size is not known holds what the fallback has room for.
LongestThere == Longest(IF column.size = NoTotal THEN [column EXCEPT !.size = Fallback] ELSE column, cType)

\* Short and long values the column can hold.
Values == {Repeated(c, n) : c \in Letters, n \in {k \in {1, 2, LongestThere - 1, LongestThere} : 0 < k /\ k <= LongestThere}}
Fits(v) == (v = Null /\ column.nullable) \/ v \in Values

\* Texts callers set: those values, one beyond all bounds, and the boundary.
GivenTexts ==
  Values \union {Repeated("b", capacity + 1)}
    \union (IF "exact" \in faults THEN {Repeated("b", capacity)} ELSE {})
    \union (IF "empty" \in faults THEN {<< >>} ELSE {})

-----------------------------------------------------------------------------
(* What is read. *)

FirstZero == {i \in 1 .. capacity : buffer[i] = Zero /\ \A j \in 1 .. i - 1 : buffer[j] # Zero}

\* A text up to the first zero: there may be none in the buffer.
Terminated ==
  IF FirstZero = {} THEN Beyond ELSE SubSeq(buffer, 1, (CHOOSE i \in FirstZero : TRUE) - 1)

\* As long as the indicator says.
Counted == IF cb > capacity THEN Beyond ELSE SubSeq(buffer, 1, cb)

\* GetString and GetWString look at NULL only, and trust the zero; bytes are read
\* with GetBuffer and GetCb.
ProgramReads ==
  CASE cb = NULL_DATA                    -> Null
    [] cb # NULL_DATA /\ cType = "BINARY" -> Counted
    [] OTHER                             -> Terminated

\* The driver looks at the indicator.
DriverReads ==
  CASE cb = NULL_DATA -> Null
    [] cb = NTS       -> Terminated
    [] cb >= 0        -> Counted

-----------------------------------------------------------------------------
(* What is written. *)

Overlaid(units) == [i \in 1 .. capacity |-> IF i <= Len(units) THEN units[i] ELSE buffer[i]]

\* Slip: the terminating zero is left to those who have cleared the buffer.
TextUnterminated(units) == Overlaid(units)

\* SetValue of a text: the elements beyond the zero stay.
Text(units) == Overlaid(Append(units, Zero))

CutOff(units) == IF Len(units) < capacity THEN units ELSE SubSeq(units, 1, capacity - 1)

Unchanged == UNCHANGED <<column, cType, capacity, faults>>
Throws == UNCHANGED vars

\* SetString and SetWString: what does not fit is refused, but a text that leaves
\* no room for the zero has been copied by then.  value.back() of an empty vector
\* is undefined.
SetString(text) ==
  /\ cType # "BINARY" /\ capacity > 0 /\ ~ended
  /\ LET units == Units(text) IN
       \/ Len(units) > capacity /\ Throws
       \/ /\ Len(units) = capacity
          /\ buffer' = Overlaid(units)
          /\ Unchanged /\ UNCHANGED <<cb, stored, meant, ended>>
       \/ /\ units # << >> /\ Len(units) < capacity
          /\ buffer' = Text(units) /\ cb' = NTS
          /\ meant' = text
          /\ Unchanged /\ UNCHANGED <<stored, ended>>
       \/ units = << >> /\ ended' = TRUE /\ Unchanged /\ UNCHANGED <<buffer, cb, stored, meant>>

\* SetValue of bytes.
SetBinary(bytes) ==
  /\ cType = "BINARY" /\ capacity > 0 /\ ~ended
  /\ \/ Len(bytes) > capacity /\ Throws
     \/ /\ Len(bytes) <= capacity
        /\ buffer' = Overlaid(bytes) /\ cb' = Len(bytes)
        /\ meant' = bytes
        /\ Unchanged /\ UNCHANGED <<stored, ended>>

\* SetNull of the buffer; Table and ColumnBufferWrapper refuse for columns that
\* are not nullable.
SetNull ==
  /\ capacity > 0 /\ ~ended
  /\ cb' = NULL_DATA /\ meant' = Null
  /\ Unchanged /\ UNCHANGED <<buffer, stored, ended>>

SetColumnNull == IF column.nullable THEN SetNull ELSE capacity > 0 /\ ~ended /\ Throws

\* Table::SetColumnNTS and SetColumnLengthIndicator.
SetColumnLengthIndicator ==
  /\ "indicator" \in faults /\ capacity > 0 /\ ~ended
  /\ cb' \in {NTS, 0, capacity, capacity + 1}
  /\ Unchanged /\ UNCHANGED <<buffer, stored, meant, ended>>

\* The driver writes a row: NULL leaves the array alone; a text is terminated, and
\* cut off if need be, while the indicator has its full length.  SelectNext takes
\* SQL_SUCCESS_WITH_INFO for success.
Fetch ==
  /\ capacity > 0 /\ ~ended
  /\ LET units == Units(stored) IN
       \/ stored = Null /\ cb' = NULL_DATA /\ UNCHANGED buffer
       \/ /\ stored # Null
          /\ cb' = Len(units)
          /\ buffer' = IF cType = "BINARY" THEN Overlaid(units)
                                           ELSE Text(CutOff(units))
  /\ meant' = stored
  /\ Unchanged /\ UNCHANGED <<stored, ended>>

\* Insert or Update, with the buffer as a parameter: the database refuses what the
\* column cannot hold.
Write ==
  /\ capacity > 0 /\ ~ended
  /\ LET sent == {v \in Values \union {Null} : DriverReads = (IF v = Null THEN v ELSE Units(v))} IN
       \/ \E v \in sent : Fits(v) /\ stored' = v /\ Unchanged /\ UNCHANGED <<buffer, cb, meant, ended>>
       \/ ~(\E v \in sent : Fits(v)) /\ Throws

\* Others change the row.
StoredChanges ==
  /\ ~ended
  /\ \E v \in Values \union {Null} : Fits(v) /\ stored' = v
  /\ Unchanged /\ UNCHANGED <<buffer, cb, meant, ended>>

Ended == ended /\ UNCHANGED vars

\* A buffer of its own that a caller has made: too short, but for one unit.
Init ==
  /\ faults \in FaultSets
  /\ column \in Columns /\ cType \in CTypes
  /\ cType = "BINARY" => column.type \in Binaries
  /\ capacity = IF "short" \in faults THEN NrOfElements(2) ELSE CreatedElements(column, cType)
  /\ buffer = Repeated(Zero, capacity) /\ cb = NULL_DATA
  /\ stored \in {v \in Values \union {Null} : Fits(v)}
  /\ meant = Null /\ ended = FALSE

Next ==
  \/ \E t \in GivenTexts : SetString(t) \/ SetBinary(t)
  \/ SetNull \/ SetColumnNull \/ SetColumnLengthIndicator
  \/ Fetch \/ Write \/ StoredChanges \/ Ended

Spec == Init /\ [][Next]_vars

-----------------------------------------------------------------------------
(* What makes it correct. *)

Without(kinds) == faults \cap kinds = {}

TypeOK ==
  /\ faults \in FaultSets
  /\ column \in Columns /\ cType \in CTypes
  /\ Len(buffer) = capacity
  /\ cb >= 0 \/ cb \in {NULL_DATA, NTS}
  /\ ended \in BOOLEAN

\* Whatever has been set, refused, fetched and overwritten in whatever order, the
\* program reads, and the driver would send, exactly the value set or fetched last,
\* nothing left of an earlier one and nothing beyond the buffer; a buffer the
\* library has made for the column has room for all it can hold, if each character
\* is one element; there is no buffer rather than a short one if its size overflows.
ValueKept ==
  (capacity > 0 /\ Without({"short", "exact", "empty", "indicator"} \union IF cType = "CHAR" THEN {"wide"} ELSE {})) =>
    LET units == IF meant = Null THEN Null ELSE Units(meant) IN
      ProgramReads = units /\ DriverReads = units /\ ~ended
=============================================================================
