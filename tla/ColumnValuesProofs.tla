------------------------- MODULE ColumnValuesProofs -------------------------
(***************************************************************************)
(* What a column of characters or bytes promises, for any width of the     *)
(* integers and any columns: the buffer the library creates has room for   *)
(* every value of the column, and what is read is what was set or fetched  *)
(* last.                                                                   *)
(***************************************************************************)
EXTENDS ColumnValues, TLAPS

(* The integers of the code. *)

LEMMA Wraps ==
  ASSUME NEW n \in Nat, n <= 2 * IntMax + 1
  PROVE  Wrapped(n) = IF n <= IntMax THEN n ELSE n - 2 * (IntMax + 1)
<1> DEFINE W == 2 * (IntMax + 1)
<1>1. IntMax \in Nat /\ W \in Nat /\ W > 0
  BY IntMaxAssumption
<1>3. CASE n <= IntMax
  BY <1>1, <1>3 DEF Wrapped
<1>4. CASE n > IntMax
  BY <1>1, <1>4 DEF Wrapped
<1> QED BY <1>1, <1>3, <1>4

\* What the columns of a database are.
AColumn == [type : STRING, size : 0 .. IntMax \union {NoTotal}, radix : Nat, digits : Nat, nullable : BOOLEAN]

LEMMA DisplaySizes ==
  ASSUME NEW col \in AColumn
  PROVE  CalculateDisplaySize(col) \in Int \ {NoTotal}
<1>1. /\ col.size \in 0 .. IntMax \union {NoTotal} /\ col.digits \in Nat
      /\ IntMax \in Nat /\ IntMax > 6 /\ Fallback \in 1 .. IntMax /\ NoTotal = -4
  BY IntMaxAssumption, FallbackAssumption DEF AColumn, NoTotal
<1>2. \A n \in Nat : n <= IntMax + 3 => Wrapped(n) \in Int /\ Wrapped(n) # NoTotal
  <2> SUFFICES ASSUME NEW n \in Nat, n <= IntMax + 3 PROVE Wrapped(n) \in Int /\ Wrapped(n) # NoTotal
    OBVIOUS
  <2>1. n <= 2 * IntMax + 1
    BY <1>1
  <2> QED BY <1>1, <2>1, Wraps
<1>3. \A l \in Nat : l <= IntMax => Wrapped(l * 2 + 1) \in Int /\ Wrapped(l * 2 + 1) # NoTotal
  <2> SUFFICES ASSUME NEW l \in Nat, l <= IntMax
               PROVE  Wrapped(l * 2 + 1) \in Int /\ Wrapped(l * 2 + 1) # NoTotal
    OBVIOUS
  <2> DEFINE n == l * 2 + 1
  <2>1. n \in Nat /\ n <= 2 * IntMax + 1 /\ n - 2 * (IntMax + 1) # -4
    BY <1>1
  <2> HIDE DEF n
  <2>2. Wrapped(n) = IF n <= IntMax THEN n ELSE n - 2 * (IntMax + 1)
    BY <2>1, Wraps
  <2>3. Wrapped(n) \in Int /\ Wrapped(n) # NoTotal
    BY <1>1, <2>1, <2>2
  <2> QED BY <2>3 DEF n
<1>4. \A t \in DOMAIN FixedSize : FixedSize[t] \in Nat
  BY DEF FixedSize
<1>5. CASE col.size # NoTotal
  BY <1>1, <1>2, <1>3, <1>4, <1>5 DEF CalculateDisplaySize
<1>6. CASE col.size = NoTotal
  BY <1>1, <1>2, <1>3, <1>4, <1>6 DEF CalculateDisplaySize
<1> QED BY <1>5, <1>6

(* The buffer the library creates, if it does, has room for what the column holds
   and, as a text, for the zero. *)
LEMMA Room ==
  ASSUME NEW col \in AColumn, NEW c \in {"CHAR", "WCHAR", "BINARY"},
         c = "BINARY" => col.type \in Binaries,
         CreatedElements(col, c) > 0
  PROVE  LET longest == Longest(IF col.size = NoTotal THEN [col EXCEPT !.size = Fallback] ELSE col, c) IN
           longest \in Int /\ longest + (IF c = "BINARY" THEN 0 ELSE 1) <= CreatedElements(col, c)
<1> DEFINE size == IF col.size = NoTotal THEN Fallback ELSE col.size
           there == IF col.size = NoTotal THEN [col EXCEPT !.size = Fallback] ELSE col
<1>1. /\ col.size \in 0 .. IntMax \union {NoTotal} /\ col.digits \in Nat
      /\ IntMax \in Nat /\ IntMax > 6 /\ Fallback \in 1 .. IntMax /\ NoTotal = -4
  BY IntMaxAssumption, FallbackAssumption DEF AColumn, NoTotal
<1>2. there.size = size /\ there.type = col.type /\ there.digits = col.digits /\ size \in 0 .. IntMax
  BY <1>1 DEF AColumn
<1> HIDE DEF there
<1>3. CASE c = "BINARY"
  <2>1. CreatedElements(col, c) = NrOfElements(col.size)
    BY <1>3 DEF CreatedElements
  <2>2. CreatedElements(col, c) = size
    BY <1>1, <2>1 DEF NrOfElements
  <2>3. Longest(there, c) = size
    BY <1>2, <1>3 DEF Longest,
         Characters, Decimals, Binaries, Dates, Times, Timestamps, FixedSize
  <2> QED BY <1>2, <1>3, <2>2, <2>3 DEF there
<1>4. CASE c # "BINARY"
  <2> DEFINE d == CalculateDisplaySize(col)
  <2>1. CreatedElements(col, c) = d /\ d > 0 /\ d \in Int
    BY <1>4, DisplaySizes DEF CreatedElements, NrOfElements
  <2>2. \A n \in Nat : (n <= 2 * IntMax + 1 /\ Wrapped(n) > 0) => Wrapped(n) = n
    BY <1>1, Wraps
  <2>3. CASE col.type \in Characters
    <3>1. col.size > 0 /\ d = Wrapped(col.size + 1)
      BY <2>1, <2>3 DEF CalculateDisplaySize,
         Characters, Decimals, Binaries, Dates, Times, Timestamps, FixedSize
    <3>2. d = col.size + 1
      BY <1>1, <2>1, <2>2, <3>1
    <3>3. Longest(there, c) = size
      BY <1>2, <2>3 DEF Longest,
         Characters, Decimals, Binaries, Dates, Times, Timestamps, FixedSize
    <3> QED BY <1>1, <1>4, <2>1, <3>1, <3>2, <3>3 DEF there
  <2>4. CASE col.type \in Decimals
    <3>1. col.size > 0 /\ d = Wrapped(col.size + 2 + 1)
      BY <2>1, <2>4 DEF CalculateDisplaySize,
         Characters, Decimals, Binaries, Dates, Times, Timestamps, FixedSize
    <3>2. d = col.size + 3
      BY <1>1, <2>1, <2>2, <3>1
    <3>3. Longest(there, c) = size + 2
      BY <1>2, <1>4, <2>4 DEF Longest,
         Characters, Decimals, Binaries, Dates, Times, Timestamps, FixedSize
    <3> QED BY <1>1, <1>4, <2>1, <3>1, <3>2, <3>3 DEF there
  <2>5. CASE col.type \in DOMAIN FixedSize
    <3>1. d = FixedSize[col.type]
      BY <2>1, <2>5 DEF CalculateDisplaySize,
         Characters, Decimals, Binaries, Dates, Times, Timestamps, FixedSize
    <3>2. Longest(there, c) = LongestFixed[col.type]
      BY <1>2, <1>4, <2>5 DEF Longest,
         Characters, Decimals, Binaries, Dates, Times, Timestamps, FixedSize
    <3>3. LongestFixed[col.type] \in Nat /\ LongestFixed[col.type] + 1 <= FixedSize[col.type]
      BY <2>5 DEF LongestFixed, FixedSize
    <3> QED BY <1>4, <2>1, <3>1, <3>2, <3>3 DEF there
  <2>6. CASE col.type \in Binaries
    <3>1. size > 0 /\ d = Wrapped(size * 2 + 1)
      BY <2>1, <2>6 DEF CalculateDisplaySize,
         Characters, Decimals, Binaries, Dates, Times, Timestamps, FixedSize
    <3>2. d = size * 2 + 1
      BY <1>1, <1>2, <2>1, <2>2, <3>1
    <3>3. Longest(there, c) = size * 2
      BY <1>2, <1>4, <2>6 DEF Longest,
         Characters, Decimals, Binaries, Dates, Times, Timestamps, FixedSize
    <3> QED BY <1>1, <1>2, <1>4, <2>1, <3>2, <3>3 DEF there
  <2>7. CASE col.type \in Dates
    <3>1. d = 12 /\ Longest(there, c) = 10
      BY <1>2, <1>4, <2>1, <2>7 DEF CalculateDisplaySize, Longest,
         Characters, Decimals, Binaries, Dates, Times, Timestamps, FixedSize
    <3> QED BY <1>4, <2>1, <3>1 DEF there
  <2>8. CASE col.type \in Times
    <3>1. /\ d = IF col.digits = 0 THEN 9 ELSE 10 + col.digits
          /\ Longest(there, c) = IF col.digits = 0 THEN 8 ELSE 9 + col.digits
      BY <1>1, <1>2, <1>4, <2>1, <2>8 DEF CalculateDisplaySize, Longest,
         Characters, Decimals, Binaries, Dates, Times, Timestamps, FixedSize
    <3> QED BY <1>1, <1>4, <2>1, <3>1 DEF there
  <2>9. CASE col.type \in Timestamps
    <3>1. /\ d = IF col.digits = 0 THEN 20 ELSE 21 + col.digits
          /\ Longest(there, c) = IF col.digits = 0 THEN 19 ELSE 20 + col.digits
      BY <1>1, <1>2, <1>4, <2>1, <2>9 DEF CalculateDisplaySize, Longest,
         Characters, Decimals, Binaries, Dates, Times, Timestamps, FixedSize
    <3> QED BY <1>1, <1>4, <2>1, <3>1 DEF there
  <2>10. col.type \in Characters \union Decimals \union DOMAIN FixedSize \union Binaries \union Dates
                        \union Times \union Timestamps
    BY <2>1 DEF CalculateDisplaySize
  <2> QED BY <2>3, <2>4, <2>5, <2>6, <2>7, <2>8, <2>9, <2>10
<1> QED BY <1>3, <1>4

-----------------------------------------------------------------------------
(* The invariant. *)

Disciplined ==
  capacity > 0 /\ Without({"short", "exact", "empty", "indicator"}
                            \union IF cType = "CHAR" THEN {"wide"} ELSE {})

\* What never changes, and the row of the database.
Fixed ==
  /\ column \in Columns /\ cType \in CTypes /\ (cType = "BINARY" => column.type \in Binaries)
  /\ "short" \notin faults => capacity = CreatedElements(column, cType)
  /\ stored \in Values \union {Null}

Symbols == {Narrow, Wide, "b", Zero}

(* The value set or fetched last is in the array from its start, whatever is behind
   it; the indicator tells where it ends, or that there is a zero where it ends. *)
Held ==
  \/ meant = Null /\ cb = NULL_DATA
  \/ /\ meant \in Values /\ \A i \in 1 .. Len(meant) : buffer[i] = meant[i]
     /\ cType = "BINARY" => cb = Len(meant)
     /\ cType # "BINARY" => cb \in {NTS, Len(meant)} /\ buffer[Len(meant) + 1] = Zero

Kept == ~ended /\ buffer \in Seq(Symbols) /\ Len(buffer) = capacity /\ Held

IInv == Fixed /\ (Disciplined => Kept)

LEMMA CapacityTyped == ASSUME Fixed, Disciplined PROVE capacity \in Nat \ {0}
<1>1. column \in AColumn
  BY ColumnsAssumption DEF AColumn, Fixed
<1>2. CreatedElements(column, cType) \in Int
  <2>1. CalculateDisplaySize(column) \in Int
    BY <1>1, DisplaySizes
  <2>2. column.size \in Int
    BY <1>1, IntMaxAssumption DEF AColumn, NoTotal
  <2> QED BY <2>1, <2>2, FallbackAssumption, IntMaxAssumption DEF CreatedElements, NrOfElements
<1>3. capacity = CreatedElements(column, cType) /\ capacity > 0
  BY DEF Fixed, Disciplined, Without
<1> QED BY <1>2, <1>3

(* What the values of the column are, as long as one character is one unit. *)
LEMMA ValueTyped ==
  ASSUME Fixed, Disciplined, NEW v \in Values
  PROVE  /\ v \in Seq(Symbols \ {Zero}) /\ v # Null /\ Units(v) = v
         /\ Len(v) \in Nat \ {0} /\ DOMAIN v = 1 .. Len(v)
         /\ Len(v) + (IF cType = "BINARY" THEN 0 ELSE 1) <= capacity
<1>1. column \in AColumn /\ cType \in {"CHAR", "WCHAR", "BINARY"}
  BY ColumnsAssumption, CTypesAssumption DEF AColumn, Fixed
<1>2. capacity = CreatedElements(column, cType) /\ capacity > 0
  BY DEF Fixed, Disciplined, Without
<1>3. LongestThere \in Int /\ LongestThere + (IF cType = "BINARY" THEN 0 ELSE 1) <= capacity
  BY <1>1, <1>2, Room DEF Fixed, LongestThere
<1>4. PICK c \in Letters, n \in {k \in {1, 2, LongestThere - 1, LongestThere} : 0 < k /\ k <= LongestThere} :
        v = Repeated(c, n)
  BY DEF Values
<1>5. n \in Nat \ {0} /\ n <= LongestThere
  BY <1>3, <1>4
<1>6. c \in Symbols \ {Zero} /\ c # "NULL"
  BY CharactersAssumption DEF Letters, Symbols, Zero
<1>7. v = [i \in 1 .. n |-> c]
  BY <1>4 DEF Repeated
<1> HIDE DEF Symbols, Zero
<1>8. v \in Seq(Symbols \ {Zero}) /\ Len(v) = n /\ DOMAIN v = 1 .. n /\ v[1] = c
  BY <1>5, <1>6, <1>7
<1>9. v # Null
  BY <1>6, <1>8 DEF Null
<1>10. Units(v) = v
  <2>1. cType = "CHAR" => c # Wide
    BY <1>4, CharactersAssumption DEF Letters, Disciplined, Without
  <2>2. Wide \in Range(v) => c = Wide
    BY <1>7 DEF Range
  <2> QED BY <2>1, <2>2 DEF Units
<1>11. capacity \in Int
  BY CapacityTyped
<1>12. n + (IF cType = "BINARY" THEN 0 ELSE 1) <= capacity
  BY <1>3, <1>5, <1>11
<1> QED BY <1>5, <1>8, <1>9, <1>10, <1>12

LEMMA BeyondTyped ==
  ASSUME Fixed, Disciplined, NEW t \in GivenTexts
  PROVE  t \in Values \/ (Units(t) = t /\ Len(t) = capacity + 1 /\ t # << >>)
<1>1. t \in Values \/ t = Repeated("b", capacity + 1)
  BY DEF GivenTexts, Disciplined, Without
<1>2. CASE t = Repeated("b", capacity + 1)
  <2>1. t = [i \in 1 .. capacity + 1 |-> "b"] /\ capacity \in Nat
    BY <1>2, CapacityTyped DEF Repeated
  <2>2. t \in Seq({"b"}) /\ Len(t) = capacity + 1
    BY <2>1
  <2>3. Wide \notin Range(t)
    BY <2>1, CharactersAssumption DEF Range
  <2> QED BY <2>1, <2>2, <2>3 DEF Units
<1> QED BY <1>1, <1>2

(* An array that has been written from its start. *)
LEMMA OverlaidTyped ==
  ASSUME capacity \in Nat, buffer \in Seq(Symbols), Len(buffer) = capacity,
         NEW u \in Seq(Symbols), Len(u) <= capacity
  PROVE  /\ Overlaid(u) \in Seq(Symbols) /\ Len(Overlaid(u)) = capacity
         /\ \A i \in 1 .. Len(u) : Overlaid(u)[i] = u[i]
<1>1. Overlaid(u) = [i \in 1 .. capacity |-> IF i <= Len(u) THEN u[i] ELSE buffer[i]]
  BY DEF Overlaid
<1>2. \A i \in 1 .. capacity : (IF i <= Len(u) THEN u[i] ELSE buffer[i]) \in Symbols
  OBVIOUS
<1>3. Len(u) \in Nat
  OBVIOUS
<1> QED BY <1>1, <1>2, <1>3

LEMMA TextTyped ==
  ASSUME capacity \in Nat, buffer \in Seq(Symbols), Len(buffer) = capacity,
         NEW u \in Seq(Symbols), Len(u) < capacity
  PROVE  /\ Text(u) \in Seq(Symbols) /\ Len(Text(u)) = capacity
         /\ \A i \in 1 .. Len(u) : Text(u)[i] = u[i]
         /\ Text(u)[Len(u) + 1] = Zero
<1> DEFINE w == Append(u, Zero)
<1>1. Zero \in Symbols
  BY DEF Symbols
<1>2. /\ w \in Seq(Symbols) /\ Len(w) = Len(u) + 1 /\ w[Len(u) + 1] = Zero
      /\ \A i \in 1 .. Len(u) : w[i] = u[i]
  BY <1>1
<1>3. Len(u) \in Nat /\ Len(w) <= capacity
  BY <1>2
<1> HIDE DEF w
<1>4. /\ Overlaid(w) \in Seq(Symbols) /\ Len(Overlaid(w)) = capacity
      /\ \A i \in 1 .. Len(w) : Overlaid(w)[i] = w[i]
  BY <1>2, <1>3, OverlaidTyped
<1> QED BY <1>2, <1>3, <1>4 DEF Text, w

-----------------------------------------------------------------------------
(* Reading: the first zero is where the value ends. *)

LEMMA Reads ==
  ASSUME Fixed, Disciplined, Kept
  PROVE  LET units == IF meant = Null THEN Null ELSE Units(meant) IN
           ProgramReads = units /\ DriverReads = units
<1>1. CASE meant = Null /\ cb = NULL_DATA
  BY <1>1 DEF ProgramReads, DriverReads, NULL_DATA, NTS
<1>2. CASE /\ meant \in Values /\ \A i \in 1 .. Len(meant) : buffer[i] = meant[i]
           /\ cType = "BINARY" => cb = Len(meant)
           /\ cType # "BINARY" => cb \in {NTS, Len(meant)} /\ buffer[Len(meant) + 1] = Zero
  <2>1. /\ meant \in Seq(Symbols \ {Zero}) /\ meant # Null /\ Units(meant) = meant
        /\ Len(meant) \in Nat \ {0} /\ DOMAIN meant = 1 .. Len(meant)
        /\ Len(meant) + (IF cType = "BINARY" THEN 0 ELSE 1) <= capacity /\ capacity \in Nat
    BY <1>2, ValueTyped, CapacityTyped
  <2>2. buffer \in Seq(Symbols) /\ Len(buffer) = capacity
    BY DEF Kept
  <2>3. Len(meant) <= capacity
    BY <2>1
  <2>4. SubSeq(buffer, 1, Len(meant)) = meant
    <3>1. SubSeq(buffer, 1, Len(meant)) = [i \in 1 .. Len(meant) |-> buffer[i]]
      BY <2>1, <2>2, <2>3
    <3>2. meant = [i \in 1 .. Len(meant) |-> meant[i]]
      BY <2>1
    <3> QED BY <1>2, <3>1, <3>2
  <2>5. cb = Len(meant) => Counted = meant
    BY <2>1, <2>3, <2>4 DEF Counted
  <2>6. cType # "BINARY" => Terminated = meant
    <3> SUFFICES ASSUME cType # "BINARY" PROVE Terminated = meant
      OBVIOUS
    <3>1. Len(meant) + 1 \in 1 .. capacity
      BY <2>1
    <3>2. \A j \in 1 .. Len(meant) : buffer[j] # Zero
      BY <1>2, <2>1
    <3>3. FirstZero = {Len(meant) + 1}
      <4>1. Len(meant) + 1 \in FirstZero
        BY <1>2, <2>1, <3>1, <3>2 DEF FirstZero
      <4>2. ASSUME NEW i \in FirstZero PROVE i = Len(meant) + 1
        <5>1. i \in 1 .. capacity /\ buffer[i] = Zero /\ \A j \in 1 .. i - 1 : buffer[j] # Zero
          BY DEF FirstZero
        <5>2. ~(i <= Len(meant))
          BY <3>2, <5>1
        <5>3. ~(i > Len(meant) + 1)
          BY <1>2, <2>1, <5>1
        <5> QED BY <2>1, <5>1, <5>2, <5>3
      <4> QED BY <4>1, <4>2
    <3>4. Terminated = SubSeq(buffer, 1, Len(meant) + 1 - 1)
      BY <3>3 DEF Terminated
    <3>5. Len(meant) + 1 - 1 = Len(meant)
      BY <2>1
    <3> QED BY <2>4, <3>4, <3>5
  <2>7. cb # NULL_DATA /\ (cb = NTS \/ cb = Len(meant))
    BY <1>2, <2>1 DEF NULL_DATA, NTS
  <2>8. ProgramReads = meant
    BY <1>2, <2>5, <2>6, <2>7 DEF ProgramReads
  <2>9. DriverReads = meant
    <3>1. CASE cb = NTS
      BY <1>2, <2>1, <2>6, <2>7, <3>1 DEF DriverReads, NULL_DATA, NTS
    <3>2. CASE cb = Len(meant)
      BY <2>1, <2>5, <2>7, <3>2 DEF DriverReads, NULL_DATA, NTS
    <3> QED BY <2>7, <3>1, <3>2
  <2> QED BY <2>1, <2>8, <2>9
<1> QED BY <1>1, <1>2 DEF Kept, Held

-----------------------------------------------------------------------------
(* The steps. *)

LEMMA InitIInv == Init => IInv
<1> SUFFICES ASSUME Init PROVE IInv
  OBVIOUS
<1>1. Fixed
  BY DEF Init, Fixed, Fits
<1>2. ASSUME Disciplined PROVE Kept
  <2>1. capacity \in Nat
    BY <1>1, <1>2, CapacityTyped
  <2>2. buffer = [i \in 1 .. capacity |-> Zero] /\ Zero \in Symbols
    BY DEF Init, Repeated, Symbols
  <2> HIDE DEF Zero, Symbols
  <2>3. buffer \in Seq(Symbols) /\ Len(buffer) = capacity
    BY <2>1, <2>2
  <2> QED BY <2>3 DEF Init, Kept, Held
<1> QED BY <1>1, <1>2 DEF IInv

LEMMA Stays ==
  ASSUME Unchanged
  PROVE  Values' = Values /\ Disciplined' = Disciplined
<1>1. column' = column /\ cType' = cType /\ capacity' = capacity /\ faults' = faults
  BY DEF Unchanged
<1>2. LongestThere' = LongestThere /\ Letters' = Letters
  BY <1>1 DEF LongestThere, Letters
<1>3. Values' = Values
  BY <1>2 DEF Values
<1>4. Disciplined' = Disciplined
  BY <1>1 DEF Disciplined, Without
<1> QED BY <1>3, <1>4

LEMMA FixedStays ==
  ASSUME Fixed, Unchanged, stored' \in Values \union {Null}
  PROVE  Fixed'
BY Stays DEF Fixed, Unchanged

(* A step that does not touch the value. *)
LEMMA Untouched ==
  ASSUME Kept, Unchanged, UNCHANGED <<buffer, cb, meant, ended>>
  PROVE  Kept'
<1>1. Values' = Values
  BY Stays
<1>2. buffer' = buffer /\ cb' = cb /\ meant' = meant /\ ended' = ended /\ cType' = cType /\ capacity' = capacity
  BY DEF Unchanged
<1>3. Held'
  BY <1>1, <1>2 DEF Kept, Held
<1> QED BY <1>2, <1>3 DEF Kept

(* A text that the caller sets or the driver writes. *)
LEMMA TextKept ==
  ASSUME Fixed, Disciplined, Kept, Unchanged, cType # "BINARY", NEW v \in Values,
         buffer' = Text(v), cb' \in {NTS, Len(v)}, meant' = v, ended' = ended
  PROVE  Kept'
<1>1. v \in Seq(Symbols) /\ Len(v) \in Nat /\ Len(v) < capacity /\ capacity \in Nat
  BY ValueTyped, CapacityTyped
<1>2. buffer \in Seq(Symbols) /\ Len(buffer) = capacity /\ ~ended
  BY DEF Kept
<1>3. /\ Text(v) \in Seq(Symbols) /\ Len(Text(v)) = capacity
      /\ \A i \in 1 .. Len(v) : Text(v)[i] = v[i]
      /\ Text(v)[Len(v) + 1] = Zero
  BY <1>1, <1>2, TextTyped
<1>4. Values' = Values /\ cType' = cType /\ capacity' = capacity
  BY Stays DEF Unchanged
<1>5. Held'
  BY <1>3, <1>4 DEF Held
<1> QED BY <1>2, <1>3, <1>4, <1>5 DEF Kept

(* Bytes that the caller sets or the driver writes. *)
LEMMA BinaryKept ==
  ASSUME Fixed, Disciplined, Kept, Unchanged, cType = "BINARY", NEW v \in Values,
         buffer' = Overlaid(v), cb' = Len(v), meant' = v, ended' = ended
  PROVE  Kept'
<1>1. v \in Seq(Symbols) /\ Len(v) \in Nat /\ Len(v) <= capacity /\ capacity \in Nat
  BY ValueTyped, CapacityTyped
<1>2. buffer \in Seq(Symbols) /\ Len(buffer) = capacity /\ ~ended
  BY DEF Kept
<1>3. /\ Overlaid(v) \in Seq(Symbols) /\ Len(Overlaid(v)) = capacity
      /\ \A i \in 1 .. Len(v) : Overlaid(v)[i] = v[i]
  BY <1>1, <1>2, OverlaidTyped
<1>4. Values' = Values /\ cType' = cType /\ capacity' = capacity
  BY Stays DEF Unchanged
<1>5. Held'
  BY <1>3, <1>4 DEF Held
<1> QED BY <1>2, <1>3, <1>4, <1>5 DEF Kept

LEMMA SetStringKept ==
  ASSUME Fixed, Disciplined, Kept, NEW t \in GivenTexts, SetString(t)
  PROVE  Unchanged /\ stored' = stored /\ Kept'
<1>1. capacity \in Nat /\ cType # "BINARY"
  BY CapacityTyped DEF SetString
<1>2. CASE t \in Values
  <2>1. Units(t) = t /\ t # << >> /\ Len(t) \in Nat /\ Len(t) < capacity
    BY <1>1, <1>2, ValueTyped
  <2>2. buffer' = Text(t) /\ cb' = NTS /\ meant' = t /\ Unchanged /\ stored' = stored /\ ended' = ended
    BY <1>1, <2>1 DEF SetString
  <2> QED BY <1>1, <1>2, <2>2, TextKept
<1>3. CASE Units(t) = t /\ Len(t) = capacity + 1 /\ t # << >>
  <2>1. UNCHANGED vars
    BY <1>1, <1>3 DEF SetString, Throws
  <2>2. Unchanged /\ UNCHANGED <<buffer, cb, stored, meant, ended>>
    BY <2>1 DEF vars, Unchanged
  <2> QED BY <2>2, Untouched
<1> QED BY <1>2, <1>3, BeyondTyped

LEMMA SetBinaryKept ==
  ASSUME Fixed, Disciplined, Kept, NEW t \in GivenTexts, SetBinary(t)
  PROVE  Unchanged /\ stored' = stored /\ Kept'
<1>1. capacity \in Nat /\ cType = "BINARY"
  BY CapacityTyped DEF SetBinary
<1>2. CASE t \in Values
  <2>1. Len(t) \in Nat /\ Len(t) <= capacity
    BY <1>1, <1>2, ValueTyped
  <2>2. buffer' = Overlaid(t) /\ cb' = Len(t) /\ meant' = t /\ Unchanged /\ stored' = stored /\ ended' = ended
    BY <1>1, <2>1 DEF SetBinary
  <2> QED BY <1>1, <1>2, <2>2, BinaryKept
<1>3. CASE Len(t) = capacity + 1
  <2>1. UNCHANGED vars
    BY <1>1, <1>3 DEF SetBinary, Throws
  <2>2. Unchanged /\ UNCHANGED <<buffer, cb, stored, meant, ended>>
    BY <2>1 DEF vars, Unchanged
  <2> QED BY <2>2, Untouched
<1> QED BY <1>2, <1>3, BeyondTyped

LEMMA NullKept ==
  ASSUME Kept, Unchanged, UNCHANGED <<buffer, ended>>, cb' = NULL_DATA, meant' = Null
  PROVE  Kept'
<1>1. Held'
  BY DEF Held
<1> QED BY <1>1 DEF Kept, Unchanged

LEMMA FetchKept ==
  ASSUME Fixed, Disciplined, Kept, Fetch
  PROVE  Kept'
<1>1. meant' = stored /\ Unchanged /\ stored' = stored /\ ended' = ended
  BY DEF Fetch
<1>2. CASE stored = Null
  <2>1. cb' = NULL_DATA /\ buffer' = buffer
    BY <1>2 DEF Fetch
  <2> QED BY <1>1, <1>2, <2>1, NullKept
<1>3. CASE stored # Null
  <2>1. stored \in Values
    BY <1>3 DEF Fixed
  <2>2. /\ Units(stored) = stored /\ Len(stored) \in Nat
        /\ Len(stored) + (IF cType = "BINARY" THEN 0 ELSE 1) <= capacity /\ capacity \in Nat
    BY <2>1, ValueTyped, CapacityTyped
  <2>3. cb' = Len(stored) /\ buffer' = IF cType = "BINARY" THEN Overlaid(stored) ELSE Text(CutOff(stored))
    BY <1>3, <2>2 DEF Fetch
  <2>4. CASE cType = "BINARY"
    BY <1>1, <2>1, <2>3, <2>4, BinaryKept
  <2>5. CASE cType # "BINARY"
    <3>1. CutOff(stored) = stored
      BY <2>2, <2>5 DEF CutOff
    <3> QED BY <1>1, <2>1, <2>3, <2>5, <3>1, TextKept
  <2> QED BY <2>4, <2>5
<1> QED BY <1>2, <1>3

LEMMA StepIInv == IInv /\ [Next]_vars => IInv'
<1> SUFFICES ASSUME IInv, [Next]_vars PROVE IInv'
  OBVIOUS
<1> USE DEF IInv
<1>1. ASSUME UNCHANGED vars PROVE IInv'
  <2>1. Unchanged /\ UNCHANGED <<buffer, cb, stored, meant, ended>>
    BY <1>1 DEF vars, Unchanged
  <2> QED BY <2>1, Stays, FixedStays, Untouched DEF Fixed
<1>2. ASSUME NEW t \in GivenTexts, SetString(t) \/ SetBinary(t) PROVE IInv'
  <2>1. Unchanged /\ stored' = stored
    BY <1>1, <1>2 DEF SetString, SetBinary, Throws, vars, Unchanged
  <2> QED BY <1>2, <2>1, Stays, FixedStays, SetStringKept, SetBinaryKept DEF Fixed
<1>3. ASSUME SetNull PROVE IInv'
  <2>1. Unchanged /\ UNCHANGED <<buffer, stored, ended>> /\ cb' = NULL_DATA /\ meant' = Null
    BY <1>3 DEF SetNull
  <2> QED BY <2>1, Stays, FixedStays, NullKept DEF Fixed
<1>4. ASSUME SetColumnNull PROVE IInv'
  BY <1>1, <1>3, <1>4 DEF SetColumnNull, Throws
<1>5. ASSUME SetColumnLengthIndicator PROVE IInv'
  <2>1. Unchanged /\ stored' = stored
    BY <1>5 DEF SetColumnLengthIndicator
  <2>2. ~Disciplined
    BY <1>5 DEF SetColumnLengthIndicator, Disciplined, Without
  <2> QED BY <2>1, <2>2, Stays, FixedStays DEF Fixed
<1>6. ASSUME Fetch PROVE IInv'
  <2>1. Unchanged /\ stored' = stored
    BY <1>6 DEF Fetch
  <2> QED BY <1>6, <2>1, Stays, FixedStays, FetchKept DEF Fixed
<1>7. ASSUME Write PROVE IInv'
  <2>1. CASE UNCHANGED vars
    BY <1>1, <2>1
  <2>2. CASE ~ UNCHANGED vars
    <3>1. Unchanged /\ UNCHANGED <<buffer, cb, meant, ended>> /\ stored' \in Values \union {Null}
      BY <1>7, <2>2 DEF Write, Throws, Fits
    <3> QED BY <3>1, Stays, FixedStays, Untouched
  <2> QED BY <2>1, <2>2
<1>8. ASSUME StoredChanges PROVE IInv'
  <2>1. Unchanged /\ UNCHANGED <<buffer, cb, meant, ended>> /\ stored' \in Values \union {Null}
    BY <1>8 DEF StoredChanges
  <2> QED BY <2>1, Stays, FixedStays, Untouched
<1>9. ASSUME Ended PROVE IInv'
  BY <1>1, <1>9 DEF Ended
<1> QED BY <1>1, <1>2, <1>3, <1>4, <1>5, <1>6, <1>7, <1>8, <1>9 DEF Next

LEMMA Invariance == Spec => []IInv
BY InitIInv, StepIInv, PTL DEF Spec

-----------------------------------------------------------------------------
(* The results. *)

(* Whatever is set, refused, fetched and overwritten, the program reads, and the
   driver would send, the value set or fetched last (ColumnBuffer.h, SetString,
   SetBinary and SetNull, and the driver's fetches). *)
THEOREM ValuesAreKept == Spec => []ValueKept
<1>1. IInv => ValueKept
  BY Reads DEF IInv, Kept, ValueKept, Disciplined
<1> QED BY Invariance, <1>1, PTL

RoomForAll ==
  (capacity > 0 /\ "short" \notin faults) => LongestThere + (IF cType = "BINARY" THEN 0 ELSE 1) <= capacity

(* The buffer that is created for a column has room for every value the column can
   hold, and for the zero behind a text (ColumnBuffer.cpp, CalculateDisplaySize). *)
THEOREM BuffersAreLongEnough == Spec => []RoomForAll
<1>1. IInv => RoomForAll
  <2> SUFFICES ASSUME IInv, capacity > 0, "short" \notin faults
               PROVE  LongestThere + (IF cType = "BINARY" THEN 0 ELSE 1) <= capacity
    BY DEF RoomForAll
  <2>1. column \in AColumn /\ cType \in {"CHAR", "WCHAR", "BINARY"}
    BY ColumnsAssumption, CTypesAssumption DEF AColumn, IInv, Fixed
  <2>2. capacity = CreatedElements(column, cType) /\ (cType = "BINARY" => column.type \in Binaries)
    BY DEF IInv, Fixed
  <2> QED BY <2>1, <2>2, Room DEF LongestThere
<1> QED BY Invariance, <1>1, PTL
=============================================================================
