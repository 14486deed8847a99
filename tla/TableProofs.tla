----------------------------- MODULE TableProofs -----------------------------
(***************************************************************************)
(* Proofs about Table, for any columns, keys, access flags and faults:     *)
(* statements, prepared texts, buffers and key columns of an open table    *)
(* are what was asked for, through any history of opening and failing.     *)
(***************************************************************************)
EXTENDS Table, FiniteSetTheorems, TLAPS

\* A map of columns as m_columns may be.
ColumnsOK(cols) == DOMAIN cols \subseteq Indexes /\ \A i \in DOMAIN cols : cols[i] \in Column

-----------------------------------------------------------------------------
(* Lemmas about the operators. *)

LEMMA StmtNames == Stmts = {"update", "delete", "select", "insert", "count"}
<1>1. DOMAIN PrepareOrder = 1 .. 4
  BY DEF PrepareOrder
<1>2. ToSet(PrepareOrder) = {PrepareOrder[i] : i \in 1 .. 4}
  BY <1>1 DEF ToSet
<1>3. ToSet(PrepareOrder) = {"update", "delete", "select", "insert"}
  BY <1>2 DEF PrepareOrder
<1> QED BY <1>3 DEF Stmts

\* What is prepared is needed, and is needed for the flags.
LEMMA PreparedIsNeeded == Prepares \subseteq Needed /\ Needed \subseteq Stmts
BY DEF Prepares, Needed, PkStmts

\* Each index has a name: as many columns come before the i-th as there are
\* indexes below i.
LEMMA NamesExist ==
  ASSUME NEW i \in 0 .. Cardinality(Mapped) - 1
  PROVE  \E n \in Mapped : Cardinality({m \in Mapped : m < n}) = i
<1> DEFINE Below(n) == {m \in Mapped : m < n}
           rank == [n \in Mapped |-> Cardinality(Below(n))]
           K == Cardinality(Mapped)
<1>1. IsFiniteSet(Mapped) /\ K \in Nat /\ Mapped \subseteq Int
  BY IndexesAssumption, FS_Subset, FS_CardinalityType DEF Mapped
<1>2. \A n \in Mapped : IsFiniteSet(Below(n)) /\ Cardinality(Below(n)) \in 0 .. K - 1
  <2> TAKE n \in Mapped
  <2>1. Below(n) \subseteq Mapped /\ n \notin Below(n)
    BY <1>1
  <2>2. IsFiniteSet(Below(n)) /\ Cardinality(Below(n)) <= K /\ Cardinality(Below(n)) # K
        /\ Cardinality(Below(n)) \in Nat
    BY <1>1, <2>1, FS_Subset, FS_CardinalityType
  <2> QED BY <1>1, <2>2
<1>3. \A n, m \in Mapped : m < n => rank[m] # rank[n]
  <2> SUFFICES ASSUME NEW n \in Mapped, NEW m \in Mapped, m < n PROVE rank[m] # rank[n]
    OBVIOUS
  <2>1. m \in Below(n) /\ m \notin Below(m)
    BY <1>1
  <2>2. \A k \in Mapped : k < m => k < n
    BY <1>1
  <2>3. Below(m) \subseteq Below(n)
    BY <2>2
  <2>4. Cardinality(Below(m)) # Cardinality(Below(n))
    BY <1>2, <2>1, <2>3, FS_Subset
  <2> QED BY <2>4
<1>4. rank \in Injection(Mapped, 0 .. K - 1)
  <2>1. rank \in [Mapped -> 0 .. K - 1]
    BY <1>2
  <2>2. \A n, m \in Mapped : rank[m] = rank[n] => m = n
    BY <1>1, <1>3
  <2> QED BY <2>1, <2>2 DEF Injection, IsInjective
<1>5. IsFiniteSet(0 .. K - 1) /\ Cardinality(0 .. K - 1) = K
  BY <1>1, FS_Interval
<1>6. rank \in Surjection(Mapped, 0 .. K - 1)
  BY <1>4, <1>5, FS_Injection
<1>7. \E n \in Mapped : rank[n] = i
  BY <1>6 DEF Surjection
<1> QED BY <1>7

\* If no column is left out, the i-th column is the database's i-th.
LEMMA NamesAreIndexes ==
  ASSUME Unmapped = {}, NEW i \in 0 .. Cardinality(Mapped) - 1
  PROVE  NameAt(i) = i
<1>1. Mapped = Indexes /\ Cardinality(Indexes) \in Nat
  BY IndexesAssumption, FS_CardinalityType DEF Mapped
<1>2. NameAt(i) \in Indexes /\ Cardinality({m \in Indexes : m < NameAt(i)}) = i
  BY <1>1, NamesExist DEF NameAt
<1> HIDE DEF NameAt
<1>3. {m \in Indexes : m < NameAt(i)} = 0 .. NameAt(i) - 1 /\ NameAt(i) \in Nat
  BY <1>1, <1>2, IndexesAssumption
<1>4. Cardinality(0 .. NameAt(i) - 1) = NameAt(i)
  BY <1>3, FS_Interval
<1> QED BY <1>2, <1>3, <1>4

\* Columns created automatically: the caller has made none of them, no key is
\* marked, and their flags are those of the access.
LEMMA AutoColumnsOK ==
  /\ ColumnsOK(AutoColumns)
  /\ \A i \in DOMAIN AutoColumns :
       /\ AutoColumns[i].by = "auto" /\ "key" \notin AutoColumns[i].flags
       /\ AutoColumns[i].flags \intersect {"select", "update", "insert"} \subseteq AccessColumnFlags
  /\ Unmapped = {} => ~Skipped(AutoColumns)
<1>1. Mapped \subseteq Indexes /\ IsFiniteSet(Mapped) /\ Cardinality(Mapped) <= Cardinality(Indexes)
      /\ Cardinality(Mapped) \in Nat /\ Cardinality(Indexes) \in Nat
  BY IndexesAssumption, FS_Subset, FS_CardinalityType DEF Mapped
<1>2. DOMAIN AutoColumns = 0 .. Cardinality(Mapped) - 1
  BY DEF AutoColumns
<1>3. DOMAIN AutoColumns \subseteq Indexes
  BY <1>1, <1>2, IndexesAssumption
<1>4. ASSUME NEW i \in DOMAIN AutoColumns
      PROVE  /\ AutoColumns[i] = [name |-> NameAt(i), flags |-> AutoFlags(NameAt(i)), by |-> "auto"]
             /\ NameAt(i) \in Indexes
             /\ Unmapped = {} => NameAt(i) = i
  <2>1. AutoColumns[i] = [name |-> NameAt(i), flags |-> AutoFlags(NameAt(i)), by |-> "auto"]
    BY <1>2, <1>4 DEF AutoColumns
  <2>2. NameAt(i) \in Mapped
    BY <1>2, <1>4, NamesExist DEF NameAt
  <2> QED BY <1>1, <1>2, <1>4, <2>1, <2>2, NamesAreIndexes
<1>5. \A n : /\ AutoFlags(n) \subseteq ColumnFlags /\ "key" \notin AutoFlags(n)
             /\ AutoFlags(n) \intersect {"select", "update", "insert"} \subseteq AccessColumnFlags
  BY DEF AutoFlags, AccessColumnFlags, ColumnFlags
<1> QED BY <1>3, <1>4, <1>5 DEF ColumnsOK, Column, Skipped

\* Marking changes nothing but the mark.
LEMMA MarkKeysOnlyMarks ==
  ASSUME NEW cols, ColumnsOK(cols), NEW I
  PROVE  /\ ColumnsOK(MarkKeys(cols, I))
         /\ DOMAIN MarkKeys(cols, I) = DOMAIN cols
         /\ \A i \in DOMAIN cols :
              /\ MarkKeys(cols, I)[i].name = cols[i].name
              /\ MarkKeys(cols, I)[i].by = cols[i].by
              /\ MarkKeys(cols, I)[i].flags = cols[i].flags \union (IF i \in I THEN {"key"} ELSE {})
BY DEF ColumnsOK, Column, MarkKeys, ColumnFlags

\* The check of the types only takes columns away, and none if the types must fit.
LEMMA CheckedIsPart ==
  ASSUME NEW cols, ColumnsOK(cols), NEW opt
  PROVE  /\ ColumnsOK(CheckedColumns(cols, opt))
         /\ DOMAIN CheckedColumns(cols, opt) \subseteq DOMAIN cols
         /\ \A i \in DOMAIN CheckedColumns(cols, opt) : CheckedColumns(cols, opt)[i] = cols[i]
         /\ TypesAllowed(cols, opt) /\ ~opt.skip => DOMAIN CheckedColumns(cols, opt) = DOMAIN cols
BY DEF ColumnsOK, CheckedColumns, TypesAllowed, Restrict

\* The columns Open creates or finds.
LEMMA CreatedOK ==
  ASSUME ColumnsOK(columns) PROVE ColumnsOK(CreatedColumns)
BY AutoColumnsOK DEF CreatedColumns

LEMMA MarkedOK ==
  ASSUME ColumnsOK(columns), NEW opt
  PROVE  ColumnsOK(Marked(opt)) /\ ColumnsOK(Checked(opt))
BY CreatedOK, MarkKeysOnlyMarks, CheckedIsPart DEF Marked, Checked

\* What the handler of a failing Open leaves is a map of columns, too.
LEMMA AfterFailureOK ==
  ASSUME NEW cols, ColumnsOK(cols), NEW wasAuto
  PROVE  ColumnsOK(ColumnsAfterFailure(cols, wasAuto)) /\ DOMAIN NoColumns = {}
BY DEF ColumnsOK, ColumnsAfterFailure, NoColumns

\* The statements a table can have.
LEMMA FreedOK ==
  ASSUME stmts \in [Stmts -> Stmt]
  PROVE  /\ FreedStmts \in [Stmts -> Stmt]
         /\ \A s \in Stmts : ~FreedStmts[s].init /\ FreedStmts[s].isPrepared = stmts[s].isPrepared
BY DEF FreedStmts, Stmt

LEMMA BoundOK ==
  ASSUME stmts \in [Stmts -> Stmt], NEW cols, ColumnsOK(cols), NEW prepared
  PROVE  BoundStmts(cols, prepared) \in [Stmts -> Stmt]
<1>1. BuffersOf(cols, SelectColumns(cols)) \in SUBSET (Indexes \X {"auto", "caller"})
  BY DEF BuffersOf, SelectColumns, WithFlag, ColumnsOK, Column
<1>2. \A s \in Stmts : BoundStmts(cols, prepared)[s] \in Stmt
  BY <1>1 DEF BoundStmts, Stmt
<1>3. BoundStmts(cols, prepared) = [s \in Stmts |-> BoundStmts(cols, prepared)[s]]
  BY DEF BoundStmts
<1> QED BY <1>2, <1>3

-----------------------------------------------------------------------------
(* Types. *)

\* What every operation keeps of flags and faults.
LEMMA FaultsKept == [Next]_vars => faults' = faults
<1> USE DEF Ended
<1>1. ASSUME NEW opt \in OpenOptions,
             Open(opt) \/ OpenFailsToMark(opt) \/ OpenFailsToCheck(opt) \/ OpenFailsToBind(opt)
               \/ OpenFailsToReset(opt)
      PROVE  faults' = faults
  BY <1>1 DEF Open, OpenFailsToMark, OpenFailsToCheck, OpenFailsToBind, OpenFailsToReset, OpenFailsWith
<1>2. CASE OpenFailsToAllocate \/ OpenFailsToCreate \/ Close \/ CloseFails
  BY <1>2 DEF OpenFailsToAllocate, OpenFailsToCreate, OpenFailsWith, Close, CloseFails
<1> QED
  BY <1>1, <1>2 DEF vars, Next, SetAccessFlags, SetColumn, ClearColumns, ChangeColumnFlag,
     SetColumnPrimaryKeyIndexes, CreateAutoColumnBufferPtrs, Select, SelectByPkValues, Write,
     ExecutePrepared, WriteWhere, TransactionEnds

\* An operation that executes something or does nothing: only statements and the
\* outcome change, and of the statements only what the driver has prepared.
Executes ==
  /\ UNCHANGED <<isOpen, access, pkIndexes, columns, auto, given>>
  /\ \E S \in SUBSET Stmts :
       stmts' = [s \in Stmts |-> IF s \in S THEN [stmts[s] EXCEPT !.drvPrepared = FALSE] ELSE stmts[s]]

LEMMA ExecutionsExecute ==
  ASSUME TypeOK,
         \/ Select \/ SelectByPkValues \/ WriteWhere \/ TransactionEnds \/ UNCHANGED vars
         \/ \E s \in Stmts : Write(s)
  PROVE  Executes
<1> USE DEF TypeOK
<1>1. ASSUME NEW S \in SUBSET Stmts,
             stmts' = [s \in Stmts |-> IF s \in S THEN [stmts[s] EXCEPT !.drvPrepared = FALSE] ELSE stmts[s]],
             UNCHANGED <<isOpen, access, pkIndexes, columns, auto, given>>
      PROVE  Executes
  BY <1>1 DEF Executes
<1>2. CASE Select
  <2>1. {"select"} \in SUBSET Stmts
    BY StmtNames
  <2>2. stmts' = [s \in Stmts |-> IF s \in {"select"} THEN [stmts[s] EXCEPT !.drvPrepared = FALSE] ELSE stmts[s]]
    BY <1>2 DEF Select
  <2> QED BY <1>1, <1>2, <2>1, <2>2 DEF Select
<1>3. CASE TransactionEnds
  BY <1>1, <1>3 DEF TransactionEnds
<1>4. CASE UNCHANGED <<isOpen, access, pkIndexes, columns, auto, given, stmts>>
  <2>1. {} \in SUBSET Stmts /\ stmts' = [s \in Stmts |-> IF s \in {} THEN [stmts[s] EXCEPT !.drvPrepared = FALSE] ELSE stmts[s]]
    BY <1>4
  <2> QED BY <1>1, <1>4, <2>1
<1> QED BY <1>2, <1>3, <1>4 DEF SelectByPkValues, WriteWhere, Write, ExecutePrepared, vars

LEMMA ExecutesKeeps ==
  ASSUME stmts \in [Stmts -> Stmt], Executes
  PROVE  /\ stmts' \in [Stmts -> Stmt]
         /\ \A s \in Stmts : /\ stmts'[s].init = stmts[s].init
                             /\ stmts'[s].isPrepared = stmts[s].isPrepared
                             /\ stmts'[s].outs = stmts[s].outs
<1>1. PICK S : stmts' = [s \in Stmts |-> IF s \in S THEN [stmts[s] EXCEPT !.drvPrepared = FALSE] ELSE stmts[s]]
  BY DEF Executes
<1>2. ASSUME NEW s \in Stmts
      PROVE  LET st == [stmts[s] EXCEPT !.drvPrepared = FALSE] IN
               /\ st \in Stmt /\ st.init = stmts[s].init /\ st.isPrepared = stmts[s].isPrepared
               /\ st.outs = stmts[s].outs
  BY DEF Stmt
<1> QED BY <1>1, <1>2

LEMMA NextTypeOK == TypeOK /\ [Next]_vars => TypeOK'
<1> SUFFICES ASSUME TypeOK, [Next]_vars PROVE TypeOK'
  OBVIOUS
<1> DEFINE Res == {"ok", "failed", "assertion", "42000", "HY010"}
<1>1. /\ ColumnsOK(columns) /\ stmts \in [Stmts -> Stmt] /\ faults' \in FaultSets
      /\ isOpen \in BOOLEAN /\ auto \in BOOLEAN /\ access \subseteq AccessFlags
      /\ pkIndexes \subseteq Indexes /\ given \subseteq Indexes /\ last.res \in Res
  BY FaultsKept DEF TypeOK, ColumnsOK
<1>2. ASSUME isOpen' \in BOOLEAN, auto' \in BOOLEAN, access' \subseteq AccessFlags,
             pkIndexes' \subseteq Indexes, ColumnsOK(columns'), given' \subseteq Indexes,
             stmts' \in [Stmts -> Stmt], last'.res \in Res
      PROVE  TypeOK'
  BY <1>1, <1>2 DEF TypeOK, ColumnsOK
<1> HIDE DEF Res
<1>3. ASSUME NEW op, NEW res \in {"ok", "failed", "assertion", "42000", "HY010"}, Ended(op, res) PROVE last'.res \in Res
  BY <1>3 DEF Ended, Res
<1>4. ASSUME NEW acs \in AccessChoices, SetAccessFlags(acs) PROVE TypeOK'
  <2>1. acs \subseteq AccessFlags
    BY ChoicesAssumption
  <2> QED BY <1>1, <1>2, <1>3, <1>4, <2>1 DEF SetAccessFlags
<1>5. ASSUME NEW i \in Indexes, NEW fs \in FlagChoices, SetColumn(i, fs) PROVE TypeOK'
  <2>1. [name |-> i, flags |-> fs, by |-> "caller"] \in Column
    BY ChoicesAssumption DEF Column
  <2>2. ColumnsOK(columns')
    BY <1>1, <1>5, <2>1 DEF SetColumn, ColumnsOK
  <2> QED BY <1>1, <1>2, <1>3, <1>5, <2>2 DEF SetColumn
<1>6. ASSUME NEW i \in Indexes, NEW f \in {"update", "key"}, ChangeColumnFlag(i, f) PROVE TypeOK'
  <2>1. PICK fs \in {columns[i].flags \union {f}, columns[i].flags \ {f}} :
          columns' = [columns EXCEPT ![i].flags = fs]
    BY <1>6 DEF ChangeColumnFlag
  <2>2. i \in DOMAIN columns /\ columns[i] \in Column
    BY <1>1, <1>6 DEF ChangeColumnFlag, ColumnsOK
  <2>3. fs \subseteq ColumnFlags
    BY <2>1, <2>2 DEF Column, ColumnFlags
  <2>4. ColumnsOK(columns')
    BY <1>1, <2>1, <2>2, <2>3 DEF ColumnsOK, Column
  <2> QED BY <1>1, <1>2, <1>3, <1>6, <2>4 DEF ChangeColumnFlag
<1>7. ASSUME NEW I \in KeyChoices, SetColumnPrimaryKeyIndexes(I) PROVE TypeOK'
  <2>1. I \subseteq Indexes
    BY ColumnSetsAssumption
  <2> QED BY <1>1, <1>2, <1>3, <1>7, <2>1 DEF SetColumnPrimaryKeyIndexes
<1>8. ASSUME NEW skip \in BOOLEAN, NEW queryKeys \in BOOLEAN, CreateAutoColumnBufferPtrs(skip, queryKeys)
      PROVE  TypeOK'
  <2>1. ColumnsOK(columns')
    BY <1>8, AutoColumnsOK, MarkKeysOnlyMarks DEF CreateAutoColumnBufferPtrs
  <2>2. stmts' \in [Stmts -> Stmt]
    BY <1>1, <1>8 DEF CreateAutoColumnBufferPtrs, Stmt
  <2> QED BY <1>1, <1>2, <1>3, <1>8, <2>1, <2>2 DEF CreateAutoColumnBufferPtrs
<1>9. CASE ClearColumns
  <2>1. ColumnsOK(NoColumns)
    BY DEF ColumnsOK, NoColumns
  <2> QED BY <1>1, <1>2, <1>3, <1>9, <2>1 DEF ClearColumns
<1>10. ASSUME NEW cols, ColumnsOK(cols), NEW wasAuto \in BOOLEAN, NEW res \in {"failed", "42000"},
              OpenFailsWith(cols, wasAuto, res), given' \subseteq given, stmts' \in [Stmts -> Stmt]
       PROVE  TypeOK'
  BY <1>1, <1>2, <1>3, <1>10, AfterFailureOK DEF OpenFailsWith
<1>11. ASSUME NEW opt \in OpenOptions,
              Open(opt) \/ OpenFailsToMark(opt) \/ OpenFailsToCheck(opt) \/ OpenFailsToBind(opt)
                \/ OpenFailsToReset(opt)
       PROVE  TypeOK'
  <2> USE MarkedOK, FreedOK, <1>1
  <2>1. CASE Open(opt)
    <3>1. stmts' \in [Stmts -> Stmt]
      BY <2>1, BoundOK DEF Open
    <3> QED BY <1>2, <1>3, <2>1, <3>1 DEF Open, Creates
  <2>2. CASE OpenFailsToMark(opt)
    <3>1. PICK front : OpenFailsWith(MarkKeys(CreatedColumns, front), auto \/ Creates, "failed")
      BY <2>2 DEF OpenFailsToMark
    <3> QED BY <1>10, <2>2, <3>1, CreatedOK, MarkKeysOnlyMarks DEF OpenFailsToMark, Creates
  <2>3. CASE OpenFailsToCheck(opt)
    BY <1>10, <2>3 DEF OpenFailsToCheck, Creates
  <2>4. CASE OpenFailsToBind(opt)
    <3>1. PICK n : stmts' = [s \in Stmts |-> [FreedStmts[s] EXCEPT !.isPrepared = @ \/ s \in FirstPrepared(n)]]
      BY <2>4 DEF OpenFailsToBind
    <3>2. ASSUME NEW s \in Stmts, NEW b \in BOOLEAN PROVE [FreedStmts[s] EXCEPT !.isPrepared = b] \in Stmt
      BY DEF Stmt
    <3>3. \A s \in Stmts : (FreedStmts[s].isPrepared \/ s \in FirstPrepared(n)) \in BOOLEAN
      OBVIOUS
    <3>4. stmts' \in [Stmts -> Stmt]
      BY <3>1, <3>2, <3>3
    <3> QED BY <1>10, <2>4, <3>4 DEF OpenFailsToBind, Creates
  <2>5. CASE OpenFailsToReset(opt)
    <3>1. stmts' \in [Stmts -> Stmt]
      BY <2>5, BoundOK DEF OpenFailsToReset
    <3> QED BY <1>2, <1>3, <2>5, <3>1 DEF OpenFailsToReset, Creates
  <2> QED BY <1>11, <2>1, <2>2, <2>3, <2>4, <2>5
<1>12. CASE OpenFailsToAllocate
  BY <1>1, <1>2, <1>3, <1>12, FreedOK DEF OpenFailsToAllocate
<1>13. CASE OpenFailsToCreate
  BY <1>1, <1>10, <1>13, FreedOK DEF OpenFailsToCreate
<1>14. CASE Close
  BY <1>1, <1>2, <1>3, <1>14, FreedOK, AfterFailureOK DEF Close
<1>15. CASE CloseFails
  <2>1. PICK done : stmts' = [s \in Stmts |-> IF s \in done THEN FreedStmts[s]
                                              ELSE [stmts[s] EXCEPT !.outs = IF auto THEN {} ELSE @]]
    BY <1>15 DEF CloseFails
  <2>2. \A s \in Stmts : [stmts[s] EXCEPT !.outs = IF auto THEN {} ELSE @] \in Stmt
    <3>1. ASSUME NEW s \in Stmts, NEW outs \in SUBSET (Indexes \X {"auto", "caller"})
          PROVE  [stmts[s] EXCEPT !.outs = outs] \in Stmt
      BY <1>1 DEF Stmt
    <3>2. \A s \in Stmts : (IF auto THEN {} ELSE stmts[s].outs) \in SUBSET (Indexes \X {"auto", "caller"})
      BY <1>1 DEF Stmt
    <3> QED BY <3>1, <3>2
  <2>3. stmts' \in [Stmts -> Stmt]
    BY <1>1, <2>1, <2>2, FreedOK
  <2> QED BY <1>1, <1>2, <1>3, <1>15, <2>3, AfterFailureOK DEF CloseFails
<1>16. CASE \/ Select \/ SelectByPkValues \/ WriteWhere \/ TransactionEnds \/ UNCHANGED vars
            \/ \E s \in Stmts : Write(s)
  <2>1. Executes
    BY <1>16, ExecutionsExecute
  <2>2. stmts' \in [Stmts -> Stmt]
    BY <1>1, <2>1, ExecutesKeeps
  <2>3. last'.res \in Res
    <3>1. ASSUME NEW op, NEW s, ExecutePrepared(op, s) PROVE last'.res \in Res
      BY <1>3, <3>1 DEF ExecutePrepared
    <3> QED BY <1>1, <1>3, <1>16, <3>1 DEF Select, SelectByPkValues, WriteWhere, Write, TransactionEnds, vars
  <2> QED BY <1>1, <1>2, <2>1, <2>2, <2>3 DEF Executes
<1> QED BY <1>4, <1>5, <1>6, <1>7, <1>8, <1>9, <1>11, <1>12, <1>13, <1>14, <1>15, <1>16 DEF Next

LEMMA InitTypeOK == Init => TypeOK
<1>1. \A a \in AccessChoices : a \subseteq AccessFlags
  BY ChoicesAssumption
<1>2. NewStmt \in Stmt
  BY DEF NewStmt, Stmt
<1>3. ASSUME Init PROVE stmts \in [Stmts -> Stmt] /\ access \subseteq AccessFlags
  BY <1>1, <1>2, <1>3 DEF Init
<1>4. ASSUME Init PROVE DOMAIN columns = {} /\ isOpen = FALSE /\ auto = FALSE /\ last.res = "ok"
  BY <1>4 DEF Init, NoColumns
<1> QED BY <1>3, <1>4 DEF Init, TypeOK

-----------------------------------------------------------------------------
(* Kinds of steps. *)

Execution == \/ Select \/ SelectByPkValues \/ WriteWhere \/ TransactionEnds \/ UNCHANGED vars
             \/ \E s \in Stmts : Write(s)
Creation == \E skip, queryKeys \in BOOLEAN : CreateAutoColumnBufferPtrs(skip, queryKeys)
Opening == \E opt \in OpenOptions : Open(opt)

\* A change of columns, keys or access flags of a table that is closed.
Definition ==
  \/ \E acs \in AccessChoices : SetAccessFlags(acs)
  \/ \E i \in Indexes, fs \in FlagChoices : SetColumn(i, fs)
  \/ \E i \in Indexes, f \in {"update", "key"} : ChangeColumnFlag(i, f)
  \/ \E I \in KeyChoices : SetColumnPrimaryKeyIndexes(I)
  \/ ClearColumns

\* An Open that fails where its handler resets all statements.
Failure ==
  \/ \E opt \in OpenOptions : OpenFailsToMark(opt) \/ OpenFailsToCheck(opt) \/ OpenFailsToBind(opt)
  \/ OpenFailsToAllocate \/ OpenFailsToCreate

LEMMA StepKinds ==
  ASSUME [Next]_vars
  PROVE  \/ Execution \/ Creation \/ Opening \/ Definition \/ Failure \/ Close \/ CloseFails
         \/ \E opt \in OpenOptions : OpenFailsToReset(opt)
BY DEF Next, Execution, Creation, Opening, Definition, Failure

LEMMA DefinitionKeeps ==
  ASSUME Definition
  PROVE  ~isOpen /\ ~isOpen' /\ UNCHANGED <<stmts, auto>> /\ last'.res = "ok"
<1>1. ~isOpen /\ UNCHANGED <<isOpen, stmts, auto>> /\ Ended("none", "ok")
  BY DEF Definition, SetAccessFlags, SetColumn, ChangeColumnFlag, SetColumnPrimaryKeyIndexes, ClearColumns
<1> QED BY <1>1 DEF Ended

LEMMA FailureCleans ==
  ASSUME stmts \in [Stmts -> Stmt], Failure
  PROVE  /\ ~isOpen /\ ~isOpen' /\ UNCHANGED <<access, pkIndexes>> /\ given' \subseteq given
         /\ last'.res \in {"failed", "42000"} /\ \A s \in Stmts : ~stmts'[s].init
<1> USE FreedOK DEF Ended, OpenFailsWith
<1>1. ASSUME NEW opt \in OpenOptions, OpenFailsToMark(opt) \/ OpenFailsToCheck(opt)
      PROVE  /\ ~isOpen /\ ~isOpen' /\ UNCHANGED <<access, pkIndexes>> /\ given' \subseteq given
             /\ last'.res \in {"failed", "42000"} /\ stmts' = FreedStmts
  BY <1>1 DEF OpenFailsToMark, OpenFailsToCheck, OpenMarks
<1>2. ASSUME NEW opt \in OpenOptions, OpenFailsToBind(opt)
      PROVE  /\ ~isOpen /\ ~isOpen' /\ UNCHANGED <<access, pkIndexes>> /\ given' \subseteq given
             /\ last'.res \in {"failed", "42000"} /\ \A s \in Stmts : ~stmts'[s].init
  <2>1. PICK n : stmts' = [s \in Stmts |-> [FreedStmts[s] EXCEPT !.isPrepared = @ \/ s \in FirstPrepared(n)]]
    BY <1>2 DEF OpenFailsToBind
  <2>2. ASSUME NEW s \in Stmts, NEW b PROVE ~([FreedStmts[s] EXCEPT !.isPrepared = b]).init
    BY DEF Stmt
  <2>3. \A s \in Stmts : ~stmts'[s].init
    BY <2>1, <2>2
  <2> QED BY <1>2, <2>3 DEF OpenFailsToBind, OpenMarks
<1>3. CASE OpenFailsToAllocate \/ OpenFailsToCreate
  BY <1>3 DEF OpenFailsToAllocate, OpenFailsToCreate
<1> QED BY <1>1, <1>2, <1>3 DEF Failure

\* Columns created directly leave the statements, but for the buffers.
LEMMA CreationKeeps ==
  ASSUME stmts \in [Stmts -> Stmt], Creation
  PROVE  /\ UNCHANGED <<isOpen, access, pkIndexes>> /\ last'.res = "ok" /\ given' = {} /\ auto'
         /\ isOpen => "create_open" \in faults
         /\ \A s \in Stmts : /\ stmts'[s].init = stmts[s].init
                             /\ stmts'[s].isPrepared = stmts[s].isPrepared
                             /\ stmts'[s].drvPrepared = stmts[s].drvPrepared
<1>1. PICK skip, queryKeys \in BOOLEAN : CreateAutoColumnBufferPtrs(skip, queryKeys)
  BY DEF Creation
<1>2. stmts' = [s \in Stmts |-> [stmts[s] EXCEPT !.outs = {o \in @ : o[2] = "caller"}]]
  BY <1>1 DEF CreateAutoColumnBufferPtrs
<1>3. ASSUME NEW s \in Stmts, NEW outs
      PROVE  LET st == [stmts[s] EXCEPT !.outs = outs] IN
               /\ st.init = stmts[s].init /\ st.isPrepared = stmts[s].isPrepared
               /\ st.drvPrepared = stmts[s].drvPrepared
  BY DEF Stmt
<1>4. /\ UNCHANGED <<isOpen, access, pkIndexes>> /\ Ended("none", "ok") /\ given' = {} /\ auto' = TRUE
      /\ isOpen => "create_open" \in faults
  BY <1>1 DEF CreateAutoColumnBufferPtrs
<1>5. \A s \in Stmts : /\ stmts'[s].init = stmts[s].init
                       /\ stmts'[s].isPrepared = stmts[s].isPrepared
                       /\ stmts'[s].drvPrepared = stmts[s].drvPrepared
  BY <1>2, <1>3
<1> QED BY <1>4, <1>5 DEF Ended

\* Open initialises what is needed and prepares what is to be prepared.
LEMMA OpeningBinds ==
  ASSUME stmts \in [Stmts -> Stmt], NEW opt, Open(opt)
  PROVE  /\ ~isOpen /\ isOpen' /\ UNCHANGED <<access, pkIndexes>> /\ last'.res = "ok"
         /\ columns' = Checked(opt)
         /\ \A s \in Stmts \ Needed : stmts'[s] = stmts[s]
         /\ \A s \in Needed : /\ stmts'[s].init
                              /\ s \in Prepares => stmts'[s].isPrepared /\ stmts'[s].drvPrepared
         /\ "select" \in Needed => stmts'["select"].outs = BuffersOf(Checked(opt), SelectColumns(Checked(opt)))
BY StmtNames, PreparedIsNeeded DEF Open, OpenMarks, BoundStmts, Ended

LEMMA ClosingCleans ==
  ASSUME stmts \in [Stmts -> Stmt], Close
  PROVE  ~isOpen' /\ UNCHANGED <<access, pkIndexes>> /\ last'.res = "ok" /\ \A s \in Stmts : ~stmts'[s].init
BY FreedOK DEF Close, Ended

\* What an operation that executes needs and answers.
LEMMA ExecutionAnswers ==
  ASSUME Execution,
         "both_selects" \notin faults,
         isOpen => \A s \in Prepares : stmts[s].init /\ stmts[s].isPrepared /\ stmts[s].drvPrepared,
         last.res \notin {"HY010", "assertion"}
  PROVE  last'.res \notin {"HY010", "assertion"}
<1>1. ASSUME NEW op, NEW s \in Prepares, isOpen, ExecutePrepared(op, s) PROVE last'.res \in {"ok", "failed"}
  BY <1>1 DEF ExecutePrepared, Ended
<1>2. CASE SelectByPkValues
  <2>1. "select" \in Prepares
    BY <1>2, StmtNames DEF SelectByPkValues, Prepares, PkStmts
  <2> QED BY <1>1, <1>2, <2>1 DEF SelectByPkValues
<1>3. ASSUME NEW s \in Stmts, Write(s) PROVE last'.res \in {"ok", "failed"}
  BY <1>1, <1>3 DEF Write
<1> QED BY <1>2, <1>3 DEF Execution, Select, WriteWhere, TransactionEnds, Ended, vars

LEMMA NeedsKept ==
  ASSUME access' = access
  PROVE  /\ Needed' = Needed /\ Prepares' = Prepares /\ AccessColumnFlags' = AccessColumnFlags
         /\ SelectAccess' <=> SelectAccess
BY DEF Needed, Prepares, PkStmts, AccessColumnFlags, SelectAccess, UpdateAccess

-----------------------------------------------------------------------------
(* Statements. *)

LEMMA NextStatementsMatch ==
  ASSUME TypeOK, StatementsMatchAccess, [Next]_vars
  PROVE  StatementsMatchAccess'
<1> SUFFICES ASSUME "reset_fails" \notin faults, NEW s \in Stmts
             PROVE  stmts'[s].init <=> isOpen' /\ s \in Needed'
  BY FaultsKept DEF StatementsMatchAccess, Without
<1>1. stmts \in [Stmts -> Stmt] /\ (stmts[s].init <=> isOpen /\ s \in Needed)
  BY DEF TypeOK, StatementsMatchAccess, Without
<1>2. CASE Execution
  <2>1. UNCHANGED <<isOpen, access>> /\ stmts'[s].init = stmts[s].init
    BY <1>1, <1>2, ExecutionsExecute, ExecutesKeeps DEF Execution, Executes
  <2> QED BY <1>1, <2>1, NeedsKept
<1>3. CASE Creation
  BY <1>1, <1>3, CreationKeeps, NeedsKept
<1>4. CASE Opening
  <2>1. PICK opt \in OpenOptions : Open(opt)
    BY <1>4 DEF Opening
  <2>2. ~isOpen /\ isOpen' /\ Needed' = Needed
        /\ (s \notin Needed => stmts'[s] = stmts[s]) /\ (s \in Needed => stmts'[s].init)
    BY <1>1, <2>1, OpeningBinds, NeedsKept
  <2> QED BY <1>1, <2>2
<1>5. CASE Definition
  BY <1>1, <1>5, DefinitionKeeps
<1>6. CASE Failure
  BY <1>1, <1>6, FailureCleans
<1>7. CASE Close
  BY <1>1, <1>7, ClosingCleans
<1>8. ~CloseFails /\ ~\E opt \in OpenOptions : OpenFailsToReset(opt)
  BY DEF CloseFails, OpenFailsToReset
<1> QED BY <1>2, <1>3, <1>4, <1>5, <1>6, <1>7, <1>8, StepKinds

\* Prepared statements stay so while the table is open: only a SELECT executed
\* directly touches one, and then it is not one of the prepared.
LEMMA NextPrepared ==
  ASSUME TypeOK, StatementsMatchAccess, PreparedWhenOpen, [Next]_vars
  PROVE  PreparedWhenOpen'
<1> DEFINE Ready(s) == stmts[s].isPrepared /\ stmts[s].drvPrepared
           ReadyThen(s) == stmts'[s].isPrepared /\ stmts'[s].drvPrepared
<1> SUFFICES ASSUME faults \intersect {"both_selects", "commit_deletes", "reset_fails"} = {}
             PROVE  /\ isOpen' => \A s \in Prepares' : ReadyThen(s)
                    /\ last'.res \notin {"HY010", "assertion"}
  BY FaultsKept DEF PreparedWhenOpen, Without
<1>1. /\ isOpen => \A s \in Prepares : Ready(s)
      /\ last.res \notin {"HY010", "assertion"} /\ stmts \in [Stmts -> Stmt]
  BY DEF TypeOK, PreparedWhenOpen, Without
<1>2. isOpen => \A s \in Prepares : stmts[s].init
  BY PreparedIsNeeded DEF StatementsMatchAccess, Without
<1>3. CASE Execution
  <2>1. last'.res \notin {"HY010", "assertion"}
    BY <1>1, <1>2, <1>3, ExecutionAnswers
  <2>2. ASSUME isOpen, NEW s \in Prepares PROVE stmts'[s] = stmts[s]
    <3>1. CASE Select
      <4>1. s # "select"
        BY <3>1, <2>2, StmtNames DEF Select, Prepares, PkStmts
      <4> QED BY <3>1, <4>1, <1>1, <2>2, PreparedIsNeeded DEF Select
    <3>2. CASE ~Select
      BY <1>3, <3>2 DEF Execution, SelectByPkValues, WriteWhere, Write, ExecutePrepared, TransactionEnds, vars
    <3> QED BY <3>1, <3>2
  <2>3. isOpen' = isOpen /\ Prepares' = Prepares
    BY <1>3, ExecutionsExecute, NeedsKept DEF Execution, Executes
  <2> QED BY <1>1, <2>1, <2>2, <2>3
<1>4. CASE Creation
  <2>1. isOpen' = isOpen /\ Prepares' = Prepares /\ last'.res = "ok"
        /\ \A s \in Prepares : ReadyThen(s) <=> Ready(s)
    BY <1>1, <1>4, CreationKeeps, NeedsKept, PreparedIsNeeded
  <2> QED BY <1>1, <2>1
<1>5. CASE Opening
  BY <1>1, <1>5, OpeningBinds, NeedsKept, PreparedIsNeeded DEF Opening
<1>6. CASE Definition
  BY <1>6, DefinitionKeeps
<1>7. CASE Failure
  BY <1>1, <1>7, FailureCleans
<1>8. CASE Close
  BY <1>1, <1>8, ClosingCleans
<1>9. ~CloseFails /\ ~\E opt \in OpenOptions : OpenFailsToReset(opt)
  BY DEF CloseFails, OpenFailsToReset
<1> QED BY <1>3, <1>4, <1>5, <1>6, <1>7, <1>8, <1>9, StepKinds

-----------------------------------------------------------------------------
(* Columns of a table that is open. *)

\* How a table can come to be open, and what then happens to its columns.
LEMMA OpenAfterwards ==
  ASSUME TypeOK, [Next]_vars, isOpen'
  PROVE  \/ \E opt \in OpenOptions : Open(opt)
         \/ isOpen /\ UNCHANGED <<access, pkIndexes>> /\ Creation
         \/ isOpen /\ UNCHANGED <<access, pkIndexes>> /\ CloseFails
         \/ isOpen /\ Execution /\ Executes
<1>1. stmts \in [Stmts -> Stmt]
  BY DEF TypeOK
<1>2. ~Definition /\ ~Failure /\ ~Close
  BY <1>1, DefinitionKeeps, FailureCleans, ClosingCleans
<1>3. ASSUME NEW opt \in OpenOptions, OpenFailsToReset(opt) PROVE FALSE
  BY <1>3 DEF OpenFailsToReset, OpenMarks
<1>4. CASE Execution
  BY <1>4, ExecutionsExecute DEF Execution, Executes
<1>5. CASE Creation
  BY <1>1, <1>5, CreationKeeps
<1>6. CASE CloseFails
  BY <1>6 DEF CloseFails
<1> QED BY <1>2, <1>3, <1>4, <1>5, <1>6, StepKinds DEF Opening

LEMMA NextFlagsWithin ==
  ASSUME TypeOK, FlagsWithinAccess, [Next]_vars
  PROVE  FlagsWithinAccess'
<1> SUFFICES ASSUME isOpen', NEW i \in DOMAIN columns'
             PROVE  columns'[i].flags \intersect {"select", "update", "insert"} \subseteq AccessColumnFlags'
  BY DEF FlagsWithinAccess, FlagsAllowed
<1>1. ColumnsOK(columns)
  BY DEF TypeOK, ColumnsOK
<1>2. ASSUME NEW opt \in OpenOptions, Open(opt)
      PROVE  columns'[i].flags \intersect {"select", "update", "insert"} \subseteq AccessColumnFlags'
  <2>1. FlagsAllowed(Marked(opt)) /\ columns' = Checked(opt) /\ access' = access
    BY <1>2 DEF Open, Suitable
  <2>2. ColumnsOK(Marked(opt))
    BY <1>1, MarkedOK
  <2>3. i \in DOMAIN Marked(opt) /\ columns'[i] = Marked(opt)[i]
    BY <2>1, <2>2, CheckedIsPart DEF Checked
  <2> QED BY <2>1, <2>3, NeedsKept DEF FlagsAllowed
<1>3. CASE Creation /\ access' = access
  <2>1. PICK skip, queryKeys \in BOOLEAN : CreateAutoColumnBufferPtrs(skip, queryKeys)
    BY <1>3 DEF Creation
  <2>2. PICK I : columns' = AutoColumns \/ columns' = MarkKeys(AutoColumns, I)
    BY <2>1 DEF CreateAutoColumnBufferPtrs
  <2>3. /\ i \in DOMAIN AutoColumns
        /\ columns'[i].flags \intersect {"select", "update", "insert"}
             = AutoColumns[i].flags \intersect {"select", "update", "insert"}
    BY <2>2, AutoColumnsOK, MarkKeysOnlyMarks
  <2> QED BY <1>3, <2>3, AutoColumnsOK, NeedsKept
<1>4. CASE isOpen /\ access' = access /\ (columns' = columns \/ columns' = NoColumns)
  <2>1. DOMAIN NoColumns = {}
    BY DEF NoColumns
  <2> QED BY <1>4, <2>1, NeedsKept DEF FlagsWithinAccess, FlagsAllowed
<1> QED BY <1>2, <1>3, <1>4, OpenAfterwards DEF CloseFails, ColumnsAfterFailure, Executes

\* The buffers bound to the SELECT statement are the columns'.
LEMMA NextReadsIntoColumns ==
  ASSUME TypeOK, ReadsIntoColumns, [Next]_vars
  PROVE  ReadsIntoColumns'
<1> SUFFICES ASSUME isOpen', SelectAccess', faults \intersect {"create_open", "reset_fails"} = {}
             PROVE  stmts'["select"].outs = BuffersOf(columns', WithFlag(columns', "select"))
  BY FaultsKept DEF ReadsIntoColumns, OpenTableKeepsColumns, Without
<1>1. stmts \in [Stmts -> Stmt] /\ "select" \in Stmts
  BY StmtNames DEF TypeOK
<1>2. ~CloseFails /\ ~(isOpen /\ Creation)
  BY <1>1, CreationKeeps DEF CloseFails
<1>3. ASSUME NEW opt \in OpenOptions, Open(opt)
      PROVE  stmts'["select"].outs = BuffersOf(columns', WithFlag(columns', "select"))
  <2>1. access' = access /\ columns' = Checked(opt)
    BY <1>1, <1>3, OpeningBinds
  <2>2. "select" \in Needed
    BY <1>1, <2>1, NeedsKept DEF Needed
  <2> QED BY <1>1, <1>3, <2>1, <2>2, OpeningBinds DEF SelectColumns
<1>4. CASE isOpen /\ Executes
  <2>1. SelectAccess /\ UNCHANGED columns
    BY <1>4, NeedsKept DEF Executes
  <2>2. stmts'["select"].outs = stmts["select"].outs
    BY <1>1, <1>4, ExecutesKeeps
  <2> QED BY <1>4, <2>1, <2>2 DEF ReadsIntoColumns, OpenTableKeepsColumns, Without
<1> QED BY <1>2, <1>3, <1>4, OpenAfterwards

-----------------------------------------------------------------------------
(* The caller's columns. *)

\* Not inductive without its second part: a table that has once created columns
\* drops all of them in Close, so it must not have any of the caller's.
ManualInv == Without({"mixed"}) => ManualColumnsKept /\ (auto => given = {})

\* Open creates columns only if the caller has none, and takes none away but those
\* it also takes from `given'.
LEMMA OpenLeavesManual ==
  ASSUME TypeOK, ManualColumnsKept, auto => given = {}, NEW opt
  PROVE  /\ auto \/ Creates => given = {}
         /\ \A i \in given :
              /\ i \in DOMAIN CreatedColumns /\ CreatedColumns[i].by = "caller"
              /\ i \in DOMAIN Marked(opt) /\ Marked(opt)[i].by = "caller"
         /\ \A i \in given \ Removed(opt) : i \in DOMAIN Checked(opt) /\ Checked(opt)[i].by = "caller"
<1>1. ColumnsOK(columns)
  BY DEF TypeOK, ColumnsOK
<1>2. Creates => given = {}
  BY DEF Creates, NoColumns, ManualColumnsKept
<1>3. \A i \in given : i \in DOMAIN CreatedColumns /\ CreatedColumns[i].by = "caller"
  BY <1>2 DEF CreatedColumns, ManualColumnsKept
<1>4. \A i \in given : i \in DOMAIN Marked(opt) /\ Marked(opt)[i].by = "caller"
  BY <1>1, <1>3, CreatedOK, MarkKeysOnlyMarks DEF Marked
<1>5. \A i \in given \ Removed(opt) : i \in DOMAIN Checked(opt) /\ Checked(opt)[i].by = "caller"
  BY <1>1, <1>4, MarkedOK, CheckedIsPart DEF Checked, Removed
<1> QED BY <1>2, <1>3, <1>4, <1>5

LEMMA NextManual ==
  ASSUME TypeOK, ManualInv, [Next]_vars
  PROVE  ManualInv'
<1> DEFINE KeptThen == \A i \in given' : i \in DOMAIN columns' /\ columns'[i].by = "caller"
<1> SUFFICES ASSUME "mixed" \notin faults PROVE KeptThen /\ (auto' => given' = {})
  BY FaultsKept DEF ManualInv, Without, ManualColumnsKept
<1>1. /\ \A i \in given : i \in DOMAIN columns /\ columns[i].by = "caller"
      /\ auto => given = {}
      /\ ManualColumnsKept
  BY DEF ManualInv, Without, ManualColumnsKept
<1>2. stmts \in [Stmts -> Stmt] /\ ColumnsOK(columns)
  BY DEF TypeOK, ColumnsOK
<1>3. CASE Execution
  BY <1>1, <1>3, ExecutionsExecute DEF Execution, Executes
<1>4. CASE Creation
  BY <1>2, <1>4, CreationKeeps
<1>5. CASE Definition
  <2>1. ASSUME NEW i \in Indexes, NEW fs \in FlagChoices, SetColumn(i, fs)
        PROVE  KeptThen /\ (auto' => given' = {})
    BY <1>1, <2>1 DEF SetColumn
  <2>2. ASSUME NEW i \in Indexes, NEW f \in {"update", "key"}, ChangeColumnFlag(i, f)
        PROVE  KeptThen /\ (auto' => given' = {})
    <3>1. PICK fs : columns' = [columns EXCEPT ![i].flags = fs]
      BY <2>2 DEF ChangeColumnFlag
    <3>2. DOMAIN columns' = DOMAIN columns /\ \A j \in DOMAIN columns : columns'[j].by = columns[j].by
      BY <1>2, <3>1 DEF ColumnsOK, Column
    <3> QED BY <1>1, <2>2, <3>2 DEF ChangeColumnFlag
  <2> QED BY <1>1, <1>5, <2>1, <2>2 DEF Definition, SetAccessFlags, SetColumnPrimaryKeyIndexes, ClearColumns
<1>6. ASSUME NEW cols, NEW wasAuto, NEW res, OpenFailsWith(cols, wasAuto, res),
             wasAuto => given' = {},
             \A i \in given' : i \in DOMAIN cols /\ cols[i].by = "caller"
      PROVE  KeptThen /\ (auto' => given' = {})
  BY <1>6 DEF OpenFailsWith, ColumnsAfterFailure
<1>7. ASSUME NEW opt \in OpenOptions, Open(opt) \/ OpenFailsToReset(opt)
      PROVE  KeptThen /\ (auto' => given' = {})
  <2>1. columns' = Checked(opt) /\ (auto' <=> auto \/ Creates) /\ given' = given \ Removed(opt)
    BY <1>7 DEF Open, OpenFailsToReset
  <2> QED BY <1>1, <2>1, OpenLeavesManual
<1>8. CASE Failure
  <2>1. ASSUME NEW opt \in OpenOptions, OpenFailsToMark(opt) PROVE KeptThen /\ (auto' => given' = {})
    <3>1. PICK front : OpenFailsWith(MarkKeys(CreatedColumns, front), auto \/ Creates, "failed")
      BY <2>1 DEF OpenFailsToMark
    <3>2. given' = given
      BY <2>1 DEF OpenFailsToMark
    <3>3. \A i \in given : i \in DOMAIN MarkKeys(CreatedColumns, front)
                           /\ MarkKeys(CreatedColumns, front)[i].by = "caller"
      BY <1>1, <1>2, OpenLeavesManual, CreatedOK, MarkKeysOnlyMarks
    <3> QED BY <1>1, <1>6, <3>1, <3>2, <3>3, OpenLeavesManual
  <2>2. ASSUME NEW opt \in OpenOptions, OpenFailsToCheck(opt) PROVE KeptThen /\ (auto' => given' = {})
    <3>1. OpenFailsWith(Marked(opt), auto \/ Creates, "failed") /\ given' = given
      BY <2>2 DEF OpenFailsToCheck
    <3> QED BY <1>1, <1>6, <3>1, OpenLeavesManual
  <2>3. ASSUME NEW opt \in OpenOptions, OpenFailsToBind(opt) PROVE KeptThen /\ (auto' => given' = {})
    <3>1. PICK res : OpenFailsWith(Checked(opt), auto \/ Creates, res)
      BY <2>3 DEF OpenFailsToBind
    <3>2. given' = given \ Removed(opt)
      BY <2>3 DEF OpenFailsToBind
    <3> QED BY <1>1, <1>6, <3>1, <3>2, OpenLeavesManual
  <2> QED BY <1>1, <1>6, <1>8, <2>1, <2>2, <2>3 DEF Failure, OpenFailsToAllocate, OpenFailsToCreate
<1>9. CASE Close \/ CloseFails
  BY <1>1, <1>9 DEF Close, CloseFails, ColumnsAfterFailure
<1> QED BY <1>3, <1>4, <1>5, <1>7, <1>8, <1>9, StepKinds DEF Opening

-----------------------------------------------------------------------------
(* Key columns given by index. *)

\* While indexes are given each column stands at the database's index, and nothing
\* but what they name is marked; Open then marks all of it.
KeysInv ==
  pkIndexes # {} /\ OpenTableKeepsColumns /\ Without({"rekey", "skip"}) =>
    /\ ~Skipped(columns)
    /\ WithFlag(columns, "key") \subseteq pkIndexes
    /\ isOpen => pkIndexes \subseteq WithFlag(columns, "key")

LEMMA OpenMarksKeys ==
  ASSUME TypeOK, pkIndexes # {}, "skip" \notin faults,
         ~Skipped(columns), WithFlag(columns, "key") \subseteq pkIndexes,
         NEW opt, OpenMarks(opt)
  PROVE  /\ ~Skipped(Marked(opt)) /\ WithFlag(Marked(opt), "key") = pkIndexes
         /\ Suitable(opt) => ~Skipped(Checked(opt)) /\ WithFlag(Checked(opt), "key") = pkIndexes
<1>1. ColumnsOK(columns) /\ ColumnsOK(CreatedColumns)
  BY CreatedOK DEF TypeOK, ColumnsOK
<1>2. ~opt.skip /\ (Creates => Unmapped = {}) /\ ~AsksForKeys(opt) /\ pkIndexes \subseteq DOMAIN CreatedColumns
  BY DEF OpenMarks, AsksForKeys, KeysFound
<1>3. ~Skipped(CreatedColumns) /\ WithFlag(CreatedColumns, "key") \subseteq pkIndexes
  BY <1>2, AutoColumnsOK DEF CreatedColumns, WithFlag
<1>4. Marked(opt) = MarkKeys(CreatedColumns, pkIndexes)
  BY <1>2 DEF Marked, KeyIndexes
<1>5. ~Skipped(Marked(opt)) /\ WithFlag(Marked(opt), "key") = pkIndexes
  BY <1>1, <1>2, <1>3, <1>4, MarkKeysOnlyMarks DEF Skipped, WithFlag
<1>6. ASSUME Suitable(opt)
      PROVE  DOMAIN Checked(opt) = DOMAIN Marked(opt) /\ \A i \in DOMAIN Marked(opt) : Checked(opt)[i] = Marked(opt)[i]
  BY <1>1, <1>2, <1>6, MarkedOK, CheckedIsPart DEF Suitable, Checked
<1> QED BY <1>5, <1>6 DEF Skipped, WithFlag

\* Columns at the database's indexes, with no other marks than those asked for.
KeysGood(cols, I) == ~Skipped(cols) /\ WithFlag(cols, "key") \subseteq I

LEMMA FailureLeavesKeys ==
  ASSUME TypeOK, pkIndexes # {}, "skip" \notin faults, KeysGood(columns, pkIndexes), Failure
  PROVE  KeysGood(columns', pkIndexes)
<1>1. KeysGood(NoColumns, pkIndexes)
  BY DEF KeysGood, Skipped, WithFlag, NoColumns
<1>2. ColumnsOK(columns)
  BY DEF TypeOK, ColumnsOK
<1>3. ASSUME NEW cols, NEW wasAuto, NEW res, OpenFailsWith(cols, wasAuto, res),
             wasAuto \/ KeysGood(cols, pkIndexes)
      PROVE  KeysGood(columns', pkIndexes)
  BY <1>1, <1>3 DEF OpenFailsWith, ColumnsAfterFailure
<1>4. ASSUME NEW opt \in OpenOptions, OpenFailsToMark(opt) PROVE KeysGood(columns', pkIndexes)
  <2>1. PICK front \in MarkedBeforeFailure(CreatedColumns, opt) :
          OpenFailsWith(MarkKeys(CreatedColumns, front), auto \/ Creates, "failed")
    BY <1>4 DEF OpenFailsToMark
  <2>2. front \subseteq pkIndexes
    BY <2>1 DEF MarkedBeforeFailure, AsksForKeys, KeyIndexes
  <2>3. ASSUME ~Creates PROVE KeysGood(MarkKeys(CreatedColumns, front), pkIndexes)
    <3>1. CreatedColumns = columns
      BY <2>3 DEF CreatedColumns
    <3> QED BY <1>2, <2>2, <3>1, MarkKeysOnlyMarks DEF KeysGood, Skipped, WithFlag
  <2> QED BY <1>3, <2>1, <2>3
<1>5. ASSUME NEW opt \in OpenOptions, OpenFailsToCheck(opt) PROVE KeysGood(columns', pkIndexes)
  <2>1. OpenMarks(opt) /\ OpenFailsWith(Marked(opt), auto \/ Creates, "failed")
    BY <1>5 DEF OpenFailsToCheck
  <2> QED BY <1>3, <2>1, OpenMarksKeys DEF KeysGood
<1>6. ASSUME NEW opt \in OpenOptions, OpenFailsToBind(opt) PROVE KeysGood(columns', pkIndexes)
  <2>1. PICK res : OpenMarks(opt) /\ Suitable(opt) /\ OpenFailsWith(Checked(opt), auto \/ Creates, res)
    BY <1>6 DEF OpenFailsToBind
  <2> QED BY <1>3, <2>1, OpenMarksKeys DEF KeysGood
<1>7. CASE OpenFailsToAllocate
  BY <1>7 DEF OpenFailsToAllocate
<1>8. CASE OpenFailsToCreate
  BY <1>3, <1>8 DEF OpenFailsToCreate
<1> QED BY <1>4, <1>5, <1>6, <1>7, <1>8 DEF Failure

\* Callers who give indexes mark no columns themselves and skip none, in whatever
\* order they do these things.
LEMMA DefinitionLeavesKeys ==
  ASSUME TypeOK, Definition, faults \intersect {"rekey", "skip"} = {}, pkIndexes' # {},
         pkIndexes # {} => KeysGood(columns, pkIndexes)
  PROVE  KeysGood(columns', pkIndexes')
<1>1. ColumnsOK(columns)
  BY DEF TypeOK, ColumnsOK
<1>2. ASSUME NEW acs, SetAccessFlags(acs) PROVE KeysGood(columns', pkIndexes')
  BY <1>2 DEF SetAccessFlags
<1>3. ASSUME NEW i \in Indexes, NEW fs, SetColumn(i, fs) PROVE KeysGood(columns', pkIndexes')
  <2>1. "key" \notin fs /\ pkIndexes' = pkIndexes
    BY <1>3 DEF SetColumn
  <2>2. /\ DOMAIN columns' = DOMAIN columns \union {i}
        /\ \A j \in DOMAIN columns : columns'[j] = columns[j]
        /\ columns'[i].name = i /\ "key" \notin columns'[i].flags
    BY <1>3, <2>1 DEF SetColumn
  <2> QED BY <2>1, <2>2 DEF KeysGood, Skipped, WithFlag
<1>4. ASSUME NEW i, NEW f \in {"update", "key"}, ChangeColumnFlag(i, f) PROVE KeysGood(columns', pkIndexes')
  <2>1. f = "update" /\ pkIndexes' = pkIndexes
    BY <1>4 DEF ChangeColumnFlag
  <2>2. PICK fs \in {columns[i].flags \union {f}, columns[i].flags \ {f}} :
          columns' = [columns EXCEPT ![i].flags = fs]
    BY <1>4 DEF ChangeColumnFlag
  <2>3. "key" \in fs <=> "key" \in columns[i].flags
    BY <2>1, <2>2
  <2>4. /\ DOMAIN columns' = DOMAIN columns
        /\ \A j \in DOMAIN columns : /\ columns'[j].name = columns[j].name
                                     /\ "key" \in columns'[j].flags <=> "key" \in columns[j].flags
    BY <1>1, <2>2, <2>3 DEF ColumnsOK, Column
  <2> QED BY <2>1, <2>4 DEF KeysGood, Skipped, WithFlag
<1>5. ASSUME NEW I, SetColumnPrimaryKeyIndexes(I) PROVE KeysGood(columns', pkIndexes')
  BY <1>5 DEF SetColumnPrimaryKeyIndexes, KeysGood
<1>6. CASE ClearColumns
  BY <1>6 DEF ClearColumns, KeysGood, Skipped, WithFlag, NoColumns
<1> QED BY <1>2, <1>3, <1>4, <1>5, <1>6 DEF Definition

LEMMA NextKeys ==
  ASSUME TypeOK, KeysInv, [Next]_vars
  PROVE  KeysInv'
<1> SUFFICES ASSUME pkIndexes' # {},
                    faults \intersect {"create_open", "reset_fails", "rekey", "skip"} = {}
             PROVE  /\ KeysGood(columns', pkIndexes')
                    /\ isOpen' => pkIndexes' \subseteq WithFlag(columns', "key")
  BY FaultsKept DEF KeysInv, KeysGood, OpenTableKeepsColumns, Without, Skipped, WithFlag
<1>1. pkIndexes # {} => /\ KeysGood(columns, pkIndexes)
                        /\ isOpen => pkIndexes \subseteq WithFlag(columns, "key")
  BY DEF KeysInv, KeysGood, OpenTableKeepsColumns, Without
<1>2. stmts \in [Stmts -> Stmt]
  BY DEF TypeOK
<1>3. CASE Execution
  BY <1>1, <1>3, ExecutionsExecute DEF Execution, Executes
<1>4. CASE Creation
  <2>1. PICK skip, queryKeys \in BOOLEAN : CreateAutoColumnBufferPtrs(skip, queryKeys)
    BY <1>4 DEF Creation
  <2>2. ~isOpen' /\ pkIndexes' = pkIndexes
    BY <1>2, <1>4, CreationKeeps
  <2>3. Unmapped = {} /\ columns' = AutoColumns
    BY <2>1, <2>2 DEF CreateAutoColumnBufferPtrs
  <2> QED BY <2>2, <2>3, AutoColumnsOK DEF KeysGood, WithFlag
<1>5. CASE Opening
  <2>1. PICK opt \in OpenOptions : Open(opt)
    BY <1>5 DEF Opening
  <2>2. columns' = Checked(opt) /\ pkIndexes' = pkIndexes /\ OpenMarks(opt) /\ Suitable(opt)
    BY <2>1 DEF Open
  <2> QED BY <1>1, <2>2, OpenMarksKeys DEF KeysGood
<1>6. CASE Definition
  BY <1>1, <1>6, DefinitionLeavesKeys, DefinitionKeeps
<1>7. CASE Failure
  BY <1>1, <1>2, <1>7, FailureLeavesKeys, FailureCleans
<1>8. CASE Close
  <2>1. KeysGood(NoColumns, pkIndexes)
    BY DEF KeysGood, Skipped, WithFlag, NoColumns
  <2> QED BY <1>1, <1>8, <2>1 DEF Close, ColumnsAfterFailure
<1>9. ~CloseFails /\ ~\E opt \in OpenOptions : OpenFailsToReset(opt)
  BY DEF CloseFails, OpenFailsToReset
<1> QED BY <1>3, <1>4, <1>5, <1>6, <1>7, <1>8, <1>9, StepKinds

-----------------------------------------------------------------------------
(* The theorems. *)

\* What the rest rests on: in every state a table reaches, its columns and
\* statements are ones the code can have.
THEOREM TypeCorrect == Spec => []TypeOK
BY InitTypeOK, NextTypeOK, PTL DEF Spec

\* Table::Open and Close are all or nothing, for any access flags and columns.
THEOREM StatementsAlwaysMatchAccess == Spec => []StatementsMatchAccess
<1>1. Init => StatementsMatchAccess
  BY DEF Init, StatementsMatchAccess, NewStmt
<1> QED BY <1>1, TypeCorrect, NextStatementsMatch, PTL DEF Spec

\* Select, Insert, UpdateByPkValues, DeleteByPkValues and SelectByPkValues never
\* find a statement unprepared, unless two selects share one or a transaction
\* ends where that deletes prepared statements.
THEOREM AlwaysPreparedWhenOpen == Spec => []PreparedWhenOpen
<1>1. Init => PreparedWhenOpen
  BY DEF Init, PreparedWhenOpen
<1> QED BY <1>1, TypeCorrect, StatementsAlwaysMatchAccess, NextPrepared, PTL DEF Spec

\* What Table::Close and a failing Open remove is never a column the caller has
\* set, for callers who do not mix.
THEOREM ManualColumnsAlwaysKept == Spec => []ManualColumnsKeptUnmixed
<1>1. Init => ManualInv
  BY DEF Init, ManualInv, ManualColumnsKept
<1>2. ManualInv => ManualColumnsKeptUnmixed
  BY DEF ManualInv, ManualColumnsKeptUnmixed
<1> QED BY <1>1, <1>2, TypeCorrect, NextManual, PTL DEF Spec

\* UpdateByPkValues and DeleteByPkValues find rows by exactly the columns passed
\* to SetColumnPrimaryKeyIndexes, through any history of opening and failing.
THEOREM KeysAlwaysAsRequested == Spec => []KeysAsRequested
<1>1. Init => KeysInv
  BY DEF Init, KeysInv
<1>2. KeysInv => KeysAsRequested
  <2> SUFFICES ASSUME KeysInv, isOpen, pkIndexes # {}, OpenTableKeepsColumns, Without({"rekey", "skip"})
               PROVE  {columns[i].name : i \in WithFlag(columns, "key")} = pkIndexes
    BY DEF KeysAsRequested
  <2>1. WithFlag(columns, "key") = pkIndexes /\ ~Skipped(columns)
    BY DEF KeysInv
  <2>2. \A i \in WithFlag(columns, "key") : columns[i].name = i
    BY <2>1 DEF Skipped, WithFlag
  <2> QED BY <2>1, <2>2
<1> QED BY <1>1, <1>2, TypeCorrect, NextKeys, PTL DEF Spec

\* SelectNext of an open table reads into the columns' own buffers.
THEOREM AlwaysReadsIntoColumns == Spec => []ReadsIntoColumns
<1>1. Init => ReadsIntoColumns
  BY DEF Init, ReadsIntoColumns
<1> QED BY <1>1, TypeCorrect, NextReadsIntoColumns, PTL DEF Spec

\* CheckColumnFlags is passed once, in Open, and holds until Close.
THEOREM FlagsAlwaysWithinAccess == Spec => []FlagsWithinAccess
<1>1. Init => FlagsWithinAccess
  BY DEF Init, FlagsWithinAccess
<1> QED BY <1>1, TypeCorrect, NextFlagsWithin, PTL DEF Spec
=============================================================================
