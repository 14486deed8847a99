------------------------ MODULE CatalogQueriesProofs ------------------------
(***************************************************************************)
(* What a DatabaseCatalog promises, for any tables, names and patterns:    *)
(* answers are whole and about what was meant, no result set is left open, *)
(* the statement does not outlive its connection, and what a caller reads  *)
(* of a row is what the driver reported.                                   *)
(***************************************************************************)
EXTENDS CatalogQueries, TLAPS

Statements == [live : BOOLEAN, id : BOOLEAN, cursor : BOOLEAN]
Answered == SUBSET (Tables \union {NoTable})
Calls == [op : Ops, res : Results, asked : Question, truth : Answered, rows : Answered, left : Answered]

(* The database keeps its kind, so what is found is a table it can have. *)
Shape ==
  /\ faults \in FaultSets /\ support \subseteq Supports /\ there \subseteq Possible(support)
  /\ "postgres" \in support => {"schemas", "catalogs"} \subseteq support
  /\ connected \in BOOLEAN /\ held \in BOOLEAN /\ hdbc \in BOOLEAN /\ hstmt \in BOOLEAN
  /\ mode \in {"pattern", "identifier"} /\ drv \in Statements
  /\ found \in Possible(support) \union {NoTable}
  /\ last \in Calls /\ (last.op \in Searches => last.rows \union last.left \subseteq Possible(support))

\* Names stay patterns unless the driver starts with identifiers.
Patterns == Without({"identifier_default"}) => mode = "pattern" /\ ~drv.id

NotKept == Without({"outlives"}) => ~held

(* Amid the rows: what has been fetched and what is left are what was asked for. *)
Asking == last.res \in {"ok", "fetching"}
WholeWithTheRest ==
  /\ Without({"identifier_default"}) /\ last.op \in Searches /\ Asking /\ ~Misnamed(last.asked)
  => last.rows \union last.left = MeantTables(last.asked)
OfThatTableWithTheRest ==
  last.op \in ReadsOfTable /\ Asking /\ Literal(last.asked)
  => last.rows \union last.left = {last.asked} \cap last.truth
NothingLeft == last.res # "fetching" => last.left = {}

IInv ==
  /\ Shape /\ Patterns /\ NotKept
  /\ NoCursorLeft /\ HandleDiesWithConnection /\ InitAllOrNothing
  /\ WholeWithTheRest /\ OfThatTableWithTheRest /\ NothingLeft /\ RowsTruthful

-----------------------------------------------------------------------------
(* What is passed for what is meant. *)

LEMMA TablesTyped ==
  ASSUME NEW t \in Possible(support)
  PROVE  /\ t \in Tables /\ t \in Question
         /\ t.name \in Names /\ t.schema \in Spaces \union {NoName} /\ t.catalog \in Spaces \union {NoName}
         /\ (t.schema = NoName) = ("schemas" \notin support)
         /\ (t.catalog = NoName) = ("catalogs" \notin support)
  BY TablesAssumption DEF Possible, Question, Arguments

\* One argument, for a table of a database of this kind.
LEMMA OneArgument ==
  ASSUME NEW t \in Possible(support), NEW a, NEW b \in BOOLEAN
  PROVE  /\ Fits(a, t.schema, b) <=> Meant(a, t.schema, "schemas", b)
         /\ Fits(a, t.catalog, b) <=> Meant(a, t.catalog, "catalogs", b)
         /\ Fits(OrNull(a, "schemas"), t.schema, b) <=> Meant(a, t.schema, "schemas", b)
         /\ Fits(OrNull(a, "catalogs"), t.catalog, b) <=> Meant(a, t.catalog, "catalogs", b)
<1>1. Fits(a, t.schema, b) <=> Meant(a, t.schema, "schemas", b)
  BY TablesTyped DEF Fits, Meant
<1>2. Fits(a, t.catalog, b) <=> Meant(a, t.catalog, "catalogs", b)
  BY TablesTyped DEF Fits, Meant
<1>3. \A v : Fits(Null, v, b)
  BY DEF Fits
<1> QED BY <1>1, <1>2, <1>3 DEF OrNull, Meant

\* What p finds is what q means.
Finds(p, t) == /\ Fits(p["name"], t.name, TRUE)
               /\ Fits(p["schema"], t.schema, TRUE)
               /\ Fits(p["catalog"], t.catalog, CatalogPatterns)
Means(q, t) == /\ Fits(q.name, t.name, TRUE)
               /\ Meant(q.schema, t.schema, "schemas", TRUE)
               /\ Meant(q.catalog, t.catalog, "catalogs", CatalogPatterns)
Says(p, q) == \A t \in Possible(support) : Finds(p, t) <=> Means(q, t)

LEMMA PatternsBoolean == CatalogPatterns \in BOOLEAN
  BY DEF CatalogPatterns

(* "%" in place of null finds the same, unless it is a name. *)
LEMMA OrAllSays ==
  ASSUME NEW n, NEW s, NEW c, NEW q, Says(Ask(n, s, c), q),
         c = Null /\ "postgres" \in support => CatalogPatterns
  PROVE  Says(OrAll(Ask(n, s, c)), q)
<1> DEFINE p == Ask(n, s, c)
<1>1. DOMAIN p = {"name", "schema", "catalog"} /\ p["catalog"] = c
  BY DEF Ask
<1>2. ASSUME NEW field \in {"name", "schema", "catalog"}, NEW v, NEW b,
             p[field] = Null /\ "postgres" \in support => b
      PROVE  Fits(OrAll(p)[field], v, b) <=> Fits(p[field], v, b)
  <2>1. OrAll(p)[field] = IF p[field] = Null /\ "postgres" \in support THEN All ELSE p[field]
    BY <1>1 DEF OrAll
  <2>2. CASE p[field] = Null /\ "postgres" \in support
    <3>1. OrAll(p)[field] = All /\ b
      BY <1>2, <2>1, <2>2
    <3>2. Fits(Null, v, b) /\ Fits(All, v, b)
      BY <3>1 DEF Fits
    <3> QED BY <2>2, <3>1, <3>2
  <2>3. CASE ~(p[field] = Null /\ "postgres" \in support)
    BY <2>1, <2>3
  <2> QED BY <2>2, <2>3
<1> HIDE DEF p
<1>3. ASSUME NEW t PROVE Finds(OrAll(p), t) <=> Finds(p, t)
  <2>1. Fits(OrAll(p)["name"], t.name, TRUE) <=> Fits(p["name"], t.name, TRUE)
    BY <1>2
  <2>2. Fits(OrAll(p)["schema"], t.schema, TRUE) <=> Fits(p["schema"], t.schema, TRUE)
    BY <1>2
  <2>3. Fits(OrAll(p)["catalog"], t.catalog, CatalogPatterns) <=> Fits(p["catalog"], t.catalog, CatalogPatterns)
    BY <1>1, <1>2
  <2> QED BY <2>1, <2>2, <2>3 DEF Finds
<1>4. Says(p, q)
  BY DEF p
<1>5. Says(OrAll(p), q)
  BY <1>3, <1>4 DEF Says
<1> QED BY <1>5 DEF p

LEMMA AskSays ==
  ASSUME NEW n, NEW s, NEW c
  PROVE  Says(Ask(n, s, c), Ask(n, s, c)) /\ Says(ByAll(n, s, c), Ask(n, s, c))
<1>1. \A x, y, z : Ask(x, y, z).name = x /\ Ask(x, y, z).schema = y /\ Ask(x, y, z).catalog = z
                   /\ Ask(x, y, z)["name"] = x /\ Ask(x, y, z)["schema"] = y /\ Ask(x, y, z)["catalog"] = z
  BY DEF Ask
<1>2. Says(Ask(n, s, c), Ask(n, s, c))
  BY <1>1, OneArgument, PatternsBoolean DEF Says, Finds, Means
<1>3. Says(ByAll(n, s, c), Ask(n, s, c))
  <2> DEFINE p == ByAll(n, s, c)
             q == Ask(n, s, c)
  <2>1. p["name"] = n /\ p["schema"] = OrNull(s, "schemas") /\ p["catalog"] = OrNull(c, "catalogs")
    BY <1>1 DEF ByAll
  <2>2. q.name = n /\ q.schema = s /\ q.catalog = c
    BY <1>1
  <2> HIDE DEF p, q
  <2>3. ASSUME NEW t \in Possible(support) PROVE Finds(p, t) <=> Means(q, t)
    <3>1. Fits(OrNull(s, "schemas"), t.schema, TRUE) <=> Meant(s, t.schema, "schemas", TRUE)
      BY OneArgument
    <3>2. Fits(OrNull(c, "catalogs"), t.catalog, CatalogPatterns)
            <=> Meant(c, t.catalog, "catalogs", CatalogPatterns)
      BY OneArgument, PatternsBoolean
    <3> QED BY <2>1, <2>2, <3>1, <3>2 DEF Finds, Means
  <2>4. Says(p, q)
    BY <2>3 DEF Says
  <2> QED BY <2>4 DEF p, q
<1> QED BY <1>2, <1>3

-----------------------------------------------------------------------------
(* One call on the statement.  A call that asks leaves everything but the
   attribute, the cursor and its own answer alone. *)

Answers(op, q, res, truth, rows, left) ==
  /\ last' = Call(op, res, q, truth, rows, left) /\ row' = NoRow
  /\ Running /\ res \notin {"terminated", "cursor_open"}

Asks ==
  /\ UNCHANGED <<there, support, connected, held, hdbc, hstmt, found, faults>>
  /\ mode' \in {"pattern", "identifier"} /\ drv' \in Statements /\ drv'.live = drv.live
  /\ mode = "pattern" /\ ~drv.id => mode' = "pattern" /\ ~drv'.id
  /\ Without({"close_fails"}) /\ drv'.cursor => last'.res = "fetching"

\* The attribute that the driver is asked with.
Attribute(a) ==
  /\ a.mode \in {"pattern", "identifier"} /\ a.id \in BOOLEAN
  /\ mode = "pattern" /\ ~drv.id => a.mode = "pattern" /\ ~a.id

LEMMA AttributesTyped ==
  ASSUME Shape
  PROVE  /\ \A a \in AttributesAfter : Attribute(a)
         /\ Attribute([mode |-> mode, id |-> drv.id])
  BY DEF AttributesAfter, Attribute, Shape, Statements

LEMMA ThrowsAsks ==
  ASSUME IInv, NEW op, NEW res \in {"assertion", "not_allowed", "failed"}, NEW q, Throws(op, res, q)
  PROVE  Asks /\ Answers(op, q, res, {}, {}, {})
<1>1. Answers(op, q, res, {}, {}, {})
  BY DEF Throws, Ended, Returns, Answers, Idle, Running
<1>2. UNCHANGED <<there, support, connected, held, hdbc, hstmt, mode, drv, found, faults>> /\ Idle
  BY DEF Throws, world, catalog, Ended, Returns
<1>3. Without({"close_fails"}) => ~drv'.cursor
  BY <1>2 DEF IInv, NoCursorLeft, Idle
<1> QED BY <1>1, <1>2, <1>3 DEF Asks, IInv, Shape

LEMMA CannotAskAsks ==
  ASSUME IInv, NEW op, NEW q, CannotAsk(op, q)
  PROVE  Asks /\ \E res \in {"assertion", "failed"} : Answers(op, q, res, {}, {}, {})
  BY ThrowsAsks DEF CannotAsk

(* The guard of the scope throws where it cannot close. *)
LEMMA NotClosedAsks ==
  ASSUME IInv, Idle, NEW op, NEW q, NEW a, Attribute(a),
         "close_fails" \in faults, Becomes(a, drv), Ended(op, "failed", q, {})
  PROVE  Asks /\ Answers(op, q, "failed", {}, {}, {})
<1>1. drv' = [drv EXCEPT !.id = a.id] /\ drv \in Statements
  BY DEF Becomes, IInv, Shape
<1>2. drv' \in Statements /\ drv'.live = drv.live /\ drv'.id = a.id
  BY <1>1 DEF Attribute, Statements
<1> QED BY <1>2 DEF Asks, Answers, Becomes, Ended, Returns, world, Attribute, Without, Idle, Running

(* The statement is closed before the driver is asked, so no cursor is in its way. *)
LEMMA DriverAskedAsks ==
  ASSUME IInv, Idle, NEW op, NEW q, NEW a, Attribute(a), NEW answer, NEW refused,
         DriverAsked(op, q, a, answer, refused)
  PROVE  Asks /\ (Answers(op, q, "failed", {}, {}, {}) \/ Answers(op, q, "fetching", there, {}, answer))
<1> DEFINE d == ClosedAtFirst(drv)
<1>1. d \in Statements /\ ~d.cursor /\ d.live = drv.live
  BY DEF ClosedAtFirst, IInv, Shape, Statements
<1>2. CASE Becomes(a, d) /\ Ended(op, "failed", q, {})
  <2>1. drv' = [d EXCEPT !.id = a.id]
    BY <1>2 DEF Becomes
  <2>2. drv' \in Statements /\ drv'.live = drv.live /\ drv'.id = a.id /\ ~drv'.cursor
    BY <1>1, <2>1 DEF Attribute, Statements
  <2> QED BY <1>2, <2>2 DEF Asks, Answers, Becomes, Ended, Returns, world, Attribute, Idle, Running
<1>3. CASE /\ Becomes(a, [d EXCEPT !.cursor = TRUE])
           /\ Returns(Call(op, "fetching", q, there, {}, answer))
  <2>1. drv' = [[d EXCEPT !.cursor = TRUE] EXCEPT !.id = a.id]
    BY <1>3 DEF Becomes
  <2>2. drv' \in Statements /\ drv'.live = drv.live /\ drv'.id = a.id
    BY <1>1, <2>1 DEF Attribute, Statements
  <2>3. last'.res = "fetching"
    BY <1>3 DEF Returns, Call
  <2> QED BY <1>3, <2>2, <2>3 DEF Asks, Answers, Becomes, Returns, world, Attribute, Idle, Running
<1> HIDE DEF d
<1> QED BY <1>1, <1>2, <1>3 DEF DriverAsked, d

LEMMA RunAsks ==
  ASSUME IInv, NEW op, NEW q, NEW p, Run(op, q, p)
  PROVE  /\ Asks
         /\ \/ \E res \in {"assertion", "failed"} : Answers(op, q, res, {}, {}, {})
            \/ \E id \in BOOLEAN :
                 /\ Answers(op, q, "fetching", there, {}, Answer(op, p, id))
                 /\ mode = "pattern" /\ ~drv.id => ~id
<1>1. CASE CannotAsk(op, q)
  BY <1>1, CannotAskAsks
<1>2. CASE /\ Idle /\ hstmt /\ drv.live
           /\ \E a \in AttributesAfter :
                \/ "close_fails" \in faults /\ Becomes(a, drv) /\ Ended(op, "failed", q, {})
                \/ DriverAsked(op, q, a, Answer(op, p, a.id), Refuses(op, p, a.id))
  <2>1. PICK a \in AttributesAfter :
          \/ "close_fails" \in faults /\ Becomes(a, drv) /\ Ended(op, "failed", q, {})
          \/ DriverAsked(op, q, a, Answer(op, p, a.id), Refuses(op, p, a.id))
    BY <1>2
  <2>2. Attribute(a)
    BY AttributesTyped DEF IInv
  <2>3. CASE "close_fails" \in faults /\ Becomes(a, drv) /\ Ended(op, "failed", q, {})
    BY <1>2, <2>2, <2>3, NotClosedAsks
  <2>4. CASE DriverAsked(op, q, a, Answer(op, p, a.id), Refuses(op, p, a.id))
    BY <1>2, <2>2, <2>4, DriverAskedAsks DEF Attribute
  <2> QED BY <2>1, <2>3, <2>4
<1> QED BY <1>1, <1>2 DEF Run

-----------------------------------------------------------------------------
(* What a call that asks keeps. *)

LEMMA AsksKeeps ==
  ASSUME IInv, Asks, NEW op \in Ops, NEW q \in Question, NEW res \in Results,
         NEW truth \in SUBSET Possible(support), NEW rows, NEW left,
         Answers(op, q, res, truth, rows, left),
         rows \union left \subseteq Possible(support) \union {NoTable},
         op \in Searches => rows \union left \subseteq Possible(support),
         res # "fetching" => left = {}
  PROVE  /\ Shape' /\ Patterns' /\ NotKept' /\ NoCursorLeft' /\ HandleDiesWithConnection'
         /\ InitAllOrNothing' /\ NothingLeft' /\ RowsTruthful'
<1>1. Possible(support) \subseteq Tables /\ Possible(support)' = Possible(support)
  BY DEF Possible, Asks
<1>2. /\ last' \in Calls /\ last'.op = op /\ last'.res = res
      /\ last'.rows = rows /\ last'.left = left /\ last'.truth = truth
  BY <1>1 DEF Answers, Calls, Call, Answered
<1>3. Shape'
  BY <1>1, <1>2 DEF Shape, Asks, IInv
<1>4. Patterns'
  BY DEF Patterns, Asks, IInv, Without
<1>5. NotKept'
  BY DEF NotKept, Asks, IInv, Without
<1>6. NoCursorLeft' /\ NothingLeft'
  BY <1>2 DEF NoCursorLeft, NothingLeft, Asks, Answers, Without
<1>7. HandleDiesWithConnection' /\ InitAllOrNothing'
  BY <1>2 DEF HandleDiesWithConnection, InitAllOrNothing, Asks, Answers, IInv, Without, Running
<1>8. RowsTruthful'
  BY DEF RowsTruthful, Answers
<1> QED BY <1>3, <1>4, <1>5, <1>6, <1>7, <1>8

(* A call that has failed has no answer to be wrong about. *)
LEMMA FailureKeeps ==
  ASSUME IInv, Asks, NEW op \in Ops, NEW q \in Question, NEW res \in {"assertion", "failed", "not_allowed"},
         Answers(op, q, res, {}, {}, {})
  PROVE  IInv'
<1>1. WholeWithTheRest' /\ OfThatTableWithTheRest'
  BY DEF WholeWithTheRest, OfThatTableWithTheRest, Asking, Answers, Call
<1>2. res \in Results /\ res # "fetching"
  BY DEF Results
<1> QED BY <1>1, <1>2, AsksKeeps DEF IInv

(* A search that is passed what is meant keeps the answers whole. *)
LEMMA SearchKeeps ==
  ASSUME IInv, NEW op \in Searches, NEW q \in Question, NEW p,
         DOMAIN p = {"name", "schema", "catalog"}, Misnamed(q) \/ Says(p, q), Run(op, q, p)
  PROVE  IInv'
<1>1. Asks /\ op \in Ops /\ op \notin ReadsOfTable
  BY RunAsks DEF Ops, Searches, ReadsOfTable
<1>3. CASE \E res \in {"assertion", "failed"} : Answers(op, q, res, {}, {}, {})
  BY <1>1, <1>3, FailureKeeps
<1>4. ASSUME NEW id \in BOOLEAN, Answers(op, q, "fetching", there, {}, Answer(op, p, id)),
             mode = "pattern" /\ ~drv.id => ~id
      PROVE  IInv'
  <2>1. Answer(op, p, id) \subseteq Possible(support) /\ there \subseteq Possible(support)
    BY DEF Answer, IInv, Shape
  <2>2. Without({"identifier_default"}) => ~id
    BY <1>4 DEF IInv, Patterns
  <2>3. ASSUME ~id, ~Misnamed(q)
        PROVE  Answer(op, p, id) = {t \in there : Means(q, t)}
    <3>1. ASSUME NEW t
          PROVE  (\A field \in DOMAIN p : Fits(p[field], t[field], ~id /\ TakesPatterns(op, field))) <=> Finds(p, t)
      <4>1. /\ (~id /\ TakesPatterns(op, "name")) = TRUE
            /\ (~id /\ TakesPatterns(op, "schema")) = TRUE
            /\ (~id /\ TakesPatterns(op, "catalog")) = CatalogPatterns
        BY <2>3, PatternsBoolean DEF TakesPatterns, Searches
      <4> QED BY <4>1 DEF Finds
    <3>2. Answer(op, p, id) = {t \in there : Finds(p, t)}
      BY <3>1 DEF Answer
    <3> QED BY <2>1, <2>3, <3>2 DEF Says
  <2>4. WholeWithTheRest'
    <3>1. /\ last'.rows = {} /\ last'.left = Answer(op, p, id) /\ last'.truth = there
          /\ last'.asked = q /\ support' = support /\ faults' = faults
      BY <1>1, <1>4 DEF Answers, Call, Asks
    <3>2. MeantTables(q)' = {t \in there : Means(q, t)} /\ Misnamed(q)' = Misnamed(q)
      BY <3>1 DEF MeantTables, Means, Meant, CatalogPatterns, Misnamed
    <3> QED BY <2>2, <2>3, <3>1, <3>2 DEF WholeWithTheRest, Without
  <2>5. OfThatTableWithTheRest'
    BY <1>1, <1>4 DEF OfThatTableWithTheRest, Answers, Call
  <2>6. "fetching" \in Results
    BY DEF Results
  <2> QED BY <1>1, <1>4, <2>1, <2>4, <2>5, <2>6, AsksKeeps DEF IInv
<1> QED BY <1>3, <1>4, RunAsks

(* The names of a table that are no patterns of another find that table only. *)
LEMMA LiteralFits ==
  ASSUME NEW ti \in Possible(support), NEW t \in Possible(support), Literal(ti), NEW id \in BOOLEAN,
         NEW op \in ReadsOfTable
  PROVE  (\A field \in DOMAIN ForTable(ti) :
            Fits(ForTable(ti)[field], t[field], ~id /\ TakesPatterns(op, field))) <=> t = ti
<1> DEFINE p == ForTable(ti)
<1>1. /\ DOMAIN p = {"name", "schema", "catalog"} /\ p["name"] = ti.name
      /\ p["schema"] = IF ti.schema = NoName THEN Null ELSE ti.schema
      /\ p["catalog"] = IF ti.catalog = NoName THEN Null ELSE ti.catalog
  BY DEF ForTable, Ask
<1>2. \A n \in Names \union Spaces : n \in DOMAIN MatchedBy /\ n \notin {Null, All, Empty, NoName}
  BY MatchAssumption, NamesAssumption
<1>3. ASSUME NEW n \in Names \union Spaces, MatchedBy[n] = {n}, NEW v, NEW b \in BOOLEAN
      PROVE  Fits(n, v, b) <=> v = n
  BY <1>2, <1>3 DEF Fits
<1>4. /\ ti.name \in Names /\ MatchedBy[ti.name] = {ti.name}
      /\ ti.schema # NoName => ti.schema \in Spaces /\ MatchedBy[ti.schema] = {ti.schema}
      /\ ti.catalog # NoName => ti.catalog \in Spaces /\ MatchedBy[ti.catalog] = {ti.catalog}
  <2>1. ti.name # NoName
    BY <1>2, TablesTyped
  <2> QED BY <2>1, TablesTyped DEF Literal
<1>5. ti.schema = NoName <=> t.schema = NoName
  BY TablesTyped
<1>6. ti.catalog = NoName <=> t.catalog = NoName
  BY TablesTyped
<1>7. \A b \in BOOLEAN : Fits(p["name"], t.name, b) <=> t.name = ti.name
  BY <1>1, <1>3, <1>4
<1>8. \A b \in BOOLEAN : Fits(p["schema"], t.schema, b) <=> t.schema = ti.schema
  BY <1>1, <1>3, <1>4, <1>5 DEF Fits
<1>9. \A b \in BOOLEAN : Fits(p["catalog"], t.catalog, b) <=> t.catalog = ti.catalog
  BY <1>1, <1>3, <1>4, <1>6 DEF Fits
<1>10. \A field : (~id /\ TakesPatterns(op, field)) \in BOOLEAN
  OBVIOUS
<1>11. t = ti <=> t.name = ti.name /\ t.schema = ti.schema /\ t.catalog = ti.catalog
  BY TablesTyped, TablesAssumption
<1> QED BY <1>1, <1>7, <1>8, <1>9, <1>10, <1>11

LEMMA ReadKeeps ==
  ASSUME IInv, NEW op \in ReadsOfTable, ReadOfTable(op)
  PROVE  IInv'
<1>1. found \in Possible(support) /\ found \in Question
  BY TablesTyped DEF ReadOfTable, IInv, Shape
<1>2. Run(op, found, ForTable(found))
  BY DEF ReadOfTable
<1>3. Asks /\ op \in Ops /\ op \notin Searches
  BY <1>2, RunAsks DEF Ops, ReadsOfTable, Searches
<1>5. CASE \E res \in {"assertion", "failed"} : Answers(op, found, res, {}, {}, {})
  BY <1>1, <1>3, <1>5, FailureKeeps
<1>6. ASSUME NEW id \in BOOLEAN, Answers(op, found, "fetching", there, {}, Answer(op, ForTable(found), id))
      PROVE  IInv'
  <2>1. Answer(op, ForTable(found), id) \subseteq Possible(support) /\ there \subseteq Possible(support)
    BY DEF Answer, IInv, Shape
  <2>2. Literal(found) => Answer(op, ForTable(found), id) = {found} \cap there
    BY <1>1, <2>1, LiteralFits DEF Answer
  <2>3. OfThatTableWithTheRest' /\ WholeWithTheRest'
    <3>1. /\ last'.op = op /\ last'.rows = {} /\ last'.left = Answer(op, ForTable(found), id)
          /\ last'.truth = there /\ last'.asked = found
      BY <1>6 DEF Answers, Call
    <3> QED BY <1>3, <2>2, <3>1 DEF OfThatTableWithTheRest, WholeWithTheRest, Literal
  <2>4. "fetching" \in Results
    BY DEF Results
  <2> QED BY <1>1, <1>3, <1>6, <2>1, <2>3, <2>4, AsksKeeps DEF IInv
<1> QED BY <1>2, <1>5, <1>6, RunAsks

LEMMA QuestionTyped ==
  ASSUME NEW n \in Arguments, NEW s \in Arguments, NEW c \in Arguments
  PROVE  Ask(n, s, c) \in Question /\ Ask(n, s, c).catalog = c
  BY DEF Ask, Question

(* Both ways of passing a schema and a catalog, with and without "%". *)
LEMMA PassedSays ==
  ASSUME IInv, NEW n, NEW s, NEW c
  PROVE  LET q == Ask(n, s, c) IN
         /\ Misnamed(q) \/ Says(OrAll(ByAll(n, s, c)), q)
         /\ Misnamed(q) \/ Says(OrAll(q), q)
         /\ DOMAIN OrAll(ByAll(n, s, c)) = {"name", "schema", "catalog"}
         /\ DOMAIN OrAll(q) = {"name", "schema", "catalog"}
<1> DEFINE q == Ask(n, s, c)
           x == OrNull(s, "schemas")
           y == OrNull(c, "catalogs")
<1>1. ByAll(n, s, c) = Ask(n, x, y) /\ ("postgres" \in support => y = c)
  BY DEF ByAll, OrNull, IInv, Shape
<1>2. Misnamed(q) \/ (c = Null /\ "postgres" \in support => CatalogPatterns)
  BY DEF Misnamed, Ask
<1>3. Says(q, q) /\ Says(ByAll(n, s, c), q)
  BY AskSays
<1> HIDE DEF x, y
<1>4. Misnamed(q) \/ Says(OrAll(Ask(n, x, y)), q)
  BY <1>1, <1>2, <1>3, OrAllSays
<1>5. Misnamed(q) \/ Says(OrAll(q), q)
  BY <1>2, <1>3, OrAllSays
<1>6. \A u, v : DOMAIN OrAll(Ask(n, u, v)) = {"name", "schema", "catalog"}
  BY DEF OrAll, Ask
<1> QED BY <1>1, <1>4, <1>5, <1>6

LEMMA SearchTablesKeeps == ASSUME IInv, SearchTables PROVE IInv'
<1>1. PICK n \in Names \union {All} :
        \/ \E s, c \in Spaces \union {Empty, All} :
             Run("SearchTables", Ask(n, s, c), OrAll(ByAll(n, s, c)))
        \/ \E s, c \in Spaces \union {Null, Empty, All} :
             Run("SearchTables", Ask(n, s, c), OrAll(Ask(n, s, c)))
        \/ Throws("SearchTables", "not_allowed", ByName(n))
  BY DEF SearchTables, ByEither, BySchema, ByCatalog, ByName
<1>2. n \in Arguments /\ Spaces \union {Null, Empty, All} \subseteq Arguments
  BY DEF Arguments
<1>4. ASSUME NEW s \in Spaces \union {Empty, All}, NEW c \in Spaces \union {Empty, All},
             Run("SearchTables", Ask(n, s, c), OrAll(ByAll(n, s, c)))
      PROVE  IInv'
  <2>1. Ask(n, s, c) \in Question
    BY <1>2, QuestionTyped
  <2> QED BY <1>4, <2>1, PassedSays, SearchKeeps DEF Searches
<1>5. ASSUME NEW s \in Spaces \union {Null, Empty, All}, NEW c \in Spaces \union {Null, Empty, All},
             Run("SearchTables", Ask(n, s, c), OrAll(Ask(n, s, c)))
      PROVE  IInv'
  <2>1. Ask(n, s, c) \in Question
    BY <1>2, QuestionTyped
  <2> QED BY <1>5, <2>1, PassedSays, SearchKeeps DEF Searches
<1>6. CASE Throws("SearchTables", "not_allowed", ByName(n))
  <2>1. ByName(n) \in Question
    BY <1>2, QuestionTyped DEF ByName
  <2>2. Asks /\ Answers("SearchTables", ByName(n), "not_allowed", {}, {}, {})
    BY <1>6, ThrowsAsks
  <2> QED BY <2>1, <2>2, FailureKeeps DEF Ops, Searches
<1> QED BY <1>1, <1>4, <1>5, <1>6

LEMMA FindOneTableKeeps == ASSUME IInv, FindOneTable PROVE IInv'
<1>1. PICK n \in Names, s \in Spaces \union {Empty}, c \in Spaces \union {Empty} :
        Run("FindOneTable", Ask(n, IF s = Empty THEN Null ELSE s, IF c = Empty THEN Null ELSE c),
            OrAll(ForOne(n, s, c)))
  BY DEF FindOneTable
<1> DEFINE a == IF s = Empty THEN Null ELSE s
           b == IF c = Empty THEN Null ELSE c
<1>2. ForOne(n, s, c) = Ask(n, a, b)
  BY DEF ForOne, ByAll, BySchema, ByCatalog, ByName, OrNull
<1>3. n \in Arguments /\ a \in Arguments /\ b \in Arguments
  BY DEF Arguments
<1> HIDE DEF a, b
<1>4. Ask(n, a, b) \in Question
  BY <1>3, QuestionTyped
<1>5. Run("FindOneTable", Ask(n, a, b), OrAll(Ask(n, a, b)))
  BY <1>1, <1>2 DEF a, b
<1> QED BY <1>4, <1>5, PassedSays, SearchKeeps DEF Searches

(* The lists and the types of the database are asked for without a table. *)
LEMMA ListKeeps ==
  ASSUME IInv, NEW op \in Lists \union {"ReadSqlTypeInfo"}, List(op) \/ (op = "ReadSqlTypeInfo" /\ ReadSqlTypeInfo)
  PROVE  IInv'
<1>1. /\ op \in Ops /\ op \notin Searches /\ op \notin ReadsOfTable /\ NoTable \in Question
      /\ "fetching" \in Results
  BY DEF Lists, Ops, Searches, ReadsOfTable, Question, NoTable, Arguments, Results
<1>2. /\ Asks
      /\ \/ \E res \in {"assertion", "failed"} : Answers(op, NoTable, res, {}, {}, {})
         \/ Answers(op, NoTable, "fetching", there, {}, {NoTable})
  <2>1. CASE CannotAsk(op, NoTable)
    BY <2>1, CannotAskAsks
  <2>2. CASE Idle /\ \E a : /\ Attribute(a)
                            /\ \/ "close_fails" \in faults /\ Becomes(a, drv) /\ Ended(op, "failed", NoTable, {})
                               \/ DriverAsked(op, NoTable, a, {NoTable}, FALSE)
    BY <2>2, NotClosedAsks, DriverAskedAsks
  <2>3. (\A a \in AttributesAfter : Attribute(a)) /\ Attribute([mode |-> mode, id |-> drv.id])
    BY AttributesTyped DEF IInv
  <2> QED BY <2>1, <2>2, <2>3 DEF List, ReadSqlTypeInfo
<1>3. CASE \E res \in {"assertion", "failed"} : Answers(op, NoTable, res, {}, {}, {})
  BY <1>1, <1>2, <1>3, FailureKeeps
<1>4. CASE Answers(op, NoTable, "fetching", there, {}, {NoTable})
  <2>1. WholeWithTheRest' /\ OfThatTableWithTheRest'
    BY <1>1, <1>4 DEF WholeWithTheRest, OfThatTableWithTheRest, Answers, Call
  <2>2. there \in SUBSET Possible(support)
    BY DEF IInv, Shape
  <2> QED BY <1>1, <1>2, <1>4, <2>1, <2>2, AsksKeeps DEF IInv
<1> QED BY <1>2, <1>3, <1>4

-----------------------------------------------------------------------------
(* The rows. *)

(* Whatever becomes of the statement, the call and its rows. *)
LEMMA FetchKeeps ==
  ASSUME IInv, last.res = "fetching", drv' \in Statements, drv'.live = drv.live, drv'.id = drv.id,
         Without({"close_fails"}) /\ drv'.cursor => last'.res = "fetching",
         UNCHANGED <<there, support, connected, held, hdbc, hstmt, mode, found, faults>>,
         row' \in {row, NoRow}, last' \in Calls, last'.res \notin {"terminated", "cursor_open"},
         last'.op = last.op, NothingLeft', last'.rows \union last'.left \subseteq last.rows \union last.left,
         last'.asked = last.asked,
         last'.res \in {"ok", "fetching"} =>
           /\ last'.rows \union last'.left = last.rows \union last.left
           /\ last'.truth = last.truth
  PROVE  IInv'
<1>1. Possible(support)' = Possible(support)
  BY DEF Possible
<1>2. Shape'
  BY <1>1 DEF Shape, IInv
<1>3. Patterns' /\ NotKept' /\ NoCursorLeft'
  BY DEF Patterns, NotKept, NoCursorLeft, Without, IInv
<1>4. HandleDiesWithConnection' /\ InitAllOrNothing'
  BY DEF HandleDiesWithConnection, InitAllOrNothing, Without, Running, IInv
<1>5. RowsTruthful'
  BY DEF RowsTruthful, Without, IInv
<1>6. ASSUME Asking'
      PROVE  /\ MeantTables(last.asked)' = MeantTables(last.asked)
             /\ Misnamed(last.asked)' = Misnamed(last.asked)
  BY <1>6 DEF Asking, MeantTables, Meant, Misnamed, CatalogPatterns
<1>7. WholeWithTheRest'
  BY <1>6 DEF WholeWithTheRest, Asking, Without, IInv
<1>8. OfThatTableWithTheRest'
  BY DEF OfThatTableWithTheRest, Asking, Literal, IInv
<1> QED BY <1>2, <1>3, <1>4, <1>5, <1>7, <1>8 DEF IInv

LEMMA FetchRowKeeps == ASSUME IInv, FetchRow PROVE IInv'
<1>1. PICK t \in last.left : last' = [last EXCEPT !.rows = @ \union {t}, !.left = @ \ {t}]
  BY DEF FetchRow
<1>2. last \in Calls
  BY DEF IInv, Shape
<1>3. /\ last' \in Calls /\ last'.res = last.res /\ last'.op = last.op /\ last'.asked = last.asked
      /\ last'.truth = last.truth /\ last'.rows = last.rows \union {t} /\ last'.left = last.left \ {t}
  BY <1>1, <1>2 DEF Calls, Answered
<1>4. UNCHANGED <<there, support, connected, held, hdbc, hstmt, mode, drv, found, row, faults>>
  BY DEF FetchRow, world, catalog
<1>5. NothingLeft' /\ last.res = "fetching" /\ drv \in Statements
  BY <1>3 DEF FetchRow, NothingLeft, IInv, Shape
<1> QED BY <1>3, <1>4, <1>5, FetchKeeps

(* Closing at the end of the scope. *)
LEMMA ClosedTyped ==
  ASSUME IInv, NEW d \in ClosedAtLast(drv)
  PROVE  /\ d \in Statements /\ d.live = drv.live /\ d.id = drv.id
         /\ Without({"close_fails"}) => ~d.cursor
  BY DEF ClosedAtLast, IInv, Shape, Statements, Without

LEMMA FetchEndsKeeps == ASSUME IInv, FetchEnds PROVE IInv'
<1>1. /\ last.res = "fetching" /\ last.left = {} /\ drv' \in ClosedAtLast(drv) /\ last \in Calls
      /\ UNCHANGED <<there, support, connected, held, hdbc, hstmt, mode, found, faults>> /\ row' = NoRow
      /\ \/ last' = Call(last.op, "ok", last.asked, last.truth, last.rows, {})
         \/ last' = Call(last.op, "not_found", last.asked, {}, {}, {})
  BY DEF FetchEnds, LoopLeft, Ended, Returns, world, IInv, Shape
<1>2. /\ last' \in Calls /\ last'.res \in {"ok", "not_found"} /\ last'.op = last.op
      /\ last'.asked = last.asked /\ last'.left = {} /\ last'.rows \subseteq last.rows
      /\ last'.res = "ok" => last'.rows = last.rows /\ last'.truth = last.truth
  BY <1>1 DEF Call, Calls, Answered, Results
<1>3. NothingLeft'
  BY <1>2 DEF NothingLeft
<1> QED BY <1>1, <1>2, <1>3, ClosedTyped, FetchKeeps

LEMMA FetchFailsKeeps == ASSUME IInv, FetchFails PROVE IInv'
<1>1. /\ last.res = "fetching" /\ drv' \in ClosedAtLast(drv) /\ last \in Calls
      /\ UNCHANGED <<there, support, connected, held, hdbc, hstmt, mode, found, faults>> /\ row' = NoRow
      /\ last' = Call(last.op, "failed", last.asked, {}, {}, {})
  BY DEF FetchFails, Ended, Returns, world, IInv, Shape
<1>2. /\ last' \in Calls /\ last'.res = "failed" /\ last'.op = last.op
      /\ last'.asked = last.asked /\ last'.left = {} /\ last'.rows = {}
  BY <1>1 DEF Call, Calls, Answered, Results
<1>3. NothingLeft'
  BY <1>2 DEF NothingLeft
<1> QED BY <1>1, <1>2, <1>3, ClosedTyped, FetchKeeps

-----------------------------------------------------------------------------
(* The callers. *)

LEMMA NothingTyped ==
  /\ Nothing \in Calls /\ Nothing.op = "none" /\ Nothing.res = "ok"
  /\ Nothing.rows = {} /\ Nothing.left = {} /\ Nothing.truth = {}
  BY DEF Nothing, Call, Calls, Answered, Ops, Results, Question, NoTable, Arguments

LEMMA CallerKeeps ==
  ASSUME IInv, Idle, UNCHANGED <<world, catalog, faults>>, last' = Nothing,
         found' \in Possible(support) \union {NoTable}, RowsTruthful'
  PROVE  IInv'
<1>1. UNCHANGED <<there, support, connected, held, hdbc, hstmt, mode, drv, faults>>
  BY DEF world, catalog
<1>2. Shape'
  <2>1. Possible(support)' = Possible(support)
    BY <1>1 DEF Possible
  <2> QED BY <1>1, <2>1, NothingTyped DEF Shape, IInv, Searches
<1>3. Patterns' /\ NotKept' /\ InitAllOrNothing'
  BY <1>1 DEF Patterns, NotKept, InitAllOrNothing, Without, IInv
<1>4. HandleDiesWithConnection' /\ NoCursorLeft' /\ NothingLeft'
  BY <1>1, NothingTyped DEF HandleDiesWithConnection, NoCursorLeft, NothingLeft, Without, Running, Idle, IInv
<1>5. WholeWithTheRest' /\ OfThatTableWithTheRest'
  BY NothingTyped DEF WholeWithTheRest, OfThatTableWithTheRest, Searches, ReadsOfTable
<1> QED BY <1>2, <1>3, <1>4, <1>5 DEF IInv

LEMMA KeepTableInfoKeeps == ASSUME IInv, KeepTableInfo PROVE IInv'
<1>1. found' \in Possible(support)
  BY DEF KeepTableInfo, IInv, Shape
<1>2. RowsTruthful'
  BY DEF KeepTableInfo, RowsTruthful
<1> QED BY <1>1, <1>2, CallerKeeps DEF KeepTableInfo

(* Of the fields that the readers set, a caller learns the truth. *)
LEMMA FieldsTruthful ==
  ASSUME NEW k \in RowKinds, NEW f \in Fields(k), f \notin UnsetMembers(k),
         NEW r \in {"value", "null"}, r = "null" => f \in MayBeNull(k)
  PROVE  LearnsTruth(k, f, r)
<1>1. f \notin HalfWritten[k] \union NotStored[k] /\ f \notin MayBeNull(k) \cap PlainNumbers[k]
  BY DEF UnsetMembers
<1>2. CASE r = "value"
  BY <1>1, <1>2 DEF LearnsTruth, Stored
<1>3. CASE r = "null"
  <2>1. CASE f \in Flagged(k)
    BY <1>3, <2>1 DEF LearnsTruth, SaysNull
  <2>2. CASE f \notin Flagged(k)
    <3>1. f \in Texts(k)
      <4>1. (f \in {"bufferLength", "decimalDigits"} /\ k = "special")
              \/ (f = "tableRemarks" /\ k = "table")
        BY <1>3, <2>2 DEF MayBeNull
      <4>2. PlainNumbers["special"] = {"sqlType", "columnSize", "bufferLength", "decimalDigits"}
        BY DEF PlainNumbers, RowKinds
      <4>3. PlainTexts["table"] = {"tableName", "tableType", "tableRemarks"}
        BY DEF PlainTexts, RowKinds
      <4> QED BY <1>1, <1>3, <4>1, <4>2, <4>3 DEF Texts
    <3> QED BY <1>3, <3>1 DEF LearnsTruth, Stored
  <2> QED BY <2>1, <2>2
<1> QED BY <1>2, <1>3

LEMMA LookAtFieldKeeps == ASSUME IInv, LookAtField PROVE IInv'
<1> DEFINE k == RowKindOf(last.op)
<1>1. PICK f \in FieldsLookedAt(k) : \E r \in ReportsOf(k, f) :
        row' = [kind |-> k, field |-> f, report |-> r]
  BY DEF LookAtField
<1>2. PICK r \in ReportsOf(k, f) : row' = [kind |-> k, field |-> f, report |-> r]
  BY <1>1
<1>3. k \in RowKinds
  BY DEF LookAtField, RowKindOf, RowKinds, Searches, ReadsOfTable
<1> HIDE DEF k
<1>4. faults' = faults
  BY DEF LookAtField
<1>5. ASSUME Without({"unset", "long"}) PROVE LearnsTruth(k, f, r)
  <2>1. f \in Fields(k) /\ f \notin UnsetMembers(k)
    BY <1>5 DEF FieldsLookedAt, Without
  <2>2. r \in {"value", "null"} /\ (r = "null" => f \in MayBeNull(k))
    BY <1>5 DEF ReportsOf, Without
  <2> QED BY <1>3, <2>1, <2>2, FieldsTruthful
<1>6. RowsTruthful'
  BY <1>2, <1>4, <1>5 DEF RowsTruthful, Without
<1>7. found' \in Possible(support) \union {NoTable}
  BY DEF LookAtField, IInv, Shape
<1> QED BY <1>6, <1>7, CallerKeeps DEF LookAtField

-----------------------------------------------------------------------------
(* The life of the catalog. *)

LEMMA LifeKeeps ==
  ASSUME IInv, Idle, UNCHANGED <<support, found>>, there' \subseteq Possible(support),
         NEW op \in {"Init", "Reset", "Destroy", "none"}, NEW res \in {"ok", "failed", "assertion", "terminated"},
         Ended(op, res, NoTable, {}),
         connected' \in BOOLEAN, held' \in BOOLEAN, hdbc' \in BOOLEAN, hstmt' \in BOOLEAN,
         mode' \in {"pattern", "identifier"}, drv' \in Statements,
         Patterns', NotKept', ~drv'.cursor \/ drv' = drv, InitAllOrNothing',
         Without({"outlives"}) => /\ hstmt' => drv'.live /\ connected'
                                  /\ res = "terminated" => "free_fails" \in faults
  PROVE  IInv'
<1>1. last' = Call(op, res, NoTable, {}, {}, {}) /\ row' = NoRow /\ faults' = faults
  BY DEF Ended, Returns
<1>2. /\ last' \in Calls /\ last'.op = op /\ last'.res = res /\ last'.left = {}
      /\ op \notin Searches /\ op \notin ReadsOfTable
  BY <1>1 DEF Call, Calls, Answered, Ops, Results, Question, NoTable, Arguments, Searches, ReadsOfTable
<1>3. Shape'
  <2>1. Possible(support)' = Possible(support)
    BY DEF Possible
  <2> QED BY <1>1, <1>2, <2>1 DEF Shape, IInv
<1>4. NoCursorLeft' /\ NothingLeft' /\ HandleDiesWithConnection' /\ RowsTruthful'
  BY <1>1, <1>2 DEF NoCursorLeft, NothingLeft, HandleDiesWithConnection, RowsTruthful, Without, Running, Idle, IInv
<1>5. WholeWithTheRest' /\ OfThatTableWithTheRest'
  BY <1>2 DEF WholeWithTheRest, OfThatTableWithTheRest
<1> QED BY <1>3, <1>4, <1>5 DEF IInv

LEMMA NewTyped ==
  /\ NewStmt \in Statements /\ NewStmt.live /\ ~NewStmt.cursor
  /\ NewStmt.id <=> "identifier_default" \in faults
  /\ NoStmt \in Statements /\ ~NoStmt.live /\ ~NoStmt.cursor /\ ~NoStmt.id
<1>1. NewStmt \in Statements
  <2>1. ("identifier_default" \in faults) \in BOOLEAN
    OBVIOUS
  <2> QED BY <2>1 DEF NewStmt, Statements
<1>2. NewStmt.live /\ ~NewStmt.cursor /\ (NewStmt.id <=> "identifier_default" \in faults)
  BY DEF NewStmt
<1>3. NoStmt \in Statements /\ ~NoStmt.live /\ ~NoStmt.cursor /\ ~NoStmt.id
  BY DEF NoStmt, Statements
<1> QED BY <1>1, <1>2, <1>3

LEMMA InitKeeps == ASSUME IInv, InitCatalog \/ InitFails \/ InitAgain PROVE IInv'
<1>1. CASE InitCatalog
  <2>1. /\ Idle /\ connected /\ hdbc' = TRUE /\ hstmt' = TRUE /\ drv' = NewStmt
        /\ mode' = (IF NewStmt.id THEN "identifier" ELSE "pattern")
        /\ Ended("Init", "ok", NoTable, {}) /\ UNCHANGED <<there, support, connected, held, found>>
        /\ faults' = faults
    BY <1>1 DEF InitCatalog, Ended, Returns, world
  <2>2. Patterns' /\ InitAllOrNothing' /\ NotKept'
    BY <2>1, NewTyped DEF Patterns, InitAllOrNothing, NotKept, Without, IInv
  <2> QED BY <2>1, <2>2, NewTyped, LifeKeeps DEF IInv, Shape
<1>2. CASE InitFails
  <2>1. PICK allocated \in BOOLEAN :
          hstmt' = allocated /\ drv' = (IF allocated THEN NewStmt ELSE NoStmt)
    BY <1>2 DEF InitFails
  <2>2. /\ Idle /\ connected /\ ~hdbc /\ "init_fails" \in faults /\ hdbc' = TRUE /\ mode' = mode
        /\ Ended("Init", "failed", NoTable, {}) /\ UNCHANGED <<there, support, connected, held, found>>
        /\ faults' = faults
    BY <1>2 DEF InitFails, Ended, Returns, world
  <2>3. Patterns' /\ InitAllOrNothing' /\ NotKept'
    BY <2>1, <2>2, NewTyped DEF Patterns, InitAllOrNothing, NotKept, Without, IInv
  <2> QED BY <2>1, <2>2, <2>3, NewTyped, LifeKeeps DEF IInv, Shape
<1>3. CASE InitAgain
  <2>1. /\ Idle /\ UNCHANGED <<there, support, connected, held, hdbc, hstmt, mode, drv, found>>
        /\ Ended("Init", "assertion", NoTable, {}) /\ faults' = faults
    BY <1>3 DEF InitAgain, Throws, Ended, Returns, world, catalog
  <2>2. Patterns' /\ InitAllOrNothing' /\ NotKept'
    BY <2>1 DEF Patterns, InitAllOrNothing, NotKept, Without, IInv
  <2>3. Without({"outlives"}) => (hstmt' => drv'.live /\ connected')
    BY <2>1 DEF HandleDiesWithConnection, IInv
  <2> QED BY <2>1, <2>2, <2>3, LifeKeeps DEF IInv, Shape
<1> QED BY <1>1, <1>2, <1>3

(* What Reset does to the handle, alone and as a part of the destructor. *)
LEMMA FreesKeeps ==
  ASSUME IInv, Idle, faults' = faults, held' \in BOOLEAN, mode' \in {mode, "pattern"},
         UNCHANGED <<there, support, found>>, connected' \in BOOLEAN, held' => held, Frees,
         NEW op \in {"Reset", "Destroy"}, Ended(op, "ok", NoTable, {})
  PROVE  IInv'
<1>1. /\ hdbc' = FALSE /\ hstmt' = FALSE
      /\ drv' = drv \/ drv' = NoStmt
  BY DEF Frees, IInv, Shape
<1>2. drv' \in Statements /\ (~drv'.cursor \/ drv' = drv)
  BY <1>1, NewTyped DEF IInv, Shape
<1>3. Patterns' /\ InitAllOrNothing' /\ NotKept'
  BY <1>1, NewTyped DEF Patterns, InitAllOrNothing, NotKept, Without, IInv
<1> QED BY <1>1, <1>2, <1>3, LifeKeeps DEF IInv, Shape

LEMMA FreeThrowsKeeps ==
  ASSUME IInv, Idle, UNCHANGED <<there, support, found, mode, connected>>, held' \in BOOLEAN, held' => held, FreeThrows,
         NEW op \in {"Reset", "Destroy"}, NEW res \in {"failed", "terminated"},
         Ended(op, res, NoTable, {})
  PROVE  IInv'
<1>0. faults' = faults
  BY DEF Ended, Returns
<1>1. drv' = drv /\ hdbc' = hdbc /\ hstmt' \in {hstmt, FALSE}
  BY DEF FreeThrows
<1>2. Without({"outlives"}) => hstmt' = hstmt /\ "free_fails" \in faults
  BY DEF FreeThrows, IInv, HandleDiesWithConnection
<1>3. Patterns' /\ InitAllOrNothing' /\ NotKept'
  BY <1>0, <1>1, <1>2 DEF Patterns, InitAllOrNothing, NotKept, Without, IInv
<1>4. Without({"outlives"}) => (hstmt' => drv'.live /\ connected')
  BY <1>1, <1>2 DEF HandleDiesWithConnection, IInv
<1>5. hstmt' \in BOOLEAN
  BY <1>1 DEF IInv, Shape
<1> QED BY <1>1, <1>2, <1>3, <1>4, <1>5, LifeKeeps DEF IInv, Shape

LEMMA ResetKeeps == ASSUME IInv, Reset PROVE IInv'
<1>1. Idle /\ UNCHANGED <<there, support, connected, held, mode, found>> /\ faults' = faults
  BY DEF Reset, world, Ended, Returns
<1>2. CASE Frees /\ Ended("Reset", "ok", NoTable, {})
  BY <1>1, <1>2, FreesKeeps DEF IInv, Shape
<1>3. CASE FreeThrows /\ Ended("Reset", "failed", NoTable, {})
  BY <1>1, <1>3, FreeThrowsKeeps DEF IInv, Shape
<1> QED BY <1>2, <1>3 DEF Reset

LEMMA ReleaseKeeps == ASSUME IInv, Release PROVE IInv'
<1>1. Idle /\ UNCHANGED <<there, support, found, connected>> /\ held' = FALSE /\ faults' = faults
  BY DEF Release, Ends, Destroyed, Ended, Returns, Returns
<1>2. CASE Ends
  BY <1>1, <1>2, FreeThrowsKeeps DEF Ends
<1>3. CASE Destroyed
  BY <1>1, <1>3, FreesKeeps DEF Destroyed, IInv, Shape
<1> QED BY <1>2, <1>3 DEF Release

LEMMA CloseKeeps == ASSUME IInv, CloseDatabase PROVE IInv'
<1>1. Idle /\ UNCHANGED <<there, support, held, found>> /\ faults' = faults /\ held \in BOOLEAN
  BY DEF CloseDatabase, Ends, Destroyed, Ended, Returns, IInv, Shape
<1>2. CASE Ends
  BY <1>1, <1>2, FreeThrowsKeeps DEF Ends
<1>3. CASE Destroyed /\ connected' = FALSE
  BY <1>1, <1>3, FreesKeeps DEF Destroyed
<1>4. CASE /\ held /\ drv' = NoStmt /\ connected' = FALSE
           /\ Ended("none", "ok", NoTable, {}) /\ UNCHANGED <<hdbc, hstmt, mode>>
  <2>1. Patterns' /\ InitAllOrNothing' /\ NotKept'
    BY <1>1, <1>4, NewTyped DEF Patterns, InitAllOrNothing, NotKept, Without, IInv
  <2>2. ~ Without({"outlives"})
    BY <1>4 DEF IInv, NotKept
  <2> QED BY <1>1, <1>4, <2>1, <2>2, NewTyped, LifeKeeps DEF IInv, Shape
<1> QED BY <1>2, <1>3, <1>4 DEF CloseDatabase

LEMMA OthersKeep ==
  ASSUME IInv, Idle, Hold \/ OpenDatabase \/ TablesChange
  PROVE  IInv'
<1>1. /\ UNCHANGED <<support, hdbc, hstmt, mode, drv, found>> /\ faults' = faults
      /\ Ended("none", "ok", NoTable, {})
      /\ connected' \in BOOLEAN /\ (connected => connected')
  BY DEF Hold, OpenDatabase, TablesChange, catalog, Ended, Returns, Nothing, IInv, Shape
<1>2. there' \subseteq Possible(support)
  BY DEF Hold, OpenDatabase, TablesChange, IInv, Shape
<1>3. held' \in BOOLEAN /\ (Without({"outlives"}) => ~held')
  <2>1. CASE Hold
    BY <2>1 DEF Hold, Without
  <2>2. CASE OpenDatabase \/ TablesChange
    BY <2>2 DEF OpenDatabase, TablesChange, IInv, Shape, NotKept
  <2> QED BY <2>1, <2>2
<1>4. Patterns' /\ InitAllOrNothing' /\ NotKept'
  BY <1>1, <1>3 DEF Patterns, InitAllOrNothing, NotKept, Without, IInv
<1>5. Without({"outlives"}) => (hstmt' => drv'.live /\ connected')
  BY <1>1 DEF HandleDiesWithConnection, IInv
<1> QED BY <1>1, <1>2, <1>3, <1>4, <1>5, LifeKeeps DEF IInv, Shape

(* While rows are fetched tables come and go; the rows are those of the question. *)
LEMMA ChangeAmidRowsKeeps ==
  ASSUME IInv, last.res = "fetching", TablesChange
  PROVE  IInv'
<1>1. /\ UNCHANGED <<support, connected, held, hdbc, hstmt, mode, drv, found, last, faults>>
      /\ row' = NoRow
  BY DEF TablesChange, Returns, Idle, catalog
<1>2. there' \subseteq Possible(support) /\ Possible(support)' = Possible(support)
  BY <1>1 DEF TablesChange, IInv, Shape, Possible
<1>3. Shape'
  BY <1>1, <1>2 DEF Shape, IInv
<1>4. Patterns' /\ NotKept' /\ NoCursorLeft' /\ HandleDiesWithConnection' /\ InitAllOrNothing' /\ NothingLeft'
  BY <1>1 DEF IInv, Patterns, NotKept, NoCursorLeft, HandleDiesWithConnection, InitAllOrNothing, NothingLeft,
     Running, Without
<1>5. WholeWithTheRest' /\ OfThatTableWithTheRest' /\ RowsTruthful'
  BY <1>1 DEF IInv, WholeWithTheRest, OfThatTableWithTheRest, RowsTruthful, MeantTables, Meant, Misnamed,
     CatalogPatterns, Asking, Without, Literal
<1> QED BY <1>3, <1>4, <1>5 DEF IInv

-----------------------------------------------------------------------------
(* The invariant, and what it is for. *)

LEMMA InitIInv == Init => IInv
<1> SUFFICES ASSUME Init PROVE IInv
  OBVIOUS
<1>1. Shape
  BY NothingTyped, NewTyped DEF Init, Shape, Searches
<1>2. Patterns /\ NotKept /\ NoCursorLeft /\ HandleDiesWithConnection /\ InitAllOrNothing
  BY NothingTyped, NewTyped DEF Init, Patterns, NotKept, NoCursorLeft, HandleDiesWithConnection,
     InitAllOrNothing, Running
<1>3. WholeWithTheRest /\ OfThatTableWithTheRest /\ NothingLeft /\ RowsTruthful
  BY NothingTyped DEF Init, WholeWithTheRest, OfThatTableWithTheRest, NothingLeft, RowsTruthful,
     Searches, ReadsOfTable
<1> QED BY <1>1, <1>2, <1>3 DEF IInv

LEMMA StutterKeeps == ASSUME IInv, UNCHANGED vars PROVE IInv'
<1>1. UNCHANGED <<there, support, connected, held, hdbc, hstmt, mode, drv, found, row, last, faults>>
  BY DEF vars
<1>2. Shape'
  <2>1. Possible(support)' = Possible(support)
    BY <1>1 DEF Possible
  <2> QED BY <1>1, <2>1 DEF IInv, Shape
<1>3. Patterns' /\ NotKept' /\ NoCursorLeft' /\ HandleDiesWithConnection' /\ InitAllOrNothing'
  BY <1>1 DEF IInv, Patterns, NotKept, NoCursorLeft, HandleDiesWithConnection, InitAllOrNothing,
     Running, Without
<1>4. WholeWithTheRest' /\ OfThatTableWithTheRest' /\ NothingLeft' /\ RowsTruthful'
  BY <1>1 DEF IInv, WholeWithTheRest, OfThatTableWithTheRest, NothingLeft, RowsTruthful, MeantTables, Meant,
     Misnamed, CatalogPatterns, Asking, Without, Literal
<1> QED BY <1>2, <1>3, <1>4 DEF IInv

LEMMA NextIInv == IInv /\ [Next]_vars => IInv'
<1> SUFFICES ASSUME IInv, [Next]_vars PROVE IInv'
  OBVIOUS
<1>1. CASE InitCatalog \/ InitFails \/ InitAgain \/ Reset \/ Release
  BY <1>1, InitKeeps, ResetKeeps, ReleaseKeeps
<1>2. CASE Hold \/ OpenDatabase \/ CloseDatabase \/ TablesChange
  BY <1>2, OthersKeep, CloseKeeps, ChangeAmidRowsKeeps DEF Hold, OpenDatabase, TablesChange, Running, Idle
<1>8. CASE FetchRow \/ FetchEnds \/ FetchFails
  BY <1>8, FetchRowKeeps, FetchEndsKeeps, FetchFailsKeeps
<1>3. CASE SearchTables \/ FindOneTable \/ KeepTableInfo \/ LookAtField
  BY <1>3, SearchTablesKeeps, FindOneTableKeeps, KeepTableInfoKeeps, LookAtFieldKeeps
<1>4. ASSUME NEW op \in Lists, List(op) PROVE IInv'
  BY <1>4, ListKeeps
<1>5. CASE ReadSqlTypeInfo
  BY <1>5, ListKeeps
<1>6. ASSUME NEW op \in ReadsOfTable, ReadOfTable(op) PROVE IInv'
  BY <1>6, ReadKeeps
<1>7. CASE Terminated \/ UNCHANGED vars
  BY <1>7, StutterKeeps DEF Terminated
<1> QED BY <1>1, <1>2, <1>3, <1>4, <1>5, <1>6, <1>7, <1>8 DEF Next

LEMMA Invariance == Spec => []IInv
  BY InitIInv, NextIInv, PTL DEF Spec

(* Whatever is called, in whatever order: the values keep their types. *)
THEOREM TypeCorrect == Spec => []TypeOK
<1>1. IInv => TypeOK
  BY TablesTyped DEF IInv, Shape, TypeOK, Calls, Answered, Statements, Possible
<1> QED BY Invariance, <1>1, PTL

(* DatabaseCatalog::SearchTables and FindOneTable (DatabaseCatalog.cpp:213-363):
   whatever is given for schema and catalog and whatever the database supports, an
   answer has the tables that were meant, all of them and no other. *)
THEOREM AnswersAreWhole == Spec => []AnswersWhole
<1>1. IInv => AnswersWhole
  BY DEF IInv, WholeWithTheRest, NothingLeft, Asking, AnswersWhole
<1> QED BY Invariance, <1>1, PTL

(* The Read functions (DatabaseCatalog.cpp:366-540): what is read for a TableInfo is
   about that table, unless its names are patterns that match others. *)
THEOREM ReadsAreOfThatTable == Spec => []OfThatTable
<1>1. IInv => OfThatTable
  BY DEF IInv, OfThatTableWithTheRest, NothingLeft, Asking, OfThatTable
<1> QED BY Invariance, <1>1, PTL

(* StatementCloser, as the catalog uses it: however a question ends, its result set
   is closed. *)
THEOREM CursorsAreClosed == Spec => []NoCursorLeft
<1>1. IInv => NoCursorLeft
  BY DEF IInv
<1> QED BY Invariance, <1>1, PTL

(* Database::Close and ~DatabaseCatalog: a statement is freed before its connection,
   and freeing it does not end the program, unless a caller has kept the catalog. *)
THEOREM StatementsDieFirst == Spec => []HandleDiesWithConnection
<1>1. IInv => HandleDiesWithConnection
  BY DEF IInv
<1> QED BY Invariance, <1>1, PTL

(* DatabaseCatalog::Init and Reset: there is a connection exactly when there is a
   statement, so a catalog can be initialised again. *)
THEOREM InitIsAllOrNothing == Spec => []InitAllOrNothing
<1>1. IInv => InitAllOrNothing
  BY DEF IInv
<1> QED BY Invariance, <1>1, PTL

(* The readers of TableInfo, ColumnInfo and the others: a caller who looks at the
   flag before the member learns what the driver reported. *)
THEOREM RowsAreTruthful == Spec => []RowsTruthful
<1>1. IInv => RowsTruthful
  BY DEF IInv
<1> QED BY Invariance, <1>1, PTL
=============================================================================
