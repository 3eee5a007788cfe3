------------------------------ MODULE KqlStore ------------------------------
\* The store's answers to the SQL that Hunt's planner writes: a SELECT over the
\* events, as SQLite evaluates it, and the table Logs as hunt/catalogue.py binds
\* its columns to that SQL.
\*
\* A stored value is a value of KqlValues that is null, long, real or a text; an
\* event's extra is kept as the bag it parses to.  Three columns of Logs are left
\* out that say where the line was found, and two that repeat others.
EXTENDS KqlValues
LOCAL INSTANCE Integers
LOCAL INSTANCE Sequences
LOCAL INSTANCE SequencesExt
LOCAL INSTANCE FiniteSetsExt

-----------------------------------------------------------------------------
\* The levels: as stored, as a query sees them, and the words that mean one.
Unknown == <<"u", "n", "k", "n", "o", "w", "n">>
LevelWords ==
  << <<Unknown, 0>>, <<<<"i", "n", "f", "o">>, 30>>, <<<<"e", "r", "r", "o", "r">>, 50>>,
     <<<<"e", "r", "r">>, 50>> >>
LevelLabel(n) ==
  LET named == {i \in 1 .. 3 : LevelWords[i][2] = n} IN
  IF named = {} THEN Unknown ELSE LevelWords[CHOOSE i \in named : TRUE][1]
LevelOf(word) ==
  LET meant == {i \in DOMAIN LevelWords : LevelWords[i][1] = word} IN
  IF meant = {} THEN 0 ELSE LevelWords[CHOOSE i \in meant : TRUE][2]

\* A word that means no level is stored as no level is.
EncodeLevel(v) ==
  LET word == Fold(Strip(ToText(v))) IN
  CASE v.t = "bool" -> Null
    [] v.t = "long" -> v
    [] OTHER -> Long(IF LevelOf(word) = 0 /\ word # Unknown THEN -1 ELSE LevelOf(word))
DecodeLevel(v) == Text(LevelLabel(v.n))

EncodeMoment(v) ==
  CASE v.t \in {"long", "datetime"} -> Long(v.n)
    [] v.t = "real"                 -> Long(Truncated(v.n, Sixths))
    [] IsText(v) /\ ToMoment(v) # Null -> Long(ToMoment(v).n)
    [] OTHER                        -> Null
DecodeMoment(v) == IF v = Null THEN Null ELSE Moment(v.n)

Binding(name, type, field, code, searchable, indexed) ==
  [name |-> name, type |-> type, field |-> field, code |-> code,
   searchable |-> searchable, fullText |-> indexed]
Logs ==
  << Binding("Timestamp",  "datetime", "ts",      "moment", FALSE, FALSE),
     Binding("Level",      "string",   "level",   "level",  TRUE,  FALSE),
     Binding("Message",    "string",   "message", "none",   TRUE,  TRUE),
     Binding("App",        "string",   "app",     "none",   TRUE,  FALSE),
     Binding("LineNumber", "long",     "line",    "none",   FALSE, FALSE),
     Binding("Extra",      "dynamic",  "extra",   "json",   FALSE, FALSE),
     Binding("EventId",    "long",     "id",      "none",   FALSE, FALSE) >>
Bound(name) == {i \in DOMAIN Logs : Logs[i].name = name}
IsBound(name) == Bound(name) # {}
BindingOf(name) == Logs[CHOOSE i \in Bound(name) : TRUE]

\* A column without a code of its own stores a value as SQLite takes it.
Storable(v) == v.t \notin {"list", "bag"}
Stored(v) == IF v.t \in {"bool", "datetime", "timespan"} THEN Long(v.n) ELSE v
Encode(code, v) ==
  CASE code = "level" -> EncodeLevel(v) [] code = "moment" -> EncodeMoment(v) [] OTHER -> Stored(v)
Decode(code, v) ==
  CASE code = "level" -> DecodeLevel(v) [] code = "moment" -> DecodeMoment(v) [] OTHER -> v

-----------------------------------------------------------------------------
\* Expressions of SQL.  An operator with its operands; a column; a value; an
\* output of the SELECT by its alias.
Op(op, args)  == [q |-> op, args |-> args]
Field(field)  == [q |-> "field", field |-> field]
Value(v)      == [q |-> "value", v |-> v]
Alias(name)   == [q |-> "alias", name |-> name]

Truth(b) == Long(IF b THEN 1 ELSE 0)
Number(v) == IF IsText(v) THEN (IF ToLong(v) = Null THEN Long(0) ELSE ToLong(v)) ELSE v
Holds(v) == v # Null /\ Number(v).n # 0
Fails(v) == v # Null /\ Number(v).n = 0

\* Numbers come before texts.
StoredOrder(a, b) ==
  IF IsText(a) # IsText(b) THEN (IF IsText(b) THEN -1 ELSE 1) ELSE Compare(a, b)
Strict(a, result) == IF \E i \in DOMAIN a : a[i] = Null THEN Null ELSE result
Same(a, b) == StoredOrder(a, b) = 0

SqlArithmetic(op, a, b) ==
  CASE op = "+" -> Add(a, b) [] op = "-" -> Subtract(a, b) [] op = "*" -> Multiply(a, b)
    [] b.n = 0 -> Null
    [] op = "/" -> IF "real" \in {a.t, b.t} THEN Divide(a, b)
                   ELSE Long(Sgn(b.n) * Truncated(a.n, Sgn(b.n) * b.n))
    [] op = "%" -> Long(a.n - b.n * Sgn(b.n) * Truncated(a.n, Sgn(b.n) * b.n))

\* lower() and upper() leave letters outside ASCII alone.
Lowered(v) == Text(MapText(ToText(v), AsciiLower))
Uppered(v) == Text(MapText(ToText(v), AsciiUpper))
\* The text index takes letters of any alphabet, without their accents.
Unaccented(c) == IF c \in {"E'", "e'"} THEN "e" ELSE AsciiLower(c)
Indexed(s) == Terms(MapText(s, Unaccented))
\* A list or a bag inside an event's extra is its text.
JsonValue(v) == IF IsNested(v) THEN Text(ToText(v)) ELSE Stored(v)
JsonKey(bag, key) ==
  LET found == {i \in DOMAIN bag.l : bag.l[i].s = key} IN
  IF found = {} THEN Null ELSE JsonValue(bag.l[CHOOSE i \in found : TRUE].l[1])

Applied(op, a) ==
  CASE op = "and" -> IF Fails(a[1]) \/ Fails(a[2]) THEN Truth(FALSE) ELSE Strict(a, Truth(TRUE))
    [] op = "or"  -> IF Holds(a[1]) \/ Holds(a[2]) THEN Truth(TRUE) ELSE Strict(a, Truth(FALSE))
    [] op = "is null"     -> Truth(a[1] = Null)
    [] op = "is not null" -> Truth(a[1] # Null)
    [] op = "in" ->
         CASE a[1] = Null -> Null
           [] \E i \in 2 .. Len(a) : a[i] # Null /\ Same(a[1], a[i]) -> Truth(TRUE)
           [] OTHER -> Strict(a, Truth(FALSE))
    [] OTHER -> Strict(a,
         CASE op = "not" -> Truth(Fails(a[1]))
           [] op = "="  -> Truth(Same(a[1], a[2]))
           [] op = "<>" -> Truth(~Same(a[1], a[2]))
           [] op = "<"  -> Truth(StoredOrder(a[1], a[2]) < 0)
           [] op = "<=" -> Truth(StoredOrder(a[1], a[2]) <= 0)
           [] op = ">"  -> Truth(StoredOrder(a[1], a[2]) > 0)
           [] op = ">=" -> Truth(StoredOrder(a[1], a[2]) >= 0)
           [] op = "between" -> Truth(StoredOrder(a[1], a[2]) >= 0 /\ StoredOrder(a[1], a[3]) <= 0)
           [] op \in {"+", "-", "*", "/", "%"} -> SqlArithmetic(op, Number(a[1]), Number(a[2]))
           [] op = "negative" -> Negate(Number(a[1]))
           [] op = "lower"  -> Lowered(a[1])
           [] op = "upper"  -> Uppered(a[1])
           [] op = "length" -> Long(Len(ToText(a[1])))
           [] op = "abs"    -> [Number(a[1]) EXCEPT !.n = IF @ < 0 THEN -@ ELSE @]
           [] op = "instr"  -> Truth(Inside(ToText(a[1]), ToText(a[2])))
           [] op = "starts" -> Truth(BeginsWith(ToText(a[1]), ToText(a[2])))
           [] op = "ends"   -> Truth(EndsIn(ToText(a[1]), ToText(a[2])))
           [] op = "match"  -> Truth(Indexed(a[2].s) # <<>> /\ Inside(Indexed(a[1].s), Indexed(a[2].s)))
           [] op = "json"   -> JsonKey(a[1], a[2].s)
           [] op = "cut"    -> Multiply(ToLong(SqlArithmetic("/", Number(a[1]), a[2])), a[2]))

RECURSIVE Sql(_, _)
Sql(x, row) ==
  CASE x.q = "value" -> x.v
    [] x.q = "field" -> row[x.field]
    [] OTHER         -> Applied(x.q, [i \in DOMAIN x.args |-> Sql(x.args[i], row)])

-----------------------------------------------------------------------------
\* An aggregate of SQL over the rows of a group.
Kept(values) == SelectSeq(values, LAMBDA v : v # Null)
SqlSum(values) ==
  LET kept == Kept(values) IN
  IF kept = <<>> THEN Null
  ELSE FoldLeft(LAMBDA sum, v : Add(sum, Number(v)), Long(0), kept)
SqlMean(values) ==
  LET kept == Kept(values) IN
  IF kept = <<>> THEN Null
  ELSE Real(AsSixths(SqlSum(values)) \div Len(kept))
SqlBest(values, side) ==
  FoldLeft(LAMBDA best, v :
    IF v # Null /\ (best = Null \/ StoredOrder(v, best) = side) THEN v ELSE best, Null, values)

\* What each aggregate of the planner's is in SQL: x its first operand, y its
\* second.  The ones with a condition add up what a CASE makes of every row.
Aggregated(call, x, y, rows) ==
  LET xs == [i \in DOMAIN rows |-> Sql(x, rows[i])]
      met == [i \in DOMAIN rows |-> Truth(Holds(xs[i]))]
      chosen == [i \in DOMAIN rows |-> IF Holds(Sql(y, rows[i])) THEN xs[i] ELSE Long(0)] IN
  CASE call = "count"   -> Long(Len(rows))
    [] call = "countif" -> SqlSum(met)
    [] call = "sum"     -> SqlSum(xs)
    [] call = "sumif"   -> SqlSum(chosen)
    [] call = "avg"     -> SqlMean(xs)
    [] call = "min"     -> SqlBest(xs, -1)
    [] call = "max"     -> SqlBest(xs, 1)
    [] call = "dcount"  -> Long(Cardinality({xs[i] : i \in DOMAIN xs} \ {Null}))

-----------------------------------------------------------------------------
\* A SELECT: its outputs, its conditions, what it groups by, its order and limit.
\* The rows come in the order they were stored; groups in the order of their keys.
SelectRow(select, rows) ==
  [i \in DOMAIN select.outputs |->
     LET out == select.outputs[i] IN
     IF out.call = "none" THEN Sql(out.x, rows[1]) ELSE Aggregated(out.call, out.x, out.y, rows)]

OutputAt(select, name) == CHOOSE i \in DOMAIN select.outputs : select.outputs[i].alias = name
\* The value a term of the order has for an answer and the row it came from.
\* A name no output has is the store's column of that name, and where there is
\* none either, a text, the same for every row.
TermOf(select, x, answer, row) ==
  IF x.q # "alias" THEN Sql(x, row)
  ELSE IF \E i \in DOMAIN select.outputs : select.outputs[i].alias = x.name
       THEN answer[OutputAt(select, x.name)]
  ELSE IF x.name \in {"Level", "Message", "App", "Extra"} THEN row[BindingOf(x.name).field]
  ELSE Text(<<>>)

\* Null is the smallest, unless the term says where nulls go.
TermOrder(term, a, b) ==
  LET turned == IF term.descending THEN -1 ELSE 1
      nulls  == IF term.nulls = "default" THEN turned ELSE IF term.nulls = "first" THEN 1 ELSE -1
  IN CASE a = Null /\ b = Null -> 0
       [] a = Null -> -nulls
       [] b = Null -> nulls
       [] OTHER    -> turned * StoredOrder(a, b)

LexOrder(orders) ==
  LET apart == {i \in DOMAIN orders : orders[i] # 0} IN
  IF apart = {} THEN 0 ELSE orders[Min(apart)]

GroupsOf(select, rows) ==
  LET keys == [r \in DOMAIN rows |-> [i \in 1 .. select.keys |-> Sql(select.outputs[i].x, rows[r])]]
      KeyBefore(r, s) ==
        LexOrder([i \in 1 .. select.keys |->
          TermOrder([descending |-> FALSE, nulls |-> "default"], keys[r][i], keys[s][i])]) < 0
      firsts == SelectSeq([r \in DOMAIN rows |-> r], LAMBDA r : \A s \in 1 .. r - 1 : keys[s] # keys[r])
      sorted == StableSort(firsts, KeyBefore)
  IN IF select.keys = 0 THEN << rows >>
     ELSE [g \in DOMAIN sorted |->
             LET members == SelectSeq([r \in DOMAIN rows |-> r], LAMBDA r : keys[r] = keys[sorted[g]])
             IN [m \in DOMAIN members |-> rows[members[m]]]]

Answer(select, events) ==
  LET rows == SelectSeq(events, LAMBDA row : \A i \in DOMAIN select.where : Holds(Sql(select.where[i], row)))
      groups == IF select.grouped THEN GroupsOf(select, rows) ELSE [r \in DOMAIN rows |-> <<rows[r]>>]
      found == [g \in DOMAIN groups |->
                  [answer |-> SelectRow(select, groups[g]),
                   row |-> IF groups[g] = <<>> THEN <<>> ELSE groups[g][1]]]
      once == FoldLeft(LAMBDA done, f :
                IF select.distinct /\ \E i \in DOMAIN done : done[i].answer = f.answer
                THEN done ELSE Append(done, f), <<>>, found)
      Before(f, g) ==
        LexOrder([i \in DOMAIN select.order |->
          LET term == select.order[i] IN
          TermOrder(term, TermOf(select, term.x, f.answer, f.row), TermOf(select, term.x, g.answer, g.row))]) < 0
      sorted == StableSort(once, Before)
      shown  == IF select.limit < 0 THEN sorted ELSE SubSeq(sorted, 1, Min({select.limit, Len(sorted)}))
  IN [i \in DOMAIN shown |->
        [o \in DOMAIN select.outputs |-> Decode(select.outputs[o].decode, shown[i].answer[o])]]
=============================================================================
