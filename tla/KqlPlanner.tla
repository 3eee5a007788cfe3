----------------------------- MODULE KqlPlanner -----------------------------
\* How much of a query runs in the store (core/hunt/kql/compiler.py): the steps
\* at its front that SQL can say are folded into one SELECT, and the first one
\* that SQL cannot say ends it.
EXTENDS KqlStore, KqlExpressions
LOCAL INSTANCE Integers
LOCAL INSTANCE Sequences
LOCAL INSTANCE SequencesExt
LOCAL INSTANCE FiniteSetsExt

Output(alias, x, type, decode) ==
  [alias |-> alias, x |-> x, y |-> Value(Null), call |-> "none", type |-> type, decode |-> decode]
BoundOutput(b) == Output(b.name, Field(b.field), b.type, b.code)

\* What has been folded so far.  names are the outputs an expression can use.
Builder(lets) ==
  LET all == [i \in DOMAIN Logs |-> BoundOutput(Logs[i])] IN
  [select |-> all, names |-> all, where |-> <<>>, groups |-> <<>>, aggregates |-> <<>>,
   order |-> <<>>, limit |-> -1, distinct |-> FALSE, grouped |-> FALSE, lets |-> lets]
Outputs(b) == IF b.grouped THEN b.groups \o b.aggregates ELSE b.select
Limited(b) == b.limit >= 0

Built(b) ==
  [outputs |-> Outputs(b), keys |-> IF b.grouped THEN Len(b.groups) ELSE 0, where |-> b.where,
   grouped |-> b.grouped, distinct |-> b.distinct, order |-> b.order, limit |-> b.limit]

Named(outputs, name) == {i \in DOMAIN outputs : outputs[i].alias = name}

-----------------------------------------------------------------------------
\* Expressions.  What cannot be said in SQL is not pushable.
NotPushable     == [ok |-> FALSE]
Said(x, type)   == [ok |-> TRUE, x |-> x, type |-> type]

IsConstant(b, e) == Compiles(e, Constants(b.lets))
ConstantOf(b, e) == Eval(e, Constants(b.lets))
IsBoundRef(e)    == e.k = "column" /\ IsBound(e.name)
Unnested(b, e)   == IsConstant(b, e) => Storable(ConstantOf(b, e))

Symbol(op) ==
  CASE op \in {"==", "=~"} -> "=" [] op \in {"!=", "!~"} -> "<>" [] OTHER -> op
SqlFunctions ==
  [tolower |-> "string", toupper |-> "string", strlen |-> "long", abs |-> "real",
   isnull |-> "bool", isnotnull |-> "bool", isempty |-> "bool", isnotempty |-> "bool"]
SqlCall(name, x) ==
  CASE name = "tolower"    -> Op("lower", <<x>>)  [] name = "toupper" -> Op("upper", <<x>>)
    [] name = "strlen"     -> Op("length", <<x>>) [] name = "abs"     -> Op("abs", <<x>>)
    [] name = "isnull"     -> Op("is null", <<x>>)
    [] name = "isnotnull"  -> Op("is not null", <<x>>)
    [] name = "isempty"    -> Op("or", <<Op("is null", <<x>>), Op("=", <<x, Value(Text(<<>>))>>)>>)
    [] name = "isnotempty" -> Op("and", <<Op("is not null", <<x>>), Op("<>", <<x, Value(Text(<<>>))>>)>>)

Constant(b, e) ==
  IF Storable(ConstantOf(b, e)) THEN Said(Value(Stored(ConstantOf(b, e))), Kind(ConstantOf(b, e)))
  ELSE NotPushable

\* A column against a constant is compared as it is stored; what the column
\* could never store is equal to nothing, and everything is unlike it.
ComparedBound(b, e) ==
  LET bound == BindingOf(e.x.name)
      v     == ConstantOf(b, e.y)
      coded == Encode(bound.code, v)
      left  == Field(bound.field)
      folded == e.op \in {"=~", "!~"} /\ bound.type = "string" IN
  CASE ~Storable(v) /\ bound.code \notin {"level", "moment"} -> NotPushable
    [] coded = Null /\ v # Null -> Said(Value(Truth(e.op \notin {"==", "=~"})), "bool")
    [] folded -> Said(Op(Symbol(e.op), <<Op("lower", <<left>>), Op("lower", <<Value(coded)>>)>>), "bool")
    [] OTHER  -> Said(Op(Symbol(e.op), <<left, Value(coded)>>), "bool")

\* The column an extra's key is read from, and the key, which must be plain.
JsonPath(b, e) ==
  LET key == IF e.k = "member" THEN Text(e.key)
             ELSE IF IsConstant(b, e.y) THEN ConstantOf(b, e.y) ELSE Null IN
  IF /\ IsText(key)
     /\ IsBoundRef(e.x) /\ BindingOf(e.x.name).type = "dynamic"
     /\ ToSet(key.s) \cap {".", "[", "]"} = {}
  THEN Said(Op("json", <<Field(BindingOf(e.x.name).field), Value(key)>>), "string")
  ELSE NotPushable

Negated(negate, x) == IF negate THEN Op("not", <<x>>) ELSE x

\* contains, startswith and endswith, of a text column and a constant.
TextTest(b, e) ==
  LET o == TextOperators[e.op]
      needle == ConstantOf(b, e.y)
      op   == CASE o.test = "contains" -> "instr" [] o.test = "startswith" -> "starts" [] OTHER -> "ends"
      left == Field(BindingOf(e.x.name).field)
      sql  == IF o.sensitive THEN Op(op, <<left, Value(needle)>>)
              ELSE Op(op, <<Op("lower", <<left>>), Value(Text(Fold(needle.s)))>>) IN
  CASE ~(IsBoundRef(e.x) /\ BindingOf(e.x.name).type = "string" /\ IsConstant(b, e.y)) -> NotPushable
    [] ~IsText(needle) -> NotPushable
    [] needle.s = <<>> /\ o.test = "endswith" -> Said(Value(Truth(TRUE)), "bool")
    [] needle.s = <<>> /\ o.test = "contains" -> Said(Negated(o.negate, Value(Truth(TRUE))), "bool")
    [] OTHER -> Said(Negated(o.negate, sql), "bool")

\* has, of the column the text index covers and a constant.
HasTest(b, e) ==
  LET o == TextOperators[e.op]
      needle == ConstantOf(b, e.y) IN
  IF /\ ~o.sensitive
     /\ IsBoundRef(e.x) /\ BindingOf(e.x.name).fullText
     /\ IsConstant(b, e.y) /\ IsText(needle) /\ Strip(needle.s) # <<>>
  THEN Said(Negated(o.negate, Op("match", <<Field(BindingOf(e.x.name).field), Value(needle)>>)), "bool")
  ELSE NotPushable

\* A bin of the time column, or of a number, by a constant width.
BinCall(b, e) ==
  LET step  == ConstantOf(b, e.args[2])
      ofTime == IsBoundRef(e.args[1]) /\ BindingOf(e.args[1].name).type = "datetime"
      width == IF ofTime THEN (IF step.t = "timespan" THEN Long(step.n) ELSE ToLong(step)) ELSE ToReal(step)
  IN IF Len(e.args) # 2 \/ ~IsConstant(b, e.args[2]) THEN NotPushable
     ELSE IF width = Null \/ width.n = 0 \/ (ofTime /\ width.n < 0) THEN NotPushable
     ELSE IF ofTime
          THEN Said(Op("cut", <<Field(BindingOf(e.args[1].name).field), Value(width)>>), "datetime")
     ELSE Said(Value(Whole(width.n)), "number")

RECURSIVE Expr(_, _)
Comparison(b, e) ==
  IF IsBoundRef(e.x) /\ IsConstant(b, e.y) THEN ComparedBound(b, e)
  ELSE LET x == Expr(b, e.x)
           y == Expr(b, e.y)
           Cased(z) == IF e.op \in {"=~", "!~"} THEN Op("lower", <<z>>) ELSE z IN
       IF x.ok /\ y.ok THEN Said(Op(Symbol(e.op), <<Cased(x.x), Cased(y.x)>>), "bool") ELSE NotPushable

InTest(b, e) ==
  LET given == FlattenSeq([i \in DOMAIN e.items |->
                 LET v == ConstantOf(b, e.items[i]) IN IF v.t = "list" THEN v.l ELSE <<v>>])
      bound == BindingOf(e.x.name)
      folds == e.fold /\ bound.type = "string"
      coded == SelectSeq([i \in DOMAIN given |-> Encode(bound.code, given[i])], LAMBDA v : v # Null)
      Listed(x, values) ==
        Said(Negated(e.negate, Op("in", <<x>> \o [i \in DOMAIN values |-> Value(values[i])])), "bool")
      x == Expr(b, e.x) IN
  CASE \E i \in DOMAIN e.items : ~IsConstant(b, e.items[i]) -> NotPushable
    [] given = <<>> \/ (IsBoundRef(e.x) /\ coded = <<>>) -> Said(Value(Truth(e.negate)), "bool")
    [] \E i \in DOMAIN given : ~Storable(given[i]) -> NotPushable
    [] IsBoundRef(e.x) ->
         IF folds THEN Listed(Op("lower", <<Field(bound.field)>>),
                              [i \in DOMAIN coded |-> IF IsText(coded[i]) THEN Text(Fold(coded[i].s)) ELSE coded[i]])
         ELSE Listed(Field(bound.field), coded)
    [] OTHER -> IF x.ok THEN Listed(x.x, [i \in DOMAIN given |-> Stored(given[i])]) ELSE NotPushable

BetweenTest(b, e) ==
  LET ends  == <<ConstantOf(b, e.low), ConstantOf(b, e.high)>>
      coded == [i \in 1 .. 2 |-> Encode(BindingOf(e.x.name).code, ends[i])]
      x == Expr(b, e.x)
      Bounded(y, values) ==
        Said(Negated(e.negate, Op("between", <<y, Value(values[1]), Value(values[2])>>)), "bool") IN
  CASE ~(IsConstant(b, e.low) /\ IsConstant(b, e.high)) -> NotPushable
    [] IsBoundRef(e.x) ->
         IF Null \in {coded[1], coded[2]} THEN NotPushable
         ELSE Bounded(Field(BindingOf(e.x.name).field), coded)
    [] OTHER -> IF x.ok THEN Bounded(x.x, [i \in 1 .. 2 |-> Stored(ends[i])]) ELSE NotPushable

FunctionCall(b, e) ==
  LET x == Expr(b, e.args[1])
      cut == BinCall(b, e) IN
  CASE e.name = "bin" ->
         CASE ~cut.ok \/ cut.type = "datetime" -> cut
           [] ~x.ok \/ x.type \in {"string", "dynamic", "datetime"} -> NotPushable
           [] OTHER -> Said(Op("cut", <<x.x, cut.x>>), cut.x.v.t)
    [] e.name \notin DOMAIN SqlFunctions \/ Len(e.args) # 1 -> NotPushable
    [] OTHER -> IF x.ok THEN Said(SqlCall(e.name, x.x), SqlFunctions[e.name]) ELSE NotPushable

\* A column is the output of that name, or, where none has it, the table's.
ColumnExpr(b, e) ==
  LET seen == Named(b.names, e.name)
      there == Named(b.select, e.name) IN
  CASE seen # {}       -> Said(b.names[Max(seen)].x, b.names[Max(seen)].type)
    [] there # {}      -> Said(b.select[Min(there)].x, b.select[Min(there)].type)
    [] IsBound(e.name) -> Said(Field(BindingOf(e.name).field), BindingOf(e.name).type)
    [] OTHER           -> NotPushable

BinaryExpr(b, e) ==
  LET x == Expr(b, e.x)
      y == Expr(b, e.y) IN
  CASE e.op \in {"and", "or"} -> IF x.ok /\ y.ok THEN Said(Op(e.op, <<x.x, y.x>>), "bool") ELSE NotPushable
    [] e.op \in Comparisons   -> Comparison(b, e)
    [] e.op \in Arithmetic    ->
         IF x.ok /\ y.ok /\ x.type \notin {"string", "dynamic"}
         THEN Said(Op(e.op, <<x.x, y.x>>), x.type) ELSE NotPushable
    [] e.op \in DOMAIN TextOperators ->
         CASE TextOperators[e.op].test = "has" -> HasTest(b, e)
           [] TextOperators[e.op].test \in TextTests -> TextTest(b, e)
           [] OTHER -> NotPushable
    [] OTHER -> NotPushable

Expr(b, e) ==
  CASE e.k = "star"           -> NotPushable
    [] IsConstant(b, e)       -> Constant(b, e)
    [] e.k = "column"         -> ColumnExpr(b, e)
    [] e.k \in {"member", "index"} -> JsonPath(b, e)
    [] e.k = "unary"          ->
         LET x == Expr(b, e.x) IN
         (CASE ~x.ok        -> NotPushable
            [] e.op = "not" -> Said(Op("not", <<x.x>>), "bool")
            [] e.op = "-"   -> Said(Op("negative", <<x.x>>), x.type)
            [] e.op = "+"   -> x)
    [] e.k = "binary"         -> BinaryExpr(b, e)
    [] e.k = "in"             -> InTest(b, e)
    [] e.k = "between"        -> BetweenTest(b, e)
    [] e.k = "call"           -> FunctionCall(b, e)

\* How the value of a column, or of a bin of one, is read back.
RECURSIVE DecoderFor(_)
DecoderFor(e) ==
  CASE IsBoundRef(e) -> BindingOf(e.name).code
    [] e.k = "call" /\ e.name = "bin" /\ e.args # <<>> -> DecoderFor(e.args[1])
    [] OTHER -> "none"

-----------------------------------------------------------------------------
\* The steps.  Each is the builder with the step folded in, or Stuck.
Stuck == [ok |-> FALSE]
Pushed(b) == [ok |-> TRUE, b |-> b]

PushWhere(b, step) ==
  LET x == Expr(b, step.condition) IN
  IF Limited(b) \/ b.grouped \/ ~x.ok THEN Stuck ELSE Pushed([b EXCEPT !.where = Append(@, x.x)])

\* The text index for the message, a plain search for the other columns.
PushSearch(b, step) ==
  LET term == ConstantOf(b, step.term)
      columns == IF step.columns = <<>> THEN SelectSeq(Logs, LAMBDA c : c.searchable)
                 ELSE [i \in DOMAIN step.columns |-> BindingOf(step.columns[i])]
      Piece(c) ==
        IF c.fullText /\ step.columns = <<>> /\ ~step.sensitive
        THEN Op("match", <<Field(c.field), Value(term)>>)
        ELSE IF step.sensitive THEN Op("instr", <<Field(c.field), Value(term)>>)
        ELSE Op("instr", <<Op("lower", <<Field(c.field)>>), Value(Text(Fold(term.s)))>>)
  IN IF \/ b.grouped \/ Limited(b)
        \/ ~IsConstant(b, step.term) \/ ~IsText(term) \/ Strip(term.s) = <<>>
        \/ \E i \in DOMAIN step.columns : ~IsBound(step.columns[i])
     THEN Stuck
     ELSE Pushed([b EXCEPT !.where = Append(@,
            FoldLeft(LAMBDA said, c : Op("or", <<said, Piece(c)>>), Value(Truth(FALSE)), columns))])

PushTake(b, step) ==
  LET count == IF IsConstant(b, step.count) THEN ToLong(ConstantOf(b, step.count)) ELSE Null IN
  IF count = Null \/ count.n < 0 THEN Stuck
  ELSE Pushed([b EXCEPT !.limit = IF @ < 0 THEN count.n ELSE Min({@, count.n})])

\* A sort takes the place of the one before it.  A key that is an output is
\* ordered by as such.
PushSort(b, step) ==
  LET Key(key) == IF key.x.k = "column" /\ Named(Outputs(b), key.x.name) # {}
                  THEN Said(Alias(key.x.name), "string") ELSE Expr(b, key.x)
      keys == [i \in DOMAIN step.keys |-> Key(step.keys[i])] IN
  IF Limited(b) \/ \E i \in DOMAIN keys : ~keys[i].ok THEN Stuck
  ELSE Pushed([b EXCEPT !.order = [i \in DOMAIN keys |->
         [x |-> keys[i].x, descending |-> step.keys[i].descending, nulls |-> step.keys[i].nulls]]])

\* Mutant: the limit of a top is folded in and its order is not.
PushTopUnordered(b, step) ==
  LET sorted == PushSort(b, SortBy(step.keys)) IN
  IF sorted.ok THEN PushTake(b, step) ELSE Stuck
PushTop(b, step) ==
  LET sorted == PushSort(b, SortBy(step.keys)) IN
  IF sorted.ok THEN PushTake(sorted.b, step) ELSE Stuck

\* Counts the rows of the table that meet the conditions.
PushCount(b, step) ==
  IF Limited(b) THEN Stuck
  ELSE Pushed([b EXCEPT !.groups = <<>>, !.grouped = TRUE, !.order = <<>>,
         !.aggregates = << [Output(step.name, Value(Null), "long", "none") EXCEPT !.call = "count"] >>])

PushDistinct(b, step) ==
  LET chosen == [i \in DOMAIN step.columns |-> BoundOutput(BindingOf(step.columns[i]))] IN
  IF b.grouped \/ Limited(b) \/ step.columns = <<>> \/ \E i \in DOMAIN step.columns : ~IsBound(step.columns[i])
  THEN Stuck ELSE Pushed([b EXCEPT !.select = chosen, !.names = chosen, !.distinct = TRUE])

PushProject(b, step) ==
  LET named == {step.items[i].name : i \in DOMAIN step.items}
      kept  == SelectSeq(b.select, LAMBDA out : out.alias \notin named)
      Source(item) == IF item.value.k # "column" THEN {} ELSE Named(b.names, item.value.name)
      chosen == [i \in DOMAIN step.items |->
                   [b.names[Max(Source(step.items[i]))] EXCEPT !.alias = step.items[i].name]] IN
  CASE b.grouped \/ Limited(b) \/ step.mode \notin {"project", "project-keep", "project-away"} -> Stuck
    [] step.mode = "project-away" ->
         IF Len(kept) = Len(b.select) THEN Stuck ELSE Pushed([b EXCEPT !.select = kept, !.names = kept])
    [] \E i \in DOMAIN step.items : Source(step.items[i]) = {} -> Stuck
    [] OTHER -> Pushed([b EXCEPT !.select = chosen, !.names = chosen])

\* The aggregates SQL has, with the operands each needs and the type it gives
\* when it is not its operand's.
SqlAggregates ==
  [count |-> <<0, "long">>, countif |-> <<1, "long">>, sum |-> <<1, "same">>, sumif |-> <<2, "same">>,
   avg |-> <<1, "real">>, min |-> <<1, "same">>, max |-> <<1, "same">>, dcount |-> <<1, "long">>]

PushSummarize(b, step) ==
  LET by == [i \in DOMAIN step.by |-> Expr(b, step.by[i].value)]
      groups == [i \in DOMAIN by |->
                   Output(step.by[i].name, by[i].x, by[i].type, DecoderFor(step.by[i].value))]
      Called(item) == item.value.k = "call" /\ item.value.name \in DOMAIN SqlAggregates
      Args(item) == [i \in DOMAIN item.value.args |-> Expr(b, item.value.args[i])]
      CanSay(item) ==
        /\ Called(item) /\ Len(item.value.args) >= SqlAggregates[item.value.name][1]
        /\ \A i \in DOMAIN item.value.args : Args(item)[i].ok
      Made(item) ==
        LET args == Args(item)
            own  == SqlAggregates[item.value.name][2]
            Arg(i) == IF i \in DOMAIN args THEN args[i].x ELSE Value(Null) IN
        [alias |-> item.name, x |-> Arg(1), y |-> Arg(2), call |-> item.value.name,
         type |-> IF own = "same" THEN args[Len(args)].type ELSE own,
         decode |-> IF item.value.name \in {"min", "max"} THEN DecoderFor(item.value.args[Len(args)]) ELSE "none"]
      aggregates == [i \in DOMAIN step.aggregates |-> Made(step.aggregates[i])] IN
  IF \/ b.grouped \/ Limited(b) \/ b.order # <<>>
     \/ \E i \in DOMAIN by : ~by[i].ok
     \/ \E i \in DOMAIN step.aggregates : ~CanSay(step.aggregates[i])
  THEN Stuck
  ELSE Pushed([b EXCEPT !.groups = groups, !.aggregates = aggregates, !.grouped = TRUE,
                        !.names = groups \o aggregates])

Push(b, step) ==
  CASE step.k = "where"     -> PushWhere(b, step)    [] step.k = "take"     -> PushTake(b, step)
    [] step.k = "top"       -> PushTop(b, step)      [] step.k = "sort"     -> PushSort(b, step)
    [] step.k = "count"     -> PushCount(b, step)    [] step.k = "distinct" -> PushDistinct(b, step)
    [] step.k = "project"   -> PushProject(b, step)  [] step.k = "search"   -> PushSearch(b, step)
    [] step.k = "summarize" -> PushSummarize(b, step)
    [] OTHER                -> Stuck

\* Steps are folded until one cannot be, or one has limited the rows.
Plan(lets, steps) ==
  LET FoldStep(done, step) ==
        IF done.ended THEN done
        ELSE LET next == Push(done.b, step) IN
             IF ~next.ok THEN [done EXCEPT !.ended = TRUE]
             ELSE [b |-> next.b, consumed |-> done.consumed + 1, ended |-> Limited(next.b)]
      plan == FoldLeft(FoldStep, [b |-> Builder(lets), consumed |-> 0, ended |-> FALSE], steps)
  IN [select |-> Built(plan.b), consumed |-> plan.consumed]
=============================================================================
