------------------------------ MODULE KqlEngine ------------------------------
\* A query answered (core/hunt/kql/engine.py): a pipeline's front runs in the
\* store as far as the planner can say it, and the rest on rows, a step at a time.
\*
\* Left out: parse and sample, cancelling and the deadline, describe_plan, the
\* other tables of the catalogue, and toscalar() but for a let of its own.
EXTENDS KqlPlanner
LOCAL INSTANCE Integers
LOCAL INSTANCE Sequences
LOCAL INSTANCE SequencesExt
LOCAL INSTANCE FiniteSetsExt

CONSTANTS RowLimit,    \* the most rows an answer has
          TimeRange    \* the window a query of Logs is held to: <<>>, or first and last

\* The names and types of the columns, the column of the table whose description
\* each has, if any, and the rows.  An answer that is not ok is an error.
Frame(names, types, rows) ==
  [ok |-> TRUE, names |-> names, types |-> types, about |-> [i \in DOMAIN names |-> ""], rows |-> rows]
Failed == [ok |-> FALSE, names |-> <<>>, types |-> <<>>, about |-> <<>>, rows |-> <<>>]
Described(frame, about) == [frame EXCEPT !.about = about]
If(condition, frame) == IF condition THEN frame ELSE Failed
Cell(row, i) == IF i \in DOMAIN row THEN row[i] ELSE Null
ColumnOf(rows, i) == [r \in DOMAIN rows |-> Cell(rows[r], i)]

\* The columns at these positions take the type their values have.
Retyped(frame, positions) ==
  [frame EXCEPT !.types = [i \in DOMAIN frame.names |->
     IF i \in positions
     THEN InferType(ColumnOf(SelectSeq(frame.rows, LAMBDA row : i \in DOMAIN row), i))
     ELSE @[i]]]
Pick(frame, positions) ==
  Described(Frame([i \in DOMAIN positions |-> frame.names[positions[i]]],
                  [i \in DOMAIN positions |-> frame.types[positions[i]]],
                  [r \in DOMAIN frame.rows |-> [i \in DOMAIN positions |-> Cell(frame.rows[r], positions[i])]]),
            [i \in DOMAIN positions |-> frame.about[positions[i]]])
Every(seq) == [i \in DOMAIN seq |-> i]

ScopeOf(frame, lets) == [Scope(frame.names, lets) EXCEPT !.rows = frame.rows]
On(frame, lets, r) == [ScopeOf(frame, lets) EXCEPT !.row = frame.rows[r], !.at = r - 1]
ItemsCompile(items, scope) == \A i \in DOMAIN items : Compiles(items[i].value, scope)

-----------------------------------------------------------------------------
ApplyWhere(frame, step, lets) ==
  If(Compiles(step.condition, ScopeOf(frame, lets)),
     [frame EXCEPT !.rows =
        LET kept == SelectSeq(Every(frame.rows),
                              LAMBDA r : Truthy(Eval(step.condition, On(frame, lets, r))))
        IN [i \in DOMAIN kept |-> frame.rows[kept[i]]]])

\* Every value is worked out on the row as it was.  A name the table has is
\* replaced where it stands; any other, even one given twice, is a new column.
ApplyExtend(frame, step, lets) ==
  LET fresh == SelectSeq(Every(step.items), LAMBDA i : ~Has(frame.names, step.items[i].name))
      width == Len(frame.names)
      Place1(i) == IF Has(frame.names, step.items[i].name) THEN IndexIn(frame.names, step.items[i].name)
                   ELSE width + (CHOOSE k \in DOMAIN fresh : fresh[k] = i)
      Setters(p) == {i \in DOMAIN step.items : Place1(i) = p}
      names == frame.names \o [k \in DOMAIN fresh |-> step.items[fresh[k]].name]
      types == frame.types \o [k \in DOMAIN fresh |-> "string"]
      Widened(r) == [p \in DOMAIN names |->
        IF Setters(p) = {} THEN Cell(frame.rows[r], p)
        ELSE Eval(step.items[Max(Setters(p))].value, On(frame, lets, r))]
  IN If(ItemsCompile(step.items, ScopeOf(frame, lets)),
        Described(Retyped(Frame(names, types, [r \in DOMAIN frame.rows |-> Widened(r)]),
                          {Place1(i) : i \in DOMAIN step.items}),
                  frame.about \o [k \in DOMAIN fresh |-> ""]))

\* A column that is passed on keeps its type, whatever its values, and its description.
ApplyProject(frame, step, lets) ==
  LET Known(item) == Has(frame.names, item.name)
      named == {IndexIn(frame.names, step.items[i].name) : i \in DOMAIN step.items}
      rest  == SelectSeq(Every(frame.names), LAMBDA i : i \notin named)
      kept  == SelectSeq(Every(frame.names), LAMBDA i : i \in named)
      asked == [i \in DOMAIN step.items |-> IndexIn(frame.names, step.items[i].name)]
      allKnown == \A i \in DOMAIN step.items : Known(step.items[i])
      Old(item) == IF item.value.k = "column" THEN IndexIn(frame.names, item.value.name) ELSE 0
      renamed == [p \in DOMAIN frame.names |->
        LET by == {i \in DOMAIN step.items : Old(step.items[i]) = p} IN
        IF by = {} THEN frame.names[p] ELSE step.items[Max(by)].name]
      made == Frame([i \in DOMAIN step.items |-> step.items[i].name],
                    [i \in DOMAIN step.items |-> "string"],
                    [r \in DOMAIN frame.rows |->
                       [i \in DOMAIN step.items |-> Eval(step.items[i].value, On(frame, lets, r))]])
      typed == Retyped(made, DOMAIN step.items)
  IN CASE step.mode = "project-away"    -> If(allKnown, Pick(frame, rest))
       [] step.mode = "project-keep"    -> If(allKnown, Pick(frame, kept))
       [] step.mode = "project-reorder" -> If(allKnown, Pick(frame, asked \o rest))
       [] step.mode = "project-rename"  ->
            If(\A i \in DOMAIN step.items : Old(step.items[i]) # 0, [frame EXCEPT !.names = renamed])
       [] step.mode = "project" ->
            If(ItemsCompile(step.items, ScopeOf(frame, lets)),
               [typed EXCEPT !.types = [i \in DOMAIN step.items |->
                               IF Old(step.items[i]) # 0 THEN frame.types[Old(step.items[i])] ELSE @[i]],
                             !.about = [i \in DOMAIN step.items |->
                               IF Old(step.items[i]) # 0 THEN frame.about[Old(step.items[i])] ELSE @[i]]])

-----------------------------------------------------------------------------
\* An aggregate may stand inside an expression; a projecting one stands alone,
\* and gives a column for its key and one for each thing it carries.
RECURSIVE AggregatesIn(_)
AggregatesIn(e) ==
  LET All(list) == FlattenSeq([i \in DOMAIN list |-> AggregatesIn(list[i])]) IN
  CASE e.k = "call" -> IF e.name \in DOMAIN Aggregates THEN <<e>> ELSE All(e.args)
    [] e.k \in {"unary", "member"} -> AggregatesIn(e.x)
    [] e.k \in {"binary", "index"} -> All(<<e.x, e.y>>)
    [] e.k = "in"      -> All(<<e.x>> \o e.items)
    [] e.k = "between" -> All(<<e.x, e.low, e.high>>)
    [] OTHER -> <<>>

\* The expression with each aggregate's value in its place.
RECURSIVE Settled(_, _)
Settled(e, Rows) ==
  LET All(list) == [i \in DOMAIN list |-> Settled(list[i], Rows)] IN
  CASE e.k = "call" -> IF e.name \in DOMAIN Aggregates
                       THEN Literal(Aggregate(e.name, [r \in DOMAIN Rows |-> Evals(e.args, Rows[r])]))
                       ELSE CallTo(e.name, All(e.args))
    [] e.k = "unary"   -> Unary(e.op, Settled(e.x, Rows))
    [] e.k = "member"  -> MemberOf(Settled(e.x, Rows), e.key)
    [] e.k = "index"   -> ElementOf(Settled(e.x, Rows), Settled(e.y, Rows))
    [] e.k = "binary"  -> Binary(e.op, Settled(e.x, Rows), Settled(e.y, Rows))
    [] e.k = "in"      -> InList(Settled(e.x, Rows), All(e.items), e.negate, e.fold)
    [] e.k = "between" -> Between(Settled(e.x, Rows), Settled(e.low, Rows), Settled(e.high, Rows), e.negate)
    [] OTHER -> e

IsProjecting(e) == e.k = "call" /\ e.name \in Projecting
\* A star carries every column that is not a key of the groups.
Carried(e, names, by) ==
  FlattenSeq([i \in DOMAIN e.args |->
    IF e.args[i].k = "star"
    THEN LET rest == SelectSeq(names, LAMBDA n : \A j \in DOMAIN by : by[j].name # n)
         IN [k \in DOMAIN rest |-> ColumnRef(rest[k])]
    ELSE <<e.args[i]>>])
CarriedName(e) == IF e.k = "column" THEN e.name ELSE IF e.k = "call" THEN e.name \o "_" ELSE "Column"

AggregateCompiles(e, scope) ==
  /\ Aggregates[e.name][1] <= Len(e.args) /\ Len(e.args) <= Aggregates[e.name][2]
  /\ \A i \in DOMAIN e.args :
       (e.name \in Projecting /\ e.args[i].k = "star") \/ Compiles(e.args[i], scope)
OutputCompiles(e, scope) ==
  LET found == AggregatesIn(e) IN
  /\ found # <<>>
  /\ \A i \in DOMAIN found : AggregateCompiles(found[i], scope)
  /\ IsProjecting(e) \/ \A i \in DOMAIN found : ~IsProjecting(found[i])
  /\ IsProjecting(e) \/ Compiles(Settled(e, <<>>), Constants(scope.lets))

\* A group for every different key, in the order they first come; with no keys
\* there is one group even of no rows.
ApplySummarize(frame, step, lets) ==
  LET scope == ScopeOf(frame, lets)
      scopes == [r \in DOMAIN frame.rows |-> On(frame, lets, r)]
      keys == [r \in DOMAIN frame.rows |-> [i \in DOMAIN step.by |-> Eval(step.by[i].value, scopes[r])]]
      Same2(r, s) == \A i \in DOMAIN step.by : HashKey(keys[r][i]) = HashKey(keys[s][i])
      firsts == SelectSeq(Every(frame.rows), LAMBDA r : \A s \in 1 .. r - 1 : ~Same2(r, s))
      Group(f) == LET rows == SelectSeq(Every(frame.rows), LAMBDA r : Same2(r, f))
                  IN [i \in DOMAIN rows |-> scopes[rows[i]]]
      Cells(e, rows) ==
        IF IsProjecting(e)
        THEN ArgBest([r \in DOMAIN rows |-> Evals(Carried(e, frame.names, step.by), rows[r])],
                     IF e.name = "arg_max" THEN 1 ELSE -1)
        ELSE <<Eval(Settled(e, rows), Constants(lets))>>
      RowOf(rows) == FlattenSeq([i \in DOMAIN step.aggregates |-> Cells(step.aggregates[i].value, rows)])
      Extra(item) == IF IsProjecting(item.value)
                     THEN LET carried == Tail(Carried(item.value, frame.names, step.by))
                          IN [i \in DOMAIN carried |-> CarriedName(carried[i])]
                     ELSE <<>>
      names == [i \in DOMAIN step.by |-> step.by[i].name] \o
               FlattenSeq([i \in DOMAIN step.aggregates |->
                             <<step.aggregates[i].name>> \o Extra(step.aggregates[i])])
      rows == IF firsts = <<>> /\ step.by = <<>> THEN << RowOf(<<>>) >>
              ELSE [g \in DOMAIN firsts |-> keys[firsts[g]] \o RowOf(Group(firsts[g]))]
  IN If(/\ ItemsCompile(step.by, scope)
        /\ \A i \in DOMAIN step.aggregates : OutputCompiles(step.aggregates[i].value, scope),
        Retyped(Frame(names, [i \in DOMAIN names |-> "string"], rows), DOMAIN names))

-----------------------------------------------------------------------------
\* A null goes where the key says, or first when it is ascending and last when not.
KeyOrder(key, v, w) ==
  LET turned == IF key.descending THEN -1 ELSE 1
      nulls  == IF key.nulls = "default" THEN turned ELSE IF key.nulls = "first" THEN 1 ELSE -1
  IN CASE v = Null /\ w = Null -> 0
       [] v = Null -> -nulls
       [] w = Null -> nulls
       [] OTHER    -> turned * SortOrder(v, w)

ApplySort(frame, step, lets) ==
  LET keyed == [r \in DOMAIN frame.rows |->
                  [row |-> frame.rows[r],
                   keys |-> [i \in DOMAIN step.keys |-> Eval(step.keys[i].x, On(frame, lets, r))]]]
      Before(a, b) == LexOrder([i \in DOMAIN step.keys |-> KeyOrder(step.keys[i], a.keys[i], b.keys[i])]) < 0
      sorted == StableSort(keyed, Before)
  IN If(\A i \in DOMAIN step.keys : Compiles(step.keys[i].x, ScopeOf(frame, lets)),
        [frame EXCEPT !.rows = [r \in DOMAIN sorted |-> sorted[r].row]])

CountOfStep(step, lets) ==
  IF Compiles(step.count, Constants(lets)) THEN ToLong(Eval(step.count, Constants(lets))) ELSE Null
ApplyTake(frame, step, lets) ==
  LET count == CountOfStep(step, lets) IN
  If(count # Null /\ count.n >= 0,
     [frame EXCEPT !.rows = SubSeq(@, 1, Min({count.n, Len(@)}))])
\* Mutant: the first rows are taken before they are sorted.
ApplyTopUnsorted(frame, step, lets) ==
  LET taken == ApplyTake(frame, step, lets) IN
  If(taken.ok, ApplySort(taken, step, lets))
ApplyTop(frame, step, lets) ==
  LET sorted == ApplySort(frame, step, lets) IN
  If(sorted.ok, ApplyTake(sorted, step, lets))

ApplyCount(frame, step) == Frame(<<step.name>>, <<"long">>, << <<Long(Len(frame.rows))>> >>)

Hashed(row) == [i \in DOMAIN row |-> HashKey(row[i])]
ApplyDistinct(frame, step) ==
  LET positions == IF step.columns = <<>> THEN Every(frame.names)
                   ELSE [i \in DOMAIN step.columns |-> IndexIn(frame.names, step.columns[i])]
      picked == Pick(frame, positions)
      firsts == SelectSeq(Every(picked.rows), LAMBDA r :
                  \A s \in 1 .. r - 1 : Hashed(picked.rows[s]) # Hashed(picked.rows[r]))
  IN If(\A i \in DOMAIN step.columns : Has(frame.names, step.columns[i]),
        [picked EXCEPT !.rows = [i \in DOMAIN firsts |-> picked.rows[firsts[i]]]])

\* Without columns of its own it looks in every text and every dynamic one.
ApplySearch(frame, step, lets) ==
  LET term == Eval(step.term, Constants(lets))
      looked == IF step.columns = <<>> THEN {i \in DOMAIN frame.names : frame.types[i] \in {"string", "dynamic"}}
                ELSE {IndexIn(frame.names, step.columns[i]) : i \in DOMAIN step.columns}
  IN If(/\ Compiles(step.term, Constants(lets))
        /\ \A i \in DOMAIN step.columns : Has(frame.names, step.columns[i]),
        [frame EXCEPT !.rows = SelectSeq(@, LAMBDA row :
           \E i \in looked : Cell(row, i) # Null /\ HasTerm(Cell(row, i), term, step.sensitive))])

\* A description is known by the column of the table it is of.
ApplyGetSchema(frame) ==
  Frame(<<"ColumnName", "ColumnOrdinal", "DataType", "Description">>,
        <<"string", "long", "string", "string">>,
        [i \in DOMAIN frame.names |->
           <<Text(<<frame.names[i]>>), Long(i - 1), Text(KindNames[frame.types[i]]),
             Text(IF frame.about[i] = "" THEN <<>> ELSE <<frame.about[i]>>)>>])

\* A row for every element of the longest list; a shorter one leaves nulls, and
\* a row whose lists are all empty is lost.
ApplyMvExpand(frame, step, lets) ==
  LET fresh == SelectSeq(Every(step.items), LAMBDA i : ~Has(frame.names, step.items[i].name))
      names == frame.names \o [k \in DOMAIN fresh |-> step.items[fresh[k]].name]
      types == frame.types \o [k \in DOMAIN fresh |-> "dynamic"]
      Parts(v) == CASE ToDynamic(v).t = "list" -> ToDynamic(v).l
                    [] ToDynamic(v).t = "bag"  -> [i \in DOMAIN ToDynamic(v).l |-> Bag(<<ToDynamic(v).l[i]>>)]
                    [] ToDynamic(v) = Null     -> <<>>
                    [] OTHER                   -> <<ToDynamic(v)>>
      Arrays(r) == [i \in DOMAIN step.items |-> Parts(Eval(step.items[i].value, On(frame, lets, r)))]
      Setters(p) == {i \in DOMAIN step.items : step.items[i].name = names[p] /\ IndexIn(names, names[p]) = p}
      Expanded(r) ==
        LET arrays == Arrays(r)
            longest == Max({0} \cup {Len(arrays[i]) : i \in DOMAIN arrays}) IN
        [k \in 1 .. longest |-> [p \in DOMAIN names |->
           IF Setters(p) = {} THEN Cell(frame.rows[r], p) ELSE Cell(arrays[Max(Setters(p))], k)]]
  IN If(ItemsCompile(step.items, ScopeOf(frame, lets)),
        Described(Frame(names, types, FlattenSeq([r \in DOMAIN frame.rows |-> Expanded(r)])),
                  frame.about \o [k \in DOMAIN fresh |-> ""]))

-----------------------------------------------------------------------------
\* A name that is taken gets a number.
Numbered(name, n) == name \o ToString(n)
Disambiguated(taken, names) ==
  FoldLeft(LAMBDA done, name :
    LET used == ToSet(taken) \cup ToSet(done)
        free == {n \in 1 .. 9 : Numbered(name, n) \notin used} IN
    Append(done, IF name \in used THEN Numbered(name, Min(free)) ELSE name), <<>>, names)

\* $left.App and $right.App name a column of one side.
SideOf(e) ==
  IF e.k = "member" /\ e.x.k = "column" /\ e.x.name \in {"$left", "$right", "left", "right"}
  THEN ColumnRef(FoldLeft(LAMBDA done, c : done \o c, "", e.key)) ELSE e
\* innerunique takes the first left row of each key.
ApplyJoin(frame, step, right, lets) ==
  LET Keys1(f, side) == [r \in DOMAIN f.rows |->
        [i \in DOMAIN step.keys |-> HashKey(Eval(SideOf(step.keys[i][side]), On(f, lets, r)))]]
      lk == Keys1(frame, "left")
      rk == Keys1(right, "right")
      lefts == SelectSeq(Every(frame.rows), LAMBDA l :
                 step.kind # "innerunique" \/ \A s \in 1 .. l - 1 : lk[s] # lk[l])
      Partners(l) == SelectSeq(Every(right.rows), LAMBDA r : rk[r] = lk[l])
      Met(r) == \E l \in DOMAIN frame.rows : lk[l] = rk[r]
      Blank(f) == [i \in DOMAIN f.names |-> Null]
      Pairs(l) ==
        IF Partners(l) = <<>> /\ step.kind \in {"leftouter", "fullouter"}
        THEN << frame.rows[l] \o Blank(right) >>
        ELSE [p \in DOMAIN Partners(l) |-> frame.rows[l] \o right.rows[Partners(l)[p]]]
      alone == IF step.kind \in {"rightouter", "fullouter"}
               THEN SelectSeq(Every(right.rows), LAMBDA r : ~Met(r)) ELSE <<>>
      LeftRows(test(_)) == LET l == SelectSeq(Every(frame.rows), test) IN [i \in DOMAIN l |-> frame.rows[l[i]]]
      \* The right rows of a key come together, where its first one comes.
      ByKey == FlattenSeq([r \in DOMAIN right.rows |->
                 IF \E s \in 1 .. r - 1 : rk[s] = rk[r] THEN <<>>
                 ELSE SelectSeq(Every(right.rows), LAMBDA s : rk[s] = rk[r])])
      RightRows(test(_)) == LET r == SelectSeq(ByKey, test) IN [i \in DOMAIN r |-> right.rows[r[i]]]
      lone == SelectSeq(ByKey, LAMBDA r : r \in ToSet(alone))
  IN If(right.ok /\ \A i \in DOMAIN step.keys :
          Compiles(SideOf(step.keys[i].left), ScopeOf(frame, lets))
          /\ Compiles(SideOf(step.keys[i].right), ScopeOf(right, lets)),
        CASE step.kind \in {"leftsemi", "semi"} -> [frame EXCEPT !.rows = LeftRows(LAMBDA l : Partners(l) # <<>>)]
          [] step.kind \in {"leftanti", "anti"} -> [frame EXCEPT !.rows = LeftRows(LAMBDA l : Partners(l) = <<>>)]
          [] step.kind = "rightsemi" -> [right EXCEPT !.rows = RightRows(LAMBDA r : Met(r))]
          [] step.kind = "rightanti" -> [right EXCEPT !.rows = RightRows(LAMBDA r : ~Met(r))]
          [] OTHER ->
               Described(
                 Frame(frame.names \o Disambiguated(frame.names, right.names), frame.types \o right.types,
                       FlattenSeq([i \in DOMAIN lefts |-> Pairs(lefts[i])])
                       \o [i \in DOMAIN lone |-> Blank(frame) \o right.rows[lone[i]]]),
                 frame.about \o right.about))

\* The columns every part has, or those any has; a column keeps the type of the
\* first part that has it.
ApplyUnion(frames, sources, step) ==
  LET names == IF step.kind = "inner"
               THEN SelectSeq(frames[1].names, LAMBDA n : \A i \in DOMAIN frames : n \in ToSet(frames[i].names))
               ELSE FoldLeft(LAMBDA done, n : IF n \in ToSet(done) THEN done ELSE Append(done, n),
                             <<>>, FlattenSeq([i \in DOMAIN frames |-> frames[i].names]))
      TypeOf(n) == LET f == frames[Min({i \in DOMAIN frames : Has(frames[i].names, n)})]
                   IN f.types[Min({i \in DOMAIN f.names : f.names[i] = n})]
      tagged == step.source # "none"
      RowsOf(i) == [r \in DOMAIN frames[i].rows |->
        (IF tagged THEN <<Text(<<sources[i]>>)>> ELSE <<>>)
        \o [c \in DOMAIN names |-> Cell(frames[i].rows[r], IndexIn(frames[i].names, names[c]))]]
  IN If(\A i \in DOMAIN frames : frames[i].ok,
        Frame((IF tagged THEN <<step.source>> ELSE <<>>) \o names,
              (IF tagged THEN <<"string">> ELSE <<>>) \o [c \in DOMAIN names |-> TypeOf(names[c])],
              FlattenSeq([i \in DOMAIN frames |-> RowsOf(i)])))

-----------------------------------------------------------------------------
\* The time range comes before everything a query asks of Logs.
WithTimeFilter(steps) ==
  IF TimeRange = <<>> THEN steps
  ELSE << Where(Binary("and", Binary(">=", ColumnRef("Timestamp"), Literal(Moment(TimeRange[1]))),
                              Binary("<=", ColumnRef("Timestamp"), Literal(Moment(TimeRange[2]))))) >> \o steps

Context(events, lets, pushdown) == [events |-> events, lets |-> lets, pushdown |-> pushdown]
FromTable(steps, context) ==
  LET plan == Plan(context.lets, IF context.pushdown THEN steps ELSE <<>>)
      outputs == plan.select.outputs IN
  [frame |-> Described(
     Frame([i \in DOMAIN outputs |-> outputs[i].alias], [i \in DOMAIN outputs |-> outputs[i].type],
           Answer(plan.select, context.events)),
     [i \in DOMAIN outputs |-> IF IsBound(outputs[i].alias) THEN outputs[i].alias ELSE ""]),
   rest |-> SubSeq(steps, plan.consumed + 1, Len(steps))]

RECURSIVE Evaluate(_, _)
Apply(frame, step, context) ==
  CASE ~frame.ok            -> Failed
    [] step.k = "where"     -> ApplyWhere(frame, step, context.lets)
    [] step.k = "extend"    -> ApplyExtend(frame, step, context.lets)
    [] step.k = "project"   -> ApplyProject(frame, step, context.lets)
    [] step.k = "summarize" -> ApplySummarize(frame, step, context.lets)
    [] step.k = "sort"      -> ApplySort(frame, step, context.lets)
    [] step.k = "top"       -> ApplyTop(frame, step, context.lets)
    [] step.k = "take"      -> ApplyTake(frame, step, context.lets)
    [] step.k = "count"     -> ApplyCount(frame, step)
    [] step.k = "distinct"  -> ApplyDistinct(frame, step)
    [] step.k = "search"    -> ApplySearch(frame, step, context.lets)
    [] step.k = "render"    -> frame
    [] step.k = "getschema" -> ApplyGetSchema(frame)
    [] step.k = "serialize" -> IF step.items = <<>> THEN frame ELSE ApplyExtend(frame, step, context.lets)
    [] step.k = "mvexpand"  -> ApplyMvExpand(frame, step, context.lets)
    [] step.k = "join"      -> ApplyJoin(frame, step, Evaluate(step.right, context), context.lets)
    [] step.k = "union"     ->
         ApplyUnion(<<frame>> \o [i \in DOMAIN step.sources |-> Evaluate(step.sources[i], context)],
                    <<"">> \o [i \in DOMAIN step.sources |-> step.sources[i].source], step)
    [] OTHER -> Failed

Evaluate(pipeline, context) ==
  LET stored == FromTable(WithTimeFilter(pipeline.steps), context)
      start  == IF pipeline.source = "Logs" THEN stored
                ELSE [frame |-> IF IsLet(context, pipeline.source, "table")
                                THEN context.lets[pipeline.source].frame ELSE Failed,
                      rest |-> pipeline.steps]
  IN FoldLeft(LAMBDA frame, step : Apply(frame, step, context), start.frame, start.rest)

\* Each let is bound with those before it.  A table is worked out once.
Bind(context, let) ==
  LET bound ==
        CASE let.is = "table"    -> [is |-> "table", frame |-> Evaluate(let.pipeline, context)]
          [] let.is = "function" -> [is |-> "function", parameters |-> let.parameters, x |-> let.x]
          [] let.is = "value"    -> IF Compiles(let.x, Constants(context.lets))
                                    THEN [is |-> "value", v |-> Eval(let.x, Constants(context.lets))]
                                    ELSE [is |-> "error"]
          [] let.is = "scalar"   ->
               LET frame == Evaluate(let.pipeline, context) IN
               IF ~frame.ok THEN [is |-> "error"]
               ELSE [is |-> "value", v |-> IF frame.rows = <<>> THEN Null ELSE Cell(frame.rows[1], 1)]
  IN [context EXCEPT !.lets = (let.name :> bound) @@ @]

\* A text column whose values are of another kind is of that kind; no more than
\* RowLimit rows are shown.
Collect(frame) ==
  LET shown == [frame EXCEPT !.rows = SubSeq(@, 1, Min({RowLimit, Len(@)}))]
      texts == {i \in DOMAIN frame.names : frame.types[i] = "string"
                   /\ \E r \in DOMAIN shown.rows : Cell(shown.rows[r], i) # Null}
  IN Retyped(shown, texts)

NoLets == [n \in {} |-> [is |-> "error"]]
Run(query, events, pushdown) ==
  LET context == FoldLeft(Bind, Context(events, NoLets, pushdown), query.lets)
      frame == Evaluate(query.pipeline, context) IN
  If(frame.ok /\ \A n \in DOMAIN context.lets : context.lets[n].is # "error", Collect(frame))

\* The check of a query as it is typed: the same steps over no rows at all.
Check(query) == Run(query, <<>>, FALSE).ok
=============================================================================
