------------------------------ MODULE KqlParser ------------------------------
\* A query read (core/hunt/kql/parser.py): the words of a text become the tree
\* of KqlExpressions, or nothing when the text is no query.
\*
\* A word is one the lexer (lexer.py) has cut: a name, a mark, a value, or the
\* end.  A date stands as one value between the brackets of datetime().  Left
\* out: print, a pipeline that starts from anything but a table's name,
\* toscalar() but for a let of its own, parse and sample, the settings of a
\* chart, declared types, a column's name in quotes or with a star.
EXTENDS KqlExpressions
LOCAL INSTANCE Integers
LOCAL INSTANCE Sequences
LOCAL INSTANCE SequencesExt

Name(w)  == [k |-> "name",  w |-> w,  v |-> Null]
Mark(w)  == [k |-> "mark",  w |-> w,  v |-> Null]
Given(v) == [k |-> "value", w |-> "", v |-> v]
End      == [k |-> "end",   w |-> "", v |-> Null]
\* A name with its letters, for a key of a bag.
Spelt(s) == FoldLeft(LAMBDA done, c : done \o c, "", s)
FieldName(s) == [Name(Spelt(s)) EXCEPT !.v = Text(s)]

Got(x, at) == [ok |-> TRUE, x |-> x, at |-> at]
No         == [ok |-> FALSE, at |-> 0]
\* The word there, and past the end the end.
Word(t, i)     == t[IF i <= Len(t) THEN i ELSE Len(t)]
Is(t, i, w)    == Word(t, i).w = w /\ Word(t, i).k \in {"name", "mark"}
IsName(t, i)   == Word(t, i).k = "name"
\* What was found, if this closes it.
Closed(t, found, mark) == IF found.ok /\ Is(t, found.at, mark) THEN [found EXCEPT !.at = @ + 1] ELSE No
\* What was found, made into something else.
Made(found, F(_)) == IF found.ok THEN [found EXCEPT !.x = F(@)] ELSE No

-----------------------------------------------------------------------------
\* The name a column without one gets.
StartsAs(name, head) == Len(name) >= Len(head) /\ SubSeq(name, 1, Len(head)) = head
RECURSIVE DeriveName(_)
DeriveName(e) ==
  CASE e.k = "column" -> e.name
    [] e.k = "member" -> Spelt(e.key)
    [] e.k = "call" ->
         CASE e.args = <<>>                          -> e.name \o "_"
           [] e.name \in {"bin", "bin_at", "floor"}  -> DeriveName(e.args[1])
           [] StartsAs(DeriveName(e.args[1]), "Column") -> e.name \o "_"
           [] OTHER -> e.name \o "_" \o DeriveName(e.args[1])
    [] e.k = "index" ->
         IF e.y.k = "literal" THEN DeriveName(e.x) \o "_" \o Spelt(ToText(e.y.v)) ELSE DeriveName(e.x)
    [] OTHER -> "Column1"

-----------------------------------------------------------------------------
\* Expressions, by how closely they bind: or, and, not, the comparisons, sums,
\* products, signs, and what follows a value.
Chains == <<{"or"}, {"and"}, {}, {}, {"+", "-"}, {"*", "/", "%"}>>
Ors       == 1
Nots      == 3
Compared  == 4
Sums      == 5
Signs     == 7
Followed  == 8

RECURSIVE Expression(_, _, _), Chained(_, _, _), Comparing(_, _), Following(_, _), Item(_, _, _),
          DynamicValue(_, _), Pairs(_, _, _), Items(_, _, _, _, _)
\* The items up to the mark that ends them; a comma may stand before it.
Items(t, i, mark, what, done) ==
  LET item == Item(t, i, what) IN
  CASE Is(t, i, mark)        -> Got(done, i + 1)
    [] ~item.ok              -> No
    [] Is(t, item.at, ",")   -> Items(t, item.at + 1, mark, what, Append(done, item.x))
    [] Is(t, item.at, mark)  -> Got(Append(done, item.x), item.at + 1)
    [] OTHER                 -> No
Expressions(t, i, mark) == Items(t, i, mark, "expression", <<>>)

Pairs(t, i, done) ==
  LET item == IF Is(t, i + 1, ":") THEN DynamicValue(t, i + 2) ELSE No
      pair == Pair(Word(t, i).v.s, item.x) IN
  CASE Is(t, i, "}")       -> Got(done, i + 1)
    [] ~item.ok            -> No
    [] Is(t, item.at, ",") -> Pairs(t, item.at + 1, Put(done, pair))
    [] Is(t, item.at, "}") -> Got(Put(done, pair), item.at + 1)
    [] OTHER               -> No

DynamicValue(t, i) ==
  CASE Is(t, i, "[") -> Made(Items(t, i + 1, "]", "dynamic", <<>>), List)
    [] Is(t, i, "{") -> Made(Pairs(t, i + 1, <<>>), Bag)
    [] Is(t, i, "-") -> Made(DynamicValue(t, i + 1), LAMBDA v : IF IsNumber(v) THEN Negate(v) ELSE v)
    [] Word(t, i).k = "value" -> Got(Word(t, i).v, i + 1)
    [] Word(t, i).w \in {"true", "false"} -> Got(Bool(Is(t, i, "true")), i + 1)
    [] Is(t, i, "null") -> Got(Null, i + 1)
    [] OTHER -> No

Primary(t, i) ==
  LET w == Word(t, i).w
      called == Is(t, i + 1, "(") IN
  CASE Word(t, i).k = "value" -> Got(Literal(Word(t, i).v), i + 1)
    [] Is(t, i, "(") -> Closed(t, Expression(t, i + 1, Ors), ")")
    [] Is(t, i, "*") -> Got(Star, i + 1)
    [] ~IsName(t, i) -> No
    [] w \in {"true", "false"} -> Got(Literal(Bool(w = "true")), i + 1)
    [] w = "null" -> Got(Literal(Null), i + 1)
    [] w = "dynamic" /\ called -> Made(Closed(t, DynamicValue(t, i + 2), ")"), Literal)
    [] w = "datetime" /\ called ->
         IF ToMoment(Word(t, i + 2).v) = Null THEN No
         ELSE Closed(t, Got(Literal(ToMoment(Word(t, i + 2).v)), i + 3), ")")
    [] called -> Made(Expressions(t, i + 2, ")"), LAMBDA args : CallTo(w, args))
    [] OTHER -> Got(ColumnRef(w), i + 1)

Following(t, left) ==
  LET index == Closed(t, Expression(t, left.at + 1, Ors), "]") IN
  CASE ~left.ok -> No
    [] Is(t, left.at, ".") ->
         IF ~IsName(t, left.at + 1) THEN No
         ELSE Following(t, Got(MemberOf(left.x, Word(t, left.at + 1).v.s), left.at + 2))
    [] Is(t, left.at, "[") ->
         IF index.ok THEN Following(t, Got(ElementOf(left.x, index.x), index.at)) ELSE No
    [] OTHER -> left

\* The values a list of terms is looked for: one stands for itself.
ValueList(t, i) ==
  IF Is(t, i, "(")
  THEN Made(Expressions(t, i + 1, ")"),
            LAMBDA list : IF Len(list) = 1 THEN list[1] ELSE CallTo("pack_array", list))
  ELSE Expression(t, i, Sums)

InWords == {"in", "!in", "in~", "!in~"}
Comparing(t, left) ==
  LET w     == Word(t, left.at).w
      right == IF w \in TermLists THEN ValueList(t, left.at + 1) ELSE Expression(t, left.at + 1, Sums)
      items == IF Is(t, left.at + 1, "(") THEN Expressions(t, left.at + 2, ")") ELSE No
      low   == IF Is(t, left.at + 1, "(") THEN Closed(t, Expression(t, left.at + 2, Sums), "..") ELSE No
      high  == IF low.ok THEN Closed(t, Expression(t, low.at, Sums), ")") ELSE No IN
  CASE ~left.ok -> No
    [] w \in Comparisons \cup DOMAIN TextOperators \cup TermLists ->
         IF right.ok THEN Comparing(t, Got(Binary(w, left.x, right.x), right.at)) ELSE No
    [] w \in InWords ->
         IF items.ok
         THEN Comparing(t, Got(InList(left.x, items.x, w \in {"!in", "!in~"}, w \in {"in~", "!in~"}), items.at))
         ELSE No
    [] w \in {"between", "!between"} ->
         IF high.ok THEN Comparing(t, Got(Between(left.x, low.x, high.x, w = "!between"), high.at)) ELSE No
    [] OTHER -> left

\* A chain groups to the left.
Chained(t, left, level) ==
  LET right == Expression(t, left.at + 1, level + 1) IN
  CASE ~left.ok -> No
    [] Word(t, left.at).w \notin Chains[level] -> left
    [] right.ok -> Chained(t, Got(Binary(Word(t, left.at).w, left.x, right.x), right.at), level)
    [] OTHER -> No

Expression(t, i, level) ==
  CASE level = Nots ->
         IF Is(t, i, "not") \/ (Is(t, i, "!") /\ Is(t, i + 1, "("))
         THEN Made(Expression(t, i + 1, Nots), LAMBDA x : Unary("not", x))
         ELSE Expression(t, i, Compared)
    [] level = Compared -> Comparing(t, Expression(t, i, Sums))
    [] level = Signs ->
         IF Word(t, i).w \in {"-", "+"}
         THEN Made(Expression(t, i + 1, Signs), LAMBDA x : Unary(Word(t, i).w, x))
         ELSE Expression(t, i, Followed)
    [] level = Followed -> Following(t, Primary(t, i))
    [] OTHER -> Chained(t, Expression(t, i, level + 1), level)

-----------------------------------------------------------------------------
\* What operators are made of.
NamedExpression(t, i) ==
  LET named == IsName(t, i) /\ Is(t, i + 1, "=") /\ ~Is(t, i + 2, "=")
      value == Expression(t, IF named THEN i + 2 ELSE i, Ors) IN
  Made(value, LAMBDA x : Assign(IF named THEN Word(t, i).w ELSE DeriveName(x), x))

\* Mutant: a key goes up unless it is told to go down.
SortingKeyUp(t, i) ==
  LET key   == Expression(t, i, Ors)
      told  == IF key.ok /\ Word(t, key.at).w \in {"asc", "desc"} THEN key.at + 1 ELSE key.at
      nulls == Word(t, told + 1).w IN
  CASE ~key.ok             -> No
    [] ~Is(t, told, "nulls") -> Got(SortKey(key.x, ~Is(t, key.at, "desc"), "default"), told)
    [] nulls \in {"first", "last"} -> Got(SortKey(key.x, ~Is(t, key.at, "desc"), nulls), told + 2)
    [] OTHER               -> No

\* A key goes down unless it is told to go up.
SortingKey(t, i) ==
  LET key   == Expression(t, i, Ors)
      told  == IF key.ok /\ Word(t, key.at).w \in {"asc", "desc"} THEN key.at + 1 ELSE key.at
      descending == ~Is(t, key.at, "asc")
      nulls == Word(t, told + 1).w IN
  CASE ~key.ok             -> No
    [] ~Is(t, told, "nulls") -> Got(SortKey(key.x, descending, "default"), told)
    [] nulls \in {"first", "last"} -> Got(SortKey(key.x, descending, nulls), told + 2)
    [] OTHER               -> No

JoinKey(t, i) ==
  Made(Expression(t, i, Ors), LAMBDA x :
    IF x.k = "binary" /\ x.op = "==" THEN [left |-> x.x, right |-> x.y] ELSE [left |-> x, right |-> x])

ColumnName(t, i) == IF IsName(t, i) THEN Got(Word(t, i).w, i + 1) ELSE No

RECURSIVE Several(_, _, _, _), Pipelined(_, _), StepsFrom(_, _)
Item(t, i, what) ==
  CASE what = "expression" -> Expression(t, i, Ors)
    [] what = "dynamic"    -> DynamicValue(t, i)
    [] what \in {"assignment", "aggregate"} -> NamedExpression(t, i)
    [] what = "sort key"   -> SortingKey(t, i)
    [] what = "join key"   -> JoinKey(t, i)
    [] what = "column"     -> ColumnName(t, i)
    [] what = "source"     -> IF Is(t, i, "(") THEN Closed(t, Pipelined(t, i + 1), ")")
                              ELSE Made(ColumnName(t, i), LAMBDA name : Pipeline(name, <<>>))
\* One or more, with commas between; after an aggregate a comma may stand before by.
Several(t, i, what, done) ==
  LET item == Item(t, i, what) IN
  CASE ~item.ok -> No
    [] Is(t, item.at, ",") /\ ~(what = "aggregate" /\ Is(t, item.at + 1, "by")) ->
         Several(t, item.at + 1, what, Append(done, item.x))
    [] Is(t, item.at, ",") -> Got(Append(done, item.x), item.at + 1)
    [] OTHER -> Got(Append(done, item.x), item.at)

\* The settings key=value that stand after an operator's name; the last one counts.
RECURSIVE Settings(_, _, _)
Settings(t, i, done) ==
  IF IsName(t, i) /\ Is(t, i + 1, "=") THEN Settings(t, i + 3, (Word(t, i).w :> Word(t, i + 2).w) @@ done)
  ELSE Got(done, i)
Asked(settings, key, default) == IF key \in DOMAIN settings.x THEN settings.x[key] ELSE default

-----------------------------------------------------------------------------
\* The operators, each from the word after its name.
ProjectModes == {"away", "keep", "rename", "reorder"}
ReadProject(t, i) ==
  LET mode == Word(t, i + 1).w
      columns == Several(t, i + 2, "column", <<>>)
      items(at) == Several(t, at, "assignment", <<>>)
      AsItems(names) == [k \in DOMAIN names |-> Assign(names[k], ColumnRef(names[k]))] IN
  CASE ~Is(t, i, "-") -> Made(items(i), LAMBDA x : Project("project", x))
    [] mode = "rename" -> Made(items(i + 2), LAMBDA x : Project("project-rename", x))
    [] mode \in ProjectModes -> Made(columns, LAMBDA x : Project("project-" \o mode, AsItems(x)))
    [] OTHER -> No

ReadSummarize(t, i) ==
  LET aggregates == IF Is(t, i, "by") THEN Got(<<>>, i) ELSE Several(t, i, "aggregate", <<>>)
      by == IF aggregates.ok /\ Is(t, aggregates.at, "by")
            THEN Several(t, aggregates.at + 1, "assignment", <<>>)
            ELSE Got(<<>>, aggregates.at) IN
  IF aggregates.ok /\ by.ok THEN Got(Summarize(aggregates.x, by.x), by.at) ELSE No

ReadSort(t, i) ==
  IF Is(t, i, "by") THEN Made(Several(t, i + 1, "sort key", <<>>), SortBy) ELSE No
ReadTop(t, i) ==
  LET count == Closed(t, Expression(t, i, Ors), "by") IN
  IF count.ok THEN Made(Several(t, count.at, "sort key", <<>>), LAMBDA keys : TopBy(count.x, keys)) ELSE No
ReadCount(t, i) ==
  CASE ~IsName(t, i) \/ Is(t, i, "by") -> Got(CountRows("Count"), i)
    [] Is(t, i + 1, "=") /\ IsName(t, i + 2) -> Got(CountRows(Word(t, i).w), i + 3)
    [] OTHER -> No
ReadDistinct(t, i) ==
  IF Is(t, i, "*") THEN Got(Distinct(<<>>), i + 1) ELSE Made(Several(t, i, "column", <<>>), Distinct)

ReadSearch(t, i) ==
  LET settings == Settings(t, i, [n \in {} |-> ""])
      scoped  == Is(t, settings.at, "in")
      columns == IF ~scoped THEN Got(<<>>, settings.at)
                 ELSE IF Is(t, settings.at + 1, "(")
                 THEN Items(t, settings.at + 2, ")", "column", <<>>) ELSE No
      term == IF columns.ok THEN Expression(t, columns.at, Ors) ELSE No IN
  Made(term, LAMBDA x : Search(x, columns.x, Asked(settings, "kind", "") = "case_sensitive"))

JoinKinds == {"inner", "innerunique", "leftouter", "rightouter", "fullouter",
              "leftanti", "rightanti", "leftsemi", "rightsemi", "anti", "semi"}
ReadJoin(t, i) ==
  LET settings == Settings(t, i, [n \in {} |-> ""])
      kind  == Asked(settings, "kind", "innerunique")
      right == IF Is(t, settings.at, "(")
               THEN Closed(t, Closed(t, Pipelined(t, settings.at + 1), ")"), "on") ELSE No
      keys  == IF right.ok THEN Several(t, right.at, "join key", <<>>) ELSE No IN
  IF kind \in JoinKinds THEN Made(keys, LAMBDA k : JoinWith(kind, right.x, k)) ELSE No

ReadUnion(t, i) ==
  LET settings == Settings(t, i, [n \in {} |-> ""]) IN
  Made(Several(t, settings.at, "source", <<>>), LAMBDA sources :
    UnionOf(Asked(settings, "kind", "outer"), sources, Asked(settings, "withsource", "none")))

RenderKinds == {"table", "timechart", "linechart", "areachart", "barchart", "columnchart",
                "piechart", "scatterchart", "stackedareachart", "card", "anomalychart"}
ReadRender(t, i) == IF Word(t, i).w \in RenderKinds THEN Got(Render(Word(t, i).w), i + 1) ELSE No
ReadMvExpand(t, i) ==
  IF Is(t, i, "-") /\ Is(t, i + 1, "expand")
  THEN Made(Several(t, i + 2, "assignment", <<>>), MvExpand) ELSE No
ReadSerialize(t, i) ==
  IF IsName(t, i) THEN Made(Several(t, i, "assignment", <<>>), Serialize) ELSE Got(Serialize(<<>>), i)

ReadStep(t, i) ==
  LET w == Word(t, i).w
      next == i + 1 IN
  CASE w \in {"where", "filter"} -> Made(Expression(t, next, Ors), Where)
    [] w = "extend"    -> Made(Several(t, next, "assignment", <<>>), Extend)
    [] w = "project"   -> ReadProject(t, next)   [] w = "summarize" -> ReadSummarize(t, next)
    [] w \in {"sort", "order"} -> ReadSort(t, next)
    [] w = "top"       -> ReadTop(t, next)
    [] w \in {"take", "limit"} -> Made(Expression(t, next, Ors), TakeRows)
    [] w = "count"     -> ReadCount(t, next)     [] w = "distinct"  -> ReadDistinct(t, next)
    [] w = "search"    -> ReadSearch(t, next)    [] w = "join"      -> ReadJoin(t, next)
    [] w = "union"     -> ReadUnion(t, next)     [] w = "render"    -> ReadRender(t, next)
    [] w = "mv"        -> ReadMvExpand(t, next)  [] w = "getschema" -> Got(GetSchema, next)
    [] w = "serialize" -> ReadSerialize(t, next)
    [] OTHER -> No

StepsFrom(t, found) ==
  LET step == IF IsName(t, found.at + 1) THEN ReadStep(t, found.at + 1) ELSE No IN
  CASE ~Is(t, found.at, "|") -> found
    [] step.ok -> StepsFrom(t, Got([found.x EXCEPT !.steps = Append(@, step.x)], step.at))
    [] OTHER -> No
Refused == {"evaluate", "externaldata", "invoke", "ingest", "set", "datatable"}
Pipelined(t, i) ==
  IF IsName(t, i) /\ Word(t, i).w \notin Refused
  THEN StepsFrom(t, Got(Pipeline(Word(t, i).w, <<>>), i + 1)) ELSE No

-----------------------------------------------------------------------------
\* A let of a name: (a, b) { ... } is a function, a name with a bar after it
\* starts a table, and any other is a value.
ReadLet(t, i) ==
  LET name == Word(t, i + 1).w
      from == i + 3
      parameters == Several(t, from + 1, "column", <<>>)
      opened == IF Is(t, from + 1, ")") THEN Got(<<>>, from + 2) ELSE Closed(t, parameters, ")")
      isFunction == Is(t, from, "(") /\ opened.ok /\ Is(t, opened.at, "{")
      isScalar   == Is(t, from, "toscalar") /\ Is(t, from + 1, "(")
      value ==
        CASE isFunction -> Made(Closed(t, Expression(t, opened.at + 1, Ors), "}"),
                                LAMBDA x : LetFunction(name, opened.x, x))
          [] isScalar   -> Made(Closed(t, Pipelined(t, from + 2), ")"), LAMBDA p : LetScalar(name, p))
          [] IsName(t, from) /\ Is(t, from + 1, "|") -> Made(Pipelined(t, from), LAMBDA p : LetTable(name, p))
          [] OTHER      -> Made(Expression(t, from, Ors), LAMBDA x : LetValue(name, x))
  IN IF IsName(t, i + 1) /\ Is(t, i + 2, "=") THEN Closed(t, value, ";") ELSE No

\* After a semicolon there may be one more let, or another query, which takes
\* the place of the first.
RECURSIVE ReadRest(_, _)
ReadRest(t, found) ==
  LET next == found.at + 1
      let  == ReadLet(t, next)
      body == Pipelined(t, next) IN
  CASE ~found.ok -> No
    [] ~Is(t, found.at, ";")      -> IF Word(t, found.at).k = "end" THEN found ELSE No
    [] Word(t, next).k = "end"    -> Got(found.x, next)
    [] Is(t, next, "let")         ->
         IF let.ok THEN ReadRest(t, Got([found.x EXCEPT !.lets = Append(@, let.x)], let.at)) ELSE No
    [] body.ok -> ReadRest(t, Got([found.x EXCEPT !.pipeline = body.x], body.at))
    [] OTHER -> No

RECURSIVE ReadLets(_, _)
ReadLets(t, found) ==
  LET let == ReadLet(t, found.at)
      body == Pipelined(t, found.at) IN
  IF Is(t, found.at, "let")
  THEN IF let.ok THEN ReadLets(t, Got(Append(found.x, let.x), let.at)) ELSE No
  ELSE Made(body, LAMBDA pipeline : Query(found.x, pipeline))

Parse(t) == ReadRest(t, ReadLets(t, Got(<<>>, 1)))
=============================================================================
