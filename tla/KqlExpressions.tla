--------------------------- MODULE KqlExpressions ---------------------------
\* What a query is, and what an expression of it stands for (core/hunt/kql/engine.py,
\* from compile_expression on): whether it can be compiled, and its value on a row.
EXTENDS KqlFunctions
LOCAL INSTANCE Integers
LOCAL INSTANCE Sequences
LOCAL INSTANCE SequencesExt
LOCAL INSTANCE FiniteSetsExt

\* What a query is once it has been read (core/hunt/kql/ast.py): expressions,
\* the operators of a pipeline, and the query.  Columns, functions and tables
\* are names; the case they are written in is left out.
Node(kind) == [k |-> kind]

Literal(v)          == [k |-> "literal", v |-> v]
ColumnRef(name)     == [k |-> "column", name |-> name]
Star                == Node("star")
Unary(op, x)        == [k |-> "unary", op |-> op, x |-> x]
Binary(op, x, y)    == [k |-> "binary", op |-> op, x |-> x, y |-> y]
CallTo(name, args)  == [k |-> "call", name |-> name, args |-> args]
MemberOf(x, key)    == [k |-> "member", x |-> x, key |-> key]
ElementOf(x, y)   == [k |-> "index", x |-> x, y |-> y]
InList(x, items, negate, fold) ==
  [k |-> "in", x |-> x, items |-> items, negate |-> negate, fold |-> fold]
Between(x, low, high, negate) ==
  [k |-> "between", x |-> x, low |-> low, high |-> high, negate |-> negate]

Assign(name, value) == [name |-> name, value |-> value]
\* nulls is "first", "last" or "default".
SortKey(x, descending, nulls) == [x |-> x, descending |-> descending, nulls |-> nulls]

Where(condition)       == [k |-> "where", condition |-> condition]
Extend(items)          == [k |-> "extend", items |-> items]
Project(mode, items)   == [k |-> "project", mode |-> mode, items |-> items]
Summarize(aggregates, by) == [k |-> "summarize", aggregates |-> aggregates, by |-> by]
SortBy(keys)           == [k |-> "sort", keys |-> keys]
TopBy(count, keys)     == [k |-> "top", count |-> count, keys |-> keys]
TakeRows(count)        == [k |-> "take", count |-> count]
CountRows(name)        == [k |-> "count", name |-> name]
Distinct(columns)      == [k |-> "distinct", columns |-> columns]
Search(term, columns, sensitive) ==
  [k |-> "search", term |-> term, columns |-> columns, sensitive |-> sensitive]
JoinWith(kind, right, keys) == [k |-> "join", kind |-> kind, right |-> right, keys |-> keys]
UnionOf(kind, sources, source) ==
  [k |-> "union", kind |-> kind, sources |-> sources, source |-> source]
Render(visual)         == [k |-> "render", visual |-> visual]
MvExpand(items)        == [k |-> "mvexpand", items |-> items]
GetSchema              == Node("getschema")
Serialize(items)       == [k |-> "serialize", items |-> items]

\* A pipeline starts from a table or a let's name.  A let is a table, a value,
\* the first cell of a table, or a function of some parameters.
Pipeline(source, steps) == [source |-> source, steps |-> steps]
LetTable(name, pipeline)  == [name |-> name, is |-> "table", pipeline |-> pipeline]
LetScalar(name, pipeline) == [name |-> name, is |-> "scalar", pipeline |-> pipeline]
LetValue(name, x)         == [name |-> name, is |-> "value", x |-> x]
LetFunction(name, parameters, x) ==
  [name |-> name, is |-> "function", parameters |-> parameters, x |-> x]
Query(lets, pipeline)     == [lets |-> lets, pipeline |-> pipeline]

-----------------------------------------------------------------------------
\* What an expression is evaluated in: the columns' names, the row, the values
\* and functions that were let, and, for the functions of a window, the rows
\* and which of them this one is, counted from zero.
Scope(names, lets) == [names |-> names, row |-> <<>>, lets |-> lets, rows |-> <<>>, at |-> 0]
Constants(lets)    == Scope(<<>>, lets)

\* A name used twice is the last column of that name.
IndexIn(names, name) == Max({0} \cup {i \in DOMAIN names : names[i] = name})
Has(names, name)     == IndexIn(names, name) # 0
IsLet(scope, name, is) == name \in DOMAIN scope.lets /\ scope.lets[name].is = is

-----------------------------------------------------------------------------
Arithmetic   == {"+", "-", "*", "/", "%"}
Comparisons  == {"==", "!=", "=~", "!~", "<", "<=", ">", ">="}
TermLists    == {"has_any", "!has_any", "has_all", "!has_all"}
\* The text operators: what each tests, whether case counts, whether it is negated.
TextTests == {"contains", "startswith", "endswith", "has"}
TextOperators ==
  LET forms == ({""} \X TextTests \X {"", "_cs"}) \cup ({"!"} \X TextTests \X {"", "_cs"})
               \cup ({"", "!"} \X {"hasprefix", "hassuffix"} \X {""})
      Spelling(f) == f[1] \o f[2] \o f[3]
  IN [op \in {Spelling(f) : f \in forms} |->
        LET f == CHOOSE f \in forms : Spelling(f) = op IN
        [test |-> f[2], sensitive |-> f[3] = "_cs", negate |-> f[1] = "!"]]
WindowFunctions == {"row_number", "prev", "next", "row_cumsum"}

RECURSIVE Compiles(_, _)
AllCompile(list, scope) == \A i \in DOMAIN list : Compiles(list[i], scope)
Compiles(e, scope) ==
  CASE e.k = "literal" -> TRUE
    [] e.k = "star"    -> FALSE
    [] e.k = "column"  -> Has(scope.names, e.name) \/ IsLet(scope, e.name, "value")
    [] e.k \in {"unary", "member"} -> Compiles(e.x, scope)
    [] e.k = "index"   -> Compiles(e.x, scope) /\ Compiles(e.y, scope)
    [] e.k = "binary"  ->
         /\ e.op \in Arithmetic \cup Comparisons \cup TermLists \cup {"and", "or"} \cup DOMAIN TextOperators
         /\ Compiles(e.x, scope) /\ Compiles(e.y, scope)
    [] e.k = "in"      -> Compiles(e.x, scope) /\ AllCompile(e.items, scope)
    [] e.k = "between" -> AllCompile(<<e.x, e.low, e.high>>, scope)
    [] e.k = "call" ->
         /\ AllCompile(e.args, scope)
         /\ CASE IsLet(scope, e.name, "function") ->
                   /\ Len(e.args) = Len(scope.lets[e.name].parameters)
                   /\ Compiles(scope.lets[e.name].x, Scope(scope.lets[e.name].parameters, scope.lets))
              [] e.name \in WindowFunctions -> e.name = "row_number" \/ e.args # <<>>
              [] OTHER -> Takes(e.name, Len(e.args))

TextOperation(op, v, w) ==
  LET o == TextOperators[op]
      found == CASE o.test = "contains"   -> ContainsText(v, w, o.sensitive)
                 [] o.test = "startswith" -> StartsWith(v, w, o.sensitive)
                 [] o.test = "endswith"   -> EndsWith(v, w, o.sensitive)
                 [] o.test = "has"        -> HasTerm(v, w, o.sensitive)
                 [] o.test = "hasprefix"  -> HasPrefix(v, w, FALSE)
                 [] o.test = "hassuffix"  -> HasSuffix(v, w, FALSE)
  IN Bool(IF v = Null THEN o.negate ELSE found # o.negate)

TermListOperation(op, v, w) ==
  LET negate == op \in {"!has_any", "!has_all"}
      found  == {i \in DOMAIN AsList(w) : HasTerm(v, AsList(w)[i], FALSE)}
      met    == IF op \in {"has_all", "!has_all"} THEN found = DOMAIN AsList(w) ELSE found # {}
  IN Bool(IF AsList(w) = <<>> THEN negate ELSE met # negate)

Operation(op, v, w) ==
  CASE op = "and" -> Bool(Truthy(v) /\ Truthy(w))
    [] op = "or"  -> Bool(Truthy(v) \/ Truthy(w))
    [] op = "+"   -> Add(v, w)      [] op = "-" -> Subtract(v, w)
    [] op = "*"   -> Multiply(v, w) [] op = "/" -> Divide(v, w)   [] op = "%" -> Modulo(v, w)
    [] op = "=="  -> Bool(Equal(v, w, FALSE) = "yes")
    [] op = "!="  -> Bool(Equal(v, w, FALSE) = "no")
    [] op = "=~"  -> Bool(Equal(v, w, TRUE) = "yes")
    [] op = "!~"  -> Bool(Equal(v, w, TRUE) = "no")
    [] op = "<"   -> Bool(Compare(v, w) = -1)
    [] op = "<="  -> Bool(Compare(v, w) \in {-1, 0})
    [] op = ">"   -> Bool(Compare(v, w) = 1)
    [] op = ">="  -> Bool(Compare(v, w) \in {0, 1})
    [] op \in TermLists -> TermListOperation(op, v, w)
    [] OTHER -> TextOperation(op, v, w)

\* A list among the items offers each of its own.
Offers(item, v, fold) ==
  IF item.t = "list" THEN \E i \in DOMAIN item.l : Equal(v, item.l[i], fold) = "yes"
  ELSE Equal(v, item, fold) = "yes"

\* What cannot be compared is neither inside nor outside.
Within(v, low, high, negate) ==
  /\ Unordered \notin {Compare(v, low), Compare(v, high)}
  /\ (Compare(v, low) >= 0 /\ Compare(v, high) <= 0) # negate

RECURSIVE Eval(_, _)
Evals(list, scope) == [i \in DOMAIN list |-> Eval(list[i], scope)]

\* The settings of a window's function are worked out on no row at all.
Setting(args, i, scope) ==
  IF i \in DOMAIN args THEN Eval(args[i], [scope EXCEPT !.row = <<>>]) ELSE Null
Window(name, args, scope) ==
  LET rows == scope.rows
      there == scope.at + (IF name = "prev" THEN -1 ELSE 1) * LongOr(Setting(args, 2, scope), 1)
      Seen(i) == ToReal(Eval(args[1], [scope EXCEPT !.row = rows[i]]))
  IN CASE name = "row_number" -> Long(scope.at + LongOr(Setting(args, 1, scope), 1))
       [] name \in {"prev", "next"} ->
            IF there + 1 \in DOMAIN rows THEN Eval(args[1], [scope EXCEPT !.row = rows[there + 1]])
            ELSE Setting(args, 3, scope)
       [] name = "row_cumsum" ->
            Whole(Total([i \in 1 .. scope.at + 1 |-> IF Seen(i) = Null THEN Real(0) ELSE Seen(i)]))

Eval(e, scope) ==
  CASE e.k = "literal" -> e.v
    [] e.k = "column"  ->
         LET i == IndexIn(scope.names, e.name) IN
         IF i = 0 THEN scope.lets[e.name].v
         ELSE IF i \in DOMAIN scope.row THEN scope.row[i] ELSE Null
    [] e.k = "member"  -> Member(Eval(e.x, scope), e.key)
    [] e.k = "index"   -> Element(Eval(e.x, scope), Eval(e.y, scope))
    [] e.k = "unary"   ->
         (CASE e.op = "not" -> Bool(~Truthy(Eval(e.x, scope)))
            [] e.op = "-"   -> Negate(Eval(e.x, scope))
            [] e.op = "+"   -> Eval(e.x, scope))
    [] e.k = "binary"  -> Operation(e.op, Eval(e.x, scope), Eval(e.y, scope))
    [] e.k = "in"      ->
         LET v == Eval(e.x, scope) IN
         Bool((\E i \in DOMAIN e.items : Offers(Eval(e.items[i], scope), v, e.fold)) # e.negate)
    [] e.k = "between" ->
         Bool(Within(Eval(e.x, scope), Eval(e.low, scope), Eval(e.high, scope), e.negate))
    [] e.k = "call"    ->
         CASE IsLet(scope, e.name, "function") ->
                Eval(scope.lets[e.name].x,
                     [Scope(scope.lets[e.name].parameters, scope.lets) EXCEPT !.row = Evals(e.args, scope)])
           [] e.name \in WindowFunctions -> Window(e.name, e.args, scope)
           [] OTHER -> Call(e.name, Evals(e.args, scope))
=============================================================================
