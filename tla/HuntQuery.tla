------------------------------ MODULE HuntQuery ------------------------------
\* Hunt's answers: log events are indexed, and a query of them is built up a
\* stage at a time, the way the page's rail and charts do it (ui/pages/hunt.py,
\* _append_stage), each time to be run (core/hunt/kql) on a pool thread.  What else
\* the user may do meanwhile is HuntSession's.
\*
\* A state holds which events were indexed and which stages the query has, as
\* positions in Rows and Stages.
EXTENDS KqlEngine, KqlParser
LOCAL INSTANCE Integers
LOCAL INSTANCE Sequences
LOCAL INSTANCE SequencesExt
LOCAL INSTANCE FiniteSets
LOCAL INSTANCE FiniteSetsExt
LOCAL INSTANCE Bags

CONSTANTS Rows,      \* the events there can be, without their numbers
          Stages,    \* the stages a query can be given
          Lets,      \* what every query defines first
          MaxEvents, \* a bound of the model: events indexed
          MaxStages  \* a bound of the model: stages of a query

ASSUME RowsAndStages == Len(Rows) > 0 /\ Len(Stages) > 0
ASSUME Bounds == MaxEvents \in Nat /\ MaxStages \in Nat

VARIABLES indexed,   \* the events, in the order they were read
          stages,    \* the stages of the query in the editor
          pending    \* it is asked, and not answered yet
vars == <<indexed, stages, pending>>

TypeOK == /\ indexed \in BoundedSeq(DOMAIN Rows, MaxEvents)
          /\ stages \in BoundedSeq(DOMAIN Stages, MaxStages)
          /\ pending \in BOOLEAN

\* An event is numbered as it is stored.
Event(i) == [Rows[indexed[i]] EXCEPT !.id = Long(i)]
Events   == [i \in DOMAIN indexed |-> Event(i)]
Steps    == [i \in DOMAIN stages |-> Stages[stages[i]]]
Asking(steps) == Query(Lets, Pipeline("Logs", steps))

-----------------------------------------------------------------------------
Init == indexed = <<>> /\ stages = <<>> /\ pending = FALSE

\* The lines of a log are read.
Index(r) ==
  /\ ~pending /\ stages = <<>> /\ Len(indexed) < MaxEvents
  /\ indexed' = Append(indexed, r)
  /\ UNCHANGED <<stages, pending>>

\* The query is run, unless nothing is indexed.
Begun == pending' = (indexed # <<>>)
RunAgain == ~pending /\ indexed # <<>> /\ Begun /\ UNCHANGED <<indexed, stages>>

\* A stage is added to the query and it is run again.
AppendStage(s) ==
  /\ ~pending /\ Len(stages) < MaxStages
  /\ stages' = Append(stages, s) /\ Begun
  /\ UNCHANGED indexed

\* The pool thread is done with the query.
Answered == pending /\ pending' = FALSE /\ UNCHANGED <<indexed, stages>>

Next == \/ \E r \in DOMAIN Rows : Index(r)
        \/ \E s \in DOMAIN Stages : AppendStage(s)
        \/ RunAgain \/ Answered
Spec == Init /\ [][Next]_vars

-----------------------------------------------------------------------------
\* What the query gives on rows, with nothing run in the store.
OnRows(steps) == Run(Asking(steps), Events, FALSE)
InStore(steps) == Run(Asking(steps), Events, TRUE)

\* The rows of an answer, however many times each.
Tally(seq)    == [x \in ToSet(seq) |-> Cardinality({i \in DOMAIN seq : seq[i] = x})]
Rowset(frame) == Tally(frame.rows)
Before(steps) == SubSeq(steps, 1, Len(steps) - 1)
Follows(steps, first, second) ==
  \E i, j \in DOMAIN steps : i < j /\ steps[i].k \in first /\ steps[j].k \in second

\* Where the store and the rows are known to answer differently: a count of what
\* distinct or a summarize made, a search, which the store makes of parts of
\* words, an order by what a later project leaves out, the order a sort before
\* another left the rows it finds equal in, and which columns of a project or a
\* summarize still have a description: in the store those called as they were in
\* the table, on rows those a project passes on, whatever it calls them.
Portable(steps) ==
  /\ ~Follows(steps, {"distinct", "summarize", "count"}, {"count"})
  /\ \A i \in DOMAIN steps : steps[i].k # "search"
  /\ ~Follows(steps, {"sort"}, {"project", "distinct", "sort", "top"})
  /\ ~Follows(steps, {"project", "summarize"}, {"getschema"})
\* The store answers in what order it likes but for a sort's, so that which rows
\* a take leaves, and which is a row's neighbour, is anybody's choice.
Shuffles   == {"where", "summarize", "distinct"}
Positional == {"take", "top", "serialize", "extend"}
SortedBy(frame, keys) ==
  [r \in DOMAIN frame.rows |-> [i \in DOMAIN keys |->
     Eval(keys[i].x, [Scope(frame.names, NoLets) EXCEPT !.row = frame.rows[r]])]]

SameAnswer ==
  LET slow == OnRows(Steps)
      fast == InStore(Steps) IN
  Check(Asking(Steps)) /\ Portable(Steps) =>
    /\ fast.ok = slow.ok
    /\ fast.names = slow.names
    /\ Len(fast.rows) = Len(slow.rows)
    /\ ~Follows(Steps, Shuffles, Positional) => Rowset(fast) = Rowset(slow)
    /\ Steps # <<>> /\ Last(Steps).k \in {"sort", "top"} =>
         SortedBy(fast, Last(Steps).keys) = SortedBy(slow, Last(Steps).keys)

\* What a query is answered from may not change its answer: with as much of it in
\* the store as the planner can say, it gives the columns and the rows that it
\* gives on rows alone, and a sort or a top puts them in the same order.
PushedAgrees == [][Answered => SameAnswer]_vars

-----------------------------------------------------------------------------
\* A stage and its complement, and a stage and the two it is made of.
WhereSplits(step, before) ==
  LET yes == OnRows(Before(Steps) \o <<step>>)
      no  == OnRows(Before(Steps) \o <<Where(Unary("not", step.condition))>>) IN
  yes.ok => Rowset(before) = Rowset(yes) (+) Rowset(no)

CellsOf(frame, i) == [r \in DOMAIN frame.rows |-> Cell(frame.rows[r], i)]
\* One group for each key, and every row counted in one.
GroupsAddUp(step, before, after) ==
  LET keys == Len(step.by)
      counts == {i \in DOMAIN step.aggregates : step.aggregates[i].value = CallTo("count", <<>>)} IN
  /\ keys > 0 => Cardinality({SubSeq(Hashed(after.rows[r]), 1, keys) : r \in DOMAIN after.rows})
                 = Len(after.rows)
  /\ \A i \in counts : Total(CellsOf(after, keys + i)) = Len(before.rows)

TopIsSortAndTake(step, after) ==
  after = OnRows(Before(Steps) \o <<SortBy(step.keys), TakeRows(step.count)>>)

\* Every row of the left table has a partner or none, and so has every row of the right one.
JoinsAddUp(step, before) ==
  LET Joined2(kind) == OnRows(Before(Steps) \o <<JoinWith(kind, step.right, step.keys)>>)
      Size(kind) == Len(Joined2(kind).rows)
      right == Len(Run(Query(Lets, step.right), Events, FALSE).rows) IN
  /\ Rowset(Joined2("leftsemi")) (+) Rowset(Joined2("leftanti")) = Rowset(before)
  /\ Size("rightsemi") + Size("rightanti") = right
  /\ Size("leftouter") = Size("inner") + Size("leftanti")
  /\ Size("rightouter") = Size("inner") + Size("rightanti")
  /\ Size("fullouter") = Size("inner") + Size("leftanti") + Size("rightanti")
  /\ Size("innerunique") <= Size("inner")

UnionAddsUp(step, before, after) ==
  Len(after.rows) = FoldLeft(LAMBDA sum, p : sum + Len(Run(Query(Lets, p), Events, FALSE).rows),
                             Len(before.rows), step.sources)

\* What is kept and what is taken away are the columns there were.
ColumnsSplit(step, before) ==
  LET Names(mode) == OnRows(Before(Steps) \o <<Project(mode, step.items)>>).names
      kept == Names("project-keep")
      away == Names("project-away") IN
  Tally(kept) (+) Tally(away) = Tally(before.names)

\* A sort keeps every row, in an order in which no pair of neighbours is wrong.
SortKeeps(step, before, after) ==
  LET names == after.names
      Key(r, i) == Eval(step.keys[i].x, [Scope(names, NoLets) EXCEPT !.row = after.rows[r]])
      Order(r, s) == LexOrder([i \in DOMAIN step.keys |->
                       KeyOrder(step.keys[i], Key(r, i), Key(s, i))]) IN
  /\ Rowset(before) = Rowset(after)
  /\ \A r \in 1 .. Len(after.rows) - 1 : Order(r, r + 1) <= 0

Reckoned ==
  Steps # <<>> =>
  LET step == Last(Steps)
      before == OnRows(Before(Steps))
      after == OnRows(Steps) IN
  before.ok /\ after.ok =>
    CASE step.k = "where"     -> WhereSplits(step, before)
      [] step.k = "summarize" -> GroupsAddUp(step, before, after)
      [] step.k = "top"       -> TopIsSortAndTake(step, after)
      [] step.k = "join"      -> JoinsAddUp(step, before)
      [] step.k = "union"     -> UnionAddsUp(step, before, after)
      [] step.k = "sort"      -> SortKeeps(step, before, after)
      [] step.k = "project"   -> step.mode \in {"project-keep", "project-away"} => ColumnsSplit(step, before)
      [] step.k = "distinct"  -> after.rows = OnRows(Append(Steps, step)).rows
      [] step.k \in {"extend", "serialize"} -> Len(after.rows) = Len(before.rows)
      [] OTHER -> TRUE

\* The answers of one stage are those of its neighbours put together: a condition
\* and its negation share out the rows, groups count each row once, a join's kinds
\* add up, top is sort and take, and a project's two halves are the whole.
AnswersAddUp == [][Answered => Reckoned]_vars

-----------------------------------------------------------------------------
\* A query as it is written, with no more brackets than it needs.
Commas(lists) ==
  FoldLeft(LAMBDA done, l : IF done = <<>> THEN l ELSE done \o <<Mark(",")>> \o l, <<>>, lists)
Bracketed(t) == <<Mark("(")>> \o t \o <<Mark(")")>>

Binds(e) ==
  CASE e.k = "binary" -> IF \E n \in DOMAIN Chains : e.op \in Chains[n]
                         THEN CHOOSE n \in DOMAIN Chains : e.op \in Chains[n] ELSE Compared
    [] e.k = "unary"  -> IF e.op = "not" THEN Nots ELSE Signs
    [] e.k \in {"in", "between"} -> Compared
    [] OTHER -> Followed

RECURSIVE WriteValue(_)
WriteValue(v) ==
  CASE v.t = "list" -> <<Mark("[")>> \o Commas([i \in DOMAIN v.l |-> WriteValue(v.l[i])]) \o <<Mark("]")>>
    [] v.t = "bag"  -> <<Mark("{")>> \o Commas([i \in DOMAIN v.l |->
                         <<Given(Text(v.l[i].s)), Mark(":")>> \o WriteValue(v.l[i].l[1])]) \o <<Mark("}")>>
    [] v.t = "bool" -> <<Name(IF v.n = 1 THEN "true" ELSE "false")>>
    [] v = Null     -> <<Name("null")>>
    [] OTHER        -> <<Given(v)>>

RECURSIVE Write(_, _)
WriteAll(list) == Commas([i \in DOMAIN list |-> Write(list[i], Ors)])
Bare(e) ==
  CASE e.k = "literal" ->
         (CASE IsNested(e.v)      -> <<Name("dynamic")>> \o Bracketed(WriteValue(e.v))
            [] e.v.t = "datetime" -> <<Name("datetime")>> \o Bracketed(<<Given(e.v)>>)
            [] OTHER              -> WriteValue(e.v))
    [] e.k = "column" -> <<Name(e.name)>>
    [] e.k = "star"   -> <<Mark("*")>>
    [] e.k = "call"   -> <<Name(e.name)>> \o Bracketed(WriteAll(e.args))
    [] e.k = "member" -> Write(e.x, Followed) \o <<Mark("."), FieldName(e.key)>>
    [] e.k = "index"  -> Write(e.x, Followed) \o <<Mark("[")>> \o Write(e.y, Ors) \o <<Mark("]")>>
    [] e.k = "unary"  -> <<IF e.op = "not" THEN Name("not") ELSE Mark(e.op)>> \o Write(e.x, Binds(e))
    [] e.k = "in"     -> Write(e.x, Compared)
                         \o <<Name((IF e.negate THEN "!in" ELSE "in") \o (IF e.fold THEN "~" ELSE ""))>>
                         \o Bracketed(WriteAll(e.items))
    [] e.k = "between" -> Write(e.x, Compared) \o <<Name(IF e.negate THEN "!between" ELSE "between")>>
                         \o Bracketed(Write(e.low, Sums) \o <<Mark("..")>> \o Write(e.high, Sums))
    [] e.k = "binary" ->
         IF e.op \in TermLists
         THEN Write(e.x, Compared) \o <<Name(e.op)>>
              \o Bracketed(IF e.y.k = "call" /\ e.y.name = "pack_array" THEN WriteAll(e.y.args) ELSE Write(e.y, Ors))
         ELSE Write(e.x, Binds(e)) \o <<Mark(e.op)>> \o Write(e.y, Binds(e) + 1)
Write(e, level) == IF Binds(e) < level THEN Bracketed(Bare(e)) ELSE Bare(e)

WriteItems(items) ==
  Commas([i \in DOMAIN items |->
    (IF items[i].name = DeriveName(items[i].value) THEN <<>> ELSE <<Name(items[i].name), Mark("=")>>)
    \o Write(items[i].value, Ors)])
WriteNames(names) == Commas([i \in DOMAIN names |-> <<Name(names[i])>>])
WriteKeys(keys) ==
  Commas([i \in DOMAIN keys |->
    Write(keys[i].x, Ors) \o (IF keys[i].descending THEN <<>> ELSE <<Name("asc")>>)
    \o (IF keys[i].nulls = "default" THEN <<>> ELSE <<Name("nulls"), Name(keys[i].nulls)>>)])
WriteSettings(key, value) == <<Name(key), Mark("="), Name(value)>>

RECURSIVE WritePipeline(_)
WriteStep(step) ==
  CASE step.k = "where"     -> <<Name("where")>> \o Write(step.condition, Ors)
    [] step.k = "extend"    -> <<Name("extend")>> \o WriteItems(step.items)
    [] step.k = "project"   ->
         <<Name("project")>> \o
         (CASE step.mode = "project"        -> WriteItems(step.items)
            [] step.mode = "project-rename" -> <<Mark("-"), Name("rename")>> \o WriteItems(step.items)
            [] OTHER -> <<Mark("-"), Name(SubSeq(step.mode, 9, Len(step.mode)))>>
                        \o WriteNames([i \in DOMAIN step.items |-> step.items[i].name]))
    [] step.k = "summarize" -> <<Name("summarize")>> \o WriteItems(step.aggregates)
                               \o (IF step.by = <<>> THEN <<>> ELSE <<Name("by")>> \o WriteItems(step.by))
    [] step.k = "sort"      -> <<Name("sort"), Name("by")>> \o WriteKeys(step.keys)
    [] step.k = "top"       -> <<Name("top")>> \o Write(step.count, Ors) \o <<Name("by")>> \o WriteKeys(step.keys)
    [] step.k = "take"      -> <<Name("take")>> \o Write(step.count, Ors)
    [] step.k = "count"     -> <<Name("count")>>
                               \o (IF step.name = "Count" THEN <<>> ELSE WriteSettings(step.name, "count"))
    [] step.k = "distinct"  -> <<Name("distinct")>>
                               \o (IF step.columns = <<>> THEN <<Mark("*")>> ELSE WriteNames(step.columns))
    [] step.k = "search"    -> <<Name("search")>>
                               \o (IF step.sensitive THEN WriteSettings("kind", "case_sensitive") ELSE <<>>)
                               \o (IF step.columns = <<>> THEN <<>>
                                   ELSE <<Name("in")>> \o Bracketed(WriteNames(step.columns)))
                               \o Write(step.term, Ors)
    [] step.k = "join"      -> <<Name("join")>> \o WriteSettings("kind", step.kind)
                               \o Bracketed(WritePipeline(step.right)) \o <<Name("on")>>
                               \o Commas([i \in DOMAIN step.keys |->
                                    IF step.keys[i].left = step.keys[i].right THEN Write(step.keys[i].left, Sums)
                                    ELSE Write(Binary("==", step.keys[i].left, step.keys[i].right), Ors)])
    [] step.k = "union"     -> <<Name("union")>> \o WriteSettings("kind", step.kind)
                               \o (IF step.source = "none" THEN <<>> ELSE WriteSettings("withsource", step.source))
                               \o Commas([i \in DOMAIN step.sources |-> Bracketed(WritePipeline(step.sources[i]))])
    [] step.k = "render"    -> <<Name("render"), Name(step.visual)>>
    [] step.k = "mvexpand"  -> <<Name("mv"), Mark("-"), Name("expand")>> \o WriteItems(step.items)
    [] step.k = "getschema" -> <<Name("getschema")>>
    [] step.k = "serialize" -> <<Name("serialize")>> \o (IF step.items = <<>> THEN <<>> ELSE WriteItems(step.items))
WritePipeline(pipeline) ==
  <<Name(pipeline.source)>>
  \o FlattenSeq([i \in DOMAIN pipeline.steps |-> <<Mark("|")>> \o WriteStep(pipeline.steps[i])])

WriteLet(let) ==
  <<Name("let"), Name(let.name), Mark("=")>>
  \o (CASE let.is = "table"    -> WritePipeline(let.pipeline)
        [] let.is = "scalar"   -> <<Name("toscalar")>> \o Bracketed(WritePipeline(let.pipeline))
        [] let.is = "value"    -> Write(let.x, Ors)
        [] let.is = "function" -> Bracketed(WriteNames(let.parameters)) \o <<Mark("{")>>
                                  \o Write(let.x, Ors) \o <<Mark("}")>>)
  \o <<Mark(";")>>
Written(query) ==
  FlattenSeq([i \in DOMAIN query.lets |-> WriteLet(query.lets[i])]) \o WritePipeline(query.pipeline) \o <<End>>

ReadBack ==
  LET read == Parse(Written(Asking(Steps))) IN read.ok /\ read.x = Asking(Steps)
\* A query that is written out with no more brackets than it needs is read as the
\* query it was: what binds closer, what groups to the left, and where every list,
\* default and name belongs.
ParsesBack == [][Answered => ReadBack]_vars
=============================================================================
