---------------------------- MODULE KqlFunctions ----------------------------
\* The functions of the query language (core/hunt/kql/functions.py): the ones
\* that work on values, and the aggregates that work on the rows of a group.
\*
\* Left out: regular expressions, hashes, addresses, URLs, calendar fields,
\* powers and logarithms, random numbers.
EXTENDS KqlValues
LOCAL INSTANCE Integers
LOCAL INSTANCE Sequences
LOCAL INSTANCE SequencesExt
LOCAL INSTANCE FiniteSetsExt

CONSTANT Now   \* the moment a query runs, in microseconds

Optional(a, i, default) == IF i \in DOMAIN a THEN a[i] ELSE default
LongOr(v, default) == IF ToLong(v) \in {Null, Long(0)} THEN default ELSE ToLong(v).n
IfSet(v, result) == IF v = Null THEN Null ELSE result

-----------------------------------------------------------------------------
\* Texts.
Strcat(a) == Text(FlattenSeq([i \in DOMAIN a |-> ToText(a[i])]))
StrcatDelim(a) ==
  Text(FlattenSeq([i \in 1 .. Len(a) - 1 |->
         (IF i = 1 THEN <<>> ELSE ToText(a[1])) \o ToText(a[i + 1])]))
Strlen(a) == IfSet(a[1], Long(Len(ToText(a[1]))))

Substring(a) ==
  LET body   == ToText(a[1])
      asked  == LongOr(a[2], 0)
      begin  == IF asked < 0 THEN Max({0, Len(body) + asked}) ELSE asked
      count  == ToLong(Optional(a, 3, Null))
      ending == IF Optional(a, 3, Null) = Null THEN Len(body) ELSE Min({Len(body), begin + count.n})
  IN IfSet(a[1],
       IF Optional(a, 3, Null) # Null /\ (count = Null \/ count.n < 0) THEN Text(<<>>)
       ELSE Text(SubSeq(body, begin + 1, ending)))

ToUpper(a) == IfSet(a[1], Text(MapText(ToText(a[1]), Raised)))
ToLower(a) == IfSet(a[1], Text(MapText(ToText(a[1]), Folded)))
Trim(a)    == IfSet(a[1], Text(Strip(ToText(a[1]))))

\* The pieces of a text between the places a word is found, left to right.  The
\* queries give no empty word.
Pieces(text, word) ==
  LET cut[i \in 0 .. Len(text)] ==
        LET next == {j \in At(text, word) : j >= i} IN
        IF next = {} THEN <<SubSeq(text, i + 1, Len(text))>>
        ELSE <<SubSeq(text, i + 1, Min(next))>> \o cut[Min(next) + Len(word)]
  IN IF Len(word) > Len(text) THEN <<text>> ELSE cut[0]

Split(a) ==
  LET pieces == Pieces(ToText(a[1]), ToText(a[2]))
      index  == ToLong(Optional(a, 3, Null))
  IN IfSet(a[1],
       CASE Optional(a, 3, Null) = Null -> List([i \in DOMAIN pieces |-> Text(pieces[i])])
         [] index = Null                -> Null
         [] OTHER -> IF Place(Len(pieces), index.n) \in DOMAIN pieces
                     THEN Text(pieces[Place(Len(pieces), index.n)]) ELSE Null)

RepeatLimit == 10000
Strrep(a) ==
  LET times == Min({LongOr(a[2], 0), RepeatLimit}) IN
  Text(FlattenSeq([i \in 1 .. times |->
         (IF i = 1 THEN <<>> ELSE ToText(Optional(a, 3, Text(<<>>)))) \o ToText(a[1])]))

ReplaceString(a) ==
  IfSet(a[1], LET pieces == Pieces(ToText(a[1]), ToText(a[2])) IN
    Text(FlattenSeq([i \in DOMAIN pieces |->
           (IF i = 1 THEN <<>> ELSE ToText(a[3])) \o pieces[i]])))

IndexOf(a) ==
  LET body  == ToText(a[1])
      asked == LongOr(Optional(a, 3, Null), 0)
      start == IF asked < 0 THEN Max({0, Len(body) + asked}) ELSE asked
      found == {i \in At(body, ToText(a[2])) : i >= start}
  IN IfSet(a[1], Long(IF found = {} THEN -1 ELSE Min(found)))

CountOf(a) == IfSet(a[1], Long(Len(Pieces(ToText(a[1]), ToText(a[2]))) - 1))

ReverseValue(a) ==
  IfSet(a[1], IF ToDynamic(a[1]).t = "list" THEN List(Reverse(ToDynamic(a[1]).l))
              ELSE Text(Reverse(ToText(a[1]))))
Strcmp(a) == Long(TextOrder(ToText(a[1]), ToText(a[2])))

\* A path without the slashes that end it, cut at its last slash.
Path(v) == LET s == ToText(v)
               kept == {i \in DOMAIN s : s[i] # "/"} IN
           IF kept = {} THEN <<>> ELSE SubSeq(s, 1, Max(kept))
LastSlash(s) == Max({0} \cup {i \in DOMAIN s : s[i] = "/"})
Basename(a) == IfSet(a[1], LET s == Path(a[1]) IN Text(SubSeq(s, LastSlash(s) + 1, Len(s))))
Dirname(a) ==
  IfSet(a[1], LET head == SubSeq(Path(a[1]), 1, LastSlash(Path(a[1])) - 1) IN
    Text(IF head = <<>> THEN <<"/">> ELSE head))

-----------------------------------------------------------------------------
\* Numbers.
OfReal(v, F(_)) == IF ToReal(v) = Null THEN Null ELSE F(ToReal(v).n)
Abs(a)      == OfReal(a[1], LAMBDA n : Real(IF n < 0 THEN -n ELSE n))
FloorOf(n)  == Long(n \div Sixths)
Ceiling(a)  == OfReal(a[1], LAMBDA n : Long(-((-n) \div Sixths)))
Sign(a)     == OfReal(a[1], LAMBDA n : Long(Sgn(n)))

\* To the nearest whole number; a half goes to the even one.
Round(a) ==
  OfReal(a[1], LAMBDA n :
    LET whole == n \div Sixths
        twice == 2 * (n % Sixths) IN
    Long(IF twice > Sixths \/ (twice = Sixths /\ whole % 2 = 1) THEN whole + 1 ELSE whole))

\* Down to a multiple; a moment or a span whose step is no step is left alone.
Bin(a) ==
  LET v == a[1]
      step == ToSpan(a[2])
      x == ToReal(v)
      y == ToReal(a[2])
  IN CASE Null \in {v, a[2]} -> Null
       [] v.t \in {"datetime", "timespan"} ->
            IF step = Null \/ step.n <= 0 THEN v
            ELSE Val(v.t, step.n * (v.n \div step.n), <<>>, <<>>)
       [] Null \in {x, y} \/ y.n = 0 -> Null
       [] {v.t, a[2].t} \subseteq {"long", "bool"} -> Long((y.n * FloorDiv(x.n, y.n)) \div Sixths)
       [] OTHER -> Real(y.n * FloorDiv(x.n, y.n))

Floor(a) == IF Optional(a, 2, Null) # Null THEN Bin(a) ELSE OfReal(a[1], FloorOf)

BinAt(a) ==
  LET v == a[1]
      step == IF v.t = "datetime" THEN ToSpan(a[2]) ELSE ToReal(a[2])
      anchor == IF v.t = "datetime" THEN ToMoment(a[3]) ELSE ToReal(a[3])
      x == IF v.t = "datetime" THEN v ELSE ToReal(v)
  IN CASE v = Null -> Null
       [] v.t = "datetime" /\ (Null \in {step, anchor} \/ step.n <= 0) -> v
       [] Null \in {step, anchor, x} \/ step.n = 0 -> Null
       [] OTHER -> [x EXCEPT !.n = anchor.n + step.n * FloorDiv(@ - anchor.n, step.n)]

\* The first of the arguments that no other passes in the order of sorting.
Extreme(a, side) ==
  LET present == SelectSeq(a, LAMBDA v : v # Null) IN
  IF present = <<>> THEN Null
  ELSE FoldLeft(LAMBDA best, v : IF SortOrder(v, best) = side THEN v ELSE best, present[1], present)

-----------------------------------------------------------------------------
\* Times.
Plain(part) == LET s == Fold(ToText(part))
                   kept == {i \in DOMAIN s : s[i] # "s"} IN
               IF kept = {} THEN <<>> ELSE SubSeq(s, 1, Max(kept))
Unit(part) ==
  CASE Plain(part) = <<"s", "e", "c", "o", "n", "d">> -> Second
    [] Plain(part) = <<"m", "i", "n", "u", "t", "e">> -> 60 * Second
    [] OTHER -> 0
NowPlus(a)  == Moment(Now + (IF ToSpan(Optional(a, 1, Null)) = Null THEN 0
                             ELSE ToSpan(Optional(a, 1, Null)).n))
Ago(a)      == IfSet(ToSpan(a[1]), Moment(Now - ToSpan(a[1]).n))
DatetimeAdd(a) ==
  IF Null \in {ToMoment(a[3]), ToLong(a[2])} \/ Unit(a[1]) = 0 THEN Null
  ELSE Moment(ToMoment(a[3]).n + Unit(a[1]) * ToLong(a[2]).n)
DatetimeDiff(a) ==
  IF Null \in {ToMoment(a[2]), ToMoment(a[3])} \/ Unit(a[1]) = 0 THEN Null
  ELSE Long(Truncated(ToMoment(a[2]).n - ToMoment(a[3]).n, Unit(a[1])))

-----------------------------------------------------------------------------
\* Arrays and bags.
OfList(v, F(_)) == IF ToDynamic(v).t = "list" THEN F(ToDynamic(v).l) ELSE Null
ArrayLength(a) == IF IsNested(ToDynamic(a[1])) THEN Long(Len(ToDynamic(a[1]).l)) ELSE Null
ArrayIndexOf(a) ==
  OfList(a[1], LAMBDA l :
    LET same == {i \in DOMAIN l : Equal(l[i], a[2], FALSE) = "yes"} IN
    Long(IF same = {} THEN -1 ELSE Min(same) - 1))

\* Negative positions count from the end; an end of -1 is the end.
ArraySlice(a) ==
  OfList(a[1], LAMBDA l :
    LET Clip(i) == IF i < 0 THEN Max({0, Len(l) + i}) ELSE Min({Len(l), i})
        finish  == ToLong(a[3]) IN
    List(SubSeq(l, Clip(LongOr(a[2], 0)) + 1,
                IF finish \in {Null, Long(-1)} THEN Len(l) ELSE Clip(finish.n + 1))))

ArrayConcat(a) ==
  List(FlattenSeq([i \in DOMAIN a |->
         IF ToDynamic(a[i]).t = "list" THEN ToDynamic(a[i]).l ELSE <<a[i]>>]))
Total(numbers) == FoldLeft(LAMBDA sum, v : sum + v.n, 0, numbers)
Reals(values) ==
  SelectSeq([i \in DOMAIN values |-> ToReal(values[i])], LAMBDA v : v # Null)
ArraySum(a) ==
  OfList(a[1], LAMBDA l : IF Reals(l) = <<>> THEN Long(0) ELSE Real(Total(Reals(l))))

Ascending(v, w)  == SortOrder(v, w) < 0
Descending(v, w) == SortOrder(v, w) > 0
ArraySort(a, Before(_, _)) == OfList(a[1], LAMBDA l : List(StableSort(l, Before)))
ArrayReverse(a) == OfList(a[1], LAMBDA l : List(Reverse(l)))

Keys(bag) == [i \in DOMAIN bag.l |-> bag.l[i].s]
BagKeys(a) ==
  IF ToDynamic(a[1]).t = "bag"
  THEN List([i \in DOMAIN ToDynamic(a[1]).l |-> Text(ToDynamic(a[1]).l[i].s)]) ELSE Null
BagHasKey(a) ==
  Bool(ToDynamic(a[1]).t = "bag" /\ ToText(a[2]) \in ToSet(Keys(ToDynamic(a[1]))))

\* A key set again keeps its place and takes the new value.
Put(bag, pair) ==
  LET old == {i \in DOMAIN bag : bag[i].s = pair.s} IN
  IF old = {} THEN Append(bag, pair) ELSE [bag EXCEPT ![Min(old)] = pair]
Pack(a) ==
  Bag(FoldLeft(Put, <<>>, [i \in 1 .. Len(a) \div 2 |-> Pair(ToText(a[2 * i - 1]), a[2 * i])]))

\* What a set of Python holds once: a list or a bag by its text.
Hashable(v) ==
  CASE IsNumber(v) -> Real(AsSixths(v)) [] IsNested(v) -> Text(ToText(v)) [] OTHER -> v
Once(values) ==
  FoldLeft(LAMBDA done, v :
    IF \E i \in DOMAIN done : Hashable(done[i]) = Hashable(v) THEN done ELSE Append(done, v),
    <<>>, values)
Hashes(l) == {Hashable(l[i]) : i \in DOMAIN l}
AllLists(a) == \A i \in DOMAIN a : ToDynamic(a[i]).t = "list"
SetHasElement(a) ==
  Bool(ToDynamic(a[1]).t = "list" /\
       \E i \in DOMAIN ToDynamic(a[1]).l : Equal(ToDynamic(a[1]).l[i], a[2], FALSE) = "yes")
SetUnion(a) == List(Once(ArrayConcat(a).l))
SetIntersect(a) ==
  IF ~AllLists(a) THEN Null
  ELSE List(SelectSeq(Once(ToDynamic(a[1]).l), LAMBDA v :
              \A i \in 2 .. Len(a) : Hashable(v) \in Hashes(ToDynamic(a[i]).l)))
SetDifference(a) ==
  IF ~AllLists(a) THEN Null
  ELSE List(SelectSeq(Once(ToDynamic(a[1]).l), LAMBDA v :
              \A i \in 2 .. Len(a) : Hashable(v) \notin Hashes(ToDynamic(a[i]).l)))

-----------------------------------------------------------------------------
\* Choices.
IsEmptyValue(v) == v \in {Null, Text(<<>>)}
Iif(a) == IF Truthy(a[1]) THEN a[2] ELSE a[3]
CaseOf(a) ==
  LET met == {i \in 1 .. Len(a) - 1 : i % 2 = 1 /\ Truthy(a[i])} IN
  IF met # {} THEN a[Min(met) + 1] ELSE IF Len(a) % 2 = 1 THEN a[Len(a)] ELSE Null
Coalesce(a) ==
  LET set == {i \in DOMAIN a : ~IsEmptyValue(a[i])} IN IF set = {} THEN Null ELSE a[Min(set)]
KindNames ==
  [ string   |-> <<"s", "t", "r", "i", "n", "g">>,
    long     |-> <<"l", "o", "n", "g">>,
    real     |-> <<"r", "e", "a", "l">>,
    bool     |-> <<"b", "o", "o", "l">>,
    datetime |-> <<"d", "a", "t", "e", "t", "i", "m", "e">>,
    timespan |-> <<"t", "i", "m", "e", "s", "p", "a", "n">>,
    dynamic  |-> <<"d", "y", "n", "a", "m", "i", "c">> ]
KindName(v) == IF v = Null THEN <<"n", "u", "l", "l">> ELSE KindNames[Kind(v)]

-----------------------------------------------------------------------------
\* The functions by name, with the least and the most arguments they take.
Many == 99
Scalars ==
  [ strcat |-> <<1, Many>>, strcat_delim |-> <<2, Many>>, strlen |-> <<1, 1>>,
    substring |-> <<2, 3>>, toupper |-> <<1, 1>>, tolower |-> <<1, 1>>, trim |-> <<1, 1>>,
    split |-> <<2, 3>>, strrep |-> <<2, 3>>, replace_string |-> <<3, 3>>,
    indexof |-> <<2, 4>>, countof |-> <<2, 2>>, reverse |-> <<1, 1>>, strcmp |-> <<2, 2>>,
    basename |-> <<1, 1>>, dirname |-> <<1, 1>>, abs |-> <<1, 1>>, ceiling |-> <<1, 1>>,
    floor |-> <<1, 2>>, round |-> <<1, 1>>, sign |-> <<1, 1>>, bin |-> <<2, 2>>,
    bin_at |-> <<3, 3>>, max_of |-> <<2, Many>>, min_of |-> <<2, Many>>, now |-> <<0, 1>>,
    ago |-> <<1, 1>>, datetime_add |-> <<3, 3>>, datetime_diff |-> <<3, 3>>,
    array_length |-> <<1, 1>>, array_index_of |-> <<2, 2>>, array_slice |-> <<3, 3>>,
    array_concat |-> <<1, Many>>, array_sum |-> <<1, 1>>, array_sort_asc |-> <<1, 1>>,
    array_sort_desc |-> <<1, 1>>, array_reverse |-> <<1, 1>>, bag_keys |-> <<1, 1>>,
    bag_has_key |-> <<2, 2>>, pack |-> <<2, Many>>, pack_array |-> <<1, Many>>,
    set_has_element |-> <<2, 2>>, set_union |-> <<1, Many>>, set_intersect |-> <<2, Many>>,
    set_difference |-> <<2, Many>>, parse_json |-> <<1, 1>>, iif |-> <<3, 3>>,
    case |-> <<3, Many>>, coalesce |-> <<1, Many>>, isnull |-> <<1, 1>>,
    isnotnull |-> <<1, 1>>, isempty |-> <<1, 1>>, isnotempty |-> <<1, 1>>,
    gettype |-> <<1, 1>>, tostring |-> <<1, 1>>, tolong |-> <<1, 1>>, toreal |-> <<1, 1>>,
    tobool |-> <<1, 1>>, todatetime |-> <<1, 1>>, totimespan |-> <<1, 1>> ]

Takes(name, count) ==
  name \in DOMAIN Scalars /\ Scalars[name][1] <= count /\ count <= Scalars[name][2]

TextCall(name, a) ==
  CASE name = "strcat" -> Strcat(a)             [] name = "strcat_delim" -> StrcatDelim(a)
    [] name = "strlen" -> Strlen(a)             [] name = "substring" -> Substring(a)
    [] name = "toupper" -> ToUpper(a)           [] name = "tolower" -> ToLower(a)
    [] name = "trim" -> Trim(a)                 [] name = "split" -> Split(a)
    [] name = "strrep" -> Strrep(a)             [] name = "replace_string" -> ReplaceString(a)
    [] name = "indexof" -> IndexOf(a)           [] name = "countof" -> CountOf(a)
    [] name = "reverse" -> ReverseValue(a)      [] name = "strcmp" -> Strcmp(a)
    [] name = "basename" -> Basename(a)         [] name = "dirname" -> Dirname(a)

NumberCall(name, a) ==
  CASE name = "abs" -> Abs(a)                   [] name = "ceiling" -> Ceiling(a)
    [] name = "floor" -> Floor(a)               [] name = "round" -> Round(a)
    [] name = "sign" -> Sign(a)                 [] name = "bin" -> Bin(a)
    [] name = "bin_at" -> BinAt(a)              [] name = "max_of" -> Extreme(a, 1)
    [] name = "min_of" -> Extreme(a, -1)        [] name = "now" -> NowPlus(a)
    [] name = "ago" -> Ago(a)                   [] name = "datetime_add" -> DatetimeAdd(a)
    [] name = "datetime_diff" -> DatetimeDiff(a)

NestedCall(name, a) ==
  CASE name = "array_length" -> ArrayLength(a)  [] name = "array_index_of" -> ArrayIndexOf(a)
    [] name = "array_slice" -> ArraySlice(a)    [] name = "array_concat" -> ArrayConcat(a)
    [] name = "array_sum" -> ArraySum(a)
    [] name = "array_sort_asc" -> ArraySort(a, Ascending)
    [] name = "array_sort_desc" -> ArraySort(a, Descending)
    [] name = "array_reverse" -> ArrayReverse(a) [] name = "bag_keys" -> BagKeys(a)
    [] name = "bag_has_key" -> BagHasKey(a)     [] name = "pack" -> Pack(a)
    [] name = "pack_array" -> List(a)           [] name = "set_has_element" -> SetHasElement(a)
    [] name = "set_union" -> SetUnion(a)        [] name = "set_intersect" -> SetIntersect(a)
    [] name = "set_difference" -> SetDifference(a) [] name = "parse_json" -> ToDynamic(a[1])

OtherCall(name, a) ==
  CASE name = "iif" -> Iif(a)                   [] name = "case" -> CaseOf(a)
    [] name = "coalesce" -> Coalesce(a)         [] name = "isnull" -> Bool(a[1] = Null)
    [] name = "isnotnull" -> Bool(a[1] # Null)  [] name = "isempty" -> Bool(IsEmptyValue(a[1]))
    [] name = "isnotempty" -> Bool(~IsEmptyValue(a[1]))
    [] name = "gettype" -> Text(KindName(a[1])) [] name = "tostring" -> Text(ToText(a[1]))
    [] name = "tolong" -> ToLong(a[1])          [] name = "toreal" -> ToReal(a[1])
    [] name = "tobool" -> ToBool(a[1])          [] name = "todatetime" -> ToMoment(a[1])
    [] name = "totimespan" -> ToSpan(a[1])

TextNames == {"strcat", "strcat_delim", "strlen", "substring", "toupper", "tolower", "trim",
  "split", "strrep", "replace_string", "indexof", "countof", "reverse", "strcmp", "basename",
  "dirname"}
NumberNames == {"abs", "ceiling", "floor", "round", "sign", "bin", "bin_at", "max_of",
  "min_of", "now", "ago", "datetime_add", "datetime_diff"}
OtherNames == {"iif", "case", "coalesce", "isnull", "isnotnull", "isempty", "isnotempty",
  "gettype", "tostring", "tolong", "toreal", "tobool", "todatetime", "totimespan"}
Call(name, a) ==
  CASE name \in TextNames   -> TextCall(name, a)
    [] name \in NumberNames -> NumberCall(name, a)
    [] name \in OtherNames  -> OtherCall(name, a)
    [] OTHER                -> NestedCall(name, a)

-----------------------------------------------------------------------------
\* The aggregates, over the rows of a group: each row is what the arguments are.
Column(rows, i) == [r \in DOMAIN rows |-> rows[r][i]]
When(rows, i)   == SelectSeq(rows, LAMBDA row : Truthy(row[i]))
Without(rows, i) == [r \in DOMAIN rows |-> RemoveAt(rows[r], i)]
Present(values) == SelectSeq(values, LAMBDA v : v # Null)
Whole(n) == IF n % Sixths = 0 THEN Long(n \div Sixths) ELSE Real(n)

Different(values) == Long(Cardinality(Hashes(Present(values))))
Sum(values) == Whole(Total(Reals(values)))
Mean(values) ==
  IF Reals(values) = <<>> THEN Null ELSE Real(Total(Reals(values)) \div Len(Reals(values)))

\* A later value takes over only when it is beyond the best; what cannot be
\* compared is put in the order of sorting.
Beyond(v, best, side) ==
  side = (IF Compare(v, best) = Unordered THEN SortOrder(v, best) ELSE Compare(v, best))
Best(values, side) ==
  FoldLeft(LAMBDA best, v :
    IF v # Null /\ (best = Null \/ Beyond(v, best, side)) THEN v ELSE best, Null, values)

DefaultLimit == 1024
MostGathered == 100000
\* A row's limit counts from that row on; one that says nothing leaves the last.
Gathered(rows, Keep(_, _)) ==
  LET Gather(done, row) ==
        LET limit == IF Optional(row, 2, Null) = Null THEN done.limit
                     ELSE Min({LongOr(row[2], DefaultLimit), MostGathered})
        IN [limit |-> limit,
            items |-> IF row[1] # Null /\ Len(done.items) < limit /\ Keep(done.items, row[1])
                      THEN Append(done.items, row[1]) ELSE done.items]
  IN List(FoldLeft(Gather, [limit |-> DefaultLimit, items |-> <<>>], rows).items)
MakeList(rows) == Gathered(rows, LAMBDA done, v : TRUE)
MakeSet(rows)  == Gathered(rows, LAMBDA done, v : Hashable(v) \notin Hashes(done))
MakeBag(values) ==
  Bag(FoldLeft(LAMBDA bag, v :
    IF ToDynamic(v).t = "bag" /\ Len(bag) < DefaultLimit
    THEN FoldLeft(Put, bag, ToDynamic(v).l) ELSE bag, <<>>, values))

\* percent is in sixths.  The value at the rank, counted from the smallest.
PercentileOf(numbers, percent) ==
  LET ordered == StableSort(numbers, Ascending)
      count   == Len(ordered)
      rank    == -((-(percent * count)) \div (100 * Sixths)) IN
  IF ordered = <<>> THEN Null ELSE Whole(ordered[Max({1, Min({count, rank})})].n)
\* The last row's percentage counts, and none or 0 is the median.
Percentile(rows) ==
  LET asked == IF rows = <<>> THEN Null ELSE ToReal(rows[Len(rows)][2]) IN
  PercentileOf(Reals(Column(rows, 1)), IF asked \in {Null, Real(0)} THEN 50 * Sixths ELSE asked.n)
\* The first row's percentages count.
Percentiles(rows) ==
  List(IF rows = <<>> THEN <<>>
       ELSE [i \in 1 .. Len(rows[1]) - 1 |->
               PercentileOf(Reals(Column(rows, 1)),
                            IF ToReal(rows[1][i + 1]) = Null THEN 0 ELSE ToReal(rows[1][i + 1]).n)])

\* The best key and what came with it: the key alone, and null, when every key is null.
ArgBest(rows, side) ==
  FoldLeft(LAMBDA best, row :
    IF row[1] # Null /\ (best[1] = Null \/ Beyond(row[1], best[1], side)) THEN row ELSE best,
    <<Null>>, rows)

Aggregates ==
  [ count |-> <<0, 0>>, countif |-> <<1, 1>>, dcount |-> <<1, 2>>, dcountif |-> <<2, 2>>,
    sum |-> <<1, 1>>, sumif |-> <<2, 2>>, avg |-> <<1, 1>>, avgif |-> <<2, 2>>,
    min |-> <<1, 1>>, max |-> <<1, 1>>, minif |-> <<2, 2>>, maxif |-> <<2, 2>>,
    any |-> <<1, 1>>, anyif |-> <<2, 2>>, make_list |-> <<1, 2>>, make_list_if |-> <<2, 3>>,
    make_set |-> <<1, 2>>, make_set_if |-> <<2, 3>>, make_bag |-> <<1, 2>>,
    percentile |-> <<2, 2>>, percentiles |-> <<2, Many>>,
    arg_max |-> <<2, Many>>, arg_min |-> <<2, Many>> ]
Projecting == {"arg_max", "arg_min"}

First(values) == IF Present(values) = <<>> THEN Null ELSE Present(values)[1]
Aggregate(name, rows) ==
  LET all == Column(rows, 1)
      chosen == Column(When(rows, 2), 1) IN
  CASE name = "count"    -> Long(Len(rows))
    [] name = "countif"  -> Long(Len(When(rows, 1)))
    [] name = "dcount"   -> Different(all)      [] name = "dcountif" -> Different(chosen)
    [] name = "sum"      -> Sum(all)            [] name = "sumif"    -> Sum(chosen)
    [] name = "avg"      -> Mean(all)           [] name = "avgif"    -> Mean(chosen)
    [] name = "min"      -> Best(all, -1)       [] name = "minif"    -> Best(chosen, -1)
    [] name = "max"      -> Best(all, 1)        [] name = "maxif"    -> Best(chosen, 1)
    [] name = "any"      -> First(all)          [] name = "anyif"    -> First(chosen)
    [] name = "make_list" -> MakeList(rows)
    [] name = "make_list_if" -> MakeList(Without(When(rows, 2), 2))
    [] name = "make_set" -> MakeSet(rows)
    [] name = "make_set_if" -> MakeSet(Without(When(rows, 2), 2))
    [] name = "make_bag" -> MakeBag(all)
    [] name = "percentile" -> Percentile(rows)  [] name = "percentiles" -> Percentiles(rows)
    [] name = "arg_max"  -> List(ArgBest(rows, 1)) [] name = "arg_min" -> List(ArgBest(rows, -1))
=============================================================================
