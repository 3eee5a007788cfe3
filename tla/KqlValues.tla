----------------------------- MODULE KqlValues -----------------------------
\* The values of Hunt's query language (core/hunt/kql/values.py): their kinds,
\* their order, arithmetic, the conversions, and the text operators.
\*
\* A value is a record of one shape: its type t, a number n, a text s and its
\* parts l.  A text is a sequence of characters, for the operators are about
\* characters and terms.  A real keeps sixths in n, so that a mean of two or
\* three rows is exact.  A second has Second microseconds.
LOCAL INSTANCE Integers
LOCAL INSTANCE FiniteSets
LOCAL INSTANCE Sequences
LOCAL INSTANCE SequencesExt
LOCAL INSTANCE FiniteSetsExt

Val(t, n, s, l) == [t |-> t, n |-> n, s |-> s, l |-> l]
Null      == Val("null", 0, <<>>, <<>>)
Bool(b)   == Val("bool", IF b THEN 1 ELSE 0, <<>>, <<>>)
Long(n)   == Val("long", n, <<>>, <<>>)
Real(n)   == Val("real", n, <<>>, <<>>)
Moment(n) == Val("datetime", n, <<>>, <<>>)
Span(n)   == Val("timespan", n, <<>>, <<>>)
Text(s)   == Val("string", 0, s, <<>>)
List(l)   == Val("list", 0, <<>>, l)
\* A bag is a sequence of pairs, in the order its keys were added.
Pair(s, v) == Val("pair", 0, s, <<v>>)
Bag(l)     == Val("bag", 0, <<>>, l)

Sixths == 6
Second == 2

IsNumber(v) == v.t \in {"bool", "long", "real"}
IsText(v)   == v.t = "string"
IsNested(v) == v.t \in {"list", "bag"}

Kind(v) == IF IsNested(v) THEN "dynamic" ELSE IF v = Null THEN "string" ELSE v.t

\* What a column's values have in common.
InferType(values) ==
  LET seen == {Kind(v) : v \in ToSet(values) \ {Null}} IN
  CASE seen = {}               -> "string"
    [] \E k \in seen : seen = {k} -> CHOOSE k \in seen : TRUE
    [] seen = {"long", "real"} -> "real"
    [] OTHER                   -> "dynamic"

Truthy(v) == v.t = "datetime" \/ v.n # 0 \/ v.s # <<>> \/ v.l # <<>>

-----------------------------------------------------------------------------
\* Characters, in the order of their code points.  The last two are one
\* letter outside ASCII in its two cases.
Alphabet == << " ", "-", ".", "/", "0", "1", "2", "3", "4", "5", "6", "7", "8", "9", ":",
               "A", "Z", "[", "]", "a", "b", "c", "d", "e", "f", "g", "h", "i", "k", "l", "m",
               "n", "o", "p", "r", "s", "t", "u", "w", "y", "z", "{", "}", "E'", "e'" >>
Code(c)  == CHOOSE i \in DOMAIN Alphabet : Alphabet[i] = c
Digits   == <<"0", "1", "2", "3", "4", "5", "6", "7", "8", "9">>
IsTermChar(c) == c \notin {" ", "-", ".", "/", ":", "[", "]", "{", "}", "E'", "e'"}

MapText(s, F(_)) == [i \in DOMAIN s |-> F(s[i])]
AsciiLower(c) == CASE c = "A" -> "a" [] c = "Z" -> "z" [] OTHER -> c
AsciiUpper(c) == CASE c = "a" -> "A" [] c = "z" -> "Z" [] OTHER -> c
Folded(c)     == IF c = "E'" THEN "e'" ELSE AsciiLower(c)
Raised(c)     == IF c = "e'" THEN "E'" ELSE AsciiUpper(c)
Fold(s)       == MapText(s, Folded)
Case(s, sensitive) == IF sensitive THEN s ELSE Fold(s)

Sgn(n) == IF n > 0 THEN 1 ELSE IF n < 0 THEN -1 ELSE 0

TextOrder(a, b) ==
  LET apart == {i \in 1 .. Len(a) : i > Len(b) \/ a[i] # b[i]} IN
  IF apart = {} THEN Sgn(Len(a) - Len(b))
  ELSE LET i == Min(apart) IN IF i > Len(b) THEN 1 ELSE Sgn(Code(a[i]) - Code(b[i]))

\* Where one text lies inside another: the positions before its first letter.
At(text, word) ==
  {i \in 0 .. Len(text) - Len(word) : SubSeq(text, i + 1, i + Len(word)) = word}
Inside(text, word) == Len(word) <= Len(text) /\ At(text, word) # {}
BeginsWith(text, word) == Len(word) <= Len(text) /\ 0 \in At(text, word)
EndsIn(text, word) == Len(word) <= Len(text) /\ (Len(text) - Len(word)) \in At(text, word)

Strip(s) ==
  LET kept == {i \in DOMAIN s : s[i] # " "} IN
  IF kept = {} THEN <<>> ELSE SubSeq(s, Min(kept), Max(kept))

\* A sort that leaves what is equal in its order.
StableSort(seq, Before(_, _)) ==
  FoldLeft(LAMBDA done, v :
    InsertAt(done, 1 + Cardinality({i \in DOMAIN done : ~Before(v, done[i])}), v), <<>>, seq)

-----------------------------------------------------------------------------
\* Texts of values.
DigitsOf[n \in Nat] ==
  (IF n < 10 THEN <<>> ELSE DigitsOf[n \div 10]) \o <<Digits[(n % 10) + 1]>>
NumberText(n) == IF n < 0 THEN <<"-">> \o DigitsOf[-n] ELSE DigitsOf[n]
BoolText(b) == IF b THEN <<"t", "r", "u", "e">> ELSE <<"f", "a", "l", "s", "e">>

RECURSIVE ToText(_)
Joined(l, between) ==
  FoldLeft(LAMBDA done, v : IF done = <<>> THEN v ELSE done \o between \o v, <<>>, l)
ToText(v) ==
  CASE v.t = "null"     -> <<>>
    [] v.t = "bool"     -> BoolText(v.n = 1)
    [] v.t = "string"   -> v.s
    [] v.t = "long"     -> NumberText(v.n)
    [] v.t = "real"     -> IF v.n % Sixths = 0 THEN NumberText(v.n \div Sixths)
                           ELSE NumberText(v.n \div Sixths) \o <<".">> \o NumberText(v.n % Sixths)
    [] v.t = "datetime" -> <<"t">> \o NumberText(v.n)
    [] v.t = "timespan" -> NumberText(v.n) \o <<"u">>
    [] v.t = "pair"     -> v.s \o <<":">> \o ToText(v.l[1])
    [] v.t = "list"     -> <<"[">> \o Joined([i \in DOMAIN v.l |-> ToText(v.l[i])], <<" ">>) \o <<"]">>
    [] v.t = "bag"      -> <<"{">> \o Joined([i \in DOMAIN v.l |-> ToText(v.l[i])], <<" ">>) \o <<"}">>

-----------------------------------------------------------------------------
\* Order and equality.
Unordered == 2

AsSixths(v) == IF v.t = "real" THEN v.n ELSE Sixths * v.n

Compare(a, b) ==
  CASE Null \in {a, b}                -> Unordered
    [] IsNumber(a) /\ IsNumber(b)     -> Sgn(AsSixths(a) - AsSixths(b))
    [] a.t = b.t /\ a.t \in {"datetime", "timespan"} -> Sgn(a.n - b.n)
    [] IsText(a) /\ IsText(b)         -> TextOrder(a.s, b.s)
    [] (IsNested(a) \/ IsNested(b)) /\ a = b -> 0
    [] OTHER                          -> Unordered

\* Three answers: a null on either side leaves it unknown.
Equal(a, b, fold) ==
  CASE Null \in {a, b}                  -> "unknown"
    [] IsText(a) /\ IsText(b)           -> IF Case(a.s, ~fold) = Case(b.s, ~fold) THEN "yes" ELSE "no"
    [] IsText(a) # IsText(b) /\ "bool" \in {a.t, b.t} ->
                                           IF Truthy(a) = Truthy(b) THEN "yes" ELSE "no"
    [] IsText(a) # IsText(b)            -> "no"
    [] Compare(a, b) = Unordered        -> "unknown"
    [] OTHER                            -> IF Compare(a, b) = 0 THEN "yes" ELSE "no"

Rank(v) ==
  CASE v.t = "null" -> 0 [] v.t = "bool" -> 1 [] v.t \in {"long", "real"} -> 2
    [] v.t = "datetime" -> 3 [] v.t = "timespan" -> 4 [] v.t = "string" -> 5
    [] v.t = "list" -> 6 [] v.t = "bag" -> 7

\* A total order over every kind, for sorting.
SortOrder(a, b) ==
  IF Rank(a) # Rank(b) THEN Sgn(Rank(a) - Rank(b))
  ELSE IF IsText(a) \/ IsNested(a) THEN TextOrder(ToText(a), ToText(b))
  ELSE Sgn(AsSixths(a) - AsSixths(b))

\* What two values have in common when a dictionary finds them equal.
HashKey(v) ==
  CASE IsNumber(v)        -> Real(AsSixths(v))
    [] v.t = "datetime"   -> Real((Sixths * v.n) \div Second)
    [] IsNested(v)        -> Text(ToText(v))
    [] OTHER              -> v

-----------------------------------------------------------------------------
\* Arithmetic: null in, null out, and no surprise but a number divided by zero.
Arith(a, b, op(_, _)) ==
  CASE ~(IsNumber(a) /\ IsNumber(b)) -> Null
    [] "real" \in {a.t, b.t}         -> Real(op(AsSixths(a), AsSixths(b)))
    [] OTHER                         -> Long(op(a.n, b.n))

Add(a, b) ==
  CASE Null \in {a, b}                                     -> Null
    [] {a.t, b.t} = {"datetime", "timespan"}               -> Moment(a.n + b.n)
    [] a.t = "timespan" /\ b.t = "timespan"                -> Span(a.n + b.n)
    [] IsText(a) \/ IsText(b)                              -> Text(ToText(a) \o ToText(b))
    [] OTHER -> Arith(a, b, LAMBDA x, y : x + y)

Subtract(a, b) ==
  CASE Null \in {a, b}                                     -> Null
    [] a.t = "datetime" /\ b.t = "datetime"                -> Span(a.n - b.n)
    [] a.t \in {"datetime", "timespan"} /\ b.t = "timespan" -> Val(a.t, a.n - b.n, <<>>, <<>>)
    [] OTHER -> Arith(a, b, LAMBDA x, y : x - y)

Multiply(a, b) ==
  CASE Null \in {a, b}                     -> Null
    [] a.t = "timespan" /\ IsNumber(b)     -> Span((a.n * AsSixths(b)) \div Sixths)
    [] b.t = "timespan" /\ IsNumber(a)     -> Span((b.n * AsSixths(a)) \div Sixths)
    [] "real" \in {a.t, b.t} /\ IsNumber(a) /\ IsNumber(b) ->
                                              Real((AsSixths(a) * AsSixths(b)) \div Sixths)
    [] OTHER -> Arith(a, b, LAMBDA x, y : x * y)

\* Rounds to the floor whatever the signs, as \div and % do.
FloorDiv(x, y) == IF y > 0 THEN x \div y ELSE (-x) \div (-y)
FloorMod(x, y) == x - y * FloorDiv(x, y)

Divide(a, b) ==
  CASE a.t = "timespan" /\ b.t = "timespan" ->
         IF b.n = 0 THEN Null ELSE Real(FloorDiv(Sixths * a.n, b.n))
    [] a.t = "timespan" /\ IsNumber(b) ->
         IF b.n = 0 THEN Null ELSE Span(FloorDiv(Sixths * a.n, AsSixths(b)))
    [] IsNumber(a) /\ IsNumber(b) /\ b.n # 0 ->
         IF "real" \in {a.t, b.t} THEN Real(FloorDiv(Sixths * AsSixths(a), AsSixths(b)))
         ELSE Long(FloorDiv(a.n, b.n))
    [] OTHER -> Null

Modulo(a, b) ==
  IF IsNumber(b) /\ b.n = 0 THEN Null ELSE Arith(a, b, FloorMod)

Negate(v) ==
  CASE v.t = "timespan" -> Span(-v.n)
    [] v.t = "real"     -> Real(-v.n)
    [] IsNumber(v)      -> Long(-v.n)
    [] OTHER            -> Null

-----------------------------------------------------------------------------
\* Conversions: null where nothing can be made of the value.
Truncated(x, y) == IF x < 0 THEN -((-x) \div y) ELSE x \div y

IsDigits(s) == s # <<>> /\ ToSet(s) \subseteq ToSet(Digits)
DigitValue(c) == CHOOSE d \in 0 .. 9 : Digits[d + 1] = c
ReadDigits(s) == FoldLeft(LAMBDA n, c : 10 * n + DigitValue(c), 0, s)
Unsigned(s) == IF s # <<>> /\ s[1] = "-" THEN Tail(s) ELSE s
IsNumberText(s) == IsDigits(Unsigned(s))
ReadNumber(s) == IF Unsigned(s) = s THEN ReadDigits(s) ELSE -ReadDigits(Tail(s))

ToLong(v) ==
  CASE v.t \in {"bool", "long", "datetime"} -> Long(v.n)
    [] v.t = "real"     -> Long(Truncated(v.n, Sixths))
    [] v.t = "timespan" -> Long(10 * v.n)
    [] IsText(v) /\ IsNumberText(Strip(v.s)) -> Long(ReadNumber(Strip(v.s)))
    [] OTHER -> Null

ToReal(v) ==
  CASE IsNumber(v)      -> Real(AsSixths(v))
    [] v.t = "timespan" -> Real((Sixths * v.n) \div Second)
    [] IsText(v) /\ IsNumberText(Strip(v.s)) -> Real(Sixths * ReadNumber(Strip(v.s)))
    [] OTHER -> Null

ToBool(v) ==
  LET word == Fold(Strip(v.s)) IN
  CASE v = Null    -> Null
    [] IsNumber(v) -> Bool(v.n # 0)
    [] IsText(v) /\ word \in {<<"t","r","u","e">>, <<"1">>, <<"y","e","s">>, <<"o","n">>} -> Bool(TRUE)
    [] IsText(v) /\ word \in {<<"f","a","l","s","e">>, <<"0">>, <<"n","o">>, <<"o","f","f">>, <<>>} -> Bool(FALSE)
    [] OTHER -> Null

\* A number is microseconds; the text of a moment reads back as the moment.
ToMoment(v) ==
  CASE v.t \in {"datetime", "long"} -> Moment(v.n)
    [] v.t = "real" -> Moment(v.n \div Sixths)
    [] IsText(v) /\ Strip(v.s) # <<>> /\ Strip(v.s)[1] = "t" /\ IsNumberText(Tail(Strip(v.s))) ->
                       Moment(ReadNumber(Tail(Strip(v.s))))
    [] OTHER -> Null

\* A number is ticks, ten to the microsecond; a text without a unit is seconds.
ToSpan(v) ==
  CASE v.t = "timespan" -> v
    [] v.t = "long" -> Span(v.n \div 10)
    [] v.t = "real" -> Span(v.n \div (10 * Sixths))
    [] IsText(v) /\ IsNumberText(Strip(v.s)) -> Span(Second * ReadNumber(Strip(v.s)))
    [] OTHER -> Null

\* A text that reads as JSON is what it reads as; any other stays a text.
ToDynamic(v) ==
  LET text == Strip(v.s) IN
  CASE ~IsText(v)                                      -> v
    [] text = <<>>                                     -> Null
    [] IsNumberText(text)                              -> Long(ReadNumber(text))
    [] text \in {BoolText(TRUE), BoolText(FALSE)}      -> Bool(text = BoolText(TRUE))
    [] text = <<"n", "u", "l", "l">>                   -> Null
    [] OTHER                                           -> v

AsList(v) == IF ToDynamic(v).t = "list" THEN ToDynamic(v).l ELSE <<v>>

\* An exact key first, then one that differs in case.
Member(v, name) ==
  LET bag == ToDynamic(v)
      exact == {i \in DOMAIN bag.l : bag.l[i].s = name}
      close == {i \in DOMAIN bag.l : Fold(bag.l[i].s) = Fold(name)} IN
  CASE bag.t # "bag" -> Null
    [] exact # {}    -> bag.l[Max(exact)].l[1]
    [] close # {}    -> bag.l[Min(close)].l[1]
    [] OTHER         -> Null

\* Positions count from zero, and from the end when they are negative.
Place(length, i) == IF i < 0 THEN length + i + 1 ELSE i + 1
Element(v, key) ==
  LET box == ToDynamic(v)
      index == ToLong(key)
      parts == IF box.t = "list" THEN box.l ELSE [i \in DOMAIN box.s |-> Text(<<box.s[i]>>)]
      exact == {i \in DOMAIN box.l : box.l[i].s = ToText(key)} IN
  CASE box.t = "bag" -> IF exact = {} THEN Null ELSE box.l[Max(exact)].l[1]
    [] box.t \in {"list", "string"} /\ index # Null
         /\ Place(Len(parts), index.n) \in DOMAIN parts -> parts[Place(Len(parts), index.n)]
    [] OTHER -> Null

-----------------------------------------------------------------------------
\* The text operators.  A term is a run of ASCII letters and digits.
Terms(s) ==
  LET grown == FoldLeft(LAMBDA acc, c :
                 IF IsTermChar(c) THEN [acc EXCEPT !.word = Append(@, c)]
                 ELSE [done |-> IF acc.word = <<>> THEN acc.done ELSE Append(acc.done, acc.word),
                       word |-> <<>>],
                 [done |-> <<>>, word |-> <<>>], s)
  IN IF grown.word = <<>> THEN grown.done ELSE Append(grown.done, grown.word)

HasTerm(v, w, sensitive) ==
  LET wanted == Terms(Case(ToText(w), sensitive)) IN
  wanted # <<>> /\ Inside(Terms(Case(ToText(v), sensitive)), wanted)

AnyTerm(v, w, sensitive, test(_, _)) ==
  /\ ToText(w) # <<>>
  /\ \E term \in ToSet(Terms(Case(ToText(v), sensitive))) : test(term, Case(ToText(w), sensitive))
HasPrefix(v, w, sensitive) == AnyTerm(v, w, sensitive, BeginsWith)
HasSuffix(v, w, sensitive) == AnyTerm(v, w, sensitive, EndsIn)

ContainsText(v, w, sensitive) == Inside(Case(ToText(v), sensitive), Case(ToText(w), sensitive))
StartsWith(v, w, sensitive)   == BeginsWith(Case(ToText(v), sensitive), Case(ToText(w), sensitive))
EndsWith(v, w, sensitive)     == EndsIn(Case(ToText(v), sensitive), Case(ToText(w), sensitive))
=============================================================================
