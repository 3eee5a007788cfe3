----------------------------- MODULE MCHuntQuery -----------------------------
\* A small index and the stages of a query for TLC, and beside them the page's
\* session, to which a query is but a text: TLC looks at the two one at a time.
EXTENDS HuntQuery, HuntSession
LOCAL INSTANCE Sequences

Row(ts, level, message, app, line, extra) ==
  [id |-> Null, ts |-> ts, level |-> Long(level), message |-> Text(message), app |-> Text(app),
   line |-> Long(line), extra |-> extra]
P == <<"p">>
MCRows ==
  << Row(Long(3), 30, <<"a", " ", "b">>, <<"a">>, 1, Bag(<<Pair(P, Long(1)), Pair(<<"l">>, List(<<Long(1), Long(2)>>))>>)),
     Row(Null, 50, <<"b", "-", "a", "b">>, <<"Z">>, 2, Bag(<<Pair(P, Text(<<"a">>))>>)),
     Row(Long(6), 0, <<>>, <<"a">>, 2, Null),
     Row(Long(7), 30, <<"Z", " ", "A">>, <<"Z">>, 3, Bag(<<Pair(P, Long(2))>>)) >>

N(n) == Literal(Long(n))
S(s) == Literal(Text(s))
C(name) == ColumnRef(name)
Item1(name, x) == <<Assign(name, x)>>
Count == Assign("count_", CallTo("count", <<>>))
NoWindow == <<>>
ErrorWord == <<"e", "r", "r", "o", "r">>

MCLets ==
  << LetTable("T", Pipeline("Logs", <<Where(Binary("==", C("Level"), S(<<"i", "n", "f", "o">>)))>>)),
     LetScalar("most", Pipeline("Logs", <<Summarize(Item1("m", CallTo("max", <<C("LineNumber")>>)), <<>>)>>)),
     LetValue("two", Binary("+", N(1), N(1))),
     LetFunction("f", <<"x", "y">>, Binary("-", C("x"), Binary("-", C("y"), C("two")))) >>

MCStages ==
  << Where(Binary("or", Binary("==", C("Level"), S(ErrorWord)),
                        Binary("and", Binary("contains", C("Message"), S(<<"A">>)),
                                      Unary("not", Binary(">", C("LineNumber"), N(1)))))),
     Where(Binary(">=", C("Timestamp"), Literal(Moment(6)))),
     Where(Binary("==", MemberOf(C("Extra"), P), N(1))),
     Where(InList(C("App"), <<S(<<"z">>), S(<<"b">>)>>, FALSE, TRUE)),
     Where(Between(Binary("%", Binary("*", C("EventId"), C("two")), N(3)), N(1), Binary("-", Binary("-", N(4), N(1)), N(1)), FALSE)),
     Where(Binary("has_any", C("Message"), CallTo("pack_array", <<S(<<"b">>), S(<<"z">>)>>))),
     Where(Binary("==", C("LineNumber"), C("most"))),
     Where(CallTo("isnotempty", <<C("Message")>>)),
     Extend(<<Assign("n", CallTo("f", <<C("LineNumber"), Unary("-", C("EventId"))>>)),
              Assign("before", CallTo("prev", <<C("App")>>))>>),
     Project("project", <<Assign("n", C("LineNumber")), Assign("Level", C("Level")), Assign("EventId", C("EventId"))>>),
     Project("project-away", <<Assign("Extra", C("Extra")), Assign("App", C("App"))>>),
     Project("project-reorder", <<Assign("Message", C("Message"))>>),
     Summarize(<<Count, Assign("max_EventId", CallTo("max", <<C("EventId")>>))>>, <<Assign("Level", C("Level"))>>),
     Summarize(<<Assign("half", Binary("/", CallTo("sum", <<C("LineNumber")>>), N(2))),
                 Assign("texts", CallTo("array_sort_asc", <<CallTo("make_list", <<C("Message")>>)>>)), Count>>, <<>>),
     Summarize(<<Count, Assign("first", CallTo("arg_min", <<C("LineNumber"), C("App")>>))>>,
               <<Assign("Timestamp", CallTo("bin", <<C("Timestamp"), Literal(Span(2))>>))>>),
     SortBy(<<SortKey(C("App"), FALSE, "default"), SortKey(C("Timestamp"), TRUE, "first")>>),
     TopBy(N(2), <<SortKey(C("LineNumber"), TRUE, "default")>>),
     TakeRows(N(1)),
     CountRows("Count"),
     Distinct(<<"App", "LineNumber">>),
     Search(S(<<"b">>), <<>>, FALSE),
     JoinWith("leftouter", Pipeline("T", <<>>), << [left |-> C("App"), right |-> C("App")] >>),
     UnionOf("inner", <<Pipeline("T", <<Extend(Item1("n", N(1)))>>)>>, "from"),
     MvExpand(Item1("part", ElementOf(C("Extra"), S(<<"l">>)))),
     Serialize(Item1("at", CallTo("row_number", <<>>))),
     GetSchema >>

MCInit == Init /\ SessionInit
MCNext ==
  \/ begun = 0 /\ ~dialog /\ editor = FirstQuery /\ Next /\ UNCHANGED sessionVars
  \/ indexed = <<>> /\ stages = <<>> /\ SessionNext /\ UNCHANGED vars
MCSpec == MCInit /\ [][MCNext]_<<vars, sessionVars>>
=============================================================================
