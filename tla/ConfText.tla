------------------------------ MODULE ConfText ------------------------------
\* ClamAV's configuration files as they are edited (core/conf_file.py): a file is
\* kept as its lines, and an edit changes the lines of one option and no other.
\* The Configuration page's editors (core/conf_schema.py, ui/pages/configuration.py)
\* stand on top.
\*
\* A line as written is a hash or none, a gap after it or none, and words; the
\* spaces between them are left out.  Those of Lower look
\* like the name of an option.  A value is the words after the name.
EXTENDS Integers, Sequences, FiniteSetsExt

CONSTANTS Words,     \* what stands between two spaces
          Lower,     \* the option each spelling of a name means
          NumberOf,  \* the numbers that words can be
          Files,     \* the texts that are edited
          Editors,   \* the editors of the Configuration page
          Values,    \* what can be typed
          MaxRows    \* bound: the values in the list of a repeatable option

Names == DOMAIN Lower
RawLines == [hash : BOOLEAN, gap : BOOLEAN, words : Seq(Words)]

ASSUME NamesAreWords == Names \subseteq Words \ {""} /\ Names \cap DOMAIN NumberOf = {}
ASSUME WordsWritten == {"yes", "no", "clamav", "---", "added", "by", "ClamGuard"} \subseteq Words
ASSUME FilesAreText == Files \subseteq Seq(RawLines)
ASSUME EditorsAreOfOptions == \A option \in Editors : option.key \in Names
ASSUME ValuesAreWords == Values \subseteq Seq(Words) /\ MaxRows \in Nat

Written(hash, gap, words) == [hash |-> hash, gap |-> gap, words |-> words]
EmptyLine == Written(FALSE, FALSE, <<>>)
HeaderLine == Written(TRUE, TRUE, <<"---", "added", "by", "ClamGuard", "---">>)

\* A commented-out example has no gap after its hash, a sentence has one.
ConfLine(raw, key, value, active) == [raw |-> raw, key |-> key, value |-> value, active |-> active]
ParseLine(raw) ==
  IF raw.words # <<>> /\ Head(raw.words) \in Names /\ ~(raw.hash /\ raw.gap)
  THEN ConfLine(raw, Head(raw.words), Tail(raw.words), ~raw.hash)
  ELSE ConfLine(raw, "", <<>>, FALSE)
IsBlank(line)   == line.raw = EmptyLine
IsComment(line) == line.raw.hash
IsOption(line)  == line.key # ""

\* The file as loaded, beside the text it was.
Parse(text) == [lines |-> [i \in DOMAIN text |-> ParseLine(text[i])], original |-> text]

\* The text ends with an empty line, as every text that ends in a newline does.
ToText(lines) ==
  LET raws == [i \in DOMAIN lines |-> lines[i].raw] IN
  IF raws = <<>> \/ raws = <<EmptyLine>> THEN <<EmptyLine>>
  ELSE IF raws[Len(raws)] = EmptyLine THEN raws
  ELSE Append(raws, EmptyLine)
IsModified(conf) == ToText(conf.lines) # conf.original

-----------------------------------------------------------------------------
\* The lines at some positions, in order.
Nth(positions, n) == CHOOSE i \in positions : Cardinality({j \in positions : j <= i}) = n
Kept(lines, positions) == [n \in 1 .. Cardinality(positions) |-> lines[Nth(positions, n)]]

\* Reading.  A name means the same in any case of letters.
Find(lines, key) == {i \in DOMAIN lines : IsOption(lines[i]) /\ Lower[lines[i].key] = Lower[key]}
Active(lines, key)   == {i \in Find(lines, key) : lines[i].active}
Examples(lines, key) == Find(lines, key) \ Active(lines, key)

GetAll(lines, key) ==
  LET named == Kept(lines, Active(lines, key)) IN [i \in DOMAIN named |-> named[i].value]
Has(lines, key) == Active(lines, key) # {}
Get(lines, key, default) ==
  IF Has(lines, key) THEN lines[Min(Active(lines, key))].value ELSE default

\* A bare option means yes; what is neither yes nor no means the default.
TrueWords  == {<<>>, <<"yes">>, <<"true">>, <<"1">>, <<"on">>}
FalseWords == {<<"no">>, <<"false">>, <<"0">>, <<"off">>}
ToBool(value, default) == value \in TrueWords \/ (default /\ value \notin FalseWords)
FromBool(b) == IF b THEN <<"yes">> ELSE <<"no">>
GetBool(lines, key, default) == IF Has(lines, key) THEN ToBool(Get(lines, key, <<>>), default) ELSE default

\* The options whose active values are not those of the loaded text.
ChangedKeys(conf) ==
  {Lower[n] : n \in {n \in Names : GetAll(conf.lines, n) # GetAll(Parse(conf.original).lines, n)}}

\* The help of an option is the comment above its first line, with nothing between.
Above(lines, i) == {j \in 1 .. i - 1 : \A k \in j .. i - 1 : IsComment(lines[k]) /\ ~IsOption(lines[k])}
Help(lines, i)  == LET block == Kept(lines, Above(lines, i)) IN [n \in DOMAIN block |-> block[n].raw.words]
Named(lines)    == {Lower[lines[i].key] : i \in {i \in DOMAIN lines : IsOption(lines[i])}}
Documentation(lines) ==
  [name \in Named(lines) |->
     Help(lines, Min({i \in DOMAIN lines : IsOption(lines[i]) /\ Lower[lines[i].key] = name}))]

-----------------------------------------------------------------------------
\* Writing.
OptionLine(key, value) == ConfLine(Written(FALSE, FALSE, <<key>> \o value), key, value, TRUE)
Without(lines, positions) == Kept(lines, DOMAIN lines \ positions)
\* A line that is an option's from now on, in the letters it had.
Rewrite(lines, at, value) == [lines EXCEPT ![at] = OptionLine(@.key, value)]
\* Lines in place of one.
Splice(lines, at, new) == SubSeq(lines, 1, at - 1) \o new \o SubSeq(lines, at + 1, Len(lines))

\* At the end, below a header that is written once.
AppendLine(lines, line) ==
  LET last  == Max({0} \cup {i \in DOMAIN lines : ~IsBlank(lines[i])})
      body  == SubSeq(lines, 1, last)
      blank == ParseLine(EmptyLine)
      header == IF \E i \in DOMAIN body : body[i].raw = HeaderLine THEN <<>>
                ELSE <<blank, ParseLine(HeaderLine)>>
  IN body \o header \o <<line, blank>>

\* The option has one value: in place of its first line, else of the first
\* example of it, else at the end.
SetOption(lines, key, value) ==
  LET active == Active(lines, key) IN
  CASE active # {} -> Without(Rewrite(lines, Min(active), value), active \ {Min(active)})
    [] active = {} /\ Examples(lines, key) # {} -> Rewrite(lines, Min(Examples(lines, key)), value)
    [] OTHER -> AppendLine(lines, OptionLine(key, value))

\* Mutant: only the first line of the option goes.
RemoveOptionMutated(lines, key) ==
  Without(lines, IF Has(lines, key) THEN {Min(Active(lines, key))} ELSE {})
\* Examples stay.
RemoveOption(lines, key) == Without(lines, Active(lines, key))

\* The option has these values, together where its first one was or would be.
OptionLines(key, values) == [i \in DOMAIN values |-> OptionLine(key, values[i])]
SetAll(lines, key, values) ==
  LET active == Active(lines, key)
      first  == Min(active)
      single == SetOption(lines, key, Head(values))
      at     == Min(Active(single, key)) IN
  CASE values = <<>> -> RemoveOption(lines, key)
    [] values # <<>> /\ active # {} ->
         Splice(Without(lines, active \ {first}), first, OptionLines(lines[first].key, values))
    [] OTHER -> Splice(single, at, <<single[at]>> \o OptionLines(key, Tail(values)))

-----------------------------------------------------------------------------
\* The Configuration page.  kind is the sort of editor an option has.
Integral == {"int", "seconds"}
Repeatable == {"multi", "regex"}

\* A number within its limits, a choice there is.  Sizes, paths and patterns are
\* taken as they are typed.
IsNumber(value) == Len(value) = 1 /\ Head(value) \in DOMAIN NumberOf
Valid(option, value) ==
  value # <<>> =>
    /\ option.kind \in Integral => IsNumber(value) /\ NumberOf[Head(value)] \in option.minimum .. option.maximum
    /\ option.kind = "enum" => Len(value) = 1 /\ Head(value) \in option.choices

\* What an editor is built with.
CurrentValue(lines, option) ==
  CASE option.kind = "bool" -> GetBool(lines, option.key, option.default)
    [] option.kind \in Repeatable -> GetAll(lines, option.key)
    [] OTHER -> Get(lines, option.key, <<>>)

\* What is typed into one goes to the file's lines, unless it is not valid.
\* Nothing typed removes the option.
Typed(lines, option, value) ==
  IF option.kind = "bool" THEN SetOption(lines, option.key, FromBool(value))
  ELSE IF option.kind \in Repeatable
       THEN IF \A i \in DOMAIN value : Valid(option, value[i]) THEN SetAll(lines, option.key, value) ELSE lines
  ELSE IF ~Valid(option, value) THEN lines
  ELSE IF value = <<>> THEN RemoveOption(lines, option.key) ELSE SetOption(lines, option.key, value)

-----------------------------------------------------------------------------
\* What can be typed into an editor.
Typeable(option) ==
  CASE option.kind = "bool" -> BOOLEAN
    [] option.kind \in Repeatable -> UNION {[1 .. n -> Values] : n \in 0 .. MaxRows}
    [] OTHER -> {v \in Values \cup {<<>>} : Valid(option, v)}

Prose(lines) ==
  Kept(lines, {i \in DOMAIN lines : ~IsOption(lines[i]) /\ lines[i].raw \notin {EmptyLine, HeaderLine}})
Others(lines, key) ==
  Kept(lines, {i \in DOMAIN lines : IsOption(lines[i]) /\ Lower[lines[i].key] # Lower[key]})
\* What ClamAV reads, which knows a name in any letters.
Meaning(lines) ==
  [i \in DOMAIN lines |-> IF IsOption(lines[i]) THEN <<Lower[lines[i].key], lines[i].value, lines[i].active>>
                                               ELSE lines[i].raw]

\* The option stays on the one line it had, or on its first example.
InPlace(before, after, key) ==
  /\ Cardinality(Active(before, key)) <= 1 /\ Find(before, key) # {} /\ Active(after, key) # {}

\* What one editor does to the file: afterwards the editor, built again, shows
\* what was typed, and so it does when the text is written and loaded; every
\* other option, its examples and every sentence are where they were; no option
\* but this one is listed as changed; typing it again changes at most the letters
\* of a list's names, and nothing of an option that was there; and, if the option
\* keeps its line, the help of every option is the one it had.
\* (conf_file.py: "edits individual lines in place"; set: "exactly one active value".)
EditIsLocal(before, option, value) ==
  LET key   == option.key
      after == Typed(before.lines, option, value)
      again == Typed(after, option, value)
      reread == Parse(ToText(after)).lines IN
  /\ CurrentValue(after, option) = value
  /\ CurrentValue(reread, option) = value
  /\ Prose(after) = Prose(before.lines) /\ Prose(reread) = Prose(after)
  /\ Others(after, key) = Others(before.lines, key)
  /\ Others(reread, key) = Others(after, key)
  /\ ChangedKeys([before EXCEPT !.lines = after]) \subseteq {Lower[key]}
  /\ Meaning(again) = Meaning(after)
  /\ Has(before.lines, key) \/ option.kind \notin Repeatable => again = after
  /\ option.kind \notin Repeatable => Cardinality(Active(after, key)) <= 1
  /\ InPlace(before.lines, after, key) => Documentation(after) = Documentation(before.lines)
=============================================================================
