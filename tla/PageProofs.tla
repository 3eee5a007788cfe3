------------------------------ MODULE PageProofs ------------------------------
(***************************************************************************)
(* Proofs about three pages that show what was found in the background.    *)
(* - The Hunt page, for any texts, any length of the history and any       *)
(*   number of jobs: the history it keeps is true.                         *)
(* - The Services page, for any machine however often it changes: the list *)
(*   is of the scope that the picker names, and what it says of a unit was *)
(*   so at some moment while it was read.  What a read has so far is kept  *)
(*   with the moments it came from, and a machine that changes adds one.   *)
(* - The Boot page, for any check and any edits: what it shows is what the *)
(*   check found, as the profile says.  What makes an edit after the       *)
(*   analysis right is that the findings on show can be had back as they   *)
(*   were judged, and that needs every check to give each finding a        *)
(*   severity: each of the 45 checks is looked at for that.                *)
(* - Its verdicts, for any facts and watched files: a harder policy        *)
(*   forgives nothing and the four presets are in order; a pass given      *)
(*   while a fact was not read outlasts its being read.  Each check is     *)
(*   looked at for what it does with two policies, and with two machines   *)
(*   that differ in one fact.                                              *)
(***************************************************************************)
EXTENDS HuntSession, UnitInventory, BootSession, Integers, Sequences, SequenceTheorems,
        WellFoundedInduction, TLAPS

-----------------------------------------------------------------------------
\* The history.

LEMMA NewestKeeps ==
  ASSUME HuntBounds, NEW S, NEW all \in Seq(S), all # <<>>
  PROVE  /\ Newest(all) \in Seq(S) /\ Newest(all) # <<>>
         /\ Len(Newest(all)) <= MaxRuns
         /\ Newest(all)[Len(Newest(all))] = all[Len(all)]
         /\ \A i \in DOMAIN Newest(all) : \E j \in DOMAIN all : Newest(all)[i] = all[j]
<1> DEFINE lo == IF Len(all) > MaxRuns THEN Len(all) - MaxRuns + 1 ELSE 1
<1>1. Len(all) \in Nat /\ Len(all) > 0 /\ MaxRuns \in Nat /\ MaxRuns > 0
  BY EmptySeq, HuntBounds DEF HuntBounds
<1>2. lo \in Int /\ lo >= 1 /\ lo <= Len(all) /\ Len(all) - lo + 1 <= MaxRuns
  BY <1>1
<1>3. \A i \in lo .. Len(all) : all[i] \in S
  BY <1>1, <1>2, ElementOfSeq
<1> HIDE DEF lo
<1>4. /\ SubSeq(all, lo, Len(all)) \in Seq(S)
      /\ Len(SubSeq(all, lo, Len(all))) = Len(all) - lo + 1
      /\ \A i \in 1 .. Len(all) - lo + 1 : SubSeq(all, lo, Len(all))[i] = all[lo + i - 1]
  BY <1>1, <1>2, <1>3, SubSeqProperties
<1>5. Newest(all) = SubSeq(all, lo, Len(all))
  BY DEF Newest, lo
<1>6. DOMAIN Newest(all) = 1 .. Len(all) - lo + 1 /\ Len(all) - lo + 1 >= 1
  BY <1>1, <1>2, <1>4, <1>5, LenProperties
<1>7. \A i \in DOMAIN Newest(all) : lo + i - 1 \in DOMAIN all /\ Newest(all)[i] = all[lo + i - 1]
  BY <1>1, <1>2, <1>4, <1>5, <1>6, LenProperties
<1>8. Newest(all)[Len(all) - lo + 1] = all[Len(all)]
  BY <1>1, <1>2, <1>6, <1>7
<1>9. Len(Newest(all)) = Len(all) - lo + 1 /\ Newest(all) \in Seq(S)
  BY <1>4, <1>5
<1>10. Newest(all) # <<>>
  BY <1>1, <1>2, <1>9
<1>11. \A i \in DOMAIN Newest(all) : \E j \in DOMAIN all : Newest(all)[i] = all[j]
  BY <1>7
<1> QED BY <1>2, <1>8, <1>9, <1>10, <1>11

LEMMA RepeatDropped ==
  ASSUME runs \in Seq(Runs), NEW text
  PROVE  /\ WithoutRepeat(text) \in Seq(Runs)
         /\ \A i \in DOMAIN WithoutRepeat(text) : i \in DOMAIN runs /\ WithoutRepeat(text)[i] = runs[i]
<1>1. CASE runs # <<>> /\ LastRun.text = text
  <2>1. Len(runs) \in Nat /\ DOMAIN runs = 1 .. Len(runs)
    BY LenProperties
  <2>2. \A i \in 1 .. Len(runs) - 1 : runs[i] \in Runs
    BY <2>1, ElementOfSeq
  <2>3. /\ SubSeq(runs, 1, Len(runs) - 1) \in Seq(Runs)
        /\ Len(SubSeq(runs, 1, Len(runs) - 1)) = IF 1 <= Len(runs) - 1 THEN Len(runs) - 1 ELSE 0
        /\ \A i \in 1 .. Len(runs) - 1 : SubSeq(runs, 1, Len(runs) - 1)[i] = runs[i]
    BY <2>1, <2>2, SubSeqProperties
  <2>4. WithoutRepeat(text) = SubSeq(runs, 1, Len(runs) - 1)
    BY <1>1 DEF WithoutRepeat
  <2> QED BY <2>1, <2>3, <2>4, LenProperties
<1>2. CASE ~(runs # <<>> /\ LastRun.text = text)
  BY <1>2 DEF WithoutRepeat
<1> QED BY <1>1, <1>2

\* The run that has ended is the last, and the others are those there were.
LEMMA Remembered ==
  ASSUME HuntBounds, runs \in Seq(Runs), NEW text \in Texts, NEW answer \in Answers,
         Remember(text, answer)
  PROVE  /\ runs' \in Seq(Runs) /\ runs' # <<>> /\ Len(runs') <= MaxRuns
         /\ LastRun' = [text |-> text, answer |-> answer]
         /\ \A i \in DOMAIN runs' :
              \/ runs'[i] = [text |-> text, answer |-> answer]
              \/ \E j \in DOMAIN runs : runs'[i] = runs[j]
<1> DEFINE new == [text |-> text, answer |-> answer]
           all == Append(WithoutRepeat(text), new)
<1>1. new \in Runs
  BY DEF Runs
<1>2. WithoutRepeat(text) \in Seq(Runs)
  BY RepeatDropped
<1> HIDE DEF new
<1>3. /\ all \in Seq(Runs) /\ all # <<>> /\ Len(all) = Len(WithoutRepeat(text)) + 1
      /\ \A i \in 1 .. Len(WithoutRepeat(text)) : all[i] = WithoutRepeat(text)[i]
      /\ all[Len(WithoutRepeat(text)) + 1] = new
  BY <1>1, <1>2, AppendProperties
<1>4. runs' = Newest(all)
  BY DEF Remember, new
<1> HIDE DEF all
<1>5. \A j \in DOMAIN all : all[j] = new \/ \E k \in DOMAIN runs : all[j] = runs[k]
  BY <1>2, <1>3, RepeatDropped, LenProperties
<1>6. all[Len(all)] = new
  BY <1>3
<1>7. /\ runs' \in Seq(Runs) /\ runs' # <<>> /\ Len(runs') <= MaxRuns /\ runs'[Len(runs')] = new
      /\ \A i \in DOMAIN runs' : \E j \in DOMAIN all : runs'[i] = all[j]
  BY <1>3, <1>4, <1>6, NewestKeeps
<1> QED BY <1>5, <1>7 DEF LastRun, new

-----------------------------------------------------------------------------
\* Types.  Toggles, the texts and the job, and the history, each on its own.

Toggles == stocked \in BOOLEAN /\ busy \in BOOLEAN /\ cancel \in BOOLEAN
         /\ insights \in BOOLEAN /\ dialog \in BOOLEAN
Said == /\ editor \in Texts \cup {NoText} /\ asked \in Texts \cup {NoText} /\ shown \in Answers
        /\ job \in [kind : Jobs, text : Texts \cup {NoText}]
        /\ stage \in {"none", "running", "done", "raised"} /\ begun \in 0 .. MaxJobs
History == runs \in Seq(Runs) /\ Len(runs) <= MaxRuns

\* What runs: a query is that which was asked last, and there is one.
Working ==
  /\ busy <=> stage # "none"
  /\ insights => busy /\ job.kind = "review"
  /\ busy /\ job.kind = "query" => job.text = asked /\ asked # NoText
SessionInv == Toggles /\ Said /\ History /\ Working /\ HistoryIsTrue

LEMMA TypeParts == SessionTypeOK <=> Toggles /\ Said /\ History
BY DEF SessionTypeOK, Toggles, Said, History

LEMMA AnAnswer == ASSUME NEW text \in Texts \cup {NoText}
                  PROVE  [of |-> text, error |-> FALSE] \in Answers /\ Failure \in Answers /\ None \in Answers
BY DEF Answers, Failure, None

\* The history and the answer shown stay as they are.
LEMMA SameHistory == ASSUME History, HistoryIsTrue, UNCHANGED <<runs, shown>>, Working', Toggles'
                     PROVE  History' /\ HistoryIsTrue'
<1>1. LastRun' = LastRun
  BY DEF LastRun
<1>2. busy' = (stage' # "none")
  BY Zenon DEF Working, Toggles
<1> QED BY <1>1, <1>2 DEF History, HistoryIsTrue, Working

LEMMA JobOf ==
  ASSUME NEW kind \in Jobs, NEW text \in Texts \cup {NoText}
  PROVE  [kind |-> kind, text |-> text] \in [kind : Jobs, text : Texts \cup {NoText}]
OBVIOUS

LEMMA AllJobs == {"scan", "index", "journal", "query", "review"} \subseteq Jobs
BY DEF Jobs

LEMMA Beginning ==
  ASSUME HuntBounds, Said, NEW kind \in Jobs, NEW text \in Texts \cup {NoText}, Begin(kind, text)
  PROVE  /\ busy' = TRUE /\ cancel' = FALSE /\ stage' = "running"
         /\ job' \in [kind : Jobs, text : Texts \cup {NoText}] /\ job'.kind = kind /\ job'.text = text
         /\ begun' \in 0 .. MaxJobs
<1>1. begun' \in 0 .. MaxJobs
  <2>1. begun < MaxJobs /\ begun' = begun + 1
    BY DEF Begin
  <2>2. begun \in 0 .. MaxJobs /\ MaxJobs \in Nat
    BY HuntBounds DEF Said, HuntBounds
  <2> QED BY <2>1, <2>2
<1> QED BY <1>1, JobOf DEF Begin

LEMMA SessionStarts == HuntBounds /\ SessionInit => SessionInv
<1> SUFFICES ASSUME HuntBounds, SessionInit PROVE SessionInv
  OBVIOUS
<1>1. FirstQuery \in Texts
  BY Zenon, HuntBounds DEF HuntBounds, FirstQuery
<1>2. Toggles
  BY DEF SessionInit, Toggles
<1>3. Said
  <2>1. job \in [kind : Jobs, text : Texts \cup {NoText}]
    BY JobOf, AllJobs DEF SessionInit
  <2>2. None \in Answers
    BY AnAnswer
  <2>3. begun \in 0 .. MaxJobs
    BY HuntBounds DEF SessionInit, HuntBounds
  <2> QED BY <1>1, <2>1, <2>2, <2>3 DEF SessionInit, Said
<1>4. History
  BY EmptySeq, HuntBounds DEF SessionInit, History, HuntBounds
<1>5. Working
  BY DEF SessionInit, Working
<1>6. busy = (stage # "none")
  BY DEF SessionInit
<1>7. HistoryIsTrue
  BY <1>6, EmptySeq DEF SessionInit, HistoryIsTrue
<1> QED BY <1>2, <1>3, <1>4, <1>5, <1>7 DEF SessionInv

\* A job begins only when none runs.
LEMMA Asking ==
  ASSUME HuntBounds, Toggles, Said, Working, NEW text \in Texts \cup {NoText}, RunQuery(text, busy),
         UNCHANGED insights
  PROVE  /\ busy' \in BOOLEAN /\ cancel' \in BOOLEAN /\ asked' \in Texts \cup {NoText}
         /\ job' \in [kind : Jobs, text : Texts \cup {NoText}]
         /\ stage' \in {"none", "running", "done", "raised"} /\ begun' \in 0 .. MaxJobs
         /\ Working'
<1>1. CASE Declined(text, busy)
  BY <1>1 DEF RunQuery, NoJob, Toggles, Said, Working
<1>2. CASE ~Declined(text, busy)
  <2>1. asked' = text /\ text # NoText /\ ~busy /\ Begin("query", text)
    BY <1>2 DEF RunQuery, Declined
  <2>2. /\ busy' = TRUE /\ cancel' = FALSE /\ stage' = "running"
        /\ job' \in [kind : Jobs, text : Texts \cup {NoText}] /\ job'.kind = "query" /\ job'.text = text
        /\ begun' \in 0 .. MaxJobs
    BY <2>1, Beginning, AllJobs
  <2> QED BY <2>1, <2>2 DEF Toggles, Working
<1> QED BY <1>1, <1>2

LEMMA SessionSteps == HuntBounds /\ SessionInv /\ [SessionNext]_sessionVars => SessionInv'
<1> SUFFICES ASSUME HuntBounds, SessionInv, [SessionNext]_sessionVars PROVE SessionInv'
  OBVIOUS
<1>0. Toggles /\ Said /\ History /\ Working /\ HistoryIsTrue
  BY DEF SessionInv
<1>1. CASE \E text \in Texts \cup {NoText} : Type(text)
  <2>1. Toggles' /\ Said' /\ Working' /\ UNCHANGED <<runs, shown>>
    BY <1>0, <1>1 DEF Type, NoJob, Toggles, Said, Working
  <2> QED BY <1>0, <2>1, SameHistory DEF SessionInv
<1>2. CASE \E text \in Texts \cup {NoText} : Ask(text)
  <2> PICK text \in Texts \cup {NoText} : Ask(text)
    BY <1>2
  <2>1. Toggles' /\ Said' /\ Working' /\ UNCHANGED <<runs, shown>>
    BY <1>0, Asking DEF Ask, Toggles, Said
  <2> QED BY <1>0, <2>1, SameHistory DEF SessionInv
<1>3. CASE ChangeRange
  <2>1. Toggles' /\ Said' /\ Working' /\ UNCHANGED <<runs, shown>>
    BY <1>0, <1>3, Asking DEF ChangeRange, Toggles, Said
  <2> QED BY <1>0, <2>1, SameHistory DEF SessionInv
<1>4. CASE Cancel
  <2>1. Toggles' /\ Said' /\ Working' /\ UNCHANGED <<runs, shown>>
    BY <1>0, <1>4 DEF Cancel, Toggles, Said, Working
  <2> QED BY <1>0, <2>1, SameHistory DEF SessionInv
<1>5. CASE ScanForLogs \/ IndexFiles \/ IndexJournal
  <2> PICK kind \in {"scan", "index", "journal"} : Gather(kind)
    BY <1>5 DEF ScanForLogs, IndexFiles, IndexJournal
  <2>0. Begin(kind, NoText) /\ kind \in Jobs
    BY AllJobs DEF Gather
  <2>1. Toggles' /\ Said' /\ Working' /\ UNCHANGED <<runs, shown>>
    BY <1>0, <2>0, Beginning DEF Gather, Toggles, Said, Working
  <2> QED BY <1>0, <2>1, SameHistory DEF SessionInv
<1>6. CASE Review
  <2>0. Begin("review", NoText) /\ "review" \in Jobs
    BY <1>6, AllJobs DEF Review
  <2>1. Toggles' /\ Said' /\ Working' /\ UNCHANGED <<runs, shown>>
    BY <1>0, <1>6, <2>0, Beginning DEF Review, Toggles, Said, Working
  <2> QED BY <1>0, <2>1, SameHistory DEF SessionInv
<1>7. CASE OpenSources \/ CloseSources \/ Forget
  <2>0. NoJob /\ UNCHANGED <<editor, insights, asked, runs, shown>> /\ stocked' \in BOOLEAN /\ dialog' \in BOOLEAN
    BY <1>0, <1>7 DEF OpenSources, CloseSources, Forget, Toggles
  <2>1. Toggles' /\ Said' /\ Working' /\ UNCHANGED <<runs, shown>>
    BY <1>0, <2>0 DEF NoJob, Toggles, Said, Working
  <2> QED BY <1>0, <2>1, SameHistory DEF SessionInv
<1>8. CASE Clear
  <2>1. Toggles' /\ Said' /\ Working' /\ UNCHANGED runs /\ shown' = None
    BY <1>0, <1>8, AnAnswer DEF Clear, NoJob, Toggles, Said, Working
  <2>2. LastRun' = LastRun
    BY <2>1 DEF LastRun
  <2>3. busy' = (stage' # "none")
    BY <2>1, Zenon DEF Working, Toggles
  <2>4. History' /\ HistoryIsTrue'
    BY <1>0, <2>1, <2>2, <2>3 DEF History, HistoryIsTrue, Working
  <2> QED BY <2>1, <2>4 DEF SessionInv
<1>9. CASE Work
  <2>1. stocked' \in BOOLEAN
    BY <1>0, <1>9 DEF Work, Toggles
  <2>2. Toggles' /\ Said' /\ Working' /\ UNCHANGED <<runs, shown>>
    BY <1>0, <1>9, <2>1 DEF Work, Toggles, Said, Working
  <2> QED BY <1>0, <2>2, SameHistory DEF SessionInv
<1>10. CASE QueryAnswered
  <2> DEFINE answer == [of |-> job.text, error |-> FALSE]
  <2>1. busy /\ job.text = asked /\ asked \in Texts
    BY <1>0, <1>10 DEF QueryAnswered, Working, Said
  <2>2. answer \in Answers /\ answer.of = asked /\ ~answer.error
    BY <2>1, AnAnswer
  <2>3. shown' = answer /\ Remember(asked, answer)
    BY <1>10 DEF QueryAnswered
  <2> HIDE DEF answer
  <2>4. Toggles' /\ Said' /\ Working'
    BY <1>0, <1>10, <2>2, <2>3 DEF QueryAnswered, Over, Toggles, Said, Working
  <2>5. /\ runs' \in Seq(Runs) /\ Len(runs') <= MaxRuns /\ LastRun' = [text |-> asked, answer |-> answer]
        /\ \A i \in DOMAIN runs' : \/ runs'[i] = [text |-> asked, answer |-> answer]
                                  \/ \E j \in DOMAIN runs : runs'[i] = runs[j]
    BY <1>0, <2>1, <2>2, <2>3, Remembered DEF History
  <2>6. busy' = (stage' # "none")
    BY <2>4, Zenon DEF Working, Toggles
  <2>7. \A i \in DOMAIN runs' : runs'[i].answer.error \/ runs'[i].answer.of = runs'[i].text
    BY <1>0, <2>2, <2>5 DEF HistoryIsTrue
  <2>8. HistoryIsTrue'
    BY <2>3, <2>4, <2>5, <2>6, <2>7 DEF HistoryIsTrue, Working
  <2> QED BY <2>4, <2>5, <2>8 DEF SessionInv, History
<1>11. CASE QueryFailed
  <2>1. busy /\ asked \in Texts
    BY <1>0, <1>11 DEF QueryFailed, Working, Said
  <2>2. Failure \in Answers /\ Failure.error
    BY <2>1, AnAnswer DEF Failure
  <2>3. UNCHANGED shown /\ Remember(asked, Failure)
    BY <1>11 DEF QueryFailed
  <2>4. Toggles' /\ Said' /\ Working'
    BY <1>0, <1>11 DEF QueryFailed, Over, Toggles, Said, Working
  <2>5. /\ runs' \in Seq(Runs) /\ Len(runs') <= MaxRuns /\ LastRun' = [text |-> asked, answer |-> Failure]
        /\ \A i \in DOMAIN runs' : \/ runs'[i] = [text |-> asked, answer |-> Failure]
                                  \/ \E j \in DOMAIN runs : runs'[i] = runs[j]
    BY <1>0, <2>1, <2>2, <2>3, Remembered DEF History
  <2>6. busy' = (stage' # "none")
    BY <2>4, Zenon DEF Working, Toggles
  <2>7. \A i \in DOMAIN runs' : runs'[i].answer.error \/ runs'[i].answer.of = runs'[i].text
    BY <1>0, <2>2, <2>5 DEF HistoryIsTrue
  <2>8. HistoryIsTrue'
    BY <2>2, <2>4, <2>5, <2>6, <2>7 DEF HistoryIsTrue, Working
  <2> QED BY <2>4, <2>5, <2>8 DEF SessionInv, History
<1>12. CASE ScanFinished \/ OtherFinished
  <2>1. Toggles' /\ Said' /\ Working' /\ UNCHANGED <<runs, shown>>
    BY <1>0, <1>12 DEF ScanFinished, OtherFinished, Over, Toggles, Said, Working
  <2> QED BY <1>0, <2>1, SameHistory DEF SessionInv
<1>13. CASE IndexFinished
  <2>1. UNCHANGED <<runs, shown, editor, stocked, dialog>> /\ ~insights'
    BY <1>13 DEF IndexFinished
  <2>2. CASE stage' = "none" /\ busy' = FALSE /\ UNCHANGED <<cancel, job, asked, begun>>
    <3>1. Toggles' /\ Said' /\ Working'
      <4>1. Toggles'
        BY <1>0, <1>13, <2>1, <2>2 DEF IndexFinished, Toggles
      <4>2. Said'
        BY <1>0, <2>1, <2>2 DEF Said
      <4>3. Working'
        BY <1>0, <2>1, <2>2 DEF Working
      <4> QED BY <4>1, <4>2, <4>3
    <3> QED BY <1>0, <2>1, <3>1, SameHistory DEF SessionInv
  <2>3. CASE ~Declined(editor, FALSE) /\ RunQuery(editor, FALSE)
    <3>1. Toggles' /\ Said' /\ Working'
      <4>1. asked' = editor /\ editor # NoText /\ Begin("query", editor)
        BY <2>3 DEF RunQuery, Declined
      <4>2. editor \in Texts \cup {NoText}
        BY <1>0 DEF Said
      <4>3. /\ busy' = TRUE /\ cancel' = FALSE /\ stage' = "running"
            /\ job' \in [kind : Jobs, text : Texts \cup {NoText}] /\ job'.text = editor
            /\ begun' \in 0 .. MaxJobs
        BY <1>0, <4>1, <4>2, Beginning, AllJobs
      <4>4. Toggles'
        BY <1>0, <1>13, <2>1, <4>3 DEF IndexFinished, Toggles
      <4>5. Said'
        BY <1>0, <2>1, <4>1, <4>2, <4>3 DEF Said
      <4>6. Working'
        BY <1>0, <2>1, <4>1, <4>3 DEF Working
      <4> QED BY <4>4, <4>5, <4>6
    <3> QED BY <1>0, <2>1, <3>1, SameHistory DEF SessionInv
  <2> QED BY <1>13, <2>2, <2>3 DEF IndexFinished
<1>14. CASE UNCHANGED sessionVars
  <2>1. Toggles' /\ Said' /\ Working' /\ UNCHANGED <<runs, shown>>
    BY <1>0, <1>14 DEF sessionVars, Toggles, Said, Working
  <2> QED BY <1>0, <2>1, SameHistory DEF SessionInv
<1> QED BY <1>1, <1>2, <1>3, <1>4, <1>5, <1>6, <1>7, <1>8, <1>9, <1>10, <1>11, <1>12, <1>13, <1>14
        DEF SessionNext

\* The types of the Hunt page and its indexer.
THEOREM SessionTypes == HuntBounds /\ SessionSpec => []SessionTypeOK
<1>1. SessionInv => SessionTypeOK
  BY TypeParts DEF SessionInv
<1> QED BY <1>1, HuntBounds, SessionStarts, SessionSteps, PTL DEF SessionSpec

\* Every run of the history has the answer of its own text, the answer shown is
\* that of the last run, and the panel says that the rules run only while they do
\* (_on_query_finished, _on_query_failed, QueryStore.remember).
THEOREM HistoryStaysTrue == HuntBounds /\ SessionSpec => []HistoryIsTrue
<1>1. SessionInv => HistoryIsTrue
  BY DEF SessionInv
<1> QED BY <1>1, HuntBounds, SessionStarts, SessionSteps, PTL DEF SessionSpec

-----------------------------------------------------------------------------
\* The Services page.

\* The part of the state that says what is read: a read that has ended left units
\* that answer for its scope, and so does the list.
Ours(units, session) == \A unit \in units : unit.session = session
ReadInv ==
  /\ DOMAIN got = DOMAIN Nothing
  /\ reading \in BOOLEAN /\ (reading <=> phase # "none")
  /\ phase = "done" => Ours(got.units, pending)
  /\ listed.there => Ours(listed.read.units, listed.session)
  /\ ~reading /\ ~refused /\ listed.there => listed.session = picker

\* What is learnt of a unit says for which scope it was asked (_apply, collect).
LEMMA EnrichedAnswers ==
  ASSUME NEW unit, NEW session, NEW tables, NEW directories
  PROVE  Enriched(unit, session, tables, directories).session = session
BY DEF Enriched

LEMMA InitReads == UnitInit => ReadInv
<1> SUFFICES ASSUME UnitInit PROVE ReadInv
  OBVIOUS
<1>1. ~NotListed.there
  BY DEF NotListed
<1> QED BY <1>1 DEF UnitInit, ReadInv

\* A step of the pool thread other than the last changes nothing that counts.
LEMMA StepsRead ==
  ASSUME ReadInv, NEW from, NEW to, Reads(from, to), from # "none", to \notin {"none", "done"},
         DOMAIN got' = DOMAIN got
  PROVE  ReadInv'
BY DEF ReadInv, Reads, Ours, Nothing

\* UnitManager.refresh, whatever it is called for.
LEMMA RefreshReads ==
  ASSUME ReadInv, NEW session, Refresh(session), UNCHANGED <<listed, refused>>,
         reading \/ reading'
  PROVE  ReadInv'
BY DEF ReadInv, Refresh, Ours, Nothing

LEMMA NextReads == ReadInv /\ [UnitNext]_unitVars => ReadInv'
<1> SUFFICES ASSUME ReadInv, [UnitNext]_unitVars PROVE ReadInv'
  OBVIOUS
<1>1. CASE Turn
  BY <1>1 DEF Turn, ReadInv, Ours, Nothing
<1>2. CASE PickScope
  BY <1>2, RefreshReads DEF PickScope, Refresh
<1>3. CASE PressRefresh
  BY <1>3, RefreshReads DEF PressRefresh, Refresh
<1>4. CASE ShowPage
  BY <1>4, RefreshReads DEF ShowPage, Refresh
<1>5. CASE ListFiles
  <2>1. DOMAIN got' = DOMAIN got
    BY <1>5 DEF ListFiles
  <2> QED BY <1>5, <2>1, StepsRead DEF ListFiles
<1>6. CASE ListLoaded
  <2>1. DOMAIN got' = DOMAIN got
    BY <1>6 DEF ListLoaded
  <2> QED BY <1>6, <2>1, StepsRead DEF ListLoaded
<1>7. CASE ShowChunk
  <2>1. DOMAIN got' = DOMAIN got
    BY <1>7 DEF ShowChunk
  <2> QED BY <1>7, <2>1, StepsRead DEF ShowChunk
<1>8. CASE Collected
  <2>1. DOMAIN got' = DOMAIN got
    BY <1>8 DEF Collected
  <2> QED BY <1>8, <2>1, StepsRead DEF Collected
<1>9. CASE AskOwners
  <2>1. DOMAIN got' = DOMAIN got
    BY <1>9 DEF AskOwners
  <2> QED BY <1>9, <2>1, StepsRead DEF AskOwners
<1>10. CASE AskManagers
  <2>1. DOMAIN got' = DOMAIN got
    BY <1>10 DEF AskManagers
  <2> QED BY <1>10, <2>1, StepsRead DEF AskManagers
<1>11. CASE AskSockets
  <2>1. DOMAIN got' = DOMAIN got
    BY <1>11 DEF AskSockets
  <2> QED BY <1>11, <2>1, StepsRead DEF AskSockets
<1>12. CASE ReadPresets
  <2>1. "units" \in DOMAIN got /\ DOMAIN got' = DOMAIN got
    BY <1>12 DEF ReadPresets, ReadInv, Nothing
  <2>2. got'.units = {Enriched(unit, pending, got.tables, machine.presets[pending]) : unit \in got.units}
    BY <1>12, <2>1 DEF ReadPresets
  <2>3. Ours(got'.units, pending)
    BY <2>2, EnrichedAnswers DEF Ours
  <2> QED BY <1>12, <2>1, <2>3 DEF ReadPresets, Reads, ReadInv, Ours, Nothing
<1>13. CASE ReadRaises
  <2>1. DOMAIN got' = DOMAIN got
    BY <1>13 DEF ReadRaises
  <2> QED BY <1>13, <2>1, StepsRead DEF ReadRaises
<1>14. CASE Arrives
  <2>1. CASE Wanted(pending)
    <3>1. listed'.there /\ listed'.session = pending /\ listed'.read.units = got.units
      BY <1>14, <2>1 DEF Arrives
    <3> QED BY <1>14, <2>1, <3>1 DEF Arrives, Wanted, ReadInv, Ours
  <2>2. CASE ~Wanted(pending)
    <3>1. DOMAIN got' = DOMAIN Nothing
      BY <1>14, <2>2 DEF Arrives, Nothing
    <3> QED BY <1>14, <2>2, <3>1 DEF Arrives, ReadInv, Ours
  <2> QED BY <2>1, <2>2
<1>15. CASE Fails
  BY <1>15 DEF Fails, ReadInv, Ours, Nothing
<1>16. CASE UNCHANGED unitVars
  BY <1>16 DEF unitVars, ReadInv, Ours, Nothing
<1> QED BY <1>1, <1>2, <1>3, <1>4, <1>5, <1>6, <1>7, <1>8, <1>9, <1>10, <1>11, <1>12, <1>13,
           <1>14, <1>15, <1>16 DEF UnitNext

\* The list is of the scope the picker names once nothing is read, unless the last
\* read could not be made, and its units answer for that scope (_on_refreshed).
THEOREM ListedAsPicked == UnitSpec => []ListFollowsPicker
<1>1. ReadInv => ListFollowsPicker
  BY DEF ReadInv, ListFollowsPicker, Ours
<1> QED BY <1>1, InitReads, NextReads, PTL DEF UnitSpec

-----------------------------------------------------------------------------
\* What the Services page says of a unit.

\* A name leads to a record that its own name leads to, which is complete.
LEMMA Replies ==
  ASSUME NEW m \in Machines, NEW session \in BOOLEAN, NEW name
  PROVE  LET was == Reply(m, session, name)
         IN DOMAIN was = UnitFields /\ Reply(m, session, was.id) = was
<1>1. CASE name \in DOMAIN m.tree[session]
  BY <1>1, RecordsLead DEF Reply
<1>2. CASE name \notin DOMAIN m.tree[session]
  <2>1. Reply(m, session, name) = NotFound(name) /\ NotFound(name).id = name
    BY <1>2 DEF Reply, NotFound
  <2>2. DOMAIN NotFound(name) = UnitFields
    BY DEF NotFound, UnitFields
  <2> QED BY <2>1, <2>2
<1> QED BY <1>1, <1>2

\* The files of units: those that the machines have, or none.
LEMMA RepliesPath ==
  ASSUME NEW m \in Machines, NEW session \in BOOLEAN, NEW name
  PROVE  Reply(m, session, name).path \in UnitPaths \cup {NoPath}
<1>1. CASE name \in DOMAIN m.tree[session]
  BY <1>1 DEF Reply, UnitPaths
<1>2. CASE name \notin DOMAIN m.tree[session]
  BY <1>2 DEF Reply, NotFound
<1> QED BY <1>1, <1>2

\* What enrich adds to a unit, and what it leaves alone (_apply).
LEMMA EnrichedFields ==
  ASSUME NEW unit, DOMAIN unit = UnitFields, NEW session, NEW tables, NEW directories
  PROVE  LET now == Enriched(unit, session, tables, directories) IN
         /\ \A f \in UnitFields : now[f] = unit[f]
         /\ now.package => unit.path \in tables.owners
         /\ ~now.package => unit.path \notin tables.owners
         /\ now.checked => tables.manager # "none"
         /\ now.ruled # "no" =>
              directories = <<>> \/ PresetNames(unit, PresetPatterns(directories))
         /\ now.exposed => unit.id \in tables.exposed
         /\ now.slow => unit.id \in tables.slow
         /\ now.open => unit.pid \in tables.open
<1> DEFINE now == Enriched(unit, session, tables, directories)
<1>1. \A f \in UnitFields : now[f] = unit[f]
  BY DEF Enriched, UnitFields
<1>2. now.package <=> unit.path \in tables.owners
  BY DEF Enriched
<1>3. now.checked => tables.manager # "none"
  BY DEF Enriched
<1>4. now.ruled = IF directories = <<>> THEN "unknown"
                  ELSE IF PresetNames(unit, PresetPatterns(directories)) THEN "yes" ELSE "no"
  BY DEF Enriched
<1>5. /\ now.exposed => unit.id \in tables.exposed
      /\ now.slow => unit.id \in tables.slow
      /\ now.open => unit.pid \in tables.open
  BY DEF Enriched
<1> HIDE DEF now
<1> QED BY <1>1, <1>2, <1>3, <1>4, <1>5 DEF now

\* What a flag says (_flags).
LEMMA FlagsSay ==
  ASSUME NEW unit
  PROVE  /\ "unconfined" \in Flags(unit) => unit.exposed
         /\ "slow" \in Flags(unit) => unit.slow
         /\ "reachable" \in Flags(unit) => unit.open
         /\ "unowned" \in Flags(unit) => IsUnpackaged(unit)
         /\ "changed" \in Flags(unit) => DeviatesFromPreset(unit)
BY DEF Flags
\* A file that no owner was found for is one that no package records, under either
\* spelling, when every file that was asked about is there (_owners).
LEMMA UnownedSaid ==
  ASSUME NEW m \in Machines, m.gone = {}, NEW paths \in SUBSET UnitPaths, NEW path \in paths,
         path \notin Owners(m.manager, paths, m.recorded, m.gone)
  PROVE  {path, MergedUsrAlias(path)} \cap m.recorded = {}
<1>1. m.manager \in {"pacman", "dpkg", "rpm", "none"} /\ (m.manager = "none" => m.recorded = {})
  BY OneSpelling
<1>2. /\ MergedUsrAlias(path) \in UnitPaths => MergedUsrAlias(path) = path
      /\ m.manager # "dpkg" /\ MergedUsrAlias(path) \in m.recorded => path \in m.recorded
  BY OneSpelling
<1>3. CASE m.manager = "pacman"
  <2>1. path \notin m.recorded
    BY <1>3 DEF Owners, PacmanOwners
  <2> QED BY <1>2, <1>3, <2>1
<1>4. CASE m.manager = "dpkg"
  <2>1. path \notin m.recorded /\ (MergedUsrAlias(path) \in m.recorded => MergedUsrAlias(path) \in paths)
    BY <1>4 DEF Owners, DpkgOwners
  <2> QED BY <1>2, <2>1
<1>5. CASE m.manager = "rpm"
  <2>1. path \notin RpmOwners(paths, m.recorded, {})
    BY <1>5 DEF Owners
  <2>2. path \notin m.recorded
    BY <2>1 DEF RpmOwners
  <2> QED BY <1>2, <1>5, <2>2
<1>6. CASE m.manager = "none"
  BY <1>1, <1>6
<1> QED BY <1>1, <1>3, <1>4, <1>5, <1>6

\* The units of a read before anything else is asked: each as systemctl gave it, once,
\* and each name leads to one or to a template.
AsGiven(units, read, session) ==
  /\ \A unit, other \in units : other.id = unit.id => other = unit
  /\ \A unit \in units : \E m \in read.moments : unit = Reply(m, session, unit.id)
Leads(units, read, session) ==
  \A name \in read.answered : \E m \in read.moments :
    LET id == Reply(m, session, name).id IN id \in Templates \/ \E unit \in units : unit.id = id
\* What was learnt of the manager of these units, and of their files.
TablesTrue(read, session) ==
  /\ read.tables.exposed = {} \/ \E m \in read.moments : read.tables.exposed = m.exposed[session]
  /\ read.tables.slow = {} \/ \E m \in read.moments : read.tables.slow = m.slow[session]
  /\ read.tables.open = {} \/ \E m \in read.moments : read.tables.open = m.open
OwnersTrue(read) ==
  \/ read.silent
  \/ \E m \in read.moments :
       /\ read.tables.manager = m.manager
       /\ read.tables.owners =
            Owners(m.manager, {unit.path : unit \in read.units} \ {NoPath}, m.recorded, m.gone)

\* A list whose facts came with the units they are said of is earned (enrich).
LEMMA EnrichingEarns ==
  ASSUME NEW session \in BOOLEAN, NEW read, read.moments \subseteq Machines,
         AsGiven(read.units, read, session), Leads(read.units, read, session),
         TablesTrue(read, session), OwnersTrue(read), NEW here \in read.moments,
         NEW done, done.moments = read.moments, done.answered = read.answered,
         done.silent = read.silent,
         done.units = {Enriched(unit, session, read.tables, here.presets[session]) : unit \in read.units}
  PROVE  Earned(done, session)
<1> DEFINE Now(unit) == Enriched(unit, session, read.tables, here.presets[session])
<1>0. \A unit \in read.units : DOMAIN unit = UnitFields /\ unit.path \in UnitPaths \cup {NoPath}
  BY Replies, RepliesPath DEF AsGiven
<1>1. \A unit \in read.units : \A f \in UnitFields : Now(unit)[f] = unit[f]
  BY <1>0, EnrichedFields
<1>2. \A unit \in read.units :
        Now(unit).id = unit.id /\ Now(unit).names = unit.names /\ Now(unit).path = unit.path /\ Now(unit).pid = unit.pid
  BY <1>1 DEF UnitFields
<1>3. \A unit \in read.units :
         /\ ~Now(unit).package => unit.path \notin read.tables.owners
         /\ Now(unit).checked => read.tables.manager # "none"
         /\ Now(unit).ruled # "no" =>
              here.presets[session] = <<>> \/ PresetNames(unit, PresetPatterns(here.presets[session]))
         /\ Now(unit).exposed => unit.id \in read.tables.exposed
         /\ Now(unit).slow => unit.id \in read.tables.slow
         /\ Now(unit).open => unit.pid \in read.tables.open
  BY <1>0, EnrichedFields
<1>4. done.units = {Now(unit) : unit \in read.units}
  OBVIOUS
<1> HIDE DEF Now
<1>5. OneRowEach(done)
  BY <1>2, <1>4 DEF OneRowEach, AsGiven
<1>6. StatesWereRead(done, session)
  <2> SUFFICES ASSUME NEW now \in done.units
               PROVE  \E m \in done.moments :
                        LET was == Reply(m, session, now.id) IN \A f \in DOMAIN was : now[f] = was[f]
    BY DEF StatesWereRead
  <2>1. PICK unit \in read.units : now = Now(unit)
    BY <1>4
  <2>2. PICK m \in read.moments : unit = Reply(m, session, unit.id)
    BY DEF AsGiven
  <2>3. Reply(m, session, now.id) = unit
    BY <1>2, <2>1, <2>2
  <2>4. \A f \in DOMAIN unit : now[f] = unit[f]
    BY <1>0, <1>1, <2>1
  <2> QED BY <2>3, <2>4
<1>7. WorstIsTrue(done, session)
  <2> SUFFICES ASSUME NEW unit \in read.units
               PROVE  /\ "unconfined" \in Flags(Now(unit)) => \E m \in done.moments : Now(unit).id \in m.exposed[session]
                      /\ "slow" \in Flags(Now(unit)) => \E m \in done.moments : Now(unit).id \in m.slow[session]
                      /\ "reachable" \in Flags(Now(unit)) => \E m \in done.moments : Now(unit).pid \in m.open
    BY <1>4 DEF WorstIsTrue
  <2> QED BY <1>2, <1>3, FlagsSay DEF TablesTrue
<1>8. UnownedIsTrue(done)
  <2> SUFFICES ASSUME NEW unit \in read.units, "unowned" \in Flags(Now(unit)), ~read.silent
               PROVE  \E m \in read.moments :
                        m.gone # {} \/ {Now(unit).path, MergedUsrAlias(Now(unit).path)} \cap m.recorded = {}
    BY <1>4 DEF UnownedIsTrue
  <2>1. IsUnpackaged(Now(unit))
    BY FlagsSay
  <2>2. unit.path # NoPath /\ ~Now(unit).package
    BY <1>2, <2>1 DEF IsUnpackaged, Provenance
  <2> DEFINE paths == {other.path : other \in read.units} \ {NoPath}
  <2>3. PICK m \in read.moments : read.tables.owners = Owners(m.manager, paths, m.recorded, m.gone)
    BY DEF OwnersTrue
  <2>4. paths \in SUBSET UnitPaths /\ unit.path \in paths
    BY <1>0, <2>2
  <2>5. unit.path \notin Owners(m.manager, paths, m.recorded, m.gone)
    BY <1>3, <2>2, <2>3
  <2> HIDE DEF paths
  <2> QED BY <1>2, <2>4, <2>5, UnownedSaid
<1>9. PresetsRule(done, session)
  <2> SUFFICES ASSUME NEW unit \in read.units, "changed" \in Flags(Now(unit))
               PROVE  \E m \in done.moments :
                        m.presets[session] = <<>> \/ PresetNames(Now(unit), PresetPatterns(m.presets[session]))
    BY <1>4 DEF PresetsRule
  <2>1. Now(unit).ruled # "no"
    BY FlagsSay DEF DeviatesFromPreset
  <2>2. \A patterns : PresetNames(unit, patterns) => PresetNames(Now(unit), patterns)
    BY <1>2 DEF PresetNames
  <2> QED BY <1>3, <2>1, <2>2
<1>10. NamesLead(done, session)
  <2> SUFFICES ASSUME NEW name \in read.answered
               PROVE  \E m \in read.moments : LET id == Reply(m, session, name).id
                        IN id \in Templates \/ \E unit \in Get(done.units, id) : unit.id = id
    BY DEF NamesLead
  <2>1. PICK m \in read.moments : LET id == Reply(m, session, name).id
                                  IN id \in Templates \/ \E unit \in read.units : unit.id = id
    BY DEF Leads
  <2>2. \A unit \in read.units : Now(unit) \in Get(done.units, unit.id)
    BY <1>2, <1>4 DEF Get
  <2> QED BY <1>2, <2>1, <2>2
<1>11. NamesAreFound(done, session)
  <2> SUFFICES ASSUME NEW name \in read.answered, NEW now \in done.units,
                      \A m \in read.moments :
                        LET was == Reply(m, session, name) IN was.id = now.id /\ name \in was.names
               PROVE  now \in Get(done.units, name)
    BY DEF NamesAreFound
  <2>0. PICK unit \in read.units : now = Now(unit)
    BY <1>4
  <2>1. PICK m \in read.moments : unit = Reply(m, session, unit.id)
    BY DEF AsGiven
  <2>2. Reply(m, session, name).id = unit.id /\ name \in Reply(m, session, name).names
    BY <1>2, <2>0
  <2>3. Reply(m, session, unit.id) = Reply(m, session, name)
    BY <2>2, Replies
  <2>4. name \in unit.names
    BY <2>1, <2>2, <2>3
  <2>5. CASE unit.id = name
    BY <1>2, <2>0, <2>5 DEF Get
  <2>6. CASE unit.id # name
    <3>1. \A other \in read.units : other.id # name
      <4> SUFFICES ASSUME NEW other \in read.units, other.id = name PROVE FALSE
        OBVIOUS
      <4>1. PICK then \in read.moments : other = Reply(then, session, name)
        BY DEF AsGiven
      <4>2. Reply(then, session, name).id = unit.id
        BY <1>2, <2>0
      <4> QED BY <2>6, <4>1, <4>2
    <3>2. \A other \in done.units : other.id # name
      BY <1>2, <1>4, <3>1
    <3>3. name \in now.names
      BY <1>2, <2>0, <2>4
    <3> QED BY <3>2, <3>3 DEF Get
  <2> QED BY <2>5, <2>6
<1> QED BY <1>5, <1>6, <1>7, <1>8, <1>9, <1>10, <1>11 DEF Earned

\* What a list says stays earned when the machine goes on changing.
Grown(read, grown) ==
  /\ read.moments \subseteq grown.moments
  /\ grown.units = read.units /\ grown.records = read.records /\ grown.answered = read.answered
  /\ grown.tables = read.tables /\ grown.silent = read.silent
LEMMA EarnedGrows ==
  ASSUME NEW read, NEW grown, NEW session, Grown(read, grown), Earned(read, session)
  PROVE  Earned(grown, session)
<1>1. OneRowEach(grown)
  BY DEF Earned, Grown, OneRowEach
<1>2. StatesWereRead(grown, session)
  BY DEF Earned, Grown, StatesWereRead
<1>3. WorstIsTrue(grown, session)
  BY DEF Earned, Grown, WorstIsTrue
<1>4. UnownedIsTrue(grown)
  BY DEF Earned, Grown, UnownedIsTrue
<1>5. PresetsRule(grown, session)
  BY DEF Earned, Grown, PresetsRule
<1>6. NamesLead(grown, session)
  BY DEF Earned, Grown, NamesLead
<1>7. NamesAreFound(grown, session)
  BY DEF Earned, Grown, NamesAreFound
<1> QED BY <1>1, <1>2, <1>3, <1>4, <1>5, <1>6, <1>7 DEF Earned
LEMMA GivenGrows ==
  ASSUME NEW read, NEW grown, NEW session, Grown(read, grown), NEW units
  PROVE  /\ AsGiven(units, read, session) => AsGiven(units, grown, session)
         /\ Leads(units, read, session) => Leads(units, grown, session)
         /\ TablesTrue(read, session) => TablesTrue(grown, session)
         /\ OwnersTrue(read) => OwnersTrue(grown)
<1>1. AsGiven(units, read, session) => AsGiven(units, grown, session)
  BY DEF Grown, AsGiven
<1>2. Leads(units, read, session) => Leads(units, grown, session)
  BY DEF Grown, Leads
<1>3. TablesTrue(read, session) => TablesTrue(grown, session)
  BY DEF Grown, TablesTrue
<1>4. OwnersTrue(read) => OwnersTrue(grown)
  BY DEF Grown, OwnersTrue
<1> QED BY <1>1, <1>2, <1>3, <1>4

\* A chunk that is answered: its records are of one moment, so names of one unit
\* bring one record, and the first that was kept stays (_deduplicate).
LEMMA ChunkGiven ==
  ASSUME NEW session \in BOOLEAN, NEW read, NEW now \in read.moments, now \in Machines,
         AsGiven(read.records, read, session), Leads(read.records, read, session),
         NEW some, NEW more, more = {Reply(now, session, name) : name \in some},
         NEW after, after.moments = read.moments, after.answered = read.answered \cup some
  PROVE  /\ AsGiven(Deduplicate(read.records, more), after, session)
         /\ Leads(Deduplicate(read.records, more), after, session)
<1> DEFINE kept == Deduplicate(read.records, more)
<1>1. \A unit \in more : unit = Reply(now, session, unit.id)
  BY Replies
<1>2. kept = read.records \cup {unit \in more : \A other \in read.records : other.id # unit.id}
  BY DEF Deduplicate
<1> HIDE DEF kept
<1>3. \A unit, other \in kept : other.id = unit.id => other = unit
  BY <1>1, <1>2 DEF AsGiven
<1>4. \A unit \in kept : \E m \in after.moments : unit = Reply(m, session, unit.id)
  BY <1>1, <1>2 DEF AsGiven
<1>5. \A name \in read.answered : \E m \in read.moments :
        LET id == Reply(m, session, name).id IN id \in Templates \/ \E unit \in kept : unit.id = id
  BY <1>2 DEF Leads
<1>6. \A name \in some : \E unit \in kept : unit.id = Reply(now, session, name).id
  BY <1>2
<1>7. \A name \in after.answered : \E m \in after.moments :
        LET id == Reply(m, session, name).id IN id \in Templates \/ \E unit \in kept : unit.id = id
  BY <1>5, <1>6
<1> QED BY <1>3, <1>4, <1>7 DEF AsGiven, Leads, kept

\* The invariant, by the phase of the read: what it has so far was so at some moment
\* since it began, of which the present one is the last.
EarnInv ==
  /\ machine \in Machines /\ picker \in BOOLEAN /\ pending \in BOOLEAN /\ phase \in Phases
  /\ (reading <=> phase # "none")
  /\ DOMAIN got = DOMAIN Nothing /\ DOMAIN got.tables = DOMAIN NoTables
  /\ phase # "none" => machine \in got.moments /\ got.moments \subseteq Machines
  /\ phase \in {"files", "loaded"} => got.records = {} /\ got.answered = {}
  /\ phase = "show" => AsGiven(got.records, got, pending) /\ Leads(got.records, got, pending)
  /\ phase \in {"owners", "managers", "sockets", "presets"} =>
       AsGiven(got.units, got, pending) /\ Leads(got.units, got, pending)
  /\ phase \notin {"none", "done", "raised"} => TablesTrue(got, pending)
  /\ phase \in {"managers", "sockets", "presets"} => OwnersTrue(got)
  /\ phase = "done" => Earned(got, pending)
  /\ Earned(listed.read, listed.session)

LEMMA NothingEarned == \A session : Earned(Nothing, session)
BY DEF Nothing, Earned, OneRowEach, StatesWereRead, WorstIsTrue, UnownedIsTrue, PresetsRule, NamesLead, NamesAreFound

LEMMA InitEarns == UnitInit => EarnInv
<1> SUFFICES ASSUME UnitInit PROVE EarnInv
  OBVIOUS
<1>1. listed.read = Nothing
  BY DEF UnitInit, NotListed
<1> QED BY <1>1, NothingEarned DEF UnitInit, EarnInv, Nothing, Phases

\* A read that begins (UnitManager.refresh).
LEMMA BeginningEarns ==
  ASSUME EarnInv, machine' = machine, picker' \in BOOLEAN, reading' = TRUE, pending' \in BOOLEAN,
         phase' = "files", got' = [Nothing EXCEPT !.moments = {machine}], UNCHANGED listed
  PROVE  EarnInv'
<1>1. /\ got'.records = {} /\ got'.answered = {} /\ got'.moments = {machine} /\ got'.tables = NoTables
      /\ DOMAIN got' = DOMAIN Nothing
  BY DEF Nothing
<1>2. TablesTrue(got, pending)'
  BY <1>1 DEF TablesTrue, NoTables
<1> QED BY <1>1, <1>2 DEF EarnInv, Phases
LEMMA RefreshEarns ==
  ASSUME EarnInv, NEW session, session \in BOOLEAN, Refresh(session), picker' \in BOOLEAN,
         UNCHANGED <<machine, listed>>
  PROVE  EarnInv'
<1>1. CASE reading
  BY <1>1 DEF Refresh, EarnInv
<1>2. CASE ~reading
  BY <1>2, BeginningEarns DEF Refresh
<1> QED BY <1>1, <1>2

\* The machine changes: what was learnt was so before.
LEMMA TurnEarns == ASSUME EarnInv, Turn PROVE EarnInv'
<1>1. CASE phase = "none"
  BY <1>1 DEF EarnInv, Turn
<1>2. CASE phase # "none"
  <2>1. got' = [got EXCEPT !.moments = @ \cup {machine'}]
    BY <1>2 DEF Turn
  <2>2. DOMAIN got' = DOMAIN got /\ got'.moments = got.moments \cup {machine'}
    BY <2>1 DEF EarnInv, Nothing
  <2>3. Grown(got, got')
    BY <2>1 DEF EarnInv, Nothing, Grown
  <2>4. /\ machine' \in Machines
        /\ UNCHANGED <<picker, reading, pending, phase, listed>>
    BY DEF Turn
  <2>5. /\ AsGiven(got.records, got, pending) => AsGiven(got.records, got, pending)'
        /\ Leads(got.records, got, pending) => Leads(got.records, got, pending)'
        /\ AsGiven(got.units, got, pending) => AsGiven(got.units, got, pending)'
        /\ Leads(got.units, got, pending) => Leads(got.units, got, pending)'
    BY <2>3, <2>4, GivenGrows DEF Grown
  <2>6. /\ TablesTrue(got, pending) => TablesTrue(got, pending)'
        /\ OwnersTrue(got) => OwnersTrue(got)'
        /\ Earned(got, pending) => Earned(got, pending)'
    BY <2>3, <2>4, GivenGrows, EarnedGrows
  <2>7. got'.records = got.records /\ got'.answered = got.answered /\ got'.tables = got.tables
    BY <2>3 DEF Grown
  <2> QED BY <1>2, <2>2, <2>4, <2>5, <2>6, <2>7 DEF EarnInv
<1> QED BY <1>1, <1>2

\* The pool thread's calls.
LEMMA ListingEarns == ASSUME EarnInv, ListFiles \/ ListLoaded PROVE EarnInv'
<1>1. /\ got'.records = got.records /\ got'.answered = got.answered /\ got'.moments = got.moments
      /\ got'.tables = got.tables /\ DOMAIN got' = DOMAIN got
  BY DEF ListFiles, ListLoaded, EarnInv, Nothing
<1>2. /\ phase \in {"files", "loaded"} /\ phase' \in {"loaded", "show"}
      /\ UNCHANGED <<machine, picker, reading, pending, listed>>
  BY DEF ListFiles, ListLoaded, Reads
<1>3. AsGiven(got.records, got, pending)' /\ Leads(got.records, got, pending)'
  BY <1>1, <1>2 DEF EarnInv, AsGiven, Leads
<1>4. TablesTrue(got, pending)'
  BY <1>1, <1>2 DEF EarnInv, TablesTrue
<1> QED BY <1>1, <1>2, <1>3, <1>4 DEF EarnInv, Phases

LEMMA ShowEarns == ASSUME EarnInv, ShowChunk PROVE EarnInv'
<1> DEFINE some == {name \in got.todo : Place(AllNames, got.todo, name) < Chunk}
           more == {Reply(machine, pending, name) : name \in some}
           left == [got EXCEPT !.todo = @ \ some]
<1>1. got' \in {left, [left EXCEPT !.records = Deduplicate(@, more), !.answered = @ \cup some]}
  BY DEF ShowChunk
<1>2. phase = "show" /\ phase' = "show" /\ UNCHANGED <<machine, picker, reading, pending, listed>>
  BY DEF ShowChunk, Reads
<1> HIDE DEF some
<1>3. /\ got'.moments = got.moments /\ got'.tables = got.tables /\ DOMAIN got' = DOMAIN got
      /\ \/ got'.records = got.records /\ got'.answered = got.answered
         \/ got'.records = Deduplicate(got.records, more) /\ got'.answered = got.answered \cup some
  <2>1. /\ left.moments = got.moments /\ left.tables = got.tables /\ DOMAIN left = DOMAIN got
        /\ left.records = got.records /\ left.answered = got.answered
    BY DEF EarnInv, Nothing
  <2> HIDE DEF more, left
  <2>2. CASE got' = left
    BY <2>1, <2>2
  <2>3. CASE got' = [left EXCEPT !.records = Deduplicate(@, more), !.answered = @ \cup some]
    <3>1. DOMAIN left = DOMAIN Nothing
      BY <2>1 DEF EarnInv
    <3> QED BY <2>1, <2>3, <3>1 DEF Nothing
  <2> QED BY <1>1, <2>2, <2>3
<1> HIDE DEF more, left
<1>4. AsGiven(got'.records, got', pending) /\ Leads(got'.records, got', pending)
  <2>1. CASE got'.records = got.records /\ got'.answered = got.answered
    <3>1. AsGiven(got.records, got, pending) /\ Leads(got.records, got, pending)
      BY <1>2 DEF EarnInv
    <3>2. got'.records = got.records /\ got'.answered = got.answered /\ got'.moments = got.moments
      BY <1>3, <2>1
    <3>3. AsGiven(got'.records, got', pending)
      BY <3>1, <3>2 DEF AsGiven
    <3>4. Leads(got'.records, got', pending)
      BY <3>1, <3>2 DEF Leads
    <3> QED BY <3>3, <3>4
  <2>2. CASE got'.records = Deduplicate(got.records, more) /\ got'.answered = got.answered \cup some
    <3>1. /\ AsGiven(got.records, got, pending) /\ Leads(got.records, got, pending)
          /\ pending \in BOOLEAN /\ machine \in got.moments /\ machine \in Machines
      BY <1>2 DEF EarnInv
    <3>2. more = {Reply(machine, pending, name) : name \in some}
      BY DEF more
    <3>3. got'.moments = got.moments
      BY <1>3
    <3> QED BY <2>2, <3>1, <3>2, <3>3, ChunkGiven
  <2> QED BY <1>3, <2>1, <2>2
<1>5. TablesTrue(got, pending)'
  BY <1>2, <1>3 DEF EarnInv, TablesTrue
<1> QED BY <1>2, <1>3, <1>4, <1>5 DEF EarnInv

LEMMA CollectedEarns == ASSUME EarnInv, Collected PROVE EarnInv'
<1>1. /\ got'.units = {unit \in got.records : unit.id \notin Templates}
      /\ got'.answered = got.answered /\ got'.moments = got.moments
      /\ got'.tables = got.tables /\ DOMAIN got' = DOMAIN got
  BY DEF Collected, EarnInv, Nothing
<1>2. phase = "show" /\ phase' = "owners" /\ UNCHANGED <<machine, picker, reading, pending, listed>>
  BY DEF Collected, Reads
<1>3. AsGiven(got.units, got, pending)'
  BY <1>1, <1>2 DEF EarnInv, AsGiven
<1>4. Leads(got.units, got, pending)'
  BY <1>1, <1>2 DEF EarnInv, Leads
<1>5. TablesTrue(got, pending)'
  BY <1>1, <1>2 DEF EarnInv, TablesTrue
<1> QED BY <1>1, <1>2, <1>3, <1>4, <1>5 DEF EarnInv, Phases

\* A call that only fills a table.
LEMMA TableEarns ==
  ASSUME EarnInv, NEW from, NEW to, Reads(from, to),
         <<from, to>> \in {<<"owners", "managers">>, <<"managers", "sockets">>, <<"sockets", "presets">>},
         got'.units = got.units, got'.answered = got.answered, got'.moments = got.moments,
         DOMAIN got' = DOMAIN got, DOMAIN got'.tables = DOMAIN got.tables,
         TablesTrue(got, pending)', OwnersTrue(got)'
  PROVE  EarnInv'
<1>1. /\ phase \in {"owners", "managers", "sockets"} /\ phase' \in {"managers", "sockets", "presets"}
      /\ UNCHANGED <<machine, picker, reading, pending, listed>>
  BY DEF Reads
<1>2. AsGiven(got.units, got, pending)' /\ Leads(got.units, got, pending)'
  BY <1>1 DEF EarnInv, AsGiven, Leads
<1> QED BY <1>1, <1>2 DEF EarnInv, Phases

LEMMA OwnersEarn == ASSUME EarnInv, AskOwners PROVE EarnInv'
<1> DEFINE paths == {unit.path : unit \in got.units} \ {NoPath}
           owned == Owners(machine.manager, paths, machine.recorded, machine.gone)
           answering == [got EXCEPT !.tables.manager = machine.manager]
<1>1. Reads("owners", "managers")
      /\ got' \in {[answering EXCEPT !.tables.owners = owned], [answering EXCEPT !.silent = TRUE]}
  BY DEF AskOwners
<1> HIDE DEF paths, owned
<1>2. /\ got'.units = got.units /\ got'.answered = got.answered /\ got'.moments = got.moments
      /\ DOMAIN got' = DOMAIN got
  BY <1>1 DEF EarnInv, Nothing
<1>3. /\ DOMAIN got'.tables = DOMAIN got.tables /\ got'.tables.exposed = got.tables.exposed
      /\ got'.tables.slow = got.tables.slow /\ got'.tables.open = got.tables.open
      /\ \/ got'.silent
         \/ got'.tables.manager = machine.manager /\ got'.tables.owners = owned
  <2>1. /\ DOMAIN answering = DOMAIN got /\ answering.tables = [got.tables EXCEPT !.manager = machine.manager]
    BY DEF EarnInv, Nothing
  <2>2. /\ DOMAIN answering.tables = DOMAIN got.tables /\ answering.tables.exposed = got.tables.exposed
        /\ answering.tables.slow = got.tables.slow /\ answering.tables.open = got.tables.open
        /\ answering.tables.manager = machine.manager
    BY <2>1 DEF EarnInv, NoTables
  <2> HIDE DEF answering
  <2>3. CASE got' = [answering EXCEPT !.tables.owners = owned]
    <3>1. got'.tables = [answering.tables EXCEPT !.owners = owned]
      BY <2>1, <2>3 DEF EarnInv, Nothing
    <3> QED BY <2>2, <3>1 DEF EarnInv, NoTables
  <2>4. CASE got' = [answering EXCEPT !.silent = TRUE]
    <3>1. got'.tables = answering.tables /\ got'.silent
      BY <2>1, <2>4 DEF EarnInv, Nothing
    <3> QED BY <2>2, <3>1
  <2> QED BY <1>1, <2>3, <2>4
<1>4. phase = "owners" /\ UNCHANGED <<machine, pending>> /\ machine \in got.moments
  BY <1>1 DEF Reads, EarnInv
<1>5. TablesTrue(got, pending)'
  BY <1>2, <1>3, <1>4 DEF EarnInv, TablesTrue
<1>6. OwnersTrue(got)'
  BY <1>2, <1>3, <1>4 DEF OwnersTrue, paths, owned
<1> QED BY <1>1, <1>2, <1>3, <1>5, <1>6, TableEarns

LEMMA ManagersEarn == ASSUME EarnInv, AskManagers PROVE EarnInv'
<1>1. /\ Reads("managers", "sockets")
      /\ \/ got' = got
         \/ got' = [got EXCEPT !.tables.exposed = machine.exposed[pending], !.tables.slow = machine.slow[pending]]
  BY DEF AskManagers, ManagerTables
<1>2. /\ got'.units = got.units /\ got'.answered = got.answered /\ got'.moments = got.moments
      /\ DOMAIN got' = DOMAIN got /\ got'.silent = got.silent
  BY <1>1 DEF EarnInv, Nothing
<1>3. /\ DOMAIN got'.tables = DOMAIN got.tables /\ got'.tables.manager = got.tables.manager
      /\ got'.tables.owners = got.tables.owners /\ got'.tables.open = got.tables.open
      /\ got'.tables.exposed \in {got.tables.exposed, machine.exposed[pending]}
      /\ got'.tables.slow \in {got.tables.slow, machine.slow[pending]}
  <2>1. CASE got' = got
    BY <2>1
  <2>2. CASE got' = [got EXCEPT !.tables.exposed = machine.exposed[pending], !.tables.slow = machine.slow[pending]]
    <3>1. got'.tables = [got.tables EXCEPT !.exposed = machine.exposed[pending], !.slow = machine.slow[pending]]
      BY <2>2 DEF EarnInv, Nothing
    <3> QED BY <3>1 DEF EarnInv, NoTables
  <2> QED BY <1>1, <2>1, <2>2
<1>4. phase = "managers" /\ UNCHANGED <<machine, pending>> /\ machine \in got.moments
  BY <1>1 DEF Reads, EarnInv
<1>5. TablesTrue(got, pending)'
  BY <1>2, <1>3, <1>4 DEF EarnInv, TablesTrue
<1>6. OwnersTrue(got)'
  BY <1>2, <1>3, <1>4 DEF EarnInv, OwnersTrue
<1> QED BY <1>1, <1>2, <1>3, <1>5, <1>6, TableEarns

LEMMA SocketsEarn == ASSUME EarnInv, AskSockets PROVE EarnInv'
<1>1. Reads("sockets", "presets") /\ got' \in {got, [got EXCEPT !.tables.open = machine.open]}
  BY DEF AskSockets
<1>2. /\ got'.units = got.units /\ got'.answered = got.answered /\ got'.moments = got.moments
      /\ DOMAIN got' = DOMAIN got /\ got'.silent = got.silent
  BY <1>1 DEF EarnInv, Nothing
<1>3. /\ DOMAIN got'.tables = DOMAIN got.tables /\ got'.tables.manager = got.tables.manager
      /\ got'.tables.owners = got.tables.owners /\ got'.tables.exposed = got.tables.exposed
      /\ got'.tables.slow = got.tables.slow
      /\ got'.tables.open \in {got.tables.open, machine.open}
  BY <1>1 DEF EarnInv, Nothing, NoTables
<1>4. phase = "sockets" /\ UNCHANGED <<machine, pending>> /\ machine \in got.moments
  BY <1>1 DEF Reads, EarnInv
<1>5. TablesTrue(got, pending)'
  BY <1>2, <1>3, <1>4 DEF EarnInv, TablesTrue
<1>6. OwnersTrue(got)'
  BY <1>2, <1>3, <1>4 DEF EarnInv, OwnersTrue
<1> QED BY <1>1, <1>2, <1>3, <1>5, <1>6, TableEarns

LEMMA PresetsEarn == ASSUME EarnInv, ReadPresets PROVE EarnInv'
<1>1. /\ phase = "presets" /\ phase' = "done" /\ UNCHANGED <<machine, picker, reading, pending, listed>>
      /\ got' = [got EXCEPT !.units = {Enriched(unit, pending, got.tables, machine.presets[pending]) : unit \in @}]
  BY DEF ReadPresets, Reads
<1>2. /\ got'.answered = got.answered /\ got'.moments = got.moments /\ got'.tables = got.tables
      /\ got'.silent = got.silent /\ DOMAIN got' = DOMAIN got
      /\ got'.units = {Enriched(unit, pending, got.tables, machine.presets[pending]) : unit \in got.units}
  BY <1>1 DEF EarnInv, Nothing
<1>3. Earned(got', pending)
  BY <1>1, <1>2, EnrichingEarns DEF EarnInv
<1> QED BY <1>1, <1>2, <1>3 DEF EarnInv, Phases

LEMMA NextEarns == EarnInv /\ [UnitNext]_unitVars => EarnInv'
<1> SUFFICES ASSUME EarnInv, [UnitNext]_unitVars PROVE EarnInv'
  OBVIOUS
<1>1. CASE PickScope
  BY <1>1, RefreshEarns DEF PickScope, EarnInv
<1>2. CASE PressRefresh
  BY <1>2, RefreshEarns DEF PressRefresh, EarnInv
<1>3. CASE ShowPage
  BY <1>3, RefreshEarns DEF ShowPage, EarnInv
<1>4. CASE ReadRaises
  BY <1>4 DEF ReadRaises, Reads, EarnInv, Phases
<1>5. CASE Arrives
  <2>1. CASE Wanted(pending)
    <3>1. listed'.read = got /\ listed'.session = pending /\ got' = Nothing /\ phase' = "none" /\ reading' = FALSE
          /\ UNCHANGED <<machine, picker, pending>>
      BY <1>5, <2>1 DEF Arrives
    <3> QED BY <1>5, <3>1 DEF Arrives, EarnInv, Nothing, Phases
  <2>2. CASE ~Wanted(pending)
    BY <1>5, <2>2, BeginningEarns DEF Arrives, EarnInv
  <2> QED BY <2>1, <2>2
<1>6. CASE Fails
  BY <1>6 DEF Fails, EarnInv, Nothing, Phases
<1>7. CASE UNCHANGED unitVars
  BY <1>7 DEF unitVars, EarnInv
<1> QED BY <1>1, <1>2, <1>3, <1>4, <1>5, <1>6, <1>7, TurnEarns, ListingEarns, ShowEarns, CollectedEarns,
           OwnersEarn, ManagersEarn, SocketsEarn, PresetsEarn DEF UnitNext

\* What the Services page says of a unit was so at some moment while it was read, of
\* the manager it was read from (collect, enrich, _flags), for any machines however
\* often they change between the calls, whatever fails and whatever is picked.
THEOREM ListsAreEarned == UnitSpec => []ListIsEarned
<1>1. EarnInv => ListIsEarned
  BY DEF EarnInv, ListIsEarned
<1> QED BY <1>1, InitEarns, NextEarns, PTL DEF UnitSpec
-----------------------------------------------------------------------------
\* The Boot Analyzer's page.

\* Types of what the report and the profile are made of.  A finding that is judged
\* has a severity, whatever the policy the user made: without one, what an override
\* replaced could not be told from what it was not applied to.
Weighs(policies) ==
  /\ DOMAIN BaseSeverities \subseteq DOMAIN policies
  /\ \A key \in DOMAIN BaseSeverities : policies[key] # NoSeverity
Graded(found) == \A f \in found : f.sev # NoSeverity
ReportParts == {"found", "judged", "preset", "by", "touched"}
Pages ==
  /\ check \in Checks
  /\ DOMAIN draft = ReportParts /\ DOMAIN report = ReportParts
  /\ worker \in {"idle", "reading", "judged", "reported"}
  /\ DOMAIN profile = DOMAIN Default /\ profile.preset \in DOMAIN Policy
  /\ \A key \in DOMAIN profile.keys : profile.keys[key] # NoSeverity
  /\ Weighs(policy.sev)

\* What was judged can be had back from what is shown, whatever the profile was when
\* it was decorated: an edit after that starts from it.
Restorable(r) ==
  Graded(r.judged) /\ {Undecorated(f) : f \in r.found} = {Fresh(f) : f \in r.judged}

\* What the worker is making follows the profile as long as nothing was touched.
DraftFollows ==
  /\ worker \in {"judged", "reported"} /\ "decoration" \notin touched =>
       draft.found = Decorated(profile, draft.judged)
  /\ worker \in {"reading", "judged"} /\ "preset" \notin touched => draft.by = profile.preset
  /\ worker = "reported" /\ "preset" \notin touched => draft.preset = draft.by

ShownInv == Pages /\ Restorable(draft) /\ Restorable(report) /\ DraftFollows /\ ReportFollowsProfile

\* The tables of the policies.
LEMMA OverKeeps ==
  ASSUME NEW changes, NEW base, \A k \in DOMAIN changes : changes[k] # NoSeverity, Weighs(base)
  PROVE  Weighs(Overlaid(changes, base))
BY DEF Weighs, Overlaid

LEMMA RatedWeighs ==
  ASSUME NEW critical, NEW high, NEW medium, NEW low, NEW info
  PROVE  LET table == Rated(critical, high, medium, low, info)
         IN  /\ DOMAIN table = critical \cup high \cup medium \cup low \cup info
             /\ \A k \in DOMAIN table : table[k] # NoSeverity
BY DEF Rated, NoSeverity, CRITICAL, HIGH, MEDIUM, LOW, INFO

LEMMA PresetsWeigh == ASSUME NEW preset \in DOMAIN Policy PROVE Weighs(Policy[preset].sev)
<1>1. Weighs(BaseSeverities)
  BY RatedWeighs DEF Weighs, BaseSeverities
<1>2. \A k \in DOMAIN RelaxedSeverities : RelaxedSeverities[k] # NoSeverity
  BY RatedWeighs DEF RelaxedSeverities
<1>3. \A k \in DOMAIN StrictSeverities : StrictSeverities[k] # NoSeverity
  BY RatedWeighs DEF StrictSeverities
<1>4. \A k \in DOMAIN ParanoidSeverities : ParanoidSeverities[k] # NoSeverity
  BY RatedWeighs DEF ParanoidSeverities
<1>5. /\ Weighs(Overlaid(RelaxedSeverities, BaseSeverities))
      /\ Weighs(Overlaid(StrictSeverities, BaseSeverities))
      /\ Weighs(Overlaid(ParanoidSeverities, BaseSeverities))
  BY <1>1, <1>2, <1>3, <1>4, OverKeeps
<1>6. preset \in {"relaxed", "balanced", "strict", "paranoid"}
  BY DEF Policy
<1> QED BY <1>1, <1>5, <1>6 DEF Policy

LEMMA PolicyWeighs ==
  ASSUME NEW pr, pr.preset \in DOMAIN Policy, \A key \in DOMAIN pr.keys : pr.keys[key] # NoSeverity
  PROVE  Weighs(PolicyOf(pr).sev)
BY PresetsWeigh, OverKeeps DEF PolicyOf

\* What a finding is worth.
LEMMA Worths ==
  /\ {PASS, INFO, LOW, MEDIUM, HIGH, CRITICAL} \subseteq Int \ {NoSeverity}
  /\ \A a, b : a # NoSeverity /\ b # NoSeverity => AtLeast(a, b) # NoSeverity
<1>1. {PASS, INFO, LOW, MEDIUM, HIGH, CRITICAL} \subseteq Int \ {NoSeverity}
  BY DEF PASS, INFO, LOW, MEDIUM, HIGH, CRITICAL, NoSeverity
<1>2. \A a, b : a # NoSeverity /\ b # NoSeverity => AtLeast(a, b) # NoSeverity
  BY DEF AtLeast
<1> QED BY <1>1, <1>2

\* The ways a check gives its findings.
LEMMA Givings ==
  /\ Graded(Skip.found) /\ Graded({})
  /\ \A found : Yield(found).found = found
  /\ \A id, sev : sev # NoSeverity => Graded(Found(id, sev))
  /\ \A id : Graded(Passed(id)) /\ Graded(CheckFailed(id).found)
  /\ \A cond, id, sev : sev # NoSeverity => Graded(FoundIf(cond, id, sev))
  /\ \A a, b : Graded(a) /\ Graded(b) => Graded(a \cup b)
BY Worths DEF Graded, Skip, Yield, Found, Passed, CheckFailed, FoundIf

-----------------------------------------------------------------------------
\* Every check gives findings that have a severity.

\* What commands are weighed at.
LEMMA FlaggedGraded ==
  ASSUME NEW entries, NEW id, NEW p, NEW key, p.sev[key] # NoSeverity
  PROVE  Graded(Flagged(entries, id, p, key))
BY Worths DEF Graded, Flagged, WeightOf

LEMMA KernelGraded ==
  ASSUME NEW h, NEW p, Weighs(p.sev)
  PROVE  /\ Graded(Taint(h, p).found) /\ Graded(Lockdown(h, p).found)
         /\ Graded(ModuleSigning(h, p).found) /\ Graded(RiskyCmdline(h, p).found)
         /\ Graded(CpuMitigations(h, p).found) /\ Graded(Microcode(h, p).found)
         /\ Graded(Iommu(h, p).found) /\ Graded(RunningVersion(h, p).found)
         /\ Graded(Kexec(h, p).found)
<1> DEFINE Used == {"kernel_tainted_serious", "kernel_tainted_modules", "lockdown_none",
                    "module_signing_off", "cmdline_risky", "no_iommu", "cpu_vulnerable",
                    "microcode_stale", "stale_running_kernel", "kexec_enabled"}
<1>1. \A key \in Used : p.sev[key] # NoSeverity
  <2>1. Used \subseteq DOMAIN BaseSeverities
    BY Zenon DEF BaseSeverities, Rated
  <2> QED BY <2>1 DEF Weighs
<1>2. Graded(Taint(h, p).found)
  <2>1. /\ Graded(Passed("kernel.taint.clean"))
        /\ Graded(Found("kernel.taint.fault", p.sev.kernel_tainted_serious))
        /\ Graded(Found("kernel.taint.modules", p.sev.kernel_tainted_modules))
        /\ Graded(Found("kernel.taint.note", INFO))
    BY <1>1, Worths, Givings
  <2> QED BY <2>1, Givings DEF Taint, FoundIf
<1>3. Graded(Lockdown(h, p).found)
  BY <1>1, Givings, Worths DEF Lockdown
<1>4. Graded(ModuleSigning(h, p).found)
  BY <1>1, Givings, Worths DEF ModuleSigning
<1>5. Graded(RiskyCmdline(h, p).found)
  <2>1. \A risky \in RiskyParameters : risky.key \in Used /\ risky.floor # NoSeverity
    BY Worths DEF RiskyParameters
  <2> DEFINE hits == {risky \in RiskyParameters : risky.word \in h.cmdline}
             Hit(risky) == [id |-> "kernel.cmdline." \o risky.word,
                            sev |-> AtLeast(p.sev[risky.key], risky.floor)]
  <2>2. Graded({Hit(risky) : risky \in hits})
    BY <1>1, <2>1, Worths DEF Graded
  <2>3. Graded(Found("kernel.cmdline.emergency", AtLeast(p.sev.cmdline_risky, HIGH)))
    BY <1>1, Worths, Givings
  <2>4. Graded(Found("kernel.cmdline.clean", PASS))
    BY Worths, Givings
  <2> DEFINE emergency == h.cmdline \cap EmergencyWords # {}
             all == FoundIf(emergency, "kernel.cmdline.emergency", AtLeast(p.sev.cmdline_risky, HIGH))
                    \cup {Hit(risky) : risky \in hits}
                    \cup FoundIf(hits = {} /\ ~emergency, "kernel.cmdline.clean", PASS)
  <2>5. Graded(all)
    <3> HIDE DEF hits, Hit, emergency
    <3> QED BY <2>2, <2>3, <2>4, Givings DEF FoundIf
  <2>6. Graded(Yield(all).found) /\ Graded(Skip.found)
    BY <2>5, Givings
  <2>7. RiskyCmdline(h, p) = IF h.cmdline = {"unread"} THEN Skip ELSE Yield(all)
    BY Zenon DEF RiskyCmdline
  <2> HIDE DEF all
  <2> QED BY <2>6, <2>7
<1>6. Graded(CpuMitigations(h, p).found)
  BY <1>1, Givings, Worths DEF CpuMitigations
<1>7. Graded(Microcode(h, p).found)
  BY <1>1, Givings, Worths DEF Microcode
<1>8. Graded(Iommu(h, p).found)
  BY <1>1, Givings, Worths DEF Iommu
<1>9. Graded(RunningVersion(h, p).found)
  BY <1>1, Givings, Worths DEF RunningVersion
<1>10. Graded(Kexec(h, p).found)
  BY <1>1, Givings, Worths DEF Kexec
<1> QED BY <1>2, <1>3, <1>4, <1>5, <1>6, <1>7, <1>8, <1>9, <1>10

LEMMA FirmwareGraded ==
  ASSUME NEW h, NEW p, Weighs(p.sev)
  PROVE  /\ Graded(BootMode(h, p).found) /\ Graded(SecureBoot(h, p).found)
         /\ Graded(RevocationList(h, p).found) /\ Graded(TrustedPlatformModule(h, p).found)
         /\ Graded(BootEntries(h, p).found) /\ Graded(EspPermissions(h, p).found)
<1> DEFINE Used == {"no_uefi", "secure_boot_setup_mode", "secure_boot_off", "no_dbx",
                    "no_tpm", "no_measured_boot", "boot_order_unexpected",
                    "esp_permissions"}
<1>1. \A key \in Used : p.sev[key] # NoSeverity
  <2>1. Used \subseteq DOMAIN BaseSeverities
    BY Zenon DEF BaseSeverities, Rated
  <2> QED BY <2>1 DEF Weighs
<1>2. Graded(BootMode(h, p).found)
  BY <1>1, Givings, Worths DEF BootMode
<1>3. Graded(SecureBoot(h, p).found)
  BY <1>1, Givings, Worths DEF SecureBoot
<1>4. Graded(RevocationList(h, p).found)
  BY <1>1, Givings, Worths DEF RevocationList
<1>5. Graded(TrustedPlatformModule(h, p).found)
  BY <1>1, Givings, Worths DEF TrustedPlatformModule
<1>6. Graded(BootEntries(h, p).found)
  <2>1. /\ Graded(Found("firmware.boot-entries.removable-first", p.sev.boot_order_unexpected))
        /\ Graded(Found("firmware.boot-entries.unexpected-current", INFO))
        /\ Graded(Passed("firmware.boot-entries.order"))
        /\ Graded(Found("firmware.boot-entries.bootnext", LOW))
    BY <1>1, Worths, Givings
  <2> QED BY <2>1, Givings DEF BootEntries, FoundIf
<1>7. Graded(EspPermissions(h, p).found)
  <2>1. /\ Graded(Found("firmware.esp.world-writable", AtLeast(p.sev.esp_permissions, CRITICAL)))
        /\ Graded(Found("firmware.esp.readable", INFO))
        /\ Graded(Passed("firmware.esp.restricted"))
    BY <1>1, Worths, Givings
  <2> QED BY <2>1, Givings DEF EspPermissions
<1> QED BY <1>2, <1>3, <1>4, <1>5, <1>6, <1>7

LEMMA HardeningGraded ==
  ASSUME NEW h, NEW p, Weighs(p.sev)
  PROVE  /\ Graded(SysctlExpectations(h, p).found) /\ Graded(MandatoryAccessControl(h, p).found)
         /\ Graded(UserNamespaces(h, p).found) /\ Graded(CoreDumps(h, p).found)
<1> DEFINE Used == {"sysctl_weak", "no_mac_lsm", "unprivileged_userns", "suid_dumpable"}
<1>1. \A key \in Used : p.sev[key] # NoSeverity
  <2>1. Used \subseteq DOMAIN BaseSeverities
    BY Zenon DEF BaseSeverities, Rated
  <2> QED BY <2>1 DEF Weighs
<1>2. Graded(SysctlExpectations(h, p).found)
  <2> DEFINE absent == {k \in DOMAIN Expectations : h.sysctl[k] = NoValue}
             weak == {k \in DOMAIN Expectations \ absent : h.sysctl[k] \notin Expectations[k]}
  <2>1. Graded({[id |-> "hardening.sysctl." \o k, sev |-> p.sev.sysctl_weak] : k \in weak})
    BY <1>1 DEF Graded
  <2>2. Graded(Found("hardening.sysctl.absent", INFO)) /\ Graded(Passed("hardening.sysctl.all"))
    BY Worths, Givings
  <2> DEFINE all == {[id |-> "hardening.sysctl." \o k, sev |-> p.sev.sysctl_weak] : k \in weak}
                    \cup FoundIf(absent # {}, "hardening.sysctl.absent", INFO)
  <2>3. Graded(all)
    <3> HIDE DEF absent, weak
    <3> QED BY <2>1, <2>2, Givings DEF FoundIf
  <2>4. Graded(Yield(all).found) /\ Graded(Yield(Passed("hardening.sysctl.all")).found)
    BY <2>2, <2>3, Givings
  <2>5. SysctlExpectations(h, p) =
          IF weak = {} THEN Yield(Passed("hardening.sysctl.all")) ELSE Yield(all)
    BY Zenon DEF SysctlExpectations
  <2> HIDE DEF all
  <2> QED BY <2>4, <2>5
<1>3. Graded(MandatoryAccessControl(h, p).found)
  BY <1>1, Givings, Worths DEF MandatoryAccessControl
<1>4. Graded(UserNamespaces(h, p).found)
  BY <1>1, Givings, Worths DEF UserNamespaces
<1>5. Graded(CoreDumps(h, p).found)
  BY <1>1, Givings, Worths DEF CoreDumps
<1> QED BY <1>2, <1>3, <1>4, <1>5

LEMMA BootChainGraded ==
  ASSUME NEW h, NEW p, Weighs(p.sev)
  PROVE  /\ Graded(Bootloader(h, p).found) /\ Graded(GrubPassword(h, p).found)
         /\ Graded(BootPermissions(h, p).found) /\ Graded(Initramfs(h, p).found)
         /\ Graded(DiskEncryption(h, p).found) /\ Graded(MountOptions(h, p).found)
         /\ Graded(RemovableBoot(h, p).found)
<1> DEFINE Used == {"grub_no_password", "boot_world_writable", "boot_permissions",
                    "initramfs_stale", "no_root_encryption", "unencrypted_swap",
                    "mount_options_weak", "boot_on_removable"}
<1>1. \A key \in Used : p.sev[key] # NoSeverity
  <2>1. Used \subseteq DOMAIN BaseSeverities
    BY Zenon DEF BaseSeverities, Rated
  <2> QED BY <2>1 DEF Weighs
<1>2. Graded(Bootloader(h, p).found)
  BY <1>1, Givings, Worths DEF Bootloader
<1>3. Graded(GrubPassword(h, p).found)
  BY <1>1, Givings, Worths DEF GrubPassword
<1>4. Graded(BootPermissions(h, p).found)
  <2> DEFINE Wrong(kind) == kind \in h.bootEntries
             all == FoundIf(Wrong("world writable"), "bootchain.permissions.world-writable",
                            AtLeast(p.sev.boot_world_writable, CRITICAL))
                    \cup FoundIf(Wrong("not root"), "bootchain.permissions.not-root-owned",
                                 p.sev.boot_permissions)
                    \cup FoundIf(Wrong("group writable"), "bootchain.permissions.group-writable",
                                 p.sev.boot_permissions)
                    \cup FoundIf(h.bootEntries \subseteq {"fine"}, "bootchain.permissions.clean", PASS)
  <2>1. /\ Graded(Found("bootchain.permissions.world-writable",
                       AtLeast(p.sev.boot_world_writable, CRITICAL)))
        /\ Graded(Found("bootchain.permissions.not-root-owned", p.sev.boot_permissions))
        /\ Graded(Found("bootchain.permissions.group-writable", p.sev.boot_permissions))
        /\ Graded(Found("bootchain.permissions.clean", PASS))
    BY <1>1, Worths, Givings
  <2>2. Graded(all)
    BY <2>1, Givings DEF FoundIf
  <2>3. Graded(Yield(all).found) /\ Graded(Skip.found)
    BY <2>2, Givings
  <2>4. BootPermissions(h, p) = IF h.bootDir = "absent" THEN Skip ELSE Yield(all)
    BY Zenon DEF BootPermissions
  <2> HIDE DEF all
  <2> QED BY <2>3, <2>4
<1>5. Graded(Initramfs(h, p).found)
  <2>1. /\ Graded(Found("bootchain.initramfs.missing", INFO))
        /\ Graded(Found("bootchain.initramfs.stale", p.sev.initramfs_stale))
        /\ Graded(Found("bootchain.initramfs.current", PASS))
    BY <1>1, Worths, Givings
  <2> QED BY <2>1, Givings DEF Initramfs, FoundIf
<1>6. Graded(DiskEncryption(h, p).found)
  <2>1. /\ Graded(Passed("bootchain.encryption.swap"))
        /\ Graded(Found("bootchain.encryption.swap-plain", p.sev.unencrypted_swap))
        /\ Graded(Passed("bootchain.encryption.root"))
        /\ Graded(Found("bootchain.encryption.none", p.sev.no_root_encryption))
        /\ Graded(Found("bootchain.encryption.home-plain", AtLeast(p.sev.no_root_encryption, MEDIUM)))
    BY <1>1, Worths, Givings
  <2> QED BY <2>1, Givings DEF DiskEncryption, SwapFindings, FoundIf
<1>7. Graded(MountOptions(h, p).found)
  BY <1>1, Givings, Worths DEF MountOptions
<1>8. Graded(RemovableBoot(h, p).found)
  BY <1>1, Givings, Worths DEF RemovableBoot
<1> QED BY <1>2, <1>3, <1>4, <1>5, <1>6, <1>7, <1>8

LEMMA ServiceGraded ==
  ASSUME NEW h, NEW p, Weighs(p.sev)
  PROVE  /\ Graded(FailedUnits(h, p).found) /\ Graded(SystemState(h, p).found)
         /\ Graded(ServiceExposure(h, p).found) /\ Graded(LocalOverrides(h, p).found)
         /\ Graded(MaskedUnits(h, p).found) /\ Graded(TotalTime(h, p).found)
         /\ Graded(DeviceWaits(h, p).found) /\ Graded(SlowUnits(h, p).found)
         /\ Graded(FirmwareTime(h, p).found)
<1> DEFINE Used == {"failed_unit", "system_degraded", "unit_exposure",
                    "vendor_unit_overridden", "masked_security_unit", "boot_slow",
                    "device_timeout", "unit_slow", "firmware_slow"}
<1>1. \A key \in Used : p.sev[key] # NoSeverity
  <2>1. Used \subseteq DOMAIN BaseSeverities
    BY Zenon DEF BaseSeverities, Rated
  <2> QED BY <2>1 DEF Weighs
<1>2. Graded(FailedUnits(h, p).found)
  <2> DEFINE Floor(u) == IF u \in SecurityUnits THEN HIGH ELSE MEDIUM
  <2>1. Graded({[id |-> "services.failed." \o u, sev |-> AtLeast(p.sev.failed_unit, Floor(u))] :
                   u \in h.failed.units})
    BY <1>1, Worths DEF Graded
  <2> QED BY <2>1, Givings, Zenon DEF FailedUnits
<1>3. Graded(SystemState(h, p).found)
  BY <1>1, Givings, Worths DEF SystemState
<1>4. Graded(ServiceExposure(h, p).found)
  BY <1>1, Givings, Worths DEF ServiceExposure
<1>5. Graded(LocalOverrides(h, p).found)
  BY <1>1, Givings, Worths DEF LocalOverrides
<1>6. Graded(MaskedUnits(h, p).found)
  BY <1>1, Givings, Worths DEF MaskedUnits
<1>7. Graded(TotalTime(h, p).found)
  BY <1>1, Givings, Worths DEF TotalTime
<1>8. Graded(DeviceWaits(h, p).found)
  BY <1>1, Givings, Worths DEF DeviceWaits
<1>9. Graded(SlowUnits(h, p).found)
  BY <1>1, Givings, Worths DEF SlowUnits
<1>10. Graded(FirmwareTime(h, p).found)
  BY <1>1, Givings, Worths DEF FirmwareTime
<1> QED BY <1>2, <1>3, <1>4, <1>5, <1>6, <1>7, <1>8, <1>9, <1>10

LEMMA PersistenceGraded ==
  ASSUME NEW h, NEW p, Weighs(p.sev)
  PROVE  /\ Graded(LibraryPreloading(h, p).found) /\ Graded(SuspiciousUnits(h, p).found)
         /\ Graded(AutostartEntries(h, p).found) /\ Graded(ScheduledJobs(h, p).found)
         /\ Graded(ShellProfiles(h, p).found) /\ Graded(KernelHooks(h, p).found)
         /\ Graded(WritablePath(h, p).found)
<1> DEFINE Used == {"ld_preload", "unit_in_home", "suspicious_exec",
                    "autostart_suspicious", "cron_suspicious", "profile_script_suspicious",
                    "udev_run_rule", "modprobe_install_hook", "world_writable_path"}
<1>1. \A key \in Used : p.sev[key] # NoSeverity
  <2>1. Used \subseteq DOMAIN BaseSeverities
    BY Zenon DEF BaseSeverities, Rated
  <2> QED BY <2>1 DEF Weighs
<1>2. Graded(LibraryPreloading(h, p).found)
  <2>1. /\ Graded(Passed("persistence.ld-preload.absent"))
        /\ Graded(Found("persistence.ld-preload.present", AtLeast(p.sev.ld_preload, HIGH)))
    BY <1>1, Worths, Givings
  <2> QED BY <2>1, Givings DEF LibraryPreloading
<1>3. Graded(SuspiciousUnits(h, p).found)
  <2>1. \A entries : Graded(Flagged(entries, "persistence.units.unit", p, "suspicious_exec"))
    BY <1>1, FlaggedGraded
  <2>2. /\ Graded(Found("persistence.units.non-root-owned", p.sev.unit_in_home))
        /\ Graded(Found("persistence.units.clean", PASS))
    BY <1>1, Worths, Givings
  <2> QED BY <2>1, <2>2, Givings DEF SuspiciousUnits, FoundIf
<1>4. Graded(AutostartEntries(h, p).found)
  <2>1. \A entries : Graded(Flagged(entries, "persistence.autostart.entry", p, "autostart_suspicious"))
    BY <1>1, FlaggedGraded
  <2>2. Graded(Found("persistence.autostart.clean", PASS))
    BY Worths, Givings
  <2> QED BY <2>1, <2>2, Givings DEF AutostartEntries, FoundIf
<1>5. Graded(ScheduledJobs(h, p).found)
  <2>1. \A entries : Graded(Flagged(entries, "persistence.scheduled.job-" \o h.hashSeed, p,
                                  "cron_suspicious"))
    BY <1>1, FlaggedGraded
  <2>2. /\ Graded(Found("persistence.scheduled.unreadable", INFO))
        /\ Graded(Found("persistence.scheduled.clean", PASS))
    BY Worths, Givings
  <2> QED BY <2>1, <2>2, Givings DEF ScheduledJobs, FoundIf
<1>6. Graded(ShellProfiles(h, p).found)
  <2>1. \A entries : Graded({[id |-> "persistence.shell-profiles.file",
                              sev |-> WeightOf(p, "profile_script_suspicious", e)] : e \in entries})
    BY <1>1, Worths DEF Graded, WeightOf
  <2> QED BY <2>1, Givings DEF ShellProfiles
<1>7. Graded(KernelHooks(h, p).found)
  <2>1. /\ \A entries : Graded(Flagged(entries, "persistence.kernel-hooks.udev-rule", p,
                                     "udev_run_rule"))
        /\ \A entries : Graded(Flagged(entries, "persistence.kernel-hooks.modprobe", p,
                                     "modprobe_install_hook"))
    BY <1>1, FlaggedGraded
  <2>2. Graded(Found("persistence.kernel-hooks.udev-present", INFO))
    BY Worths, Givings
  <2> QED BY <2>1, <2>2, Givings DEF KernelHooks, FoundIf
<1>8. Graded(WritablePath(h, p).found)
  <2>1. /\ Graded(Passed("persistence.path.clean"))
        /\ Graded(Found("persistence.path.writable", AtLeast(p.sev.world_writable_path, CRITICAL)))
    BY <1>1, Worths, Givings
  <2> QED BY <2>1, Givings DEF WritablePath
<1> QED BY <1>2, <1>3, <1>4, <1>5, <1>6, <1>7, <1>8

LEMMA IntegrityGraded ==
  ASSUME NEW h, NEW p, Weighs(p.sev)
  PROVE  /\ Graded(BaselineDrift(h, p).found) /\ Graded(JournalErrors(h, p).found)
<1> DEFINE Used == {"baseline_drift_expected", "baseline_drift", "journal_errors"}
<1>1. \A key \in Used : p.sev[key] # NoSeverity
  <2>1. Used \subseteq DOMAIN BaseSeverities
    BY Zenon DEF BaseSeverities, Rated
  <2> QED BY <2>1 DEF Weighs
<1>2. Graded(BaselineDrift(h, p).found)
  <2>1. \A policies, mild : policies # NoSeverity =>
          Graded(Found("integrity.baseline.changed", IF mild /\ policies > LOW THEN LOW ELSE policies))
    BY Worths, Givings
  <2>2. Graded(Found("integrity.baseline.unhashed", INFO)) /\ Graded(Found("integrity.baseline.none", INFO))
    BY Worths, Givings
  <2> QED BY <1>1, <2>1, <2>2, Givings DEF BaselineDrift, FoundIf
<1>3. Graded(JournalErrors(h, p).found)
  BY <1>1, Givings, Worths DEF JournalErrors
<1> QED BY <1>2, <1>3

LEMMA CustomGraded ==
  ASSUME NEW h, NEW p, Weighs(p.sev)
  PROVE  Graded(Evaluate(h, p).found)
<1>1. /\ Graded(Yield(Passed("site.check.ok")).found)
      /\ Graded(Yield(Found("site.check.failed", MEDIUM)).found)
  BY Worths, Givings
<1> QED BY <1>1, Givings, Zenon DEF Evaluate

\* RunCheck runs one of them.
LEMMA RunGraded ==
  ASSUME NEW c \in Checks, NEW h, NEW p, Weighs(p.sev)
  PROVE  Graded(RunCheck(c, h, p).found)
<1>1. c \in {"taint", "lockdown", "module_signing", "risky_cmdline", "cpu_mitigations",
             "microcode", "iommu", "running_version", "kexec"}
        => Graded(RunCheck(c, h, p).found)
  BY KernelGraded, Zenon DEF RunCheck
<1>2. c \in {"boot_mode", "secure_boot", "revocation_list", "trusted_platform_module",
             "boot_entries", "esp_permissions"}
        => Graded(RunCheck(c, h, p).found)
  BY FirmwareGraded, Zenon DEF RunCheck
<1>3. c \in {"sysctl_expectations", "mandatory_access_control", "user_namespaces",
             "core_dumps"}
        => Graded(RunCheck(c, h, p).found)
  BY HardeningGraded, Zenon DEF RunCheck
<1>4. c \in {"bootloader", "grub_password", "boot_permissions", "initramfs",
             "disk_encryption", "mount_options", "removable_boot"}
        => Graded(RunCheck(c, h, p).found)
  BY BootChainGraded, Zenon DEF RunCheck
<1>5. c \in {"failed_units", "system_state", "service_exposure", "local_overrides",
             "masked_units", "total_time", "device_waits", "slow_units", "firmware_time"}
        => Graded(RunCheck(c, h, p).found)
  BY ServiceGraded, Zenon DEF RunCheck
<1>6. c \in {"library_preloading", "suspicious_units", "autostart_entries",
             "scheduled_jobs", "shell_profiles", "kernel_hooks", "writable_path"}
        => Graded(RunCheck(c, h, p).found)
  BY PersistenceGraded, Zenon DEF RunCheck
<1>7. c \in {"baseline_drift", "journal_errors"}
        => Graded(RunCheck(c, h, p).found)
  BY IntegrityGraded, Zenon DEF RunCheck
<1>8. c \in {"custom"}
        => Graded(RunCheck(c, h, p).found)
  BY CustomGraded, Zenon DEF RunCheck
<1> QED BY <1>1, <1>2, <1>3, <1>4, <1>5, <1>6, <1>7, <1>8 DEF Checks, Catalogue

-----------------------------------------------------------------------------
\* What a profile makes of what was judged, and back.

LEMMA Undoes ==
  ASSUME NEW pr, NEW f, f.sev # NoSeverity
  PROVE  Undecorated(ApplyTo(pr, Fresh(f))) = Fresh(f)
<1> DEFINE g == IF f.id \in DOMAIN pr.overrides
                THEN WithSeverity(Fresh(f), pr.overrides[f.id]) ELSE Fresh(f)
<1>1. Fresh(f).id = f.id /\ Fresh(f).sev = f.sev /\ Fresh(f).original = NoSeverity /\ ~Fresh(f).muted
  BY DEF Fresh
<1>2. DOMAIN g = {"id", "sev", "original", "muted"} /\ g.id = f.id /\ g.muted = FALSE
  BY DEF Fresh, WithSeverity
<1>3. \/ g.original = NoSeverity /\ g.sev = f.sev
      \/ g.original = f.sev
  BY DEF Fresh, WithSeverity
<1> DEFINE h == ApplyTo(pr, Fresh(f))
<1>4. h = IF f.id \in pr.mutes THEN [g EXCEPT !.muted = TRUE] ELSE g
  BY <1>1 DEF ApplyTo
<1> HIDE DEF g
<1>5. DOMAIN h = {"id", "sev", "original", "muted"} /\ h.id = f.id /\ h.sev = g.sev /\ h.original = g.original
  BY <1>2, <1>4
<1> HIDE DEF h
<1> DEFINE u == Undecorated(h)
<1>6. /\ DOMAIN u = {"id", "sev", "original", "muted"}
      /\ u.id = f.id /\ u.original = NoSeverity /\ u.muted = FALSE
      /\ u.sev = IF h.original # NoSeverity THEN h.original ELSE h.sev
  BY <1>5 DEF Undecorated
<1>7. u = [k \in {"id", "sev", "original", "muted"} |-> u[k]]
  BY <1>6 DEF Undecorated
<1>8. u.sev = f.sev
  BY <1>3, <1>5, <1>6
<1> HIDE DEF u
<1>9. u = Fresh(f)
  BY <1>6, <1>7, <1>8 DEF Fresh
<1> QED BY <1>9 DEF u, h

\* A finding that is decorated anew, whatever decorated it before.
LEMMA Decorates ==
  ASSUME NEW pr, NEW r, Restorable(r)
  PROVE  {ApplyTo(pr, Undecorated(f)) : f \in r.found} = Decorated(pr, r.judged)
<1>1. {ApplyTo(pr, Undecorated(f)) : f \in r.found}
        = {ApplyTo(pr, g) : g \in {Undecorated(f) : f \in r.found}}
  OBVIOUS
<1>2. Decorated(pr, r.judged) = {ApplyTo(pr, g) : g \in {Fresh(f) : f \in r.judged}}
  BY DEF Decorated
<1> QED BY <1>1, <1>2 DEF Restorable

LEMMA DecoratedRestores ==
  ASSUME NEW pr, NEW r, Graded(r.judged), r.found = Decorated(pr, r.judged)
  PROVE  Restorable(r)
<1>1. {Undecorated(f) : f \in r.found} = {Undecorated(ApplyTo(pr, Fresh(f))) : f \in r.judged}
  BY DEF Decorated
<1>2. \A f \in r.judged : Undecorated(ApplyTo(pr, Fresh(f))) = Fresh(f)
  BY Undoes DEF Graded
<1> QED BY <1>1, <1>2 DEF Restorable

\* Only the overrides and the mutes have a say.
LEMMA SameSay ==
  ASSUME NEW pr, NEW other, pr.overrides = other.overrides, pr.mutes = other.mutes, NEW found
  PROVE  Decorated(pr, found) = Decorated(other, found)
BY DEF Decorated, ApplyTo

LEMMA NothingRestores ==
  /\ DOMAIN NoReport = ReportParts /\ Restorable(NoReport) /\ NoReport.preset = NoReport.by
  /\ \A pr : NoReport.found = Decorated(pr, NoReport.judged)
BY DEF NoReport, ReportParts, Restorable, Graded, Decorated

-----------------------------------------------------------------------------
\* The steps.

LEMMA ShownStarts == Init => ShownInv
<1> SUFFICES ASSUME Init PROVE ShownInv
  OBVIOUS
<1>1. DOMAIN Default.keys = {} /\ Default.preset \in DOMAIN Policy
  BY DEF Default, Policy
<1>2. Weighs(PolicyOf(Default).sev)
  BY <1>1, PolicyWeighs
<1> QED BY <1>1, <1>2, NothingRestores
        DEF Init, ShownInv, Pages, DraftFollows, ReportFollowsProfile

\* BootAnalyzer.start, with a profile that is the new one, by now.
LEMMA StartShows ==
  ASSUME ShownInv, worker = "idle", Start(profile'),
         DOMAIN profile' = DOMAIN Default, profile'.preset \in DOMAIN Policy,
         \A key \in DOMAIN profile'.keys : profile'.keys[key] # NoSeverity,
         UNCHANGED check,
         DOMAIN report' = ReportParts, Restorable(report'), ReportFollowsProfile'
  PROVE  ShownInv'
<1>1. Weighs(PolicyOf(profile').sev)
  BY PolicyWeighs
<1>2. CASE worker' = "idle" /\ UNCHANGED <<policy, draft, touched>>
  BY <1>2 DEF ShownInv, Pages, Restorable, DraftFollows
<1>3. CASE /\ worker' = "reading" /\ policy' = PolicyOf(profile')
           /\ draft' = [NoReport EXCEPT !.by = profile'.preset] /\ touched' = {}
  <2>1. /\ DOMAIN draft' = ReportParts /\ draft'.found = {} /\ draft'.judged = {}
        /\ draft'.by = profile'.preset
    BY <1>3 DEF NoReport, ReportParts
  <2>2. Restorable(draft')
    BY <2>1 DEF Restorable, Graded
  <2> QED BY <1>1, <1>3, <2>1, <2>2 DEF ShownInv, Pages, DraftFollows
<1> QED BY <1>2, <1>3 DEF Start

\* The worker's steps leave the profile and the report.
LEMMA JudgeShows == ASSUME ShownInv, Judge PROVE ShownInv'
<1> DEFINE found == RunCheck(check, host, policy).found
<1>1. Graded(found)
  BY RunGraded DEF ShownInv, Pages
<1>2. /\ DOMAIN draft = ReportParts /\ worker = "reading" /\ worker' = "judged"
      /\ draft' = [draft EXCEPT !.judged = found, !.found = Decorated(profile, found)]
      /\ touched' = touched \ {"decoration"}
      /\ UNCHANGED <<check, policy, report, profile>>
  BY DEF Judge, ShownInv, Pages
<1> HIDE DEF found
<1>3. /\ DOMAIN draft' = ReportParts /\ draft'.judged = found
      /\ draft'.found = Decorated(profile, found) /\ draft'.by = draft.by
  BY <1>2 DEF ReportParts
<1>4. Restorable(draft')
  BY <1>1, <1>3, DecoratedRestores
<1>5. Pages'
  BY <1>2, <1>3 DEF ShownInv, Pages
<1>6. DraftFollows'
  BY <1>2, <1>3 DEF ShownInv, DraftFollows
<1>7. Restorable(report') /\ ReportFollowsProfile'
  BY <1>2 DEF ShownInv, Restorable, ReportFollowsProfile
<1> QED BY <1>4, <1>5, <1>6, <1>7 DEF ShownInv

LEMMA CloseShows == ASSUME ShownInv, Close PROVE ShownInv'
<1>1. /\ DOMAIN draft = ReportParts /\ worker = "judged" /\ worker' = "reported"
      /\ draft' = [draft EXCEPT !.preset = profile.preset]
      /\ UNCHANGED <<check, policy, report, profile, touched>>
  BY DEF Close, ShownInv, Pages
<1>2. /\ DOMAIN draft' = ReportParts /\ draft'.judged = draft.judged /\ draft'.found = draft.found
      /\ draft'.by = draft.by /\ draft'.preset = profile.preset
  BY <1>1 DEF ReportParts
<1> QED BY <1>1, <1>2 DEF ShownInv, Pages, DraftFollows, Restorable, ReportFollowsProfile

LEMMA DeliverShows == ASSUME ShownInv, Deliver PROVE ShownInv'
<1>1. /\ DOMAIN draft = ReportParts /\ worker = "reported" /\ worker' = "idle"
      /\ report' = [draft EXCEPT !.touched = touched]
      /\ draft' = NoReport /\ UNCHANGED <<check, policy, profile>>
  BY DEF Deliver, ShownInv, Pages
<1>2. /\ DOMAIN report' = ReportParts /\ report'.judged = draft.judged
      /\ report'.found = draft.found /\ report'.by = draft.by /\ report'.preset = draft.preset
      /\ report'.touched = touched
  BY <1>1 DEF ReportParts
<1>3. ReportFollowsProfile'
  BY <1>1, <1>2 DEF ShownInv, DraftFollows, ReportFollowsProfile
<1>4. Restorable(report') /\ Restorable(draft')
  BY <1>1, <1>2, NothingRestores DEF ShownInv, Restorable
<1>5. Pages' /\ DraftFollows'
  BY <1>1, <1>2, NothingRestores DEF ShownInv, Pages, DraftFollows
<1> QED BY <1>3, <1>4, <1>5 DEF ShownInv

LEMMA FailShows == ASSUME ShownInv, Fail PROVE ShownInv'
<1>1. Restorable(report') /\ Restorable(draft') /\ ReportFollowsProfile'
  BY NothingRestores DEF Fail, ShownInv, Restorable, ReportFollowsProfile
<1>2. Pages' /\ DraftFollows'
  BY NothingRestores DEF Fail, ShownInv, Pages, DraftFollows
<1> QED BY <1>1, <1>2 DEF ShownInv

\* The edits.  One that the shown findings are decorated by anew.
LEMMA RedecorateShows ==
  ASSUME ShownInv, NEW pr, Redecorate(pr), DOMAIN pr = DOMAIN Default,
         pr.preset = profile.preset, pr.keys = profile.keys
  PROVE  ShownInv'
<1>1. /\ profile' = pr /\ report' = Refreshed(pr)
      /\ touched' = IF worker = "idle" THEN touched ELSE touched \cup {"decoration"}
      /\ UNCHANGED <<check, worker, policy, draft>> /\ DOMAIN report = ReportParts
      /\ Restorable(report)
  BY DEF Redecorate, Edit, ShownInv, Pages
<1>2. /\ DOMAIN report' = ReportParts /\ report'.judged = report.judged
      /\ report'.found = {ApplyTo(pr, Undecorated(f)) : f \in report.found}
      /\ report'.by = report.by /\ report'.preset = report.preset
      /\ report'.touched = report.touched \ {"decoration"}
  BY <1>1 DEF Refreshed, ReportParts
<1>3. report'.found = Decorated(pr, report'.judged)
  BY <1>1, <1>2, Decorates
<1>4. Restorable(report')
  <2>1. Graded(report'.judged)
    BY <1>1, <1>2 DEF Restorable
  <2> QED BY <2>1, <1>3, DecoratedRestores
<1>5. ReportFollowsProfile'
  BY <1>1, <1>2, <1>3 DEF ShownInv, ReportFollowsProfile
<1>6. Restorable(draft')
  BY <1>1 DEF ShownInv, Restorable
<1>7. Pages' /\ DraftFollows'
  BY <1>1, <1>2 DEF ShownInv, Pages, DraftFollows
<1> QED BY <1>4, <1>5, <1>6, <1>7 DEF ShownInv

\* One that waits for the next analysis.
LEMMA RetuneShows ==
  ASSUME ShownInv, NEW pr, Retune(pr), DOMAIN pr = DOMAIN Default, pr.preset = profile.preset,
         pr.overrides = profile.overrides, pr.mutes = profile.mutes,
         \A key \in DOMAIN pr.keys : pr.keys[key] # NoSeverity
  PROVE  ShownInv'
<1>1. /\ profile' = pr /\ UNCHANGED <<check, worker, policy, draft, report>>
      /\ touched' = IF worker = "idle" THEN touched ELSE touched \cup {"policy"}
  BY DEF Retune, Edit
<1>2. \A found : Decorated(pr, found) = Decorated(profile, found)
  BY SameSay
<1>3. Restorable(report') /\ Restorable(draft')
  BY <1>1 DEF ShownInv, Restorable
<1>4. ReportFollowsProfile' /\ DraftFollows' /\ Pages'
  BY <1>1, <1>2 DEF ShownInv, ReportFollowsProfile, DraftFollows, Pages
<1> QED BY <1>3, <1>4 DEF ShownInv

LEMMA SetPresetShows ==
  ASSUME ShownInv, NEW i \in DOMAIN Presets, SetPreset(Presets[i]) PROVE ShownInv'
<1> DEFINE pr == [profile EXCEPT !.preset = Presets[i]]
<1>1. /\ worker = "idle" /\ profile' = pr /\ Start(profile') /\ UNCHANGED <<check, report>>
  BY DEF SetPreset
<1>2. DOMAIN profile = {"preset", "disabled", "keys", "limits", "overrides", "mutes"}
  BY DEF ShownInv, Pages, Default
<1>3. Presets[i] \in DOMAIN Policy
  BY DEF Presets, Policy
<1>4. /\ DOMAIN pr = DOMAIN profile /\ pr.preset = Presets[i] /\ pr.keys = profile.keys
      /\ pr.overrides = profile.overrides /\ pr.mutes = profile.mutes
  BY <1>2
<1> HIDE DEF pr
<1>5. \A found : Decorated(pr, found) = Decorated(profile, found)
  BY <1>4, SameSay
<1>6. DOMAIN report' = ReportParts /\ Restorable(report')
  BY <1>1 DEF ShownInv, Pages, Restorable
<1>7. ReportFollowsProfile'
  BY <1>1, <1>5 DEF ShownInv, ReportFollowsProfile
<1>8. /\ DOMAIN profile' = DOMAIN Default /\ profile'.preset \in DOMAIN Policy
      /\ \A key \in DOMAIN profile'.keys : profile'.keys[key] # NoSeverity
  BY <1>1, <1>3, <1>4 DEF ShownInv, Pages
<1> QED BY <1>1, <1>6, <1>7, <1>8, StartShows

LEMMA ResetShows == ASSUME ShownInv, ResetProfile PROVE ShownInv'
<1>1. /\ profile' = Default /\ report' = [report EXCEPT !.touched = @ \cup {"decoration"}]
      /\ UNCHANGED check /\ DOMAIN report = ReportParts
  BY DEF ResetProfile, ShownInv, Pages
<1>2. /\ DOMAIN report' = ReportParts /\ report'.judged = report.judged
      /\ report'.found = report.found /\ report'.by = report.by
      /\ report'.preset = report.preset /\ report'.touched = report.touched \cup {"decoration"}
  BY <1>1 DEF ReportParts
<1>3. Restorable(report') /\ ReportFollowsProfile'
  BY <1>2 DEF ShownInv, Restorable, ReportFollowsProfile
<1>4. /\ DOMAIN profile' = DOMAIN Default /\ profile'.preset \in DOMAIN Policy
      /\ \A key \in DOMAIN profile'.keys : profile'.keys[key] # NoSeverity
  BY <1>1 DEF Default, Policy
<1>5. CASE worker = "idle"
  <2>1. Start(profile')
    BY <1>1, <1>5 DEF ResetProfile
  <2> QED BY <1>1, <1>2, <1>3, <1>4, <1>5, <2>1, StartShows
<1>6. CASE worker # "idle"
  <2>1. touched' = touched \cup {"decoration", "preset"} /\ UNCHANGED <<worker, policy, draft>>
    BY <1>6 DEF ResetProfile
  <2>2. Restorable(draft')
    BY <2>1 DEF ShownInv, Restorable
  <2>3. Pages' /\ DraftFollows'
    BY <1>1, <1>2, <1>4, <2>1 DEF ShownInv, Pages, DraftFollows
  <2> QED BY <1>3, <2>2, <2>3 DEF ShownInv
<1> QED BY <1>5, <1>6

LEMMA ShownSteps == ShownInv /\ [Next]_vars => ShownInv'
<1> SUFFICES ASSUME ShownInv, [Next]_vars PROVE ShownInv'
  OBVIOUS
<1>0. DOMAIN profile = {"preset", "disabled", "keys", "limits", "overrides", "mutes"}
  BY DEF ShownInv, Pages, Default
<1>p. DOMAIN profile = DOMAIN Default
  BY DEF ShownInv, Pages
<1>k. \A key \in DOMAIN profile.keys : profile.keys[key] # NoSeverity
  BY DEF ShownInv, Pages
\* A profile with one of its parts changed.
<1>e. /\ \A mutes : LET pr == [profile EXCEPT !.mutes = mutes]
                    IN DOMAIN pr = DOMAIN profile /\ pr.preset = profile.preset /\ pr.keys = profile.keys
      /\ \A overrides : LET pr == [profile EXCEPT !.overrides = overrides]
                        IN DOMAIN pr = DOMAIN profile /\ pr.preset = profile.preset /\ pr.keys = profile.keys
  BY <1>0
\* Steps that change nothing of what counts, and the analysis that is asked for.
<1>1. CASE UNCHANGED <<check, worker, policy, draft, report, profile, touched>>
  <2>1. Restorable(report') /\ Restorable(draft') /\ ReportFollowsProfile'
    BY <1>1 DEF ShownInv, Restorable, ReportFollowsProfile
  <2>2. Pages' /\ DraftFollows'
    BY <1>1 DEF ShownInv, Pages, DraftFollows
  <2> QED BY <2>1, <2>2 DEF ShownInv
<1>2. CASE \E f \in Catalogue[check].reads : Read(f)
  BY <1>1, <1>2 DEF Read
<1>3. CASE WalkFiles
  BY <1>1, <1>3 DEF WalkFiles
<1>4. CASE Analyse
  <2>1. worker = "idle" /\ Start(profile') /\ UNCHANGED <<check, report, profile>>
    BY <1>4 DEF Analyse
  <2>2. DOMAIN report' = ReportParts /\ Restorable(report') /\ ReportFollowsProfile'
    BY <2>1 DEF ShownInv, Pages, Restorable, ReportFollowsProfile
  <2>3. profile'.preset \in DOMAIN Policy
    BY <2>1 DEF ShownInv, Pages
  <2> QED BY <1>p, <1>k, <2>1, <2>2, <2>3, StartShows
<1>5. CASE \E id \in Shown : Mute(id) \/ Unmute(id) \/ DropOverride(id)
  BY <1>5, <1>p, <1>e, RedecorateShows DEF Mute, Unmute, DropOverride
<1>6. CASE \E id \in Shown, sev \in {PASS, HIGH} : OverrideSeverity(id, sev)
  BY <1>6, <1>p, <1>e, RedecorateShows DEF OverrideSeverity
\* What waits for the next analysis.
<1>r. ASSUME NEW pr, Retune(pr), DOMAIN pr = DOMAIN profile, pr.preset = profile.preset,
             pr.overrides = profile.overrides, pr.mutes = profile.mutes,
             \A key \in DOMAIN pr.keys : pr.keys[key] # NoSeverity
      PROVE  ShownInv'
  BY <1>r, <1>p, RetuneShows
<1>7. CASE EnableCheck
  <2> DEFINE pr == [profile EXCEPT !.disabled = ~profile.disabled]
  <2>1. /\ DOMAIN pr = DOMAIN profile /\ pr.preset = profile.preset /\ pr.keys = profile.keys
        /\ pr.overrides = profile.overrides /\ pr.mutes = profile.mutes
    BY <1>0
  <2>2. Retune(pr)
    BY <1>7 DEF EnableCheck
  <2> HIDE DEF pr
  <2> QED BY <1>k, <1>r, <2>1, <2>2
<1>8. CASE \E key \in {"kexec_enabled", "journal_errors"} : OverridePolicy(key, HIGH)
  <2> PICK key \in {"kexec_enabled", "journal_errors"} : OverridePolicy(key, HIGH)
    BY <1>8
  <2> DEFINE keys == Overlaid([k \in {key} |-> HIGH], profile.keys)
             pr == [profile EXCEPT !.keys = keys]
  <2>1. \A k \in DOMAIN keys : keys[k] # NoSeverity
    BY <1>k, Worths DEF Overlaid
  <2>2. Retune(pr)
    BY DEF OverridePolicy
  <2> HIDE DEF keys
  <2>3. /\ DOMAIN pr = DOMAIN profile /\ pr.preset = profile.preset /\ pr.keys = keys
        /\ pr.overrides = profile.overrides /\ pr.mutes = profile.mutes
    BY <1>0
  <2> HIDE DEF pr
  <2> QED BY <1>r, <2>1, <2>2, <2>3
<1>9. CASE OverrideThreshold("journal_error_budget", 5)
  <2> DEFINE limits == Overlaid([k \in {"journal_error_budget"} |-> 5], profile.limits)
             pr == [profile EXCEPT !.limits = limits]
  <2>1. Retune(pr)
    BY <1>9 DEF OverrideThreshold
  <2> HIDE DEF limits
  <2>2. /\ DOMAIN pr = DOMAIN profile /\ pr.preset = profile.preset /\ pr.keys = profile.keys
        /\ pr.overrides = profile.overrides /\ pr.mutes = profile.mutes
    BY <1>0
  <2> HIDE DEF pr
  <2> QED BY <1>k, <1>r, <2>1, <2>2
<1> QED BY <1>1, <1>2, <1>3, <1>4, <1>5, <1>6, <1>7, <1>8, <1>9,
           JudgeShows, CloseShows, DeliverShows, FailShows, SetPresetShows, ResetShows
        DEF Next, vars

\* What the page shows is what the check found, weighed and muted as the profile says
\* now, and the preset that it names is the one its findings were judged by, but for
\* the edits that ReportFollowsProfile says cannot show: for any check, any machine
\* and any edits before, during and after an analysis.
THEOREM ShownAsProfiled == Spec => []ReportFollowsProfile
<1>1. ShownInv => ReportFollowsProfile
  BY DEF ShownInv
<1> QED BY <1>1, ShownStarts, ShownSteps, PTL DEF Spec

-----------------------------------------------------------------------------
\* Any harder policy forgives nothing.

\* Of two policies, one that weighs each thing at least as much and tolerates no more.
Milder(p, q) ==
  /\ \A key \in DOMAIN BaseSeverities : p.sev[key] \in Int /\ q.sev[key] \in Int /\ p.sev[key] <= q.sev[key]
  /\ \A key \in DOMAIN BaseThresholds : p.limit[key] \in Int /\ q.limit[key] \in Int /\ q.limit[key] <= p.limit[key]

\* What was found is found again, and weighs as much.
Borne(found, again) ==
  \A f \in found : f.sev # PASS => \E g \in again : g.id = f.id /\ g.sev >= f.sev
NoneForgiven(milder, harder) ==
  milder.skipped = harder.skipped /\ Borne(milder.found, harder.found)

\* What the severities weigh, as numbers to compare.
LEMMA Worth == PASS = 0 /\ INFO = 10 /\ LOW = 20 /\ MEDIUM = 30 /\ HIGH = 40 /\ CRITICAL = 50
BY DEF PASS, INFO, LOW, MEDIUM, HIGH, CRITICAL

\* What a check gives is forgiven nothing when each severity it takes is at least as great
\* and each condition it reports under at least as wide.
LEMMA Harder ==
  /\ NoneForgiven(Skip, Skip)
  /\ \A a, b : Borne(a, b) => NoneForgiven(Yield(a), Yield(b))
  /\ \A id, b : Borne(Passed(id), b)
  /\ \A id, s, t : s \in Int /\ t \in Int /\ s <= t => Borne(Found(id, s), Found(id, t))
  /\ \A id, c, d, s, t : s \in Int /\ t \in Int /\ s <= t /\ (c => d) => Borne(FoundIf(c, id, s), FoundIf(d, id, t))
  /\ \A id, c, b : Borne(FoundIf(c, id, PASS), b)
  /\ \A s, t, floor : s \in Int /\ t \in Int /\ floor \in Int /\ s <= t =>
       AtLeast(s, floor) \in Int /\ AtLeast(t, floor) \in Int /\ AtLeast(s, floor) <= AtLeast(t, floor)
<1>1. NoneForgiven(Skip, Skip) BY DEF NoneForgiven, Skip, Borne
<1>2. \A a, b : Borne(a, b) => NoneForgiven(Yield(a), Yield(b)) BY DEF NoneForgiven, Yield
<1>3. \A id, b : Borne(Passed(id), b) BY DEF Borne, Passed, Found
<1>4. \A id, s, t : s \in Int /\ t \in Int /\ s <= t => Borne(Found(id, s), Found(id, t)) BY DEF Borne, Found
<1>5. \A id, c, d, s, t : s \in Int /\ t \in Int /\ s <= t /\ (c => d) => Borne(FoundIf(c, id, s), FoundIf(d, id, t))
  <2>1. \A b : Borne({}, b) BY DEF Borne
  <2>2. SUFFICES ASSUME NEW id, NEW c, NEW d, NEW s \in Int, NEW t \in Int, s <= t, c => d
                 PROVE  Borne(FoundIf(c, id, s), FoundIf(d, id, t))
    OBVIOUS
  <2>3. CASE c BY <1>4, <2>2, <2>3 DEF FoundIf
  <2>4. CASE ~c BY <2>1, <2>4 DEF FoundIf
  <2> QED BY <2>3, <2>4
<1>6. \A id, c, b : Borne(FoundIf(c, id, PASS), b) BY DEF Borne, FoundIf, Found
<1>7. \A s, t, floor : s \in Int /\ t \in Int /\ floor \in Int /\ s <= t =>
       AtLeast(s, floor) \in Int /\ AtLeast(t, floor) \in Int /\ AtLeast(s, floor) <= AtLeast(t, floor)
  BY DEF AtLeast
<1> QED BY <1>1, <1>2, <1>3, <1>4, <1>5, <1>6, <1>7

\* Findings put together are found again together.
LEMMA BorneBoth ==
  ASSUME NEW a, NEW b, NEW c, NEW d, Borne(a, c), Borne(b, d)
  PROVE  Borne(a \cup b, c \cup d)
BY DEF Borne

\* Every check of the kernel forgives nothing under the harder of two policies: it weighs
\* the same facts in the same branches, and each branch by the policy or by a constant.
LEMMA KernelHarder ==
  ASSUME NEW h, NEW p, NEW q, Milder(p, q)
  PROVE  /\ NoneForgiven(Taint(h, p), Taint(h, q)) /\ NoneForgiven(Lockdown(h, p), Lockdown(h, q))
         /\ NoneForgiven(ModuleSigning(h, p), ModuleSigning(h, q)) /\ NoneForgiven(RiskyCmdline(h, p), RiskyCmdline(h, q))
         /\ NoneForgiven(CpuMitigations(h, p), CpuMitigations(h, q)) /\ NoneForgiven(Microcode(h, p), Microcode(h, q))
         /\ NoneForgiven(Iommu(h, p), Iommu(h, q)) /\ NoneForgiven(RunningVersion(h, p), RunningVersion(h, q))
         /\ NoneForgiven(Kexec(h, p), Kexec(h, q))
<1> DEFINE Used == {"kernel_tainted_serious", "kernel_tainted_modules", "lockdown_none",
                    "module_signing_off", "cmdline_risky", "no_iommu", "cpu_vulnerable",
                    "microcode_stale", "stale_running_kernel", "kexec_enabled"}
<1>1. \A key \in Used : p.sev[key] \in Int /\ q.sev[key] \in Int /\ p.sev[key] <= q.sev[key]
  <2>1. Used \subseteq DOMAIN BaseSeverities
    BY Zenon DEF BaseSeverities, Rated
  <2> QED BY <2>1 DEF Milder
<1>2. NoneForgiven(Taint(h, p), Taint(h, q))
  <2>1. /\ Borne(FoundIf("fault" \in h.taint, "kernel.taint.fault", p.sev.kernel_tainted_serious),
                 FoundIf("fault" \in h.taint, "kernel.taint.fault", q.sev.kernel_tainted_serious))
        /\ Borne(FoundIf("modules" \in h.taint, "kernel.taint.modules", p.sev.kernel_tainted_modules),
                 FoundIf("modules" \in h.taint, "kernel.taint.modules", q.sev.kernel_tainted_modules))
        /\ Borne(FoundIf(h.taint = {"note"}, "kernel.taint.note", INFO),
                 FoundIf(h.taint = {"note"}, "kernel.taint.note", INFO))
    BY <1>1, Harder, Worth
  <2> QED BY <2>1, Harder, BorneBoth DEF Taint
<1>3. NoneForgiven(Lockdown(h, p), Lockdown(h, q))
  BY <1>1, Harder DEF Lockdown
<1>4. NoneForgiven(ModuleSigning(h, p), ModuleSigning(h, q))
  BY <1>1, Harder DEF ModuleSigning
<1>5. NoneForgiven(RiskyCmdline(h, p), RiskyCmdline(h, q))
  <2> DEFINE hits == {risky \in RiskyParameters : risky.word \in h.cmdline}
             emergency == h.cmdline \cap EmergencyWords # {}
             Hits(r) == {[id |-> "kernel.cmdline." \o risky.word,
                          sev |-> AtLeast(r.sev[risky.key], risky.floor)] : risky \in hits}
  <2>1. \A risky \in hits : risky.key \in Used /\ risky.floor \in Int
    BY Worth DEF RiskyParameters
  <2>2. Borne(Hits(p), Hits(q))
    <3>1. SUFFICES ASSUME NEW f \in Hits(p)
                   PROVE  \E g \in Hits(q) : g.id = f.id /\ g.sev >= f.sev
      BY DEF Borne
    <3>2. PICK risky \in hits : f = [id |-> "kernel.cmdline." \o risky.word, sev |-> AtLeast(p.sev[risky.key], risky.floor)]
      OBVIOUS
    <3>3. /\ AtLeast(p.sev[risky.key], risky.floor) \in Int
          /\ AtLeast(q.sev[risky.key], risky.floor) \in Int
          /\ AtLeast(p.sev[risky.key], risky.floor) <= AtLeast(q.sev[risky.key], risky.floor)
      BY <1>1, <2>1, Harder
    <3>4. [id |-> "kernel.cmdline." \o risky.word, sev |-> AtLeast(q.sev[risky.key], risky.floor)] \in Hits(q)
      OBVIOUS
    <3> QED BY <3>2, <3>3, <3>4
  <2>3. Borne(FoundIf(emergency, "kernel.cmdline.emergency", AtLeast(p.sev.cmdline_risky, HIGH)),
              FoundIf(emergency, "kernel.cmdline.emergency", AtLeast(q.sev.cmdline_risky, HIGH)))
    BY <1>1, Harder, Worth
  <2>4. Borne(FoundIf(hits = {} /\ ~emergency, "kernel.cmdline.clean", PASS),
              FoundIf(hits = {} /\ ~emergency, "kernel.cmdline.clean", PASS))
    BY Harder
  <2>5. RiskyCmdline(h, p) = IF h.cmdline = {"unread"} THEN Skip
          ELSE Yield(FoundIf(emergency, "kernel.cmdline.emergency", AtLeast(p.sev.cmdline_risky, HIGH))
                     \cup Hits(p) \cup FoundIf(hits = {} /\ ~emergency, "kernel.cmdline.clean", PASS))
    BY DEF RiskyCmdline
  <2>6. RiskyCmdline(h, q) = IF h.cmdline = {"unread"} THEN Skip
          ELSE Yield(FoundIf(emergency, "kernel.cmdline.emergency", AtLeast(q.sev.cmdline_risky, HIGH))
                     \cup Hits(q) \cup FoundIf(hits = {} /\ ~emergency, "kernel.cmdline.clean", PASS))
    BY DEF RiskyCmdline
  <2> HIDE DEF hits, emergency, Hits
  <2> QED BY <2>2, <2>3, <2>4, <2>5, <2>6, Harder, BorneBoth
<1>6. NoneForgiven(CpuMitigations(h, p), CpuMitigations(h, q))
  BY <1>1, Harder, Worth DEF CpuMitigations
<1>7. NoneForgiven(Microcode(h, p), Microcode(h, q))
  BY <1>1, Harder, Worth DEF Microcode
<1>8. NoneForgiven(Iommu(h, p), Iommu(h, q))
  BY <1>1, Harder, Worth DEF Iommu
<1>9. NoneForgiven(RunningVersion(h, p), RunningVersion(h, q))
  BY <1>1, Harder, Worth DEF RunningVersion
<1>10. NoneForgiven(Kexec(h, p), Kexec(h, q))
  BY <1>1, Harder DEF Kexec
<1> QED BY <1>2, <1>3, <1>4, <1>5, <1>6, <1>7, <1>8, <1>9, <1>10

\* The same of every check of the firmware.
LEMMA FirmwareHarder ==
  ASSUME NEW h, NEW p, NEW q, Milder(p, q)
  PROVE  /\ NoneForgiven(BootMode(h, p), BootMode(h, q)) /\ NoneForgiven(SecureBoot(h, p), SecureBoot(h, q))
         /\ NoneForgiven(RevocationList(h, p), RevocationList(h, q))
         /\ NoneForgiven(TrustedPlatformModule(h, p), TrustedPlatformModule(h, q))
         /\ NoneForgiven(BootEntries(h, p), BootEntries(h, q))
         /\ NoneForgiven(EspPermissions(h, p), EspPermissions(h, q))
<1> DEFINE Used == {"no_uefi", "secure_boot_setup_mode", "secure_boot_off", "no_dbx",
                    "no_tpm", "no_measured_boot", "boot_order_unexpected",
                    "esp_permissions"}
<1>1. \A key \in Used : p.sev[key] \in Int /\ q.sev[key] \in Int /\ p.sev[key] <= q.sev[key]
  <2>1. Used \subseteq DOMAIN BaseSeverities
    BY Zenon DEF BaseSeverities, Rated
  <2> QED BY <2>1 DEF Milder
<1>2. NoneForgiven(BootMode(h, p), BootMode(h, q))
  BY <1>1, Harder, Worth DEF BootMode
<1>3. NoneForgiven(SecureBoot(h, p), SecureBoot(h, q))
  BY <1>1, Harder, Worth DEF SecureBoot
<1>4. NoneForgiven(RevocationList(h, p), RevocationList(h, q))
  BY <1>1, Harder, Worth DEF RevocationList
<1>5. NoneForgiven(TrustedPlatformModule(h, p), TrustedPlatformModule(h, q))
  BY <1>1, Harder, Worth DEF TrustedPlatformModule
<1>6. NoneForgiven(BootEntries(h, p), BootEntries(h, q))
  <2>1. /\ Borne(Found("firmware.boot-entries.removable-first", p.sev.boot_order_unexpected),
                 Found("firmware.boot-entries.removable-first", q.sev.boot_order_unexpected))
        /\ Borne(Found("firmware.boot-entries.unexpected-current", INFO),
                 Found("firmware.boot-entries.unexpected-current", INFO))
        /\ Borne(Passed("firmware.boot-entries.order"), Passed("firmware.boot-entries.order"))
        /\ Borne(FoundIf(h.bootNext = "set", "firmware.boot-entries.bootnext", LOW),
                 FoundIf(h.bootNext = "set", "firmware.boot-entries.bootnext", LOW))
    BY <1>1, Harder, Worth
  <2> QED BY <2>1, Harder, BorneBoth DEF BootEntries
<1>7. NoneForgiven(EspPermissions(h, p), EspPermissions(h, q))
  <2>1. Borne(Found("firmware.esp.world-writable", AtLeast(p.sev.esp_permissions, CRITICAL)),
              Found("firmware.esp.world-writable", AtLeast(q.sev.esp_permissions, CRITICAL)))
    <3>1. /\ AtLeast(p.sev.esp_permissions, CRITICAL) \in Int /\ AtLeast(q.sev.esp_permissions, CRITICAL) \in Int
          /\ AtLeast(p.sev.esp_permissions, CRITICAL) <= AtLeast(q.sev.esp_permissions, CRITICAL)
      BY <1>1, Worth DEF AtLeast
    <3> QED BY <3>1, Harder
  <2>2. Borne(Found("firmware.esp.readable", INFO), Found("firmware.esp.readable", INFO))
    BY Harder, Worth
  <2> QED BY <2>1, <2>2, Harder DEF EspPermissions
<1> QED BY <1>2, <1>3, <1>4, <1>5, <1>6, <1>7

\* The same of every check of the kernel's defences.
LEMMA HardeningHarder ==
  ASSUME NEW h, NEW p, NEW q, Milder(p, q)
  PROVE  /\ NoneForgiven(SysctlExpectations(h, p), SysctlExpectations(h, q))
         /\ NoneForgiven(MandatoryAccessControl(h, p), MandatoryAccessControl(h, q))
         /\ NoneForgiven(UserNamespaces(h, p), UserNamespaces(h, q))
         /\ NoneForgiven(CoreDumps(h, p), CoreDumps(h, q))
<1> DEFINE Used == {"sysctl_weak", "no_mac_lsm", "unprivileged_userns", "suid_dumpable"}
<1>1. \A key \in Used : p.sev[key] \in Int /\ q.sev[key] \in Int /\ p.sev[key] <= q.sev[key]
  <2>1. Used \subseteq DOMAIN BaseSeverities
    BY Zenon DEF BaseSeverities, Rated
  <2> QED BY <2>1 DEF Milder
<1>2. NoneForgiven(SysctlExpectations(h, p), SysctlExpectations(h, q))
  <2> DEFINE absent == {k \in DOMAIN Expectations : h.sysctl[k] = NoValue}
             weak == {k \in DOMAIN Expectations \ absent : h.sysctl[k] \notin Expectations[k]}
             Weak(r) == {[id |-> "hardening.sysctl." \o k, sev |-> r.sev.sysctl_weak] : k \in weak}
  <2>1. Borne(Weak(p), Weak(q))
    <3> HIDE DEF weak
    <3>1. SUFFICES ASSUME NEW f \in Weak(p)
                   PROVE  \E g \in Weak(q) : g.id = f.id /\ g.sev >= f.sev
      BY DEF Borne
    <3>2. PICK k \in weak : f = [id |-> "hardening.sysctl." \o k, sev |-> p.sev.sysctl_weak]
      OBVIOUS
    <3>3. [id |-> "hardening.sysctl." \o k, sev |-> q.sev.sysctl_weak] \in Weak(q)
      OBVIOUS
    <3> QED BY <1>1, <3>2, <3>3
  <2>2. Borne(FoundIf(absent # {}, "hardening.sysctl.absent", INFO),
              FoundIf(absent # {}, "hardening.sysctl.absent", INFO))
    BY Harder, Worth
  <2>3. /\ SysctlExpectations(h, p) =
             IF weak = {} THEN Yield(Passed("hardening.sysctl.all"))
             ELSE Yield(Weak(p) \cup FoundIf(absent # {}, "hardening.sysctl.absent", INFO))
        /\ SysctlExpectations(h, q) =
             IF weak = {} THEN Yield(Passed("hardening.sysctl.all"))
             ELSE Yield(Weak(q) \cup FoundIf(absent # {}, "hardening.sysctl.absent", INFO))
    BY Zenon DEF SysctlExpectations
  <2> HIDE DEF absent, weak, Weak
  <2> QED BY <2>1, <2>2, <2>3, Harder, BorneBoth
<1>3. NoneForgiven(MandatoryAccessControl(h, p), MandatoryAccessControl(h, q))
  BY <1>1, Harder, Worth DEF MandatoryAccessControl
<1>4. NoneForgiven(UserNamespaces(h, p), UserNamespaces(h, q))
  BY <1>1, Harder, Worth DEF UserNamespaces
<1>5. NoneForgiven(CoreDumps(h, p), CoreDumps(h, q))
  BY <1>1, Harder, Worth DEF CoreDumps, CheckFailed
<1> QED BY <1>2, <1>3, <1>4, <1>5

\* What is listed by age or by time is listed by a number.
Aged(h) == \A k \in h.kernelImages : h[k] \in Int
Timed(h) ==
  /\ \A score \in h.exposure : score \in Int
  /\ h.bootSeconds \in Int /\ h.firmwareSeconds \in Int
  /\ \A u \in h.blame : u.secs \in Int /\ u.length \in Nat

\* The slowest units are units that were listed: of the devices that waited as long as each
\* other the one with the shortest name, and there is one.
LEMMA SlowestListed ==
  ASSUME NEW h, \A u \in h.blame : u.length \in Nat
  PROVE  SlowestUnits(h) \subseteq h.blame
<1> DEFINE devices == {u \in h.blame : u.kind = "device"}
           Shortest(same) == CHOOSE u \in same : \A v \in same : u.length <= v.length
           Same(u) == {v \in devices : v.secs = u.secs}
<1>1. ASSUME NEW u \in devices PROVE Shortest(Same(u)) \in h.blame
  <2>1. \E d \in Same(u) : \A v \in Same(u) : d.length <= v.length
    <3> DEFINE lengths == {v.length : v \in Same(u)}
    <3>1. lengths \subseteq Nat /\ lengths # {}
      OBVIOUS
    <3>2. IsWellFoundedOn({ss \in Nat \X Nat : ss[1] < ss[2]}, Nat)
      BY NatLessThanWellFounded DEF OpToRel
    <3>3. PICK n \in lengths : \A m \in lengths : <<m, n>> \notin {ss \in Nat \X Nat : ss[1] < ss[2]}
      BY <3>1, <3>2, WFMin
    <3>4. ASSUME NEW m \in lengths PROVE n <= m
      <4>1. m \in Nat /\ n \in Nat
        BY <3>1
      <4>2. ~ m < n
        <5> HIDE DEF lengths
        <5> QED BY <3>3, <4>1
      <4> QED BY <4>1, <4>2
    <3> QED BY <3>4
  <2> QED BY <2>1
<1>2. SlowestUnits(h) = (h.blame \ devices) \cup {Shortest(Same(u)) : u \in devices}
  BY Zenon DEF SlowestUnits
<1> HIDE DEF Shortest, Same
<1> QED BY <1>1, <1>2

\* The same of every check of the boot chain; an initramfs that is stale stays so under a
\* lower limit.
LEMMA BootChainHarder ==
  ASSUME NEW h, NEW p, NEW q, Milder(p, q)
  PROVE  /\ NoneForgiven(Bootloader(h, p), Bootloader(h, q)) /\ NoneForgiven(GrubPassword(h, p), GrubPassword(h, q))
         /\ NoneForgiven(BootPermissions(h, p), BootPermissions(h, q))
         /\ Aged(h) => NoneForgiven(Initramfs(h, p), Initramfs(h, q))
         /\ NoneForgiven(DiskEncryption(h, p), DiskEncryption(h, q))
         /\ NoneForgiven(MountOptions(h, p), MountOptions(h, q))
         /\ NoneForgiven(RemovableBoot(h, p), RemovableBoot(h, q))
<1> DEFINE Used == {"grub_no_password", "boot_world_writable", "boot_permissions",
                    "initramfs_stale", "no_root_encryption", "unencrypted_swap",
                    "mount_options_weak", "boot_on_removable"}
<1>1. \A key \in Used : p.sev[key] \in Int /\ q.sev[key] \in Int /\ p.sev[key] <= q.sev[key]
  <2>1. Used \subseteq DOMAIN BaseSeverities
    BY Zenon DEF BaseSeverities, Rated
  <2> QED BY <2>1 DEF Milder
<1>2. NoneForgiven(Bootloader(h, p), Bootloader(h, q))
  BY Harder, Worth DEF Bootloader
<1>3. NoneForgiven(GrubPassword(h, p), GrubPassword(h, q))
  BY <1>1, Harder, Worth DEF GrubPassword
<1>4. NoneForgiven(BootPermissions(h, p), BootPermissions(h, q))
  <2> DEFINE Writable(r) == FoundIf("world writable" \in h.bootEntries, "bootchain.permissions.world-writable",
                                    AtLeast(r.sev.boot_world_writable, CRITICAL))
             NotRoot(r) == FoundIf("not root" \in h.bootEntries, "bootchain.permissions.not-root-owned",
                                   r.sev.boot_permissions)
             Group(r) == FoundIf("group writable" \in h.bootEntries, "bootchain.permissions.group-writable",
                                 r.sev.boot_permissions)
             clean == FoundIf(h.bootEntries \subseteq {"fine"}, "bootchain.permissions.clean", PASS)
  <2>1. /\ Borne(Writable(p), Writable(q)) /\ Borne(NotRoot(p), NotRoot(q))
        /\ Borne(Group(p), Group(q)) /\ Borne(clean, clean)
    <3>1. /\ AtLeast(p.sev.boot_world_writable, CRITICAL) \in Int /\ AtLeast(q.sev.boot_world_writable, CRITICAL) \in Int
          /\ AtLeast(p.sev.boot_world_writable, CRITICAL) <= AtLeast(q.sev.boot_world_writable, CRITICAL)
      BY <1>1, Worth DEF AtLeast
    <3> QED BY <1>1, <3>1, Harder
  <2>2. /\ BootPermissions(h, p) = IF h.bootDir = "absent" THEN Skip
                                   ELSE Yield(Writable(p) \cup NotRoot(p) \cup Group(p) \cup clean)
        /\ BootPermissions(h, q) = IF h.bootDir = "absent" THEN Skip
                                   ELSE Yield(Writable(q) \cup NotRoot(q) \cup Group(q) \cup clean)
    BY Zenon DEF BootPermissions
  <2> HIDE DEF Writable, NotRoot, Group, clean
  <2> QED BY <2>1, <2>2, Harder, BorneBoth
<1>5. ASSUME Aged(h) PROVE NoneForgiven(Initramfs(h, p), Initramfs(h, q))
  <2> DEFINE ages == {h[k] : k \in h.kernelImages}
             missing == Missing \in ages
             Old(r) == \E a \in ages : a > r.limit.initramfs_stale_days
             gone == FoundIf(missing, "bootchain.initramfs.missing", INFO)
             Stale(r) == FoundIf(Old(r), "bootchain.initramfs.stale", r.sev.initramfs_stale)
             Current(r) == FoundIf(~missing /\ ~Old(r), "bootchain.initramfs.current", PASS)
  <2>1. /\ p.limit.initramfs_stale_days \in Int /\ q.limit.initramfs_stale_days \in Int
        /\ q.limit.initramfs_stale_days <= p.limit.initramfs_stale_days
    BY DEF Milder, BaseThresholds
  <2>2. \A a \in ages : a \in Int
    BY <1>5 DEF Aged
  <2>3. Old(p) => Old(q)
    BY <2>1, <2>2
  <2>4. Borne(gone, gone) /\ Borne(Stale(p), Stale(q)) /\ Borne(Current(p), Current(q))
    <3> HIDE DEF Old, missing
    <3> QED BY <1>1, <2>3, Harder, Worth
  <2>5. /\ Initramfs(h, p) = IF h.kernelImages = {} THEN Skip ELSE Yield(gone \cup Stale(p) \cup Current(p))
        /\ Initramfs(h, q) = IF h.kernelImages = {} THEN Skip ELSE Yield(gone \cup Stale(q) \cup Current(q))
    BY Zenon DEF Initramfs
  <2> HIDE DEF gone, Stale, Current
  <2> QED BY <2>4, <2>5, Harder, BorneBoth
<1>6. NoneForgiven(DiskEncryption(h, p), DiskEncryption(h, q))
  <2> DEFINE Root(r) == IF IsEncrypted(h.rootUuid) THEN Passed("bootchain.encryption.root")
                        ELSE Found("bootchain.encryption.none", r.sev.no_root_encryption)
             Home(r) == FoundIf(IsEncrypted(h.rootUuid) /\ h.homeUuid \notin {"no mount", "CRYPT"},
                                "bootchain.encryption.home-plain", AtLeast(r.sev.no_root_encryption, MEDIUM))
  <2>1. Borne(Root(p), Root(q))
    BY <1>1, Harder, Worth
  <2>2. Borne(Home(p), Home(q))
    <3>1. /\ AtLeast(p.sev.no_root_encryption, MEDIUM) \in Int /\ AtLeast(q.sev.no_root_encryption, MEDIUM) \in Int
          /\ AtLeast(p.sev.no_root_encryption, MEDIUM) <= AtLeast(q.sev.no_root_encryption, MEDIUM)
      BY <1>1, Worth DEF AtLeast
    <3> QED BY <3>1, Harder
  <2>3. Borne(SwapFindings(h, p), SwapFindings(h, q))
    <3>1. Borne({}, {})
      BY DEF Borne
    <3> QED BY <1>1, <3>1, Harder, Worth DEF SwapFindings
  <2>4. /\ DiskEncryption(h, p) = IF h.mountinfo = "unread" THEN Skip
                                  ELSE Yield(Root(p) \cup Home(p) \cup SwapFindings(h, p))
        /\ DiskEncryption(h, q) = IF h.mountinfo = "unread" THEN Skip
                                  ELSE Yield(Root(q) \cup Home(q) \cup SwapFindings(h, q))
    BY Zenon DEF DiskEncryption
  <2> HIDE DEF Root, Home
  <2> QED BY <2>1, <2>2, <2>3, <2>4, Harder, BorneBoth
<1>7. NoneForgiven(MountOptions(h, p), MountOptions(h, q))
  BY <1>1, Harder, Worth DEF MountOptions
<1>8. NoneForgiven(RemovableBoot(h, p), RemovableBoot(h, q))
  BY <1>1, Harder, Worth DEF RemovableBoot
<1> QED BY <1>2, <1>3, <1>4, <1>5, <1>6, <1>7, <1>8

\* The same of every check of the services; what is too slow or too exposed stays so under
\* a lower limit.
LEMMA ServiceHarder ==
  ASSUME NEW h, NEW p, NEW q, Milder(p, q)
  PROVE  /\ NoneForgiven(FailedUnits(h, p), FailedUnits(h, q)) /\ NoneForgiven(SystemState(h, p), SystemState(h, q))
         /\ NoneForgiven(LocalOverrides(h, p), LocalOverrides(h, q))
         /\ NoneForgiven(MaskedUnits(h, p), MaskedUnits(h, q))
         /\ (\A score \in h.exposure : score \in Int) => NoneForgiven(ServiceExposure(h, p), ServiceExposure(h, q))
         /\ h.bootSeconds \in Int => NoneForgiven(TotalTime(h, p), TotalTime(h, q))
         /\ (\A u \in h.blame : u.secs \in Int /\ u.length \in Nat) =>
              NoneForgiven(DeviceWaits(h, p), DeviceWaits(h, q)) /\ NoneForgiven(SlowUnits(h, p), SlowUnits(h, q))
         /\ h.firmwareSeconds \in Int => NoneForgiven(FirmwareTime(h, p), FirmwareTime(h, q))
<1> DEFINE Used == {"failed_unit", "system_degraded", "unit_exposure",
                    "vendor_unit_overridden", "masked_security_unit", "boot_slow",
                    "device_timeout", "unit_slow", "firmware_slow"}
           Kept == {"exposure_unsafe", "boot_total_seconds", "unit_slow_seconds", "firmware_seconds"}
<1>1. \A key \in Used : p.sev[key] \in Int /\ q.sev[key] \in Int /\ p.sev[key] <= q.sev[key]
  <2>1. Used \subseteq DOMAIN BaseSeverities
    BY Zenon DEF BaseSeverities, Rated
  <2> QED BY <2>1 DEF Milder
<1>2. \A key \in Kept : p.limit[key] \in Int /\ q.limit[key] \in Int /\ q.limit[key] <= p.limit[key]
  <2>1. Kept \subseteq DOMAIN BaseThresholds
    BY DEF BaseThresholds
  <2> QED BY <2>1 DEF Milder
<1>3. NoneForgiven(FailedUnits(h, p), FailedUnits(h, q))
  <2> DEFINE Floor(u) == IF u \in SecurityUnits THEN HIGH ELSE MEDIUM
             Units(r) == {[id |-> "services.failed." \o u, sev |-> AtLeast(r.sev.failed_unit, Floor(u))] :
                             u \in h.failed.units}
  <2>1. Borne(Units(p), Units(q))
    <3>1. SUFFICES ASSUME NEW f \in Units(p)
                   PROVE  \E g \in Units(q) : g.id = f.id /\ g.sev >= f.sev
      BY DEF Borne
    <3>2. PICK u \in h.failed.units : f = [id |-> "services.failed." \o u, sev |-> AtLeast(p.sev.failed_unit, Floor(u))]
      OBVIOUS
    <3>3. /\ AtLeast(p.sev.failed_unit, Floor(u)) \in Int /\ AtLeast(q.sev.failed_unit, Floor(u)) \in Int
          /\ AtLeast(p.sev.failed_unit, Floor(u)) <= AtLeast(q.sev.failed_unit, Floor(u))
      <4>1. Floor(u) \in Int
        BY Worth
      <4> HIDE DEF Floor
      <4> QED BY <1>1, <4>1 DEF AtLeast
    <3>4. [id |-> "services.failed." \o u, sev |-> AtLeast(q.sev.failed_unit, Floor(u))] \in Units(q)
      OBVIOUS
    <3> QED BY <3>2, <3>3, <3>4
  <2>2. /\ FailedUnits(h, p) = IF h.failed.how = "refused" THEN Skip
             ELSE IF h.failed.units = {} THEN Yield(Passed("services.failed.none")) ELSE Yield(Units(p))
        /\ FailedUnits(h, q) = IF h.failed.how = "refused" THEN Skip
             ELSE IF h.failed.units = {} THEN Yield(Passed("services.failed.none")) ELSE Yield(Units(q))
    BY Zenon DEF FailedUnits
  <2> HIDE DEF Units
  <2> QED BY <2>1, <2>2, Harder
<1>4. NoneForgiven(SystemState(h, p), SystemState(h, q))
  BY <1>1, Harder, Worth DEF SystemState
<1>5. NoneForgiven(LocalOverrides(h, p), LocalOverrides(h, q))
  BY <1>1, Harder, Worth DEF LocalOverrides
<1>6. NoneForgiven(MaskedUnits(h, p), MaskedUnits(h, q))
  BY <1>1, Harder, Worth DEF MaskedUnits
<1>7. ASSUME \A score \in h.exposure : score \in Int
      PROVE  NoneForgiven(ServiceExposure(h, p), ServiceExposure(h, q))
  <2>1. (\E score \in h.exposure : score >= p.limit.exposure_unsafe) =>
          (\E score \in h.exposure : score >= q.limit.exposure_unsafe)
    BY <1>2, <1>7
  <2> QED BY <1>1, <2>1, Harder, Worth DEF ServiceExposure
<1>8. ASSUME h.bootSeconds \in Int PROVE NoneForgiven(TotalTime(h, p), TotalTime(h, q))
  <2>1. h.bootSeconds <= q.limit.boot_total_seconds => h.bootSeconds <= p.limit.boot_total_seconds
    BY <1>2, <1>8
  <2> QED BY <1>1, <2>1, Harder, Worth DEF TotalTime
<1>9. ASSUME \A u \in h.blame : u.secs \in Int /\ u.length \in Nat
      PROVE  NoneForgiven(DeviceWaits(h, p), DeviceWaits(h, q)) /\ NoneForgiven(SlowUnits(h, p), SlowUnits(h, q))
  <2>1. \A u \in SlowestUnits(h) : u \in h.blame
    BY <1>9, SlowestListed
  <2>2. SlowOnes(h, p) \subseteq SlowOnes(h, q)
    BY <1>2, <1>9, <2>1 DEF SlowOnes
  <2>3. NoneForgiven(DeviceWaits(h, p), DeviceWaits(h, q))
    BY <1>1, <2>2, Harder, Worth DEF DeviceWaits
  <2>4. NoneForgiven(SlowUnits(h, p), SlowUnits(h, q))
    BY <1>1, <2>2, Harder, Worth DEF SlowUnits
  <2> QED BY <2>3, <2>4
<1>10. ASSUME h.firmwareSeconds \in Int PROVE NoneForgiven(FirmwareTime(h, p), FirmwareTime(h, q))
  <2>1. h.firmwareSeconds <= q.limit.firmware_seconds => h.firmwareSeconds <= p.limit.firmware_seconds
    BY <1>2, <1>10
  <2> QED BY <1>1, <2>1, Harder, Worth DEF FirmwareTime
<1> QED BY <1>3, <1>4, <1>5, <1>6, <1>7, <1>8, <1>9, <1>10

\* What commands are weighed at.
LEMMA FlaggedHarder ==
  ASSUME NEW entries, NEW id, NEW p, NEW q, NEW key, p.sev[key] \in Int, q.sev[key] \in Int, p.sev[key] <= q.sev[key]
  PROVE  /\ Borne(Flagged(entries, id, p, key), Flagged(entries, id, q, key))
         /\ Flagged(entries, id, p, key) = {} <=> Flagged(entries, id, q, key) = {}
         /\ \A e : WeightOf(p, key, e) \in Int /\ WeightOf(q, key, e) \in Int /\ WeightOf(p, key, e) <= WeightOf(q, key, e)
<1>1. ASSUME NEW e PROVE WeightOf(p, key, e) \in Int /\ WeightOf(q, key, e) \in Int /\ WeightOf(p, key, e) <= WeightOf(q, key, e)
  BY Worth DEF WeightOf
<1>2. Borne(Flagged(entries, id, p, key), Flagged(entries, id, q, key))
  <2>1. SUFFICES ASSUME NEW f \in Flagged(entries, id, p, key)
                 PROVE  \E g \in Flagged(entries, id, q, key) : g.id = f.id /\ g.sev >= f.sev
    BY DEF Borne
  <2>2. PICK e \in entries : Notable(e) /\ f = [id |-> id, sev |-> WeightOf(p, key, e)]
    BY DEF Flagged
  <2>3. [id |-> id, sev |-> WeightOf(q, key, e)] \in Flagged(entries, id, q, key)
    BY <2>2 DEF Flagged
  <2> QED BY <1>1, <2>2, <2>3
<1>3. Flagged(entries, id, p, key) = {} <=> Flagged(entries, id, q, key) = {}
  BY DEF Flagged
<1> QED BY <1>1, <1>2, <1>3

\* The same of every check of what starts by itself.
LEMMA PersistenceHarder ==
  ASSUME NEW h, NEW p, NEW q, Milder(p, q)
  PROVE  /\ NoneForgiven(LibraryPreloading(h, p), LibraryPreloading(h, q))
         /\ NoneForgiven(SuspiciousUnits(h, p), SuspiciousUnits(h, q))
         /\ NoneForgiven(AutostartEntries(h, p), AutostartEntries(h, q))
         /\ NoneForgiven(ScheduledJobs(h, p), ScheduledJobs(h, q))
         /\ NoneForgiven(ShellProfiles(h, p), ShellProfiles(h, q))
         /\ NoneForgiven(KernelHooks(h, p), KernelHooks(h, q))
         /\ NoneForgiven(WritablePath(h, p), WritablePath(h, q))
<1> DEFINE Used == {"ld_preload", "unit_in_home", "suspicious_exec",
                    "autostart_suspicious", "cron_suspicious", "profile_script_suspicious",
                    "udev_run_rule", "modprobe_install_hook", "world_writable_path"}
<1>1. \A key \in Used : p.sev[key] \in Int /\ q.sev[key] \in Int /\ p.sev[key] <= q.sev[key]
  <2>1. Used \subseteq DOMAIN BaseSeverities
    BY Zenon DEF BaseSeverities, Rated
  <2> QED BY <2>1 DEF Milder
<1>2. NoneForgiven(LibraryPreloading(h, p), LibraryPreloading(h, q))
  <2>1. /\ AtLeast(p.sev.ld_preload, HIGH) \in Int /\ AtLeast(q.sev.ld_preload, HIGH) \in Int
        /\ AtLeast(p.sev.ld_preload, HIGH) <= AtLeast(q.sev.ld_preload, HIGH)
    BY <1>1, Worth DEF AtLeast
  <2> QED BY <2>1, Harder DEF LibraryPreloading
<1>3. NoneForgiven(SuspiciousUnits(h, p), SuspiciousUnits(h, q))
  <2> DEFINE units == CollectUnits(h)
             Flagging(r) == Flagged(units, "persistence.units.unit", r, "suspicious_exec")
             nonRoot == \E u \in units : u.origin = "system" /\ u.owner # "root"
             Owned(r) == FoundIf(nonRoot, "persistence.units.non-root-owned", r.sev.unit_in_home)
             Clean(r) == FoundIf(Flagging(r) = {} /\ ~nonRoot, "persistence.units.clean", PASS)
  <2>1. Borne(Flagging(p), Flagging(q))
    BY <1>1, FlaggedHarder
  <2>2. Borne(Owned(p), Owned(q)) /\ Borne(Clean(p), Clean(q))
    <3> HIDE DEF nonRoot, Flagging
    <3> QED BY <1>1, Harder
  <2>3. /\ SuspiciousUnits(h, p) = IF units = {} THEN Skip ELSE Yield(Flagging(p) \cup Owned(p) \cup Clean(p))
        /\ SuspiciousUnits(h, q) = IF units = {} THEN Skip ELSE Yield(Flagging(q) \cup Owned(q) \cup Clean(q))
    BY Zenon DEF SuspiciousUnits
  <2> HIDE DEF units, Flagging, Owned, Clean
  <2> QED BY <2>1, <2>2, <2>3, Harder, BorneBoth
<1>4. NoneForgiven(AutostartEntries(h, p), AutostartEntries(h, q))
  <2> DEFINE active == {e \in CollectAutostart(h) : e.enabled}
             Flagging(r) == Flagged(active, "persistence.autostart.entry", r, "autostart_suspicious")
             Clean(r) == FoundIf(Flagging(r) = {}, "persistence.autostart.clean", PASS)
  <2>1. Borne(Flagging(p), Flagging(q))
    BY <1>1, FlaggedHarder
  <2>2. Borne(Clean(p), Clean(q))
    BY Harder
  <2>3. /\ AutostartEntries(h, p) = IF h.autostart = {} THEN Skip ELSE Yield(Flagging(p) \cup Clean(p))
        /\ AutostartEntries(h, q) = IF h.autostart = {} THEN Skip ELSE Yield(Flagging(q) \cup Clean(q))
    BY Zenon DEF AutostartEntries
  <2> HIDE DEF Flagging, Clean
  <2> QED BY <2>1, <2>2, <2>3, Harder, BorneBoth
<1>5. NoneForgiven(ScheduledJobs(h, p), ScheduledJobs(h, q))
  <2> DEFINE entries == CollectCron(h)
             unreadable == \E f \in h.cron : f.file = "denied"
             Flagging(r) == Flagged(entries, "persistence.scheduled.job-" \o h.hashSeed, r, "cron_suspicious")
             denied == FoundIf(unreadable, "persistence.scheduled.unreadable", INFO)
             Clean(r) == FoundIf(Flagging(r) = {}, "persistence.scheduled.clean", PASS)
  <2>1. Borne(Flagging(p), Flagging(q))
    BY <1>1, FlaggedHarder
  <2>2. Borne(Clean(p), Clean(q)) /\ Borne(denied, denied)
    <3> HIDE DEF unreadable, Flagging
    <3> QED BY Harder, Worth
  <2>3. /\ ScheduledJobs(h, p) = IF entries = {} /\ ~unreadable THEN Skip
                                 ELSE Yield(Flagging(p) \cup denied \cup Clean(p))
        /\ ScheduledJobs(h, q) = IF entries = {} /\ ~unreadable THEN Skip
                                 ELSE Yield(Flagging(q) \cup denied \cup Clean(q))
    BY Zenon DEF ScheduledJobs
  <2> HIDE DEF entries, unreadable, Flagging, denied, Clean
  <2> QED BY <2>1, <2>2, <2>3, Harder, BorneBoth
<1>6. NoneForgiven(ShellProfiles(h, p), ShellProfiles(h, q))
  <2> DEFINE entries == CollectProfiles(h)
             Files(r) == {[id |-> "persistence.shell-profiles.file",
                           sev |-> WeightOf(r, "profile_script_suspicious", e)] : e \in entries}
  <2>1. Borne(Files(p), Files(q))
    <3> HIDE DEF entries
    <3>1. SUFFICES ASSUME NEW f \in Files(p)
                   PROVE  \E g \in Files(q) : g.id = f.id /\ g.sev >= f.sev
      BY DEF Borne
    <3>2. PICK e \in entries : f = [id |-> "persistence.shell-profiles.file",
                                    sev |-> WeightOf(p, "profile_script_suspicious", e)]
      OBVIOUS
    <3>3. [id |-> "persistence.shell-profiles.file",
           sev |-> WeightOf(q, "profile_script_suspicious", e)] \in Files(q)
      OBVIOUS
    <3>4. /\ WeightOf(p, "profile_script_suspicious", e) \in Int /\ WeightOf(q, "profile_script_suspicious", e) \in Int
          /\ WeightOf(p, "profile_script_suspicious", e) <= WeightOf(q, "profile_script_suspicious", e)
      BY <1>1, FlaggedHarder
    <3> QED BY <3>2, <3>3, <3>4
  <2>2. /\ ShellProfiles(h, p) = IF h.profiles = {} THEN Skip
             ELSE IF entries = {} THEN Yield(Passed("persistence.shell-profiles.clean")) ELSE Yield(Files(p))
        /\ ShellProfiles(h, q) = IF h.profiles = {} THEN Skip
             ELSE IF entries = {} THEN Yield(Passed("persistence.shell-profiles.clean")) ELSE Yield(Files(q))
    BY Zenon DEF ShellProfiles
  <2> HIDE DEF entries, Files
  <2> QED BY <2>1, <2>2, Harder
<1>7. NoneForgiven(KernelHooks(h, p), KernelHooks(h, q))
  <2> DEFINE udev == CollectUdev(h)
             modprobe == CollectModprobe(h)
             Rules(r) == Flagged(udev, "persistence.kernel-hooks.udev-rule", r, "udev_run_rule")
             Hooks(r) == Flagged(modprobe, "persistence.kernel-hooks.modprobe", r, "modprobe_install_hook")
             Present(r) == FoundIf(udev # {} /\ Rules(r) = {}, "persistence.kernel-hooks.udev-present", INFO)
  <2>1. /\ Borne(Rules(p), Rules(q)) /\ Borne(Hooks(p), Hooks(q))
        /\ Rules(p) = {} <=> Rules(q) = {}
    BY <1>1, FlaggedHarder
  <2>2. Borne(Present(p), Present(q))
    <3> HIDE DEF Rules, udev
    <3> QED BY <2>1, Harder, Worth
  <2>3. /\ KernelHooks(h, p) = IF udev = {} /\ modprobe = {} THEN Yield(Passed("persistence.kernel-hooks.none"))
                               ELSE Yield(Hooks(p) \cup Rules(p) \cup Present(p))
        /\ KernelHooks(h, q) = IF udev = {} /\ modprobe = {} THEN Yield(Passed("persistence.kernel-hooks.none"))
                               ELSE Yield(Hooks(q) \cup Rules(q) \cup Present(q))
    BY Zenon DEF KernelHooks
  <2> HIDE DEF udev, modprobe, Rules, Hooks, Present
  <2> QED BY <2>1, <2>2, <2>3, Harder, BorneBoth
<1>8. NoneForgiven(WritablePath(h, p), WritablePath(h, q))
  <2>1. /\ AtLeast(p.sev.world_writable_path, CRITICAL) \in Int /\ AtLeast(q.sev.world_writable_path, CRITICAL) \in Int
        /\ AtLeast(p.sev.world_writable_path, CRITICAL) <= AtLeast(q.sev.world_writable_path, CRITICAL)
    BY <1>1, Worth DEF AtLeast
  <2> QED BY <2>1, Harder DEF WritablePath
<1> QED BY <1>2, <1>3, <1>4, <1>5, <1>6, <1>7, <1>8

\* The same of the drift from the baseline and of the journal's errors.
LEMMA IntegrityHarder ==
  ASSUME NEW h, NEW p, NEW q, Milder(p, q)
  PROVE  /\ NoneForgiven(BaselineDrift(h, p), BaselineDrift(h, q))
         /\ h.journalErrors \in Int => NoneForgiven(JournalErrors(h, p), JournalErrors(h, q))
<1> DEFINE Used == {"baseline_drift_expected", "baseline_drift", "journal_errors"}
<1>1. \A key \in Used : p.sev[key] \in Int /\ q.sev[key] \in Int /\ p.sev[key] <= q.sev[key]
  <2>1. Used \subseteq DOMAIN BaseSeverities
    BY Zenon DEF BaseSeverities, Rated
  <2> QED BY <2>1 DEF Milder
<1>2. NoneForgiven(BaselineDrift(h, p), BaselineDrift(h, q))
  <2> DEFINE was == Record(h.was)
             now == Record(h.now)
             changes == Compare(was, now)
             update == LooksLikeAKernelUpdate(changes)
             mild == {c \in changes : c.kind \in SeriousKinds} = {}
             Weight(r) == IF update THEN r.sev.baseline_drift_expected ELSE r.sev.baseline_drift
             Worse(r) == IF mild /\ Weight(r) > LOW THEN LOW ELSE Weight(r)
             unhashed == FoundIf(UnhashedPaths(was, now) # {}, "integrity.baseline.unhashed", INFO)
  <2>1. Worse(p) \in Int /\ Worse(q) \in Int /\ Worse(p) <= Worse(q)
    <3> HIDE DEF update, mild
    <3> QED BY <1>1, Worth
  <2>2. Borne(unhashed, unhashed)
    <3> HIDE DEF was, now
    <3> QED BY Harder, Worth
  <2>3. Borne(Found("integrity.baseline.changed", Worse(p)), Found("integrity.baseline.changed", Worse(q)))
    <3> HIDE DEF Worse
    <3> QED BY <2>1, Harder
  <2>4. Borne(Found("integrity.baseline.none", INFO), Found("integrity.baseline.none", INFO))
    BY Harder, Worth
  <2>5. /\ BaselineDrift(h, p) = IF ~h.baselineTaken THEN Yield(Found("integrity.baseline.none", INFO))
             ELSE IF changes = {} THEN Yield(Passed("integrity.baseline.unchanged"))
             ELSE Yield(Found("integrity.baseline.changed", Worse(p)) \cup unhashed)
        /\ BaselineDrift(h, q) = IF ~h.baselineTaken THEN Yield(Found("integrity.baseline.none", INFO))
             ELSE IF changes = {} THEN Yield(Passed("integrity.baseline.unchanged"))
             ELSE Yield(Found("integrity.baseline.changed", Worse(q)) \cup unhashed)
    BY Zenon DEF BaselineDrift
  <2> HIDE DEF changes, Worse, unhashed
  <2> QED BY <2>2, <2>3, <2>4, <2>5, Harder, BorneBoth
<1>3. ASSUME h.journalErrors \in Int PROVE NoneForgiven(JournalErrors(h, p), JournalErrors(h, q))
  <2>1. /\ p.limit.journal_error_budget \in Int /\ q.limit.journal_error_budget \in Int
        /\ q.limit.journal_error_budget <= p.limit.journal_error_budget
    BY DEF Milder, BaseThresholds
  <2>2. h.journalErrors <= q.limit.journal_error_budget => h.journalErrors <= p.limit.journal_error_budget
    BY <1>3, <2>1
  <2> QED BY <1>1, <2>2, Harder DEF JournalErrors
<1> QED BY <1>2, <1>3

\* A check the user wrote asks no policy.
LEMMA CustomHarder ==
  ASSUME NEW h, NEW p, NEW q
  PROVE  NoneForgiven(Evaluate(h, p), Evaluate(h, q))
<1>1. Evaluate(h, p) = Evaluate(h, q)
  BY Zenon DEF Evaluate
<1>2. /\ NoneForgiven(Skip, Skip)
      /\ NoneForgiven(Yield(Passed("site.check.ok")), Yield(Passed("site.check.ok")))
      /\ NoneForgiven(Yield(Found("site.check.failed", MEDIUM)), Yield(Found("site.check.failed", MEDIUM)))
  BY Harder, Worth
<1>3. Evaluate(h, p) \in {Skip, Yield(Passed("site.check.ok")), Yield(Found("site.check.failed", MEDIUM))}
  BY Zenon DEF Evaluate
<1> QED BY <1>1, <1>2, <1>3

\* Each of the four presets is at least as hard as the one before, entry by entry.
LEMMA PresetsHarden ==
  \A i \in 1..3 : Milder(Policy[Presets[i]], Policy[Presets[i + 1]])
<1>1. \A k \in DOMAIN BaseSeverities : BaseSeverities[k] \in Int
  BY Worth DEF BaseSeverities, Rated
<1>2. \A k \in DOMAIN RelaxedSeverities : RelaxedSeverities[k] \in Int /\ RelaxedSeverities[k] <= BaseSeverities[k]
  BY Worth DEF BaseSeverities, RelaxedSeverities, Rated
<1>3. \A k \in DOMAIN StrictSeverities : StrictSeverities[k] \in Int /\ BaseSeverities[k] <= StrictSeverities[k]
  BY Worth DEF BaseSeverities, StrictSeverities, Rated
<1>4. \A k \in DOMAIN ParanoidSeverities : ParanoidSeverities[k] \in Int /\ BaseSeverities[k] <= ParanoidSeverities[k]
  BY Worth DEF BaseSeverities, ParanoidSeverities, Rated
<1>5. \A k \in DOMAIN StrictSeverities :
         k \in DOMAIN ParanoidSeverities /\ StrictSeverities[k] <= ParanoidSeverities[k]
  BY Worth DEF ParanoidSeverities, StrictSeverities, Rated
<1>6. \A k \in DOMAIN BaseThresholds :
         /\ BaseThresholds[k] \in Int
         /\ Overlaid(RelaxedThresholds, BaseThresholds)[k] \in Int
         /\ BaseThresholds[k] <= Overlaid(RelaxedThresholds, BaseThresholds)[k]
         /\ Overlaid(StrictThresholds, BaseThresholds)[k] \in Int
         /\ Overlaid(StrictThresholds, BaseThresholds)[k] <= BaseThresholds[k]
         /\ Overlaid(ParanoidThresholds, BaseThresholds)[k] \in Int
         /\ Overlaid(ParanoidThresholds, BaseThresholds)[k] <= Overlaid(StrictThresholds, BaseThresholds)[k]
  BY DEF Overlaid, BaseThresholds, RelaxedThresholds, StrictThresholds, ParanoidThresholds
<1>7. \A k \in DOMAIN BaseSeverities :
         /\ Overlaid(RelaxedSeverities, BaseSeverities)[k] \in Int
         /\ Overlaid(RelaxedSeverities, BaseSeverities)[k] <= BaseSeverities[k]
         /\ Overlaid(StrictSeverities, BaseSeverities)[k] \in Int
         /\ BaseSeverities[k] <= Overlaid(StrictSeverities, BaseSeverities)[k]
         /\ Overlaid(ParanoidSeverities, BaseSeverities)[k] \in Int
         /\ Overlaid(StrictSeverities, BaseSeverities)[k] <= Overlaid(ParanoidSeverities, BaseSeverities)[k]
  <2> HIDE DEF BaseSeverities, RelaxedSeverities, StrictSeverities, ParanoidSeverities
  <2> QED BY <1>1, <1>2, <1>3, <1>4, <1>5 DEF Overlaid
<1>8. /\ Milder(Policy.relaxed, Policy.balanced) /\ Milder(Policy.balanced, Policy.strict)
      /\ Milder(Policy.strict, Policy.paranoid)
  BY <1>1, <1>6, <1>7 DEF Milder, Policy
<1>9. /\ Presets[1] = "relaxed" /\ Presets[2] = "balanced" /\ Presets[3] = "strict" /\ Presets[4] = "paranoid"
  BY DEF Presets
<1> QED BY <1>8, <1>9

-----------------------------------------------------------------------------
\* No check says worse than the catalogue declares.

\* What the strictest preset weighs things at.
Strictest(p) ==
  /\ \A key \in {"boot_world_writable", "secure_boot_setup_mode", "secure_boot_off"} :
       p.sev[key] = CRITICAL
  /\ \A key \in {"kernel_tainted_serious", "cmdline_risky", "cpu_vulnerable",
                "initramfs_missing", "ld_preload", "suspicious_exec",
                "autostart_suspicious", "cron_suspicious", "profile_script_suspicious",
                "modprobe_install_hook", "world_writable_path", "boot_permissions",
                "unencrypted_swap", "masked_security_unit", "baseline_drift", "no_tpm",
                "no_dbx", "lockdown_none", "module_signing_off", "unsigned_modules",
                "no_iommu", "no_mac_lsm", "no_root_encryption"} :
       p.sev[key] = HIGH
  /\ \A key \in {"esp_permissions", "microcode_stale", "stale_running_kernel",
                "suid_dumpable", "initramfs_stale", "boot_on_removable", "failed_unit",
                "unit_in_home", "device_timeout", "no_uefi", "kernel_tainted_modules",
                "sysctl_weak", "grub_no_password", "mount_options_weak",
                "system_degraded", "vendor_unit_overridden", "udev_run_rule",
                "boot_slow", "journal_errors", "no_measured_boot", "kexec_enabled",
                "unprivileged_userns"} :
       p.sev[key] = MEDIUM
  /\ \A key \in {"boot_order_unexpected", "unit_exposure", "unit_slow"} :
       p.sev[key] = LOW
  /\ \A key \in {"firmware_slow", "baseline_drift_expected"} :
       p.sev[key] = INFO

AtMost(found, worst) == \A f \in found : f.sev <= worst

\* The strictest preset is one of them.
LEMMA ParanoidIsStrictest == Strictest(Policy.paranoid)
BY DEF Strictest, Policy, Overlaid, BaseSeverities, ParanoidSeverities, Rated

\* Found under a ceiling, together or not.
LEMMA Ceilings ==
  /\ \A w : AtMost(Skip.found, w) /\ AtMost({}, w)
  /\ \A found : Yield(found).found = found
  /\ \A id, sev, w : sev <= w => AtMost(Found(id, sev), w)
  /\ \A id, w : w \in {LOW, MEDIUM, HIGH, CRITICAL} => AtMost(Passed(id), w) /\ AtMost(CheckFailed(id).found, w)
  /\ \A id, a, b, w : a <= w /\ b <= w => AtMost(Found(id, AtLeast(a, b)), w)
  /\ \A cond, id, sev, w : AtMost(Found(id, sev), w) => AtMost(FoundIf(cond, id, sev), w)
  /\ \A a, b, w : AtMost(a, w) /\ AtMost(b, w) => AtMost(a \cup b, w)
BY Worth DEF AtMost, Skip, Yield, Found, Passed, CheckFailed, FoundIf, AtLeast

\* No command is weighed above its ceiling.
LEMMA FlaggedBounded ==
  ASSUME NEW entries, NEW id, NEW p, NEW key, p.sev[key] \in Int, p.sev[key] <= HIGH
  PROVE  AtMost(Flagged(entries, id, p, key), HIGH)
BY Worth DEF AtMost, Flagged, WeightOf

\* Under the strictest policy no check of the kernel says worse than the catalogue declares.
LEMMA KernelBounded ==
  ASSUME NEW h, NEW p, Strictest(p)
  PROVE  /\ AtMost(Taint(h, p).found, HIGH) /\ AtMost(Lockdown(h, p).found, HIGH)
         /\ AtMost(ModuleSigning(h, p).found, HIGH) /\ AtMost(RiskyCmdline(h, p).found, HIGH)
         /\ AtMost(CpuMitigations(h, p).found, HIGH) /\ AtMost(Microcode(h, p).found, HIGH)
         /\ AtMost(Iommu(h, p).found, HIGH) /\ AtMost(RunningVersion(h, p).found, HIGH)
         /\ AtMost(Kexec(h, p).found, MEDIUM)
<1>1. /\ p.sev.kernel_tainted_serious = HIGH
      /\ p.sev.lockdown_none = HIGH
      /\ p.sev.module_signing_off = HIGH
      /\ p.sev.cmdline_risky = HIGH
      /\ p.sev.no_iommu = HIGH
      /\ p.sev.cpu_vulnerable = HIGH
      /\ p.sev.kernel_tainted_modules = MEDIUM
      /\ p.sev.microcode_stale = MEDIUM
      /\ p.sev.stale_running_kernel = MEDIUM
      /\ p.sev.kexec_enabled = MEDIUM
  BY DEF Strictest
<1>2. AtMost(Taint(h, p).found, HIGH)
  <2>1. /\ AtMost(Passed("kernel.taint.clean"), HIGH)
        /\ AtMost(Found("kernel.taint.fault", p.sev.kernel_tainted_serious), HIGH)
        /\ AtMost(Found("kernel.taint.modules", p.sev.kernel_tainted_modules), HIGH)
        /\ AtMost(Found("kernel.taint.note", INFO), HIGH)
    BY <1>1, Worth, Ceilings
  <2> QED BY <2>1, Ceilings DEF Taint, FoundIf
<1>3. AtMost(Lockdown(h, p).found, HIGH)
  BY <1>1, Ceilings, Worth DEF Lockdown
<1>4. AtMost(ModuleSigning(h, p).found, HIGH)
  BY <1>1, Ceilings, Worth DEF ModuleSigning
<1>5. AtMost(RiskyCmdline(h, p).found, HIGH)
  <2>1. \A risky \in RiskyParameters : p.sev[risky.key] <= HIGH /\ risky.floor <= HIGH
    BY <1>1, Worth DEF RiskyParameters
  <2> DEFINE hits == {risky \in RiskyParameters : risky.word \in h.cmdline}
             Hit(risky) == [id |-> "kernel.cmdline." \o risky.word,
                            sev |-> AtLeast(p.sev[risky.key], risky.floor)]
  <2>2. AtMost({Hit(risky) : risky \in hits}, HIGH)
    BY <2>1 DEF AtMost, AtLeast
  <2>3. AtMost(Found("kernel.cmdline.emergency", AtLeast(p.sev.cmdline_risky, HIGH)), HIGH)
    BY <1>1, Worth, Ceilings
  <2>4. AtMost(Found("kernel.cmdline.clean", PASS), HIGH)
    BY Worth, Ceilings
  <2> DEFINE emergency == h.cmdline \cap EmergencyWords # {}
             all == FoundIf(emergency, "kernel.cmdline.emergency", AtLeast(p.sev.cmdline_risky, HIGH))
                    \cup {Hit(risky) : risky \in hits}
                    \cup FoundIf(hits = {} /\ ~emergency, "kernel.cmdline.clean", PASS)
  <2>5. AtMost(all, HIGH)
    <3> HIDE DEF hits, Hit, emergency
    <3> QED BY <2>2, <2>3, <2>4, Ceilings DEF FoundIf
  <2>6. AtMost(Yield(all).found, HIGH) /\ AtMost(Skip.found, HIGH)
    BY <2>5, Ceilings
  <2>7. RiskyCmdline(h, p) = IF h.cmdline = {"unread"} THEN Skip ELSE Yield(all)
    BY Zenon DEF RiskyCmdline
  <2> HIDE DEF all
  <2> QED BY <2>6, <2>7
<1>6. AtMost(CpuMitigations(h, p).found, HIGH)
  BY <1>1, Ceilings, Worth DEF CpuMitigations
<1>7. AtMost(Microcode(h, p).found, HIGH)
  BY <1>1, Ceilings, Worth DEF Microcode
<1>8. AtMost(Iommu(h, p).found, HIGH)
  BY <1>1, Ceilings, Worth DEF Iommu
<1>9. AtMost(RunningVersion(h, p).found, HIGH)
  BY <1>1, Ceilings, Worth DEF RunningVersion
<1>10. AtMost(Kexec(h, p).found, MEDIUM)
  BY <1>1, Ceilings, Worth DEF Kexec
<1> QED BY <1>2, <1>3, <1>4, <1>5, <1>6, <1>7, <1>8, <1>9, <1>10

\* The same of every check of the firmware.
LEMMA FirmwareBounded ==
  ASSUME NEW h, NEW p, Strictest(p)
  PROVE  /\ AtMost(BootMode(h, p).found, MEDIUM) /\ AtMost(SecureBoot(h, p).found, CRITICAL)
         /\ AtMost(RevocationList(h, p).found, HIGH) /\ AtMost(TrustedPlatformModule(h, p).found, HIGH)
         /\ AtMost(BootEntries(h, p).found, MEDIUM) /\ AtMost(EspPermissions(h, p).found, CRITICAL)
<1>1. /\ p.sev.secure_boot_setup_mode = CRITICAL
      /\ p.sev.secure_boot_off = CRITICAL
      /\ p.sev.no_dbx = HIGH
      /\ p.sev.no_tpm = HIGH
      /\ p.sev.no_uefi = MEDIUM
      /\ p.sev.no_measured_boot = MEDIUM
      /\ p.sev.esp_permissions = MEDIUM
      /\ p.sev.boot_order_unexpected = LOW
  BY DEF Strictest
<1>2. AtMost(BootMode(h, p).found, MEDIUM)
  BY <1>1, Ceilings, Worth DEF BootMode
<1>3. AtMost(SecureBoot(h, p).found, CRITICAL)
  BY <1>1, Ceilings, Worth DEF SecureBoot
<1>4. AtMost(RevocationList(h, p).found, HIGH)
  BY <1>1, Ceilings, Worth DEF RevocationList
<1>5. AtMost(TrustedPlatformModule(h, p).found, HIGH)
  BY <1>1, Ceilings, Worth DEF TrustedPlatformModule
<1>6. AtMost(BootEntries(h, p).found, MEDIUM)
  <2>1. /\ AtMost(Found("firmware.boot-entries.removable-first", p.sev.boot_order_unexpected), MEDIUM)
        /\ AtMost(Found("firmware.boot-entries.unexpected-current", INFO), MEDIUM)
        /\ AtMost(Passed("firmware.boot-entries.order"), MEDIUM)
        /\ AtMost(Found("firmware.boot-entries.bootnext", LOW), MEDIUM)
    BY <1>1, Worth, Ceilings
  <2>2. AtMost(FoundIf(h.bootNext = "set", "firmware.boot-entries.bootnext", LOW), MEDIUM)
    BY <2>1, Ceilings DEF FoundIf
  <2> DEFINE verdict ==
               IF h.bootOrder = "usb first"
               THEN Found("firmware.boot-entries.removable-first", p.sev.boot_order_unexpected)
               ELSE IF h.bootOrder # "empty" /\ h.bootCurrent = "another"
               THEN Found("firmware.boot-entries.unexpected-current", INFO)
               ELSE Passed("firmware.boot-entries.order")
             waiting == FoundIf(h.bootNext = "set", "firmware.boot-entries.bootnext", LOW)
  <2>3. AtMost(verdict, MEDIUM)
    BY <2>1
  <2>4. BootEntries(h, p) = IF ~IsUefi(h) \/ h.efibootmgr = "unread" THEN Skip ELSE Yield(verdict \cup waiting)
    BY Zenon DEF BootEntries
  <2> HIDE DEF verdict, waiting
  <2>5. AtMost(verdict \cup waiting, MEDIUM)
    BY <2>2, <2>3 DEF AtMost, waiting
  <2> QED BY <2>4, <2>5, Ceilings
<1>7. AtMost(EspPermissions(h, p).found, CRITICAL)
  <2>1. /\ AtMost(Found("firmware.esp.world-writable", AtLeast(p.sev.esp_permissions, CRITICAL)), CRITICAL)
        /\ AtMost(Found("firmware.esp.readable", INFO), CRITICAL)
        /\ AtMost(Passed("firmware.esp.restricted"), CRITICAL)
    BY <1>1, Worth, Ceilings
  <2> QED BY <2>1, Ceilings DEF EspPermissions
<1> QED BY <1>2, <1>3, <1>4, <1>5, <1>6, <1>7

\* The same of every check of the kernel's defences.
LEMMA HardeningBounded ==
  ASSUME NEW h, NEW p, Strictest(p)
  PROVE  /\ AtMost(SysctlExpectations(h, p).found, MEDIUM) /\ AtMost(MandatoryAccessControl(h, p).found, HIGH)
         /\ AtMost(UserNamespaces(h, p).found, MEDIUM) /\ AtMost(CoreDumps(h, p).found, MEDIUM)
<1>1. /\ p.sev.no_mac_lsm = HIGH
      /\ p.sev.sysctl_weak = MEDIUM
      /\ p.sev.unprivileged_userns = MEDIUM
      /\ p.sev.suid_dumpable = MEDIUM
  BY DEF Strictest
<1>2. AtMost(SysctlExpectations(h, p).found, MEDIUM)
  <2> DEFINE absent == {k \in DOMAIN Expectations : h.sysctl[k] = NoValue}
             weak == {k \in DOMAIN Expectations \ absent : h.sysctl[k] \notin Expectations[k]}
  <2>1. AtMost({[id |-> "hardening.sysctl." \o k, sev |-> p.sev.sysctl_weak] : k \in weak}, MEDIUM)
    <3> HIDE DEF weak
    <3> QED BY <1>1, Worth DEF AtMost
  <2>2. AtMost(Found("hardening.sysctl.absent", INFO), MEDIUM) /\ AtMost(Passed("hardening.sysctl.all"), MEDIUM)
    BY Worth, Ceilings
  <2> DEFINE all == {[id |-> "hardening.sysctl." \o k, sev |-> p.sev.sysctl_weak] : k \in weak}
                    \cup FoundIf(absent # {}, "hardening.sysctl.absent", INFO)
  <2>3. AtMost(all, MEDIUM)
    <3> HIDE DEF absent, weak
    <3> QED BY <2>1, <2>2, Ceilings DEF FoundIf
  <2>4. AtMost(Yield(all).found, MEDIUM) /\ AtMost(Yield(Passed("hardening.sysctl.all")).found, MEDIUM)
    BY <2>2, <2>3, Ceilings
  <2>5. SysctlExpectations(h, p) =
          IF weak = {} THEN Yield(Passed("hardening.sysctl.all")) ELSE Yield(all)
    BY Zenon DEF SysctlExpectations
  <2> HIDE DEF all
  <2> QED BY <2>4, <2>5
<1>3. AtMost(MandatoryAccessControl(h, p).found, HIGH)
  BY <1>1, Ceilings, Worth DEF MandatoryAccessControl
<1>4. AtMost(UserNamespaces(h, p).found, MEDIUM)
  BY <1>1, Ceilings, Worth DEF UserNamespaces
<1>5. AtMost(CoreDumps(h, p).found, MEDIUM)
  BY <1>1, Ceilings, Worth DEF CoreDumps
<1> QED BY <1>2, <1>3, <1>4, <1>5

\* The same of every check of the boot chain.
LEMMA BootChainBounded ==
  ASSUME NEW h, NEW p, Strictest(p)
  PROVE  /\ AtMost(Bootloader(h, p).found, LOW) /\ AtMost(GrubPassword(h, p).found, MEDIUM)
         /\ AtMost(BootPermissions(h, p).found, CRITICAL) /\ AtMost(Initramfs(h, p).found, HIGH)
         /\ AtMost(DiskEncryption(h, p).found, HIGH) /\ AtMost(MountOptions(h, p).found, MEDIUM)
         /\ AtMost(RemovableBoot(h, p).found, MEDIUM)
<1>1. /\ p.sev.boot_world_writable = CRITICAL
      /\ p.sev.boot_permissions = HIGH
      /\ p.sev.no_root_encryption = HIGH
      /\ p.sev.unencrypted_swap = HIGH
      /\ p.sev.grub_no_password = MEDIUM
      /\ p.sev.initramfs_stale = MEDIUM
      /\ p.sev.mount_options_weak = MEDIUM
      /\ p.sev.boot_on_removable = MEDIUM
  BY DEF Strictest
<1>2. AtMost(Bootloader(h, p).found, LOW)
  BY <1>1, Ceilings, Worth DEF Bootloader
<1>3. AtMost(GrubPassword(h, p).found, MEDIUM)
  BY <1>1, Ceilings, Worth DEF GrubPassword
<1>4. AtMost(BootPermissions(h, p).found, CRITICAL)
  <2> DEFINE Wrong(kind) == kind \in h.bootEntries
             writable == FoundIf(Wrong("world writable"), "bootchain.permissions.world-writable",
                                 AtLeast(p.sev.boot_world_writable, CRITICAL))
             notRoot == FoundIf(Wrong("not root"), "bootchain.permissions.not-root-owned",
                                p.sev.boot_permissions)
             group == FoundIf(Wrong("group writable"), "bootchain.permissions.group-writable",
                              p.sev.boot_permissions)
             clean == FoundIf(h.bootEntries \subseteq {"fine"}, "bootchain.permissions.clean", PASS)
             all == writable \cup notRoot \cup group \cup clean
  <2>1. /\ AtMost(Found("bootchain.permissions.world-writable",
                       AtLeast(p.sev.boot_world_writable, CRITICAL)), CRITICAL)
        /\ AtMost(Found("bootchain.permissions.not-root-owned", p.sev.boot_permissions), CRITICAL)
        /\ AtMost(Found("bootchain.permissions.group-writable", p.sev.boot_permissions), CRITICAL)
        /\ AtMost(Found("bootchain.permissions.clean", PASS), CRITICAL)
    BY <1>1, Worth, Ceilings
  <2>2. AtMost(all, CRITICAL)
    <3>1. AtMost(writable, CRITICAL) /\ AtMost(notRoot, CRITICAL) /\ AtMost(group, CRITICAL) /\ AtMost(clean, CRITICAL)
      BY <2>1, Ceilings DEF FoundIf
    <3> HIDE DEF writable, notRoot, group, clean
    <3> QED BY <3>1 DEF AtMost
  <2>3. AtMost(Yield(all).found, CRITICAL) /\ AtMost(Skip.found, CRITICAL)
    BY <2>2, Ceilings
  <2>4. BootPermissions(h, p) = IF h.bootDir = "absent" THEN Skip ELSE Yield(all)
    BY Zenon DEF BootPermissions
  <2> HIDE DEF all
  <2> QED BY <2>3, <2>4
<1>5. AtMost(Initramfs(h, p).found, HIGH)
  <2>1. /\ AtMost(Found("bootchain.initramfs.missing", INFO), HIGH)
        /\ AtMost(Found("bootchain.initramfs.stale", p.sev.initramfs_stale), HIGH)
        /\ AtMost(Found("bootchain.initramfs.current", PASS), HIGH)
    BY <1>1, Worth, Ceilings
  <2> QED BY <2>1, Ceilings DEF Initramfs, FoundIf
<1>6. AtMost(DiskEncryption(h, p).found, HIGH)
  <2>1. /\ AtMost(Passed("bootchain.encryption.swap"), HIGH)
        /\ AtMost(Found("bootchain.encryption.swap-plain", p.sev.unencrypted_swap), HIGH)
        /\ AtMost(Passed("bootchain.encryption.root"), HIGH)
        /\ AtMost(Found("bootchain.encryption.none", p.sev.no_root_encryption), HIGH)
        /\ AtMost(Found("bootchain.encryption.home-plain", AtLeast(p.sev.no_root_encryption, MEDIUM)), HIGH)
    BY <1>1, Worth, Ceilings
  <2> DEFINE root == IF IsEncrypted(h.rootUuid) THEN Passed("bootchain.encryption.root")
                     ELSE Found("bootchain.encryption.none", p.sev.no_root_encryption)
             home == FoundIf(IsEncrypted(h.rootUuid) /\ h.homeUuid \notin {"no mount", "CRYPT"},
                             "bootchain.encryption.home-plain", AtLeast(p.sev.no_root_encryption, MEDIUM))
  <2>2. AtMost(root, HIGH) /\ AtMost(home, HIGH) /\ AtMost(SwapFindings(h, p), HIGH)
    BY <2>1, Ceilings DEF SwapFindings, FoundIf
  <2>3. DiskEncryption(h, p) = IF h.mountinfo = "unread" THEN Skip ELSE Yield(root \cup home \cup SwapFindings(h, p))
    BY Zenon DEF DiskEncryption
  <2> HIDE DEF root, home
  <2>4. AtMost(root \cup home \cup SwapFindings(h, p), HIGH)
    BY <2>2 DEF AtMost
  <2> QED BY <2>3, <2>4, Ceilings
<1>7. AtMost(MountOptions(h, p).found, MEDIUM)
  BY <1>1, Ceilings, Worth DEF MountOptions
<1>8. AtMost(RemovableBoot(h, p).found, MEDIUM)
  BY <1>1, Ceilings, Worth DEF RemovableBoot
<1> QED BY <1>2, <1>3, <1>4, <1>5, <1>6, <1>7, <1>8

\* The same of every check of the services.
LEMMA ServiceBounded ==
  ASSUME NEW h, NEW p, Strictest(p)
  PROVE  /\ AtMost(FailedUnits(h, p).found, HIGH) /\ AtMost(SystemState(h, p).found, MEDIUM)
         /\ AtMost(ServiceExposure(h, p).found, MEDIUM) /\ AtMost(LocalOverrides(h, p).found, MEDIUM)
         /\ AtMost(MaskedUnits(h, p).found, HIGH) /\ AtMost(TotalTime(h, p).found, MEDIUM)
         /\ AtMost(DeviceWaits(h, p).found, MEDIUM) /\ AtMost(SlowUnits(h, p).found, LOW)
         /\ AtMost(FirmwareTime(h, p).found, LOW)
<1>1. /\ p.sev.masked_security_unit = HIGH
      /\ p.sev.failed_unit = MEDIUM
      /\ p.sev.system_degraded = MEDIUM
      /\ p.sev.vendor_unit_overridden = MEDIUM
      /\ p.sev.boot_slow = MEDIUM
      /\ p.sev.device_timeout = MEDIUM
      /\ p.sev.unit_exposure = LOW
      /\ p.sev.unit_slow = LOW
      /\ p.sev.firmware_slow = INFO
  BY DEF Strictest
<1>2. AtMost(FailedUnits(h, p).found, HIGH)
  <2> DEFINE Floor(u) == IF u \in SecurityUnits THEN HIGH ELSE MEDIUM
  <2>1. AtMost({[id |-> "services.failed." \o u, sev |-> AtLeast(p.sev.failed_unit, Floor(u))] :
                   u \in h.failed.units}, HIGH)
    <3>1. \A u : Floor(u) <= HIGH
      BY Worth
    <3>2. p.sev.failed_unit <= HIGH
      BY <1>1, Worth
    <3> HIDE DEF Floor
    <3> QED BY <3>1, <3>2 DEF AtMost, AtLeast
  <2>2. AtMost(Passed("services.failed.none"), HIGH)
    BY Ceilings
  <2>3. FailedUnits(h, p) = IF h.failed.how = "refused" THEN Skip
          ELSE IF h.failed.units = {} THEN Yield(Passed("services.failed.none"))
          ELSE Yield({[id |-> "services.failed." \o u, sev |-> AtLeast(p.sev.failed_unit, Floor(u))] :
                         u \in h.failed.units})
    BY Zenon DEF FailedUnits
  <2> HIDE DEF Floor
  <2> QED BY <2>1, <2>2, <2>3, Ceilings
<1>3. AtMost(SystemState(h, p).found, MEDIUM)
  BY <1>1, Ceilings, Worth DEF SystemState
<1>4. AtMost(ServiceExposure(h, p).found, MEDIUM)
  BY <1>1, Ceilings, Worth DEF ServiceExposure
<1>5. AtMost(LocalOverrides(h, p).found, MEDIUM)
  BY <1>1, Ceilings, Worth DEF LocalOverrides
<1>6. AtMost(MaskedUnits(h, p).found, HIGH)
  BY <1>1, Ceilings, Worth DEF MaskedUnits
<1>7. AtMost(TotalTime(h, p).found, MEDIUM)
  BY <1>1, Ceilings, Worth DEF TotalTime
<1>8. AtMost(DeviceWaits(h, p).found, MEDIUM)
  BY <1>1, Ceilings, Worth DEF DeviceWaits
<1>9. AtMost(SlowUnits(h, p).found, LOW)
  BY <1>1, Ceilings, Worth DEF SlowUnits
<1>10. AtMost(FirmwareTime(h, p).found, LOW)
  BY <1>1, Ceilings, Worth DEF FirmwareTime
<1> QED BY <1>2, <1>3, <1>4, <1>5, <1>6, <1>7, <1>8, <1>9, <1>10

\* The same of every check of what starts by itself.
LEMMA PersistenceBounded ==
  ASSUME NEW h, NEW p, Strictest(p)
  PROVE  /\ AtMost(LibraryPreloading(h, p).found, CRITICAL) /\ AtMost(SuspiciousUnits(h, p).found, HIGH)
         /\ AtMost(AutostartEntries(h, p).found, HIGH) /\ AtMost(ScheduledJobs(h, p).found, HIGH)
         /\ AtMost(ShellProfiles(h, p).found, HIGH) /\ AtMost(KernelHooks(h, p).found, HIGH)
         /\ AtMost(WritablePath(h, p).found, CRITICAL)
<1>1. /\ p.sev.ld_preload = HIGH
      /\ p.sev.suspicious_exec = HIGH
      /\ p.sev.autostart_suspicious = HIGH
      /\ p.sev.cron_suspicious = HIGH
      /\ p.sev.profile_script_suspicious = HIGH
      /\ p.sev.modprobe_install_hook = HIGH
      /\ p.sev.world_writable_path = HIGH
      /\ p.sev.unit_in_home = MEDIUM
      /\ p.sev.udev_run_rule = MEDIUM
  BY DEF Strictest
<1>2. AtMost(LibraryPreloading(h, p).found, CRITICAL)
  <2>1. /\ AtMost(Passed("persistence.ld-preload.absent"), CRITICAL)
        /\ AtMost(Found("persistence.ld-preload.present", AtLeast(p.sev.ld_preload, HIGH)), CRITICAL)
    BY <1>1, Worth, Ceilings
  <2> QED BY <2>1, Ceilings DEF LibraryPreloading
<1>3. AtMost(SuspiciousUnits(h, p).found, HIGH)
  <2>1. \A entries : AtMost(Flagged(entries, "persistence.units.unit", p, "suspicious_exec"), HIGH)
    BY <1>1, Worth, FlaggedBounded
  <2>2. /\ AtMost(Found("persistence.units.non-root-owned", p.sev.unit_in_home), HIGH)
        /\ AtMost(Found("persistence.units.clean", PASS), HIGH)
    BY <1>1, Worth, Ceilings
  <2> QED BY <2>1, <2>2, Ceilings DEF SuspiciousUnits, FoundIf
<1>4. AtMost(AutostartEntries(h, p).found, HIGH)
  <2>1. \A entries : AtMost(Flagged(entries, "persistence.autostart.entry", p, "autostart_suspicious"), HIGH)
    BY <1>1, Worth, FlaggedBounded
  <2>2. AtMost(Found("persistence.autostart.clean", PASS), HIGH)
    BY Worth, Ceilings
  <2> DEFINE active == {e \in CollectAutostart(h) : e.enabled}
             flagged == Flagged(active, "persistence.autostart.entry", p, "autostart_suspicious")
             clean == FoundIf(flagged = {}, "persistence.autostart.clean", PASS)
  <2>3. AtMost(flagged, HIGH) /\ AtMost(clean, HIGH)
    BY <2>1, <2>2, Ceilings DEF FoundIf
  <2>4. AutostartEntries(h, p) = IF h.autostart = {} THEN Skip ELSE Yield(flagged \cup clean)
    BY Zenon DEF AutostartEntries
  <2> HIDE DEF flagged, clean
  <2>5. AtMost(flagged \cup clean, HIGH)
    BY <2>3 DEF AtMost
  <2> QED BY <2>4, <2>5, Ceilings
<1>5. AtMost(ScheduledJobs(h, p).found, HIGH)
  <2>1. \A entries : AtMost(Flagged(entries, "persistence.scheduled.job-" \o h.hashSeed, p,
                                  "cron_suspicious"), HIGH)
    BY <1>1, Worth, FlaggedBounded
  <2>2. /\ AtMost(Found("persistence.scheduled.unreadable", INFO), HIGH)
        /\ AtMost(Found("persistence.scheduled.clean", PASS), HIGH)
    BY Worth, Ceilings
  <2> QED BY <2>1, <2>2, Ceilings DEF ScheduledJobs, FoundIf
<1>6. AtMost(ShellProfiles(h, p).found, HIGH)
  <2>1. \A entries : AtMost({[id |-> "persistence.shell-profiles.file",
                              sev |-> WeightOf(p, "profile_script_suspicious", e)] : e \in entries}, HIGH)
    BY <1>1, Worth DEF AtMost, WeightOf
  <2> QED BY <2>1, Ceilings DEF ShellProfiles
<1>7. AtMost(KernelHooks(h, p).found, HIGH)
  <2>1. /\ \A entries : AtMost(Flagged(entries, "persistence.kernel-hooks.udev-rule", p,
                                     "udev_run_rule"), HIGH)
        /\ \A entries : AtMost(Flagged(entries, "persistence.kernel-hooks.modprobe", p,
                                     "modprobe_install_hook"), HIGH)
    BY <1>1, Worth, FlaggedBounded
  <2>2. AtMost(Found("persistence.kernel-hooks.udev-present", INFO), HIGH)
    BY Worth, Ceilings
  <2> QED BY <2>1, <2>2, Ceilings DEF KernelHooks, FoundIf
<1>8. AtMost(WritablePath(h, p).found, CRITICAL)
  <2>1. /\ AtMost(Passed("persistence.path.clean"), CRITICAL)
        /\ AtMost(Found("persistence.path.writable", AtLeast(p.sev.world_writable_path, CRITICAL)), CRITICAL)
    BY <1>1, Worth, Ceilings
  <2> QED BY <2>1, Ceilings DEF WritablePath
<1> QED BY <1>2, <1>3, <1>4, <1>5, <1>6, <1>7, <1>8

\* The same of the drift from the baseline and of the journal's errors.
LEMMA IntegrityBounded ==
  ASSUME NEW h, NEW p, Strictest(p)
  PROVE  /\ AtMost(BaselineDrift(h, p).found, HIGH) /\ AtMost(JournalErrors(h, p).found, MEDIUM)
<1>1. /\ p.sev.baseline_drift = HIGH
      /\ p.sev.journal_errors = MEDIUM
      /\ p.sev.baseline_drift_expected = INFO
  BY DEF Strictest
<1>2. AtMost(BaselineDrift(h, p).found, HIGH)
  <2> DEFINE was == Record(h.was)
             now == Record(h.now)
             changes == Compare(was, now)
             update == LooksLikeAKernelUpdate(changes)
             mild == {c \in changes : c.kind \in SeriousKinds} = {}
             weight == IF update THEN p.sev.baseline_drift_expected ELSE p.sev.baseline_drift
             changed == Found("integrity.baseline.changed", IF mild /\ weight > LOW THEN LOW ELSE weight)
             unhashed == FoundIf(UnhashedPaths(was, now) # {}, "integrity.baseline.unhashed", INFO)
  <2>1. AtMost(changed, HIGH)
    <3>1. (IF mild /\ weight > LOW THEN LOW ELSE weight) <= HIGH
      <4> HIDE DEF mild, update
      <4> QED BY <1>1, Worth
    <3> QED BY <3>1, Ceilings
  <2>2. AtMost(unhashed, HIGH)
    <3> HIDE DEF was, now
    <3> QED BY Worth, Ceilings DEF FoundIf
  <2>3. AtMost(Found("integrity.baseline.none", INFO), HIGH) /\ AtMost(Passed("integrity.baseline.unchanged"), HIGH)
    BY Worth, Ceilings
  <2>4. BaselineDrift(h, p) = IF ~h.baselineTaken THEN Yield(Found("integrity.baseline.none", INFO))
          ELSE IF changes = {} THEN Yield(Passed("integrity.baseline.unchanged"))
          ELSE Yield(changed \cup unhashed)
    BY Zenon DEF BaselineDrift
  <2> HIDE DEF changes, changed, unhashed
  <2>5. AtMost(changed \cup unhashed, HIGH)
    BY <2>1, <2>2 DEF AtMost
  <2> QED BY <2>3, <2>4, <2>5, Ceilings
<1>3. AtMost(JournalErrors(h, p).found, MEDIUM)
  BY <1>1, Ceilings, Worth DEF JournalErrors
<1> QED BY <1>2, <1>3

\* The same of the checks a user writes.
LEMMA CustomBounded ==
  ASSUME NEW h, NEW p, Strictest(p)
  PROVE  AtMost(Evaluate(h, p).found, MEDIUM)
<1>1. /\ AtMost(Yield(Passed("site.check.ok")).found, MEDIUM)
      /\ AtMost(Yield(Found("site.check.failed", MEDIUM)).found, MEDIUM)
  BY Worth, Ceilings
<1> QED BY <1>1, Ceilings, Zenon DEF Evaluate

-----------------------------------------------------------------------------
\* What the probe has read.

\* A table laid over another.
LaidOver(f, g) ==
  /\ DOMAIN Overlaid(f, g) = DOMAIN f \cup DOMAIN g
  /\ \A k \in DOMAIN f : Overlaid(f, g)[k] = f[k]
  /\ \A k \in DOMAIN g \ DOMAIN f : Overlaid(f, g)[k] = g[k]

\* It has the entries of both, and where both have one its own.
LEMMA OverlaidIs == \A f, g : LaidOver(f, g)
BY DEF LaidOver, Overlaid

\* The facts that each module of checks reads.
LEMMA FactNames ==
  /\ DOMAIN KernelFacts = {"taint", "lockdown", "sigEnforce", "cmdline", "vulnDir",
         "vulnState", "oldMicrocode", "revision", "microcodeLog", "iommuGroups", "thunderbolt",
         "btime", "bootImage", "modulesDir", "kexecDisabled"}
  /\ DOMAIN FirmwareFacts = {"efi", "secureBootVar", "bootctlSecureBoot", "setupMode", "dbx",
         "tpmDevices", "tpmMajor", "bootctlMeasured", "efibootmgr", "bootNext", "bootOrder",
         "bootCurrent", "espMount", "espMode"}
  /\ DOMAIN HardeningFacts = {"sysctl", "lsm", "selinuxEnforce", "maxUserNamespaces",
         "usernsClone", "corePattern", "suidDumpable"}
  /\ DOMAIN BootChainFacts = {"bootConfig", "product", "grubSources", "bootDir", "bootEntries",
         "kernelImages", "initramfsAge", "otherAge", "mountinfo", "rootUuid", "homeUuid",
         "swaps", "swapUuid", "sharedMounts", "removable"}
  /\ DOMAIN ServiceFacts = {"failed", "state", "exposure", "overridesDir", "overrides",
         "masked", "bootSeconds", "blame", "firmwareSeconds"}
  /\ DOMAIN PersistenceFacts = {"preload", "environment", "units", "autostart", "hashSeed",
         "cron", "profiles", "udev", "modprobe", "pathDirs"}
  /\ DOMAIN IntegrityFacts = {"baselineTaken", "journalErrors"}
  /\ DOMAIN CustomFacts = {"definition", "customSysctl", "customFile", "customMode",
         "customCmdline", "customUnit"}
BY DEF KernelFacts, FirmwareFacts, HardeningFacts, BootChainFacts, ServiceFacts, PersistenceFacts, IntegrityFacts, CustomFacts

\* No two modules of checks have a fact in common.

LEMMA FactsAre ==
  /\ \A k \in DOMAIN KernelFacts : Facts[k] = KernelFacts[k]
  /\ \A k \in DOMAIN FirmwareFacts : Facts[k] = FirmwareFacts[k]
  /\ \A k \in DOMAIN HardeningFacts : Facts[k] = HardeningFacts[k]
  /\ \A k \in DOMAIN BootChainFacts : Facts[k] = BootChainFacts[k]
  /\ \A k \in DOMAIN ServiceFacts : Facts[k] = ServiceFacts[k]
  /\ \A k \in DOMAIN PersistenceFacts : Facts[k] = PersistenceFacts[k]
  /\ \A k \in DOMAIN IntegrityFacts : Facts[k] = IntegrityFacts[k]
  /\ \A k \in DOMAIN CustomFacts : Facts[k] = CustomFacts[k]
<1> DEFINE c7 == CustomFacts
           c6 == Overlaid(IntegrityFacts, c7)
           c5 == Overlaid(PersistenceFacts, c6)
           c4 == Overlaid(ServiceFacts, c5)
           c3 == Overlaid(BootChainFacts, c4)
           c2 == Overlaid(HardeningFacts, c3)
           c1 == Overlaid(FirmwareFacts, c2)
           c0 == Overlaid(KernelFacts, c1)
<1>10. /\ LaidOver(KernelFacts, c1) /\ LaidOver(FirmwareFacts, c2) /\ LaidOver(HardeningFacts, c3) /\ LaidOver(BootChainFacts, c4)
       /\ LaidOver(ServiceFacts, c5) /\ LaidOver(PersistenceFacts, c6) /\ LaidOver(IntegrityFacts, c7) /\ Facts = c0
  BY OverlaidIs DEF Facts
<1> QED BY FactNames, <1>10 DEF LaidOver

\* What a check compares with a threshold is a number.
Numbered(c, h) ==
  /\ c = "initramfs" => Aged(h)
  /\ c = "service_exposure" => \A score \in h.exposure : score \in Int
  /\ c = "total_time" => h.bootSeconds \in Int
  /\ c \in {"device_waits", "slow_units"} => \A u \in h.blame : u.secs \in Int /\ u.length \in Nat
  /\ c = "firmware_time" => h.firmwareSeconds \in Int
  /\ c = "journal_errors" => h.journalErrors \in Int

\* Every check of the catalogue, on any facts, under any two policies of which one is the
\* harder: what the milder reports is reported, no lighter, and neither skips alone.
THEOREM RunHarder ==
  ASSUME NEW c \in Checks, NEW h, NEW p, NEW q, Milder(p, q), Numbered(c, h)
  PROVE  NoneForgiven(RunCheck(c, h, p), RunCheck(c, h, q))
<1>1. c \in {"taint", "lockdown", "module_signing", "risky_cmdline", "cpu_mitigations",
             "microcode", "iommu", "running_version", "kexec"}
        => NoneForgiven(RunCheck(c, h, p), RunCheck(c, h, q))
  BY KernelHarder, Zenon DEF RunCheck
<1>2. c \in {"boot_mode", "secure_boot", "revocation_list", "trusted_platform_module",
             "boot_entries", "esp_permissions"}
        => NoneForgiven(RunCheck(c, h, p), RunCheck(c, h, q))
  BY FirmwareHarder, Zenon DEF RunCheck
<1>3. c \in {"sysctl_expectations", "mandatory_access_control", "user_namespaces",
             "core_dumps"}
        => NoneForgiven(RunCheck(c, h, p), RunCheck(c, h, q))
  BY HardeningHarder, Zenon DEF RunCheck
<1>4. c \in {"bootloader", "grub_password", "boot_permissions", "initramfs",
             "disk_encryption", "mount_options", "removable_boot"}
        => NoneForgiven(RunCheck(c, h, p), RunCheck(c, h, q))
  BY BootChainHarder, Zenon DEF RunCheck, Numbered
<1>5. c \in {"failed_units", "system_state", "service_exposure", "local_overrides",
             "masked_units", "total_time", "device_waits", "slow_units", "firmware_time"}
        => NoneForgiven(RunCheck(c, h, p), RunCheck(c, h, q))
  BY ServiceHarder, Zenon DEF RunCheck, Numbered
<1>6. c \in {"library_preloading", "suspicious_units", "autostart_entries",
             "scheduled_jobs", "shell_profiles", "kernel_hooks", "writable_path"}
        => NoneForgiven(RunCheck(c, h, p), RunCheck(c, h, q))
  BY PersistenceHarder, Zenon DEF RunCheck
<1>7. c \in {"baseline_drift", "journal_errors"}
        => NoneForgiven(RunCheck(c, h, p), RunCheck(c, h, q))
  BY IntegrityHarder, Zenon DEF RunCheck, Numbered
<1>8. c \in {"custom"}
        => NoneForgiven(RunCheck(c, h, p), RunCheck(c, h, q))
  BY CustomHarder, Zenon DEF RunCheck
<1> QED BY <1>1, <1>2, <1>3, <1>4, <1>5, <1>6, <1>7, <1>8 DEF Checks, Catalogue

\* Every check of the catalogue, on any facts, says at most what is declared.
LEMMA RunBounded ==
  ASSUME NEW c \in Checks, NEW h, NEW p, Strictest(p)
  PROVE  AtMost(RunCheck(c, h, p).found, Catalogue[c].worst)
<1>1. ASSUME c \in {"taint", "lockdown", "module_signing", "risky_cmdline", "cpu_mitigations",
             "microcode", "iommu", "running_version", "kexec"}
      PROVE  AtMost(RunCheck(c, h, p).found, Catalogue[c].worst)
  <2>1. Catalogue[c].worst = IF c = "kexec" THEN MEDIUM ELSE HIGH
    BY <1>1 DEF Catalogue, Entry
  <2> QED BY <1>1, <2>1, KernelBounded, Zenon DEF RunCheck
<1>2. ASSUME c \in {"boot_mode", "secure_boot", "revocation_list", "trusted_platform_module",
             "boot_entries", "esp_permissions"}
      PROVE  AtMost(RunCheck(c, h, p).found, Catalogue[c].worst)
  <2>1. Catalogue[c].worst = IF c \in {"boot_mode", "boot_entries"} THEN MEDIUM
          ELSE IF c \in {"secure_boot", "esp_permissions"} THEN CRITICAL ELSE HIGH
    BY <1>2 DEF Catalogue, Entry
  <2> QED BY <1>2, <2>1, FirmwareBounded, Zenon DEF RunCheck
<1>3. ASSUME c \in {"sysctl_expectations", "mandatory_access_control", "user_namespaces",
             "core_dumps"}
      PROVE  AtMost(RunCheck(c, h, p).found, Catalogue[c].worst)
  <2>1. Catalogue[c].worst = IF c = "mandatory_access_control" THEN HIGH ELSE MEDIUM
    BY <1>3 DEF Catalogue, Entry
  <2> QED BY <1>3, <2>1, HardeningBounded, Zenon DEF RunCheck
<1>4. ASSUME c \in {"bootloader", "grub_password", "boot_permissions", "initramfs",
             "disk_encryption", "mount_options", "removable_boot"}
      PROVE  AtMost(RunCheck(c, h, p).found, Catalogue[c].worst)
  <2>1. Catalogue[c].worst = IF c = "bootloader" THEN LOW ELSE IF c = "boot_permissions" THEN CRITICAL
          ELSE IF c \in {"initramfs", "disk_encryption"} THEN HIGH ELSE MEDIUM
    BY <1>4 DEF Catalogue, Entry
  <2> QED BY <1>4, <2>1, BootChainBounded, Zenon DEF RunCheck
<1>5. ASSUME c \in {"failed_units", "system_state", "service_exposure", "local_overrides",
             "masked_units", "total_time", "device_waits", "slow_units", "firmware_time"}
      PROVE  AtMost(RunCheck(c, h, p).found, Catalogue[c].worst)
  <2>1. Catalogue[c].worst = IF c \in {"slow_units", "firmware_time"} THEN LOW
          ELSE IF c \in {"failed_units", "masked_units"} THEN HIGH ELSE MEDIUM
    BY <1>5 DEF Catalogue, Entry
  <2> QED BY <1>5, <2>1, ServiceBounded, Zenon DEF RunCheck
<1>6. ASSUME c \in {"library_preloading", "suspicious_units", "autostart_entries",
             "scheduled_jobs", "shell_profiles", "kernel_hooks", "writable_path"}
      PROVE  AtMost(RunCheck(c, h, p).found, Catalogue[c].worst)
  <2>1. Catalogue[c].worst = IF c \in {"library_preloading", "writable_path"} THEN CRITICAL ELSE HIGH
    BY <1>6 DEF Catalogue, Entry
  <2> QED BY <1>6, <2>1, PersistenceBounded, Zenon DEF RunCheck
<1>7. ASSUME c \in {"baseline_drift", "journal_errors"}
      PROVE  AtMost(RunCheck(c, h, p).found, Catalogue[c].worst)
  <2>1. Catalogue[c].worst = IF c = "baseline_drift" THEN HIGH ELSE MEDIUM
    BY <1>7 DEF Catalogue, Entry
  <2> QED BY <1>7, <2>1, IntegrityBounded, Zenon DEF RunCheck
<1>8. ASSUME c = "custom"
      PROVE  AtMost(RunCheck(c, h, p).found, Catalogue[c].worst)
  <2>1. Catalogue[c].worst = MEDIUM
    BY <1>8 DEF Catalogue, Entry
  <2> QED BY <1>8, <2>1, CustomBounded, Zenon DEF RunCheck
<1> QED BY <1>1, <1>2, <1>3, <1>4, <1>5, <1>6, <1>7, <1>8 DEF Checks, Catalogue

\* What the probe has: for each fact that the check reads what an unread one looks like or
\* a value it can have, and of the watched files two states or none.
HostKnown ==
  /\ check \in Checks
  /\ DOMAIN host = Catalogue[check].reads \cup {"was", "now"}
  /\ \A f \in Catalogue[check].reads : host[f] = Unread(f) \/ host[f] \in Readings(f)
  /\ \/ host.was = << >>
     \/ \E s \in Snapshots : host.was = s[1] /\ host.now = s[2]

\* The facts that each check reads, as the catalogue has them.
LEMMA TheReads ==
  /\ Catalogue.taint.reads = {"taint"}
  /\ Catalogue.lockdown.reads = {"lockdown"}
  /\ Catalogue.module_signing.reads = {"sigEnforce"}
  /\ Catalogue.risky_cmdline.reads = {"cmdline"}
  /\ Catalogue.cpu_mitigations.reads = {"vulnDir", "vulnState", "oldMicrocode"}
  /\ Catalogue.microcode.reads = {"oldMicrocode", "revision", "microcodeLog"}
  /\ Catalogue.iommu.reads = {"iommuGroups", "thunderbolt"}
  /\ Catalogue.running_version.reads = {"btime", "bootImage", "modulesDir"}
  /\ Catalogue.kexec.reads = {"kexecDisabled"}
  /\ Catalogue.boot_mode.reads = {"efi"}
  /\ Catalogue.secure_boot.reads = {"efi", "secureBootVar", "bootctlSecureBoot", "setupMode"}
  /\ Catalogue.revocation_list.reads = {"efi", "secureBootVar", "dbx"}
  /\ Catalogue.trusted_platform_module.reads = {"tpmDevices", "tpmMajor", "bootctlMeasured"}
  /\ Catalogue.boot_entries.reads = {"efi", "efibootmgr", "bootNext", "bootOrder", "bootCurrent"}
  /\ Catalogue.esp_permissions.reads = {"efi", "espMount", "espMode"}
  /\ Catalogue.sysctl_expectations.reads = {"sysctl"}
  /\ Catalogue.mandatory_access_control.reads = {"lsm", "selinuxEnforce"}
  /\ Catalogue.user_namespaces.reads = {"maxUserNamespaces", "usernsClone"}
  /\ Catalogue.core_dumps.reads = {"corePattern", "suidDumpable"}
  /\ Catalogue.bootloader.reads = {"bootConfig", "product"}
  /\ Catalogue.grub_password.reads = {"bootConfig", "grubSources"}
  /\ Catalogue.boot_permissions.reads = {"bootDir", "bootEntries"}
  /\ Catalogue.initramfs.reads = {"kernelImages", "initramfsAge", "otherAge"}
  /\ Catalogue.disk_encryption.reads = {"mountinfo", "rootUuid", "homeUuid", "swaps", "swapUuid"}
  /\ Catalogue.mount_options.reads = {"mountinfo", "sharedMounts"}
  /\ Catalogue.removable_boot.reads = {"mountinfo", "removable"}
  /\ Catalogue.failed_units.reads = {"failed"}
  /\ Catalogue.system_state.reads = {"state"}
  /\ Catalogue.service_exposure.reads = {"exposure"}
  /\ Catalogue.local_overrides.reads = {"overridesDir", "overrides"}
  /\ Catalogue.masked_units.reads = {"masked"}
  /\ Catalogue.total_time.reads = {"bootSeconds"}
  /\ Catalogue.device_waits.reads = {"blame"}
  /\ Catalogue.slow_units.reads = {"blame"}
  /\ Catalogue.firmware_time.reads = {"bootSeconds", "firmwareSeconds"}
  /\ Catalogue.library_preloading.reads = {"preload", "environment"}
  /\ Catalogue.suspicious_units.reads = {"units"}
  /\ Catalogue.autostart_entries.reads = {"autostart"}
  /\ Catalogue.scheduled_jobs.reads = {"cron", "hashSeed"}
  /\ Catalogue.shell_profiles.reads = {"profiles"}
  /\ Catalogue.kernel_hooks.reads = {"udev", "modprobe"}
  /\ Catalogue.writable_path.reads = {"pathDirs"}
  /\ Catalogue.baseline_drift.reads = {"baselineTaken"}
  /\ Catalogue.journal_errors.reads = {"journalErrors"}
  /\ Catalogue.custom.reads = {"definition", "customSysctl", "customFile", "customMode", "customCmdline", "customUnit"}
BY DEF Catalogue, Entry

\* The watched files are not among them.
LEMMA ReadsAreFacts ==
  ASSUME NEW c \in Checks
  PROVE  "was" \notin Catalogue[c].reads /\ "now" \notin Catalogue[c].reads
<1>1. c \in DOMAIN Catalogue
  BY DEF Checks
<1>2. DOMAIN Catalogue =
        {"taint", "lockdown", "module_signing", "risky_cmdline", "cpu_mitigations",
         "microcode", "iommu", "running_version", "kexec", "boot_mode", "secure_boot",
         "revocation_list", "trusted_platform_module", "boot_entries",
         "esp_permissions", "sysctl_expectations", "mandatory_access_control",
         "user_namespaces", "core_dumps", "bootloader", "grub_password",
         "boot_permissions", "initramfs", "disk_encryption", "mount_options",
         "removable_boot", "failed_units", "system_state", "service_exposure",
         "local_overrides", "masked_units", "total_time", "device_waits",
         "slow_units", "firmware_time", "library_preloading", "suspicious_units",
         "autostart_entries", "scheduled_jobs", "shell_profiles", "kernel_hooks",
         "writable_path", "baseline_drift", "journal_errors", "custom"}
  BY DEF Catalogue
<1> QED BY <1>1, <1>2, TheReads

\* What is compared with a threshold is a number: each fact it comes from was read or has
\* the mark of an unread one, and both are numbers.
LEMMA KnownNumbers == HostKnown => Numbered(check, host)
<1> SUFFICES ASSUME HostKnown PROVE Numbered(check, host)
  OBVIOUS
<1>1. ASSUME check = "initramfs" PROVE Aged(host)
  <2>1. Catalogue.initramfs.reads = {"kernelImages", "initramfsAge", "otherAge"}
    BY DEF Catalogue, Entry
  <2>2. /\ Facts["initramfsAge"] = BootChainFacts["initramfsAge"] /\ Facts["otherAge"] = BootChainFacts["otherAge"]
        /\ Facts["kernelImages"] = BootChainFacts["kernelImages"]
    BY FactsAre DEF BootChainFacts
  <2>3. /\ Unread("initramfsAge") = Unstatted /\ Readings("initramfsAge") = Ages
        /\ Unread("otherAge") = Unstatted /\ Readings("otherAge") = Ages
        /\ Unread("kernelImages") = {} /\ Readings("kernelImages") = {{"initramfsAge"}, {"initramfsAge", "otherAge"}}
    BY <2>2 DEF BootChainFacts, Unread, Readings
  <2>4. /\ host["initramfsAge"] \in Ages \cup {Unstatted} /\ host["otherAge"] \in Ages \cup {Unstatted}
        /\ host["kernelImages"] \in {{}, {"initramfsAge"}, {"initramfsAge", "otherAge"}}
    BY <1>1, <2>1, <2>3 DEF HostKnown
  <2> QED BY <2>4 DEF Aged, Ages, Unstatted, Missing
<1>2. ASSUME check = "service_exposure" PROVE \A score \in host.exposure : score \in Int
  <2>1. Catalogue.service_exposure.reads = {"exposure"}
    BY DEF Catalogue, Entry
  <2>2. Facts["exposure"] = ServiceFacts["exposure"]
    BY FactsAre DEF ServiceFacts
  <2>3. Unread("exposure") = {} /\ Readings("exposure") = {{60}, {60, 75}, {85}, {92}, {60, 97}}
    BY <2>2 DEF ServiceFacts, Unread, Readings
  <2> QED BY <1>2, <2>1, <2>3 DEF HostKnown
<1>3. ASSUME check \in {"total_time", "firmware_time"} PROVE host.bootSeconds \in Int
  <2>1. Catalogue.total_time.reads = {"bootSeconds"} /\ Catalogue.firmware_time.reads = {"bootSeconds", "firmwareSeconds"}
    BY DEF Catalogue, Entry
  <2>2. Facts["bootSeconds"] = ServiceFacts["bootSeconds"]
    BY FactsAre DEF ServiceFacts
  <2>3. Unread("bootSeconds") = 0 /\ Readings("bootSeconds") = {50, 70, 100, 200}
    BY <2>2 DEF ServiceFacts, Unread, Readings
  <2> QED BY <1>3, <2>1, <2>3 DEF HostKnown
<1>4. ASSUME check = "firmware_time" PROVE host.firmwareSeconds \in Int
  <2>1. Catalogue.firmware_time.reads = {"bootSeconds", "firmwareSeconds"}
    BY DEF Catalogue, Entry
  <2>2. Facts["firmwareSeconds"] = ServiceFacts["firmwareSeconds"]
    BY FactsAre DEF ServiceFacts
  <2>3. Unread("firmwareSeconds") = 0 /\ Readings("firmwareSeconds") = {10, 18, 25, 40, 70}
    BY <2>2 DEF ServiceFacts, Unread, Readings
  <2> QED BY <1>4, <2>1, <2>3 DEF HostKnown
<1>5. ASSUME check = "journal_errors" PROVE host.journalErrors \in Int
  <2>1. Catalogue.journal_errors.reads = {"journalErrors"}
    BY DEF Catalogue, Entry
  <2>2. Facts["journalErrors"] = IntegrityFacts["journalErrors"]
    BY FactsAre DEF IntegrityFacts
  <2>3. Unread("journalErrors") = -1 /\ Readings("journalErrors") = {0, 15, 30, 60, 300}
    BY <2>2 DEF IntegrityFacts, Unread, Readings
  <2> QED BY <1>5, <2>1, <2>3 DEF HostKnown
<1>6. ASSUME check \in {"device_waits", "slow_units"}
      PROVE  \A u \in host.blame : u.secs \in Int /\ u.length \in Nat
  <2>1. Catalogue.device_waits.reads = {"blame"} /\ Catalogue.slow_units.reads = {"blame"}
    BY DEF Catalogue, Entry
  <2>2. Facts["blame"] = ServiceFacts["blame"]
    BY FactsAre DEF ServiceFacts
  <2>3. Unread("blame") = {} /\ \A b \in Readings("blame") : \A u \in b : u.secs \in Int /\ u.length \in Nat
    BY <2>2 DEF ServiceFacts, Unread, Readings
  <2> QED BY <1>6, <2>1, <2>3 DEF HostKnown
<1> QED BY <1>1, <1>2, <1>3, <1>4, <1>5, <1>6 DEF Numbered

\* The probe starts with nothing read, and each step reads one thing or forgets them all.
LEMMA HostStarts == Init => HostKnown
BY ReadsAreFacts DEF Init, HostKnown, NothingRead

LEMMA HostSteps == HostKnown /\ [Next]_vars => HostKnown'
<1> SUFFICES ASSUME HostKnown, [Next]_vars PROVE HostKnown'
  OBVIOUS
<1>1. ASSUME UNCHANGED <<check, host>> PROVE HostKnown'
  BY <1>1 DEF HostKnown
<1>2. ASSUME check' = check, host' = NothingRead(check) PROVE HostKnown'
  BY <1>2, ReadsAreFacts DEF HostKnown, NothingRead
<1>3. ASSUME NEW f \in Catalogue[check].reads, Read(f) PROVE HostKnown'
  <2>1. PICK v \in Readings(f) : host' = [host EXCEPT ![f] = v]
    BY <1>3 DEF Read
  <2>2. f # "was" /\ f # "now"
    BY ReadsAreFacts DEF HostKnown
  <2> QED BY <1>3, <2>1, <2>2 DEF HostKnown, Read
<1>4. ASSUME WalkFiles PROVE HostKnown'
  <2>1. PICK s \in Snapshots : host' = [host EXCEPT !.was = s[1], !.now = s[2]]
    BY <1>4 DEF WalkFiles
  <2>2. "was" \notin Catalogue[check].reads /\ "now" \notin Catalogue[check].reads
    BY ReadsAreFacts DEF HostKnown
  <2>3. check' = check
    BY <1>4 DEF WalkFiles
  <2>4. \A f \in DOMAIN host : f \notin {"was", "now"} => host'[f] = host[f]
    BY <2>1
  <2>5. DOMAIN host' = DOMAIN host /\ host'.was = s[1] /\ host'.now = s[2]
    BY <2>1 DEF HostKnown
  <2> QED BY <2>2, <2>3, <2>4, <2>5 DEF HostKnown
<1>5. CASE Judge
  BY <1>2, <1>5 DEF Judge
<1>6. CASE Fail
  BY <1>2, <1>6 DEF Fail
<1>7. CASE Analyse \/ Close \/ Deliver
  BY <1>1, <1>7 DEF Analyse, Close, Deliver
<1>8. CASE \E id \in Shown : Mute(id) \/ Unmute(id) \/ DropOverride(id)
  BY <1>1, <1>8 DEF Mute, Unmute, DropOverride, Redecorate, Edit
<1>9. CASE \E id \in Shown, sev \in {PASS, HIGH} : OverrideSeverity(id, sev)
  BY <1>1, <1>9 DEF OverrideSeverity, Redecorate, Edit
<1>10. CASE EnableCheck \/ ResetProfile
  BY <1>1, <1>10 DEF EnableCheck, ResetProfile, Retune, Edit
<1>11. CASE \E key \in {"kexec_enabled", "journal_errors"} : OverridePolicy(key, HIGH)
  BY <1>1, <1>11 DEF OverridePolicy, Retune, Edit
<1>12. CASE OverrideThreshold("journal_error_budget", 5)
  BY <1>1, <1>12 DEF OverrideThreshold, Retune, Edit
<1>13. CASE \E i \in DOMAIN Presets : SetPreset(Presets[i])
  BY <1>1, <1>13 DEF SetPreset
<1>14. CASE UNCHANGED vars
  BY <1>1, <1>14 DEF vars
<1> QED BY <1>3, <1>4, <1>5, <1>6, <1>7, <1>8, <1>9, <1>10, <1>11, <1>12, <1>13, <1>14 DEF Next

\* So the presets are in order on what the probe has.
LEMMA OrderedThen == HostKnown => PresetsAreOrdered
<1> SUFFICES ASSUME HostKnown PROVE PresetsAreOrdered
  OBVIOUS
<1>1. check \in Checks /\ Numbered(check, host)
  BY KnownNumbers DEF HostKnown
<1>2. \A i \in 1..3 : NoneForgiven(Result(host, Presets[i]), Result(host, Presets[i + 1]))
  BY <1>1, PresetsHarden, RunHarder DEF Result
<1>3. AtMost(Result(host, Presets[4]).found, Catalogue[check].worst)
  <2>1. Presets[4] = "paranoid"
    BY DEF Presets
  <2> QED BY <1>1, <2>1, ParanoidIsStrictest, RunBounded DEF Result
<1> QED BY <1>2, <1>3 DEF PresetsAreOrdered, NoneForgiven, Borne, AtMost

\* Each preset is at least as hard on the machine as the one before, and the strictest makes
\* no check say worse than the catalogue declares: for each of the 45 checks and any facts.
THEOREM PresetsStayOrdered == Spec => []PresetsAreOrdered
<1>1. Spec => []HostKnown
  BY HostStarts, HostSteps, PTL DEF Spec
<1> QED BY <1>1, OrderedThen, PTL

-----------------------------------------------------------------------------
\* A pass is a pass whatever else is read.

\* A pass that was given is given again, unless the check is skipped now.
Kept(before, after) ==
  \A ok \in before.found : ok.sev = PASS => after.skipped \/ ok \in after.found

\* What is reported weighs something.
Counts(p) == \A key \in DOMAIN BaseSeverities : p.sev[key] # PASS

\* What is skipped keeps everything, and what gave no pass had none to keep.
LEMMA Keeping ==
  /\ \A after : Kept(Skip, after)
  /\ \A id, sev, after : sev # PASS => Kept(Yield(Found(id, sev)), after)
  /\ \A result : Kept(result, result)
  /\ \A before : Kept(before, Skip)
  /\ \A s, t : s # PASS /\ t # PASS => AtLeast(s, t) # PASS
  /\ INFO # PASS /\ LOW # PASS /\ MEDIUM # PASS /\ HIGH # PASS /\ CRITICAL # PASS
<1>1. \A after : Kept(Skip, after)
  BY DEF Kept, Skip
<1>2. \A id, sev, after : sev # PASS => Kept(Yield(Found(id, sev)), after)
  BY DEF Kept, Yield, Found
<1>3. (\A result : Kept(result, result)) /\ (\A before : Kept(before, Skip))
  BY DEF Kept, Skip
<1>4. \A s, t : s # PASS /\ t # PASS => AtLeast(s, t) # PASS
  BY DEF AtLeast
<1>5. INFO # PASS /\ LOW # PASS /\ MEDIUM # PASS /\ HIGH # PASS /\ CRITICAL # PASS
  BY Worth
<1> QED BY <1>1, <1>2, <1>3, <1>4, <1>5

\* When the fact that was not read is one a verdict of the kernel's checks could turn on,
\* the check skipped, warned, or passed on the strength of what it did read.
LEMMA KernelKept ==
  ASSUME NEW h, NEW k, NEW p, Counts(p)
  PROVE  /\ h.taint = {"unread"} => Kept(Taint(h, p), Taint(k, p))
         /\ h.lockdown = "unread" => Kept(Lockdown(h, p), Lockdown(k, p))
         /\ h.sigEnforce = "unread" => Kept(ModuleSigning(h, p), ModuleSigning(k, p))
         /\ h.cmdline = {"unread"} => Kept(RiskyCmdline(h, p), RiskyCmdline(k, p))
         /\ h.vulnDir = "unread" => Kept(CpuMitigations(h, p), CpuMitigations(k, p))
         /\ h.revision = "unread" /\ k.oldMicrocode = h.oldMicrocode /\ k.microcodeLog = h.microcodeLog =>
              Kept(Microcode(h, p), Microcode(k, p))
         /\ h.iommuGroups = {} \/ k.iommuGroups = h.iommuGroups => Kept(Iommu(h, p), Iommu(k, p))
         /\ h.btime = "unread" \/ h.modulesDir = "gone" => Kept(RunningVersion(h, p), RunningVersion(k, p))
         /\ h.kexecDisabled = "unread" => Kept(Kexec(h, p), Kexec(k, p))
<1>1. /\ p.sev.microcode_stale # PASS /\ p.sev.no_iommu # PASS
  <2>1. {"microcode_stale", "no_iommu"} \subseteq DOMAIN BaseSeverities
    BY Zenon DEF BaseSeverities, Rated
  <2> QED BY <2>1 DEF Counts
<1>2. h.taint = {"unread"} => Kept(Taint(h, p), Taint(k, p))
  BY Keeping DEF Taint
<1>3. h.lockdown = "unread" => Kept(Lockdown(h, p), Lockdown(k, p))
  BY Keeping DEF Lockdown
<1>4. h.sigEnforce = "unread" => Kept(ModuleSigning(h, p), ModuleSigning(k, p))
  BY Keeping DEF ModuleSigning
<1>5. h.cmdline = {"unread"} => Kept(RiskyCmdline(h, p), RiskyCmdline(k, p))
  BY Keeping, Zenon DEF RiskyCmdline
<1>6. h.vulnDir = "unread" => Kept(CpuMitigations(h, p), CpuMitigations(k, p))
  BY Keeping DEF CpuMitigations
<1>7. h.revision = "unread" /\ k.oldMicrocode = h.oldMicrocode /\ k.microcodeLog = h.microcodeLog =>
        Kept(Microcode(h, p), Microcode(k, p))
  BY <1>1, Keeping DEF Microcode
<1>8. h.iommuGroups = {} \/ k.iommuGroups = h.iommuGroups => Kept(Iommu(h, p), Iommu(k, p))
  BY <1>1, Keeping DEF Iommu
<1>9. h.btime = "unread" \/ h.modulesDir = "gone" => Kept(RunningVersion(h, p), RunningVersion(k, p))
  BY Keeping DEF RunningVersion
<1>10. h.kexecDisabled = "unread" => Kept(Kexec(h, p), Kexec(k, p))
  BY Keeping DEF Kexec
<1> QED BY <1>2, <1>3, <1>4, <1>5, <1>6, <1>7, <1>8, <1>9, <1>10

\* The same of every check of the firmware.
LEMMA FirmwareKept ==
  ASSUME NEW h, NEW k, NEW p, Counts(p)
  PROVE  /\ h.efi = "absent" => Kept(BootMode(h, p), BootMode(k, p))
         /\ h.efi = "absent" => Kept(SecureBoot(h, p), SecureBoot(k, p))
         /\ /\ k.efi = h.efi /\ k.setupMode = h.setupMode
            /\ \/ h.secureBootVar = "unread" /\ k.bootctlSecureBoot = h.bootctlSecureBoot
               \/ h.bootctlSecureBoot = "unread" /\ k.secureBootVar = h.secureBootVar
            => Kept(SecureBoot(h, p), SecureBoot(k, p))
         /\ h.efi = "absent" \/ h.secureBootVar = "unread" \/ h.dbx = "unread" =>
              Kept(RevocationList(h, p), RevocationList(k, p))
         /\ h.tpmDevices = {} \/ h.tpmMajor = "unread" \/ h.bootctlMeasured = "unread" =>
              Kept(TrustedPlatformModule(h, p), TrustedPlatformModule(k, p))
         /\ h.efi = "absent" \/ h.efibootmgr = "unread" => Kept(BootEntries(h, p), BootEntries(k, p))
         /\ /\ k.efi = h.efi /\ k.efibootmgr = h.efibootmgr
            /\ h.bootNext = "unset" /\ k.bootOrder = h.bootOrder /\ k.bootCurrent = h.bootCurrent
            => Kept(BootEntries(h, p), BootEntries(k, p))
         /\ h.efi = "absent" \/ h.espMount = "none" => Kept(EspPermissions(h, p), EspPermissions(k, p))
<1>1. /\ p.sev.no_uefi # PASS /\ p.sev.no_dbx # PASS /\ p.sev.no_tpm # PASS /\ p.sev.no_measured_boot # PASS
      /\ p.sev.secure_boot_off # PASS /\ p.sev.secure_boot_setup_mode # PASS
  <2>1. {"no_uefi", "no_dbx", "no_tpm", "no_measured_boot", "secure_boot_off", "secure_boot_setup_mode"}
          \subseteq DOMAIN BaseSeverities
    BY Zenon DEF BaseSeverities, Rated
  <2> QED BY <2>1 DEF Counts
<1>2. h.efi = "absent" => ~IsUefi(h)
  BY DEF IsUefi
<1>3. h.efi = "absent" => Kept(BootMode(h, p), BootMode(k, p))
  BY <1>1, <1>2, Keeping DEF BootMode
<1>4. h.efi = "absent" => Kept(SecureBoot(h, p), SecureBoot(k, p))
  BY <1>2, Keeping DEF SecureBoot
<1>5. ASSUME k.efi = h.efi, k.setupMode = h.setupMode,
             \/ h.secureBootVar = "unread" /\ k.bootctlSecureBoot = h.bootctlSecureBoot
             \/ h.bootctlSecureBoot = "unread" /\ k.secureBootVar = h.secureBootVar
      PROVE  Kept(SecureBoot(h, p), SecureBoot(k, p))
  BY <1>1, <1>5, Keeping DEF SecureBoot, IsUefi
<1>6. h.efi = "absent" \/ h.secureBootVar = "unread" \/ h.dbx = "unread" =>
        Kept(RevocationList(h, p), RevocationList(k, p))
  BY <1>1, <1>2, Keeping DEF RevocationList
<1>7. h.tpmDevices = {} \/ h.tpmMajor = "unread" \/ h.bootctlMeasured = "unread" =>
        Kept(TrustedPlatformModule(h, p), TrustedPlatformModule(k, p))
  BY <1>1, Keeping DEF TrustedPlatformModule
<1>8. h.efi = "absent" \/ h.efibootmgr = "unread" => Kept(BootEntries(h, p), BootEntries(k, p))
  BY <1>2, Keeping, Zenon DEF BootEntries
<1>9. ASSUME k.efi = h.efi, k.efibootmgr = h.efibootmgr,
             h.bootNext = "unset", k.bootOrder = h.bootOrder, k.bootCurrent = h.bootCurrent
      PROVE  Kept(BootEntries(h, p), BootEntries(k, p))
  <2> DEFINE verdict ==
               IF h.bootOrder = "usb first"
               THEN Found("firmware.boot-entries.removable-first", p.sev.boot_order_unexpected)
               ELSE IF h.bootOrder # "empty" /\ h.bootCurrent = "another"
               THEN Found("firmware.boot-entries.unexpected-current", INFO)
               ELSE Passed("firmware.boot-entries.order")
             Pending(m) == FoundIf(m.bootNext = "set", "firmware.boot-entries.bootnext", LOW)
  <2>1. /\ BootEntries(h, p) = IF ~IsUefi(h) \/ h.efibootmgr = "unread" THEN Skip ELSE Yield(verdict \cup Pending(h))
        /\ BootEntries(k, p) = IF ~IsUefi(k) \/ k.efibootmgr = "unread" THEN Skip ELSE Yield(verdict \cup Pending(k))
    BY <1>9, Zenon DEF BootEntries
  <2>2. Pending(h) = {} /\ (IsUefi(k) <=> IsUefi(h))
    BY <1>9 DEF FoundIf, IsUefi
  <2>3. Kept(Yield(verdict \cup Pending(h)), Yield(verdict \cup Pending(k)))
    BY <2>2 DEF Kept, Yield
  <2> HIDE DEF verdict, Pending
  <2> QED BY <1>9, <2>1, <2>2, <2>3, Keeping
<1>10. h.efi = "absent" \/ h.espMount = "none" => Kept(EspPermissions(h, p), EspPermissions(k, p))
  BY <1>2, Keeping DEF EspPermissions
<1> QED BY <1>3, <1>4, <1>5, <1>6, <1>7, <1>8, <1>9, <1>10

\* The same of the checks of the kernel's defences.
LEMMA HardeningKept ==
  ASSUME NEW h, NEW k, NEW p, Counts(p)
  PROVE  /\ h.lsm = {"unread"} => Kept(MandatoryAccessControl(h, p), MandatoryAccessControl(k, p))
         /\ \/ h.maxUserNamespaces = NoValue /\ k.usernsClone = h.usernsClone
            \/ h.usernsClone = NoValue /\ k.maxUserNamespaces = h.maxUserNamespaces
            => Kept(UserNamespaces(h, p), UserNamespaces(k, p))
         /\ h.corePattern = "unread" => Kept(CoreDumps(h, p), CoreDumps(k, p))
<1>1. p.sev.unprivileged_userns # PASS
  <2>1. "unprivileged_userns" \in DOMAIN BaseSeverities
    BY Zenon DEF BaseSeverities, Rated
  <2> QED BY <2>1 DEF Counts
<1>2. h.lsm = {"unread"} => Kept(MandatoryAccessControl(h, p), MandatoryAccessControl(k, p))
  BY Keeping, Zenon DEF MandatoryAccessControl
<1>3. ASSUME \/ h.maxUserNamespaces = NoValue /\ k.usernsClone = h.usernsClone
             \/ h.usernsClone = NoValue /\ k.maxUserNamespaces = h.maxUserNamespaces
      PROVE  Kept(UserNamespaces(h, p), UserNamespaces(k, p))
  BY <1>1, <1>3, Keeping DEF UserNamespaces
<1>4. h.corePattern = "unread" => Kept(CoreDumps(h, p), CoreDumps(k, p))
  BY Keeping DEF CoreDumps
<1> QED BY <1>2, <1>3, <1>4

\* The same of every check of the boot chain.
LEMMA BootChainKept ==
  ASSUME NEW h, NEW k, NEW p, Counts(p)
  PROVE  /\ \/ h.bootConfig = "none" /\ k.product = h.product
            \/ h.product = "unread" /\ k.bootConfig = h.bootConfig
            => Kept(Bootloader(h, p), Bootloader(k, p))
         /\ h.bootConfig = "none" \/ h.grubSources = {"denied"} => Kept(GrubPassword(h, p), GrubPassword(k, p))
         /\ h.bootDir = "absent" => Kept(BootPermissions(h, p), BootPermissions(k, p))
         /\ h.kernelImages = {} => Kept(Initramfs(h, p), Initramfs(k, p))
         /\ \/ h.mountinfo = "unread"
            \/ /\ k.mountinfo = h.mountinfo
               /\ h.rootUuid = "unread" \/ k.rootUuid = h.rootUuid
               /\ h.swaps = "unread" \/ k.swaps = h.swaps
               /\ h.swapUuid = "unread" \/ k.swapUuid = h.swapUuid
            => Kept(DiskEncryption(h, p), DiskEncryption(k, p))
         /\ h.mountinfo = "unread" \/ h.sharedMounts = {} => Kept(MountOptions(h, p), MountOptions(k, p))
         /\ h.mountinfo = "unread" => Kept(RemovableBoot(h, p), RemovableBoot(k, p))
<1>1. p.sev.no_root_encryption # PASS /\ p.sev.unencrypted_swap # PASS
  <2>1. {"no_root_encryption", "unencrypted_swap"} \subseteq DOMAIN BaseSeverities
    BY Zenon DEF BaseSeverities, Rated
  <2> QED BY <2>1 DEF Counts
<1>2. \/ h.bootConfig = "none" /\ k.product = h.product
      \/ h.product = "unread" /\ k.bootConfig = h.bootConfig
      => Kept(Bootloader(h, p), Bootloader(k, p))
  BY Keeping DEF Bootloader
<1>3. h.bootConfig = "none" \/ h.grubSources = {"denied"} => Kept(GrubPassword(h, p), GrubPassword(k, p))
  BY Keeping DEF GrubPassword
<1>4. h.bootDir = "absent" => Kept(BootPermissions(h, p), BootPermissions(k, p))
  BY Keeping, Zenon DEF BootPermissions
<1>5. h.kernelImages = {} => Kept(Initramfs(h, p), Initramfs(k, p))
  BY Keeping, Zenon DEF Initramfs
<1>6. h.mountinfo = "unread" => Kept(DiskEncryption(h, p), DiskEncryption(k, p))
  BY Keeping, Zenon DEF DiskEncryption
<1>7. ASSUME k.mountinfo = h.mountinfo, h.mountinfo # "unread",
             h.rootUuid = "unread" \/ k.rootUuid = h.rootUuid,
             h.swaps = "unread" \/ k.swaps = h.swaps,
             h.swapUuid = "unread" \/ k.swapUuid = h.swapUuid
      PROVE  Kept(DiskEncryption(h, p), DiskEncryption(k, p))
  <2> DEFINE Root(m) == IF IsEncrypted(m.rootUuid) THEN Passed("bootchain.encryption.root")
                        ELSE Found("bootchain.encryption.none", p.sev.no_root_encryption)
             Home(m) == FoundIf(IsEncrypted(m.rootUuid) /\ m.homeUuid \notin {"no mount", "CRYPT"},
                                "bootchain.encryption.home-plain", AtLeast(p.sev.no_root_encryption, MEDIUM))
  <2>1. /\ DiskEncryption(h, p) = Yield(Root(h) \cup Home(h) \cup SwapFindings(h, p))
        /\ DiskEncryption(k, p) = Yield(Root(k) \cup Home(k) \cup SwapFindings(k, p))
    BY <1>7, Zenon DEF DiskEncryption
  <2>2. \A ok \in Root(h) : ok.sev = PASS => ok \in Root(k)
    BY <1>1, <1>7 DEF IsEncrypted, Passed, Found
  <2>3. \A ok \in Home(h) : ok.sev # PASS
    <3>1. AtLeast(p.sev.no_root_encryption, MEDIUM) # PASS
      BY <1>1, Keeping
    <3>2. \A ok \in Found("bootchain.encryption.home-plain", AtLeast(p.sev.no_root_encryption, MEDIUM)) :
            ok.sev # PASS
      BY <3>1 DEF Found
    <3> QED BY <3>2 DEF FoundIf
  <2>4. \A ok \in SwapFindings(h, p) : ok.sev = PASS => ok \in SwapFindings(k, p)
    BY <1>1, <1>7 DEF SwapFindings, IsEncrypted, Passed, Found, FoundIf
  <2> HIDE DEF Root, Home
  <2> QED BY <2>1, <2>2, <2>3, <2>4 DEF Kept, Yield
<1>8. h.mountinfo = "unread" \/ h.sharedMounts = {} => Kept(MountOptions(h, p), MountOptions(k, p))
  BY Keeping DEF MountOptions
<1>9. h.mountinfo = "unread" => Kept(RemovableBoot(h, p), RemovableBoot(k, p))
  BY Keeping DEF RemovableBoot
<1> QED BY <1>2, <1>3, <1>4, <1>5, <1>6, <1>7, <1>8, <1>9

\* The same of the checks of the services.
LEMMA ServiceKept ==
  ASSUME NEW h, NEW k, NEW p, Counts(p)
  PROVE  /\ h.state = "unread" => Kept(SystemState(h, p), SystemState(k, p))
         /\ h.exposure = {} => Kept(ServiceExposure(h, p), ServiceExposure(k, p))
         /\ h.overridesDir = "absent" => Kept(LocalOverrides(h, p), LocalOverrides(k, p))
         /\ h.bootSeconds = 0 => Kept(TotalTime(h, p), TotalTime(k, p))
         /\ h.blame = {} => Kept(DeviceWaits(h, p), DeviceWaits(k, p)) /\ Kept(SlowUnits(h, p), SlowUnits(k, p))
         /\ h.bootSeconds = 0 \/ h.firmwareSeconds = 0 => Kept(FirmwareTime(h, p), FirmwareTime(k, p))
BY Keeping, Zenon DEF SystemState, ServiceExposure, LocalOverrides, TotalTime, DeviceWaits, SlowUnits, FirmwareTime

\* The same of the checks of what starts by itself.
LEMMA PersistenceKept ==
  ASSUME NEW h, NEW k, NEW p, Counts(p)
  PROVE  /\ h.preload = "denied" => Kept(LibraryPreloading(h, p), LibraryPreloading(k, p))
         /\ h.units = {} => Kept(SuspiciousUnits(h, p), SuspiciousUnits(k, p))
         /\ h.autostart = {} => Kept(AutostartEntries(h, p), AutostartEntries(k, p))
         /\ h.cron = {} \/ k.cron = h.cron => Kept(ScheduledJobs(h, p), ScheduledJobs(k, p))
         /\ h.profiles = {} => Kept(ShellProfiles(h, p), ShellProfiles(k, p))
         /\ h.pathDirs = {} => Kept(WritablePath(h, p), WritablePath(k, p))
<1>1. p.sev.ld_preload # PASS /\ p.sev.cron_suspicious # PASS
  <2>1. {"ld_preload", "cron_suspicious"} \subseteq DOMAIN BaseSeverities
    BY Zenon DEF BaseSeverities, Rated
  <2> QED BY <2>1 DEF Counts
<1>2. h.preload = "denied" => Kept(LibraryPreloading(h, p), LibraryPreloading(k, p))
  BY <1>1, Keeping DEF LibraryPreloading
<1>3. h.units = {} => Kept(SuspiciousUnits(h, p), SuspiciousUnits(k, p))
  <2>1. h.units = {} => CollectUnits(h) = {}
    BY DEF CollectUnits
  <2> QED BY <2>1, Keeping, Zenon DEF SuspiciousUnits
<1>4. h.autostart = {} => Kept(AutostartEntries(h, p), AutostartEntries(k, p))
  BY Keeping, Zenon DEF AutostartEntries
<1>5. ASSUME h.cron = {} PROVE Kept(ScheduledJobs(h, p), ScheduledJobs(k, p))
  <2>1. CollectCron(h) = {} /\ ~ \E f \in h.cron : f.file = "denied"
    BY <1>5 DEF CollectCron
  <2> QED BY <2>1, Keeping, Zenon DEF ScheduledJobs
<1>6. ASSUME k.cron = h.cron PROVE Kept(ScheduledJobs(h, p), ScheduledJobs(k, p))
  <2> DEFINE entries == CollectCron(h)
             unreadable == \E f \in h.cron : f.file = "denied"
             Flagging(m) == Flagged(entries, "persistence.scheduled.job-" \o m.hashSeed, p, "cron_suspicious")
             denied == FoundIf(unreadable, "persistence.scheduled.unreadable", INFO)
             Clean(m) == FoundIf(Flagging(m) = {}, "persistence.scheduled.clean", PASS)
  <2>1. CollectCron(k) = entries
    BY <1>6 DEF CollectCron
  <2>2. /\ ScheduledJobs(h, p) = IF entries = {} /\ ~unreadable THEN Skip ELSE Yield(Flagging(h) \cup denied \cup Clean(h))
        /\ ScheduledJobs(k, p) = IF entries = {} /\ ~unreadable THEN Skip ELSE Yield(Flagging(k) \cup denied \cup Clean(k))
    BY <1>6, <2>1, Zenon DEF ScheduledJobs
  <2>3. Flagging(h) = {} <=> Flagging(k) = {}
    BY DEF Flagged
  <2>4. Clean(h) = Clean(k)
    <3> HIDE DEF Flagging
    <3> QED BY <2>3
  <2>5. \A ok \in Flagging(h) : ok.sev # PASS
    BY <1>1, Keeping DEF Flagged, WeightOf
  <2> HIDE DEF entries, unreadable, Flagging, denied, Clean
  <2> QED BY <2>2, <2>4, <2>5, Keeping DEF Kept, Yield
<1>7. h.profiles = {} => Kept(ShellProfiles(h, p), ShellProfiles(k, p))
  BY Keeping, Zenon DEF ShellProfiles
<1>8. h.pathDirs = {} => Kept(WritablePath(h, p), WritablePath(k, p))
  BY Keeping DEF WritablePath
<1> QED BY <1>2, <1>3, <1>4, <1>5, <1>6, <1>7, <1>8

\* The same of the drift from the baseline and of the journal's errors.
LEMMA IntegrityKept ==
  ASSUME NEW h, NEW k, NEW p
  PROVE  /\ h.baselineTaken = FALSE => Kept(BaselineDrift(h, p), BaselineDrift(k, p))
         /\ h.journalErrors = -1 => Kept(JournalErrors(h, p), JournalErrors(k, p))
<1>1. ASSUME h.baselineTaken = FALSE PROVE Kept(BaselineDrift(h, p), BaselineDrift(k, p))
  <2>1. BaselineDrift(h, p) = Yield(Found("integrity.baseline.none", INFO))
    BY <1>1, Zenon DEF BaselineDrift
  <2> QED BY <2>1, Keeping
<1>2. h.journalErrors = -1 => Kept(JournalErrors(h, p), JournalErrors(k, p))
  BY Keeping DEF JournalErrors
<1> QED BY <1>1, <1>2

\* What one of the six kinds of custom check came to.
OfKind(kind, a, b, c, d, e, f) ==
  CASE kind = "sysctl" -> a
    [] kind = "file_exists" -> b
    [] kind = "file_mode" -> c
    [] kind = "file_contains" -> d
    [] kind = "cmdline" -> e
    [] kind = "unit_state" -> f

\* It is decided by what that kind looks at.
LEMMA KindsDecide ==
  ASSUME NEW kind \in Kinds, NEW a, NEW aa, NEW b, NEW c, NEW cc, NEW d, NEW e, NEW f,
         kind = "sysctl" => aa = a, kind = "file_mode" => cc = c
  PROVE  OfKind(kind, aa, b, cc, d, e, f) = OfKind(kind, a, b, c, d, e, f)
BY DEF OfKind, Kinds

\* A check the user wrote skips while its sysctl or its mode is not read, and one that
\* is not there yet is not usable.
LEMMA CustomKept ==
  ASSUME NEW h, NEW k, NEW p, h.definition.kind \in Kinds,
         \/ h.definition = Definition("sysctl", "eq", 1, "present", {}, {"key"})
         \/ /\ k.definition = h.definition /\ k.customFile = h.customFile /\ k.customCmdline = h.customCmdline
            /\ k.customUnit = h.customUnit
            /\ \/ h.customSysctl = NoNumber /\ k.customMode = h.customMode
               \/ h.customMode = {"unread"} /\ k.customSysctl = h.customSysctl
  PROVE  Kept(Evaluate(h, p), Evaluate(k, p))
<1>1. CASE h.definition = Definition("sysctl", "eq", 1, "present", {}, {"key"})
  <2>1. h.definition.kind = "sysctl" /\ h.definition.fields = {"key"}
    BY <1>1 DEF Definition
  <2>2. "value" \in Required["sysctl"] /\ "value" # "key"
    BY DEF Required, Kinds
  <2>3. ~Usable(h.definition)
    BY <2>1, <2>2 DEF Usable
  <2>4. Evaluate(h, p) = Skip
    BY <2>3, Zenon DEF Evaluate
  <2> QED BY <2>4, Keeping
<1>2. CASE /\ k.definition = h.definition /\ k.customFile = h.customFile /\ k.customCmdline = h.customCmdline
           /\ k.customUnit = h.customUnit
           /\ \/ h.customSysctl = NoNumber /\ k.customMode = h.customMode
              \/ h.customMode = {"unread"} /\ k.customSysctl = h.customSysctl
  <2>1. CASE \/ ~Usable(h.definition)
             \/ h.definition.kind = "sysctl" /\ h.customSysctl = NoNumber
             \/ h.definition.kind = "file_mode" /\ h.customMode = {"unread"}
    <3>1. Evaluate(h, p) = Skip
      BY <2>1, Zenon DEF Evaluate
    <3> QED BY <3>1, Keeping
  <2>2. CASE /\ Usable(h.definition)
             /\ h.definition.kind = "sysctl" => h.customSysctl # NoNumber
             /\ h.definition.kind = "file_mode" => h.customMode # {"unread"}
    <3> DEFINE d == h.definition
               Skips(m) == \/ d.kind = "sysctl" /\ m.customSysctl = NoNumber
                           \/ d.kind = "file_mode" /\ m.customMode = {"unread"}
                           \/ d.kind = "file_contains" /\ m.customFile \in {"denied", "missing"}
               Satisfied(m) == OfKind(d.kind, EvalSysctl(d, m), EvalFileExists(d, m), EvalFileMode(d, m),
                                      EvalFileContains(d, m), EvalCmdline(d, m), EvalUnitState(m))
               Verdict(m) == IF ~Usable(d) \/ Skips(m) THEN Skip
                             ELSE IF Satisfied(m) THEN Yield(Passed("site.check.ok"))
                             ELSE Yield(Found("site.check.failed", MEDIUM))
    <3>1. Evaluate(h, p) = Verdict(h) /\ Evaluate(k, p) = Verdict(k)
      BY <1>2, Zenon DEF Evaluate, OfKind
    <3>2. /\ EvalFileExists(d, k) = EvalFileExists(d, h) /\ EvalFileContains(d, k) = EvalFileContains(d, h)
          /\ EvalCmdline(d, k) = EvalCmdline(d, h) /\ EvalUnitState(k) = EvalUnitState(h)
      BY <1>2, Zenon DEF EvalFileExists, EvalFileContains, EvalCmdline, EvalUnitState
    <3>3. k.customSysctl = h.customSysctl => EvalSysctl(d, k) = EvalSysctl(d, h)
      <4> DEFINE Holds(actual) ==
                   IF Text \in {actual, d.value} THEN (actual = d.value) <=> (d.compare = "eq")
                   ELSE CASE d.compare = "eq" -> actual = d.value
                          [] d.compare = "ne" -> actual # d.value
                          [] d.compare = "ge" -> actual >= d.value
                          [] d.compare = "le" -> actual <= d.value
      <4>1. \A m : EvalSysctl(d, m) = Holds(m.customSysctl)
        BY Zenon DEF EvalSysctl
      <4> HIDE DEF Holds
      <4> QED BY <4>1, Zenon
    <3>4. k.customMode = h.customMode => EvalFileMode(d, k) = EvalFileMode(d, h)
      BY Zenon DEF EvalFileMode
    <3>5. /\ d.kind = "sysctl" => k.customSysctl = h.customSysctl
          /\ d.kind = "file_mode" => k.customMode = h.customMode
      BY <1>2, <2>2
    <3>6. Satisfied(k) = Satisfied(h)
      <4>1. d.kind \in Kinds
        OBVIOUS
      <4> HIDE DEF d
      <4> QED BY <3>2, <3>3, <3>4, <3>5, <4>1, KindsDecide
    <3>7. Skips(k) <=> Skips(h)
      BY <1>2, <3>5
    <3> HIDE DEF Satisfied, Skips, d
    <3> QED BY <3>1, <3>6, <3>7, Keeping
  <2> QED BY <2>1, <2>2
<1> QED BY <1>1, <1>2

\* What each fact looks like when it was not read.
LEMMA Blanks ==
  /\ Unread("taint") = {"unread"} /\ Unread("cmdline") = {"unread"}
  /\ \A f \in {"lockdown", "sigEnforce", "vulnDir", "revision", "btime", "kexecDisabled"} : Unread(f) = "unread"
  /\ Unread("iommuGroups") = {} /\ Unread("modulesDir") = "gone"
  /\ Unread("efi") = "absent" /\ Unread("tpmDevices") = {} /\ Unread("bootNext") = "unset" /\ Unread("espMount") = "none"
  /\ \A f \in {"secureBootVar", "bootctlSecureBoot", "dbx", "tpmMajor", "bootctlMeasured", "efibootmgr"} :
       Unread(f) = "unread"
  /\ Unread("lsm") = {"unread"} /\ Unread("corePattern") = "unread"
  /\ Unread("maxUserNamespaces") = NoValue /\ Unread("usernsClone") = NoValue
  /\ Unread("bootConfig") = "none" /\ Unread("grubSources") = {"denied"} /\ Unread("bootDir") = "absent"
  /\ Unread("kernelImages") = {} /\ Unread("sharedMounts") = {}
  /\ \A f \in {"product", "mountinfo", "rootUuid", "homeUuid", "swaps", "swapUuid"} : Unread(f) = "unread"
  /\ Unread("state") = "unread" /\ Unread("exposure") = {} /\ Unread("overridesDir") = "absent"
  /\ Unread("bootSeconds") = 0 /\ Unread("blame") = {} /\ Unread("firmwareSeconds") = 0
  /\ Unread("preload") = "denied"
  /\ \A f \in {"units", "autostart", "cron", "profiles", "pathDirs"} : Unread(f) = {}
  /\ Unread("baselineTaken") = FALSE /\ Unread("journalErrors") = -1
  /\ Unread("definition") = Definition("sysctl", "eq", 1, "present", {}, {"key"})
  /\ Unread("customSysctl") = NoNumber /\ Unread("customMode") = {"unread"}
<1>1. /\ Unread("taint") = {"unread"} /\ Unread("cmdline") = {"unread"}
      /\ \A f \in {"lockdown", "sigEnforce", "vulnDir", "revision", "btime", "kexecDisabled"} : Unread(f) = "unread"
      /\ Unread("iommuGroups") = {} /\ Unread("modulesDir") = "gone"
  <2>1. \A k \in DOMAIN KernelFacts : Unread(k) = KernelFacts[k][1]
    BY FactsAre DEF Unread
  <2> QED BY <2>1, FactNames DEF KernelFacts
<1>2. /\ Unread("efi") = "absent" /\ Unread("tpmDevices") = {} /\ Unread("bootNext") = "unset" /\ Unread("espMount") = "none"
      /\ \A f \in {"secureBootVar", "bootctlSecureBoot", "dbx", "tpmMajor", "bootctlMeasured", "efibootmgr"} :
           Unread(f) = "unread"
  <2>1. \A k \in DOMAIN FirmwareFacts : Unread(k) = FirmwareFacts[k][1]
    BY FactsAre DEF Unread
  <2>2. FirmwareFacts["efi"][1] = "absent" /\ FirmwareFacts["tpmDevices"][1] = {}
    BY DEF FirmwareFacts
  <2>3. FirmwareFacts["bootNext"][1] = "unset" /\ FirmwareFacts["espMount"][1] = "none"
    BY DEF FirmwareFacts
  <2>4. /\ FirmwareFacts["secureBootVar"][1] = "unread" /\ FirmwareFacts["bootctlSecureBoot"][1] = "unread" /\ FirmwareFacts["dbx"][1] = "unread"
    BY DEF FirmwareFacts
  <2>5. /\ FirmwareFacts["tpmMajor"][1] = "unread" /\ FirmwareFacts["bootctlMeasured"][1] = "unread" /\ FirmwareFacts["efibootmgr"][1] = "unread"
    BY DEF FirmwareFacts
  <2> QED BY <2>1, <2>2, <2>3, <2>4, <2>5, FactNames
<1>3. /\ Unread("lsm") = {"unread"} /\ Unread("corePattern") = "unread"
      /\ Unread("maxUserNamespaces") = NoValue /\ Unread("usernsClone") = NoValue
  <2>1. \A k \in DOMAIN HardeningFacts : Unread(k) = HardeningFacts[k][1]
    BY FactsAre DEF Unread
  <2> QED BY <2>1, FactNames DEF HardeningFacts
<1>4. /\ Unread("bootConfig") = "none" /\ Unread("grubSources") = {"denied"} /\ Unread("bootDir") = "absent"
      /\ Unread("kernelImages") = {} /\ Unread("sharedMounts") = {}
      /\ \A f \in {"product", "mountinfo", "rootUuid", "homeUuid", "swaps", "swapUuid"} : Unread(f) = "unread"
  <2>1. \A k \in DOMAIN BootChainFacts : Unread(k) = BootChainFacts[k][1]
    BY FactsAre DEF Unread
  <2> QED BY <2>1, FactNames DEF BootChainFacts
<1>5. /\ Unread("state") = "unread" /\ Unread("exposure") = {} /\ Unread("overridesDir") = "absent"
      /\ Unread("bootSeconds") = 0 /\ Unread("blame") = {} /\ Unread("firmwareSeconds") = 0
  <2>1. \A k \in DOMAIN ServiceFacts : Unread(k) = ServiceFacts[k][1]
    BY FactsAre DEF Unread
  <2> QED BY <2>1, FactNames DEF ServiceFacts
<1>6. /\ Unread("preload") = "denied"
      /\ \A f \in {"units", "autostart", "cron", "profiles", "pathDirs"} : Unread(f) = {}
  <2>1. \A k \in DOMAIN PersistenceFacts : Unread(k) = PersistenceFacts[k][1]
    BY FactsAre DEF Unread
  <2>2. PersistenceFacts["preload"][1] = "denied"
    BY DEF PersistenceFacts
  <2>3. PersistenceFacts["units"][1] = {}
    BY DEF PersistenceFacts
  <2>4. PersistenceFacts["autostart"][1] = {}
    BY DEF PersistenceFacts
  <2>5. PersistenceFacts["cron"][1] = {}
    BY DEF PersistenceFacts
  <2>6. PersistenceFacts["profiles"][1] = {}
    BY DEF PersistenceFacts
  <2>7. PersistenceFacts["pathDirs"][1] = {}
    BY DEF PersistenceFacts
  <2> QED BY <2>1, <2>2, <2>3, <2>4, <2>5, <2>6, <2>7, FactNames
<1>7. Unread("baselineTaken") = FALSE /\ Unread("journalErrors") = -1
  <2>1. \A k \in DOMAIN IntegrityFacts : Unread(k) = IntegrityFacts[k][1]
    BY FactsAre DEF Unread
  <2> QED BY <2>1, FactNames DEF IntegrityFacts
<1>8. /\ Unread("definition") = Definition("sysctl", "eq", 1, "present", {}, {"key"})
      /\ Unread("customSysctl") = NoNumber /\ Unread("customMode") = {"unread"}
  <2>1. \A k \in DOMAIN CustomFacts : Unread(k) = CustomFacts[k][1]
    BY FactsAre DEF Unread
  <2>2. CustomFacts["definition"][1] = Definition("sysctl", "eq", 1, "present", {}, {"key"})
    BY DEF CustomFacts
  <2>3. CustomFacts["customSysctl"][1] = NoNumber /\ CustomFacts["customMode"][1] = {"unread"}
    BY DEF CustomFacts
  <2> QED BY <2>1, <2>2, <2>3, FactNames
<1> QED BY <1>1, <1>2, <1>3, <1>4, <1>5, <1>6, <1>7, <1>8

\* A definition is of one of the six kinds.
LEMMA KindsKnown ==
  /\ Unread("definition").kind \in Kinds
  /\ \A d \in Readings("definition") : d.kind \in Kinds
<1>1. Unread("definition").kind \in Kinds
  BY Blanks DEF Definition, Kinds
<1>2. \A d \in Readings("definition") : d.kind \in Kinds
  <2>1. Facts["definition"] = CustomFacts["definition"]
    BY FactsAre, FactNames
  <2> QED BY <2>1 DEF CustomFacts, Readings, Definition, Kinds
<1> QED BY <1>1, <1>2

\* Two machines the probe read alike, but for one fact that it had not read in the first.
OneMore(c, h, k, f) ==
  /\ f \in Catalogue[c].reads /\ h[f] = Unread(f) /\ ~Unlooked(c, f)
  /\ \A g \in Catalogue[c].reads : g # f => k[g] = h[g]

\* Every check of the catalogue: when one more fact is read, but for those of Unlooked, a
\* pass that was given is given again or the check is skipped.
LEMMA RunKept ==
  ASSUME NEW c \in Checks, NEW h, NEW k, NEW f, NEW p, Counts(p), OneMore(c, h, k, f),
         c = "custom" => h.definition.kind \in Kinds
  PROVE  Kept(RunCheck(c, h, p), RunCheck(c, k, p))
<1>1. ASSUME c \in {"taint", "lockdown", "module_signing", "risky_cmdline", "cpu_mitigations",
             "microcode", "iommu", "running_version", "kexec"}
      PROVE  Kept(RunCheck(c, h, p), RunCheck(c, k, p))
  <2>1. c = "taint" => h.taint = {"unread"}
    BY TheReads, Blanks DEF OneMore, Unlooked
  <2>2. c = "lockdown" => h.lockdown = "unread"
    BY TheReads, Blanks DEF OneMore, Unlooked
  <2>3. c = "module_signing" => h.sigEnforce = "unread"
    BY TheReads, Blanks DEF OneMore, Unlooked
  <2>4. c = "risky_cmdline" => h.cmdline = {"unread"}
    BY TheReads, Blanks DEF OneMore, Unlooked
  <2>5. c = "cpu_mitigations" => h.vulnDir = "unread"
    BY TheReads, Blanks DEF OneMore, Unlooked
  <2>6. c = "microcode" => h.revision = "unread" /\ k.oldMicrocode = h.oldMicrocode /\ k.microcodeLog = h.microcodeLog
    BY TheReads, Blanks DEF OneMore, Unlooked
  <2>7. c = "iommu" => (h.iommuGroups = {} \/ k.iommuGroups = h.iommuGroups)
    BY TheReads, Blanks DEF OneMore, Unlooked
  <2>8. c = "running_version" => (h.btime = "unread" \/ h.modulesDir = "gone")
    BY TheReads, Blanks DEF OneMore, Unlooked
  <2>9. c = "kexec" => h.kexecDisabled = "unread"
    BY TheReads, Blanks DEF OneMore, Unlooked
  <2>10. /\ c = "taint" => Kept(Taint(h, p), Taint(k, p))
         /\ c = "lockdown" => Kept(Lockdown(h, p), Lockdown(k, p))
         /\ c = "module_signing" => Kept(ModuleSigning(h, p), ModuleSigning(k, p))
         /\ c = "risky_cmdline" => Kept(RiskyCmdline(h, p), RiskyCmdline(k, p))
         /\ c = "cpu_mitigations" => Kept(CpuMitigations(h, p), CpuMitigations(k, p))
         /\ c = "microcode" => Kept(Microcode(h, p), Microcode(k, p))
         /\ c = "iommu" => Kept(Iommu(h, p), Iommu(k, p))
         /\ c = "running_version" => Kept(RunningVersion(h, p), RunningVersion(k, p))
         /\ c = "kexec" => Kept(Kexec(h, p), Kexec(k, p))
    BY <2>1, <2>2, <2>3, <2>4, <2>5, <2>6, <2>7, <2>8, <2>9, KernelKept
  <2>11. c \in {"taint", "lockdown", "module_signing", "risky_cmdline", "cpu_mitigations"}
           => Kept(RunCheck(c, h, p), RunCheck(c, k, p))
    BY <2>10, Zenon DEF RunCheck
  <2>12. c \in {"microcode", "iommu", "running_version", "kexec"}
           => Kept(RunCheck(c, h, p), RunCheck(c, k, p))
    BY <2>10, Zenon DEF RunCheck
  <2> QED BY <1>1, <2>11, <2>12
<1>2. ASSUME c \in {"boot_mode", "secure_boot", "revocation_list", "trusted_platform_module",
             "boot_entries", "esp_permissions"}
      PROVE  Kept(RunCheck(c, h, p), RunCheck(c, k, p))
  <2>1. c = "boot_mode" => h.efi = "absent"
    BY TheReads, Blanks DEF OneMore, Unlooked
  <2>2. c = "secure_boot" => (\/ h.efi = "absent"
                              \/ /\ k.efi = h.efi /\ k.setupMode = h.setupMode
                                 /\ \/ h.secureBootVar = "unread" /\ k.bootctlSecureBoot = h.bootctlSecureBoot
                                    \/ h.bootctlSecureBoot = "unread" /\ k.secureBootVar = h.secureBootVar)
    BY TheReads, Blanks DEF OneMore, Unlooked
  <2>3. c = "revocation_list" => (h.efi = "absent" \/ h.secureBootVar = "unread" \/ h.dbx = "unread")
    BY TheReads, Blanks DEF OneMore, Unlooked
  <2>4. c = "trusted_platform_module" => (h.tpmDevices = {} \/ h.tpmMajor = "unread" \/ h.bootctlMeasured = "unread")
    BY TheReads, Blanks DEF OneMore, Unlooked
  <2>5. c = "boot_entries" => (\/ h.efi = "absent" \/ h.efibootmgr = "unread"
                               \/ /\ k.efi = h.efi /\ k.efibootmgr = h.efibootmgr
                                  /\ h.bootNext = "unset" /\ k.bootOrder = h.bootOrder /\ k.bootCurrent = h.bootCurrent)
    BY TheReads, Blanks DEF OneMore, Unlooked
  <2>6. c = "esp_permissions" => (h.efi = "absent" \/ h.espMount = "none")
    BY TheReads, Blanks DEF OneMore, Unlooked
  <2> QED BY <1>2, <2>1, <2>2, <2>3, <2>4, <2>5, <2>6, FirmwareKept, Zenon DEF RunCheck
<1>3. ASSUME c \in {"sysctl_expectations", "mandatory_access_control", "user_namespaces",
             "core_dumps"}
      PROVE  Kept(RunCheck(c, h, p), RunCheck(c, k, p))
  <2>1. c # "sysctl_expectations"
    BY TheReads, Blanks DEF OneMore, Unlooked
  <2>2. c = "mandatory_access_control" => h.lsm = {"unread"}
    BY TheReads, Blanks DEF OneMore, Unlooked
  <2>3. c = "user_namespaces" => (\/ h.maxUserNamespaces = NoValue /\ k.usernsClone = h.usernsClone
                                  \/ h.usernsClone = NoValue /\ k.maxUserNamespaces = h.maxUserNamespaces)
    BY TheReads, Blanks DEF OneMore, Unlooked
  <2>4. c = "core_dumps" => h.corePattern = "unread"
    BY TheReads, Blanks DEF OneMore, Unlooked
  <2> QED BY <1>3, <2>1, <2>2, <2>3, <2>4, HardeningKept, Zenon DEF RunCheck
<1>4. ASSUME c \in {"bootloader", "grub_password", "boot_permissions", "initramfs",
             "disk_encryption", "mount_options", "removable_boot"}
      PROVE  Kept(RunCheck(c, h, p), RunCheck(c, k, p))
  <2>1. c = "bootloader" => (\/ h.bootConfig = "none" /\ k.product = h.product
                             \/ h.product = "unread" /\ k.bootConfig = h.bootConfig)
    BY TheReads, Blanks DEF OneMore, Unlooked
  <2>2. c = "grub_password" => (h.bootConfig = "none" \/ h.grubSources = {"denied"})
    BY TheReads, Blanks DEF OneMore, Unlooked
  <2>3. c = "boot_permissions" => h.bootDir = "absent"
    BY TheReads, Blanks DEF OneMore, Unlooked
  <2>4. c = "initramfs" => h.kernelImages = {}
    BY TheReads, Blanks DEF OneMore, Unlooked
  <2>5. c = "disk_encryption" => (\/ h.mountinfo = "unread"
                                  \/ /\ k.mountinfo = h.mountinfo
                                     /\ h.rootUuid = "unread" \/ k.rootUuid = h.rootUuid
                                     /\ h.swaps = "unread" \/ k.swaps = h.swaps
                                     /\ h.swapUuid = "unread" \/ k.swapUuid = h.swapUuid)
    BY TheReads, Blanks DEF OneMore, Unlooked
  <2>6. c = "mount_options" => (h.mountinfo = "unread" \/ h.sharedMounts = {})
    BY TheReads, Blanks DEF OneMore, Unlooked
  <2>7. c = "removable_boot" => h.mountinfo = "unread"
    BY TheReads, Blanks DEF OneMore, Unlooked
  <2> QED BY <1>4, <2>1, <2>2, <2>3, <2>4, <2>5, <2>6, <2>7, BootChainKept, Zenon DEF RunCheck
<1>5. ASSUME c \in {"failed_units", "system_state", "service_exposure", "local_overrides", "masked_units",
             "total_time", "device_waits", "slow_units", "firmware_time"}
      PROVE  Kept(RunCheck(c, h, p), RunCheck(c, k, p))
  <2>1. c # "failed_units"
    BY TheReads, Blanks DEF OneMore, Unlooked
  <2>2. c # "masked_units"
    BY TheReads, Blanks DEF OneMore, Unlooked
  <2>3. c = "system_state" => h.state = "unread"
    BY TheReads, Blanks DEF OneMore, Unlooked
  <2>4. c = "service_exposure" => h.exposure = {}
    BY TheReads, Blanks DEF OneMore, Unlooked
  <2>5. c = "local_overrides" => h.overridesDir = "absent"
    BY TheReads, Blanks DEF OneMore, Unlooked
  <2>6. c = "total_time" => h.bootSeconds = 0
    BY TheReads, Blanks DEF OneMore, Unlooked
  <2>7. c = "device_waits" => h.blame = {}
    BY TheReads, Blanks DEF OneMore, Unlooked
  <2>8. c = "slow_units" => h.blame = {}
    BY TheReads, Blanks DEF OneMore, Unlooked
  <2>9. c = "firmware_time" => (h.bootSeconds = 0 \/ h.firmwareSeconds = 0)
    BY TheReads, Blanks DEF OneMore, Unlooked
  <2> QED BY <1>5, <2>1, <2>2, <2>3, <2>4, <2>5, <2>6, <2>7, <2>8, <2>9, ServiceKept, Zenon DEF RunCheck
<1>6. ASSUME c \in {"library_preloading", "suspicious_units", "autostart_entries", "scheduled_jobs",
             "shell_profiles", "kernel_hooks", "writable_path"}
      PROVE  Kept(RunCheck(c, h, p), RunCheck(c, k, p))
  <2>1. c = "library_preloading" => h.preload = "denied"
    BY TheReads, Blanks DEF OneMore, Unlooked
  <2>2. c = "suspicious_units" => h.units = {}
    BY TheReads, Blanks DEF OneMore, Unlooked
  <2>3. c = "autostart_entries" => h.autostart = {}
    BY TheReads, Blanks DEF OneMore, Unlooked
  <2>4. c = "scheduled_jobs" => (h.cron = {} \/ k.cron = h.cron)
    BY TheReads, Blanks DEF OneMore, Unlooked
  <2>5. c = "shell_profiles" => h.profiles = {}
    BY TheReads, Blanks DEF OneMore, Unlooked
  <2>6. c # "kernel_hooks"
    BY TheReads, Blanks DEF OneMore, Unlooked
  <2>7. c = "writable_path" => h.pathDirs = {}
    BY TheReads, Blanks DEF OneMore, Unlooked
  <2> QED BY <1>6, <2>1, <2>2, <2>3, <2>4, <2>5, <2>6, <2>7, PersistenceKept, Zenon DEF RunCheck
<1>7. ASSUME c \in {"baseline_drift", "journal_errors"}
      PROVE  Kept(RunCheck(c, h, p), RunCheck(c, k, p))
  <2>1. c = "baseline_drift" => h.baselineTaken = FALSE
    BY TheReads, Blanks DEF OneMore, Unlooked
  <2>2. c = "journal_errors" => h.journalErrors = -1
    BY TheReads, Blanks DEF OneMore, Unlooked
  <2> QED BY <1>7, <2>1, <2>2, IntegrityKept, Zenon DEF RunCheck
<1>8. ASSUME c \in {"custom"}
      PROVE  Kept(RunCheck(c, h, p), RunCheck(c, k, p))
  <2>1. c = "custom" => (\/ h.definition = Definition("sysctl", "eq", 1, "present", {}, {"key"})
                        \/ /\ k.definition = h.definition /\ k.customFile = h.customFile
                           /\ k.customCmdline = h.customCmdline /\ k.customUnit = h.customUnit
                           /\ \/ h.customSysctl = NoNumber /\ k.customMode = h.customMode
                              \/ h.customMode = {"unread"} /\ k.customSysctl = h.customSysctl)
    BY TheReads, Blanks DEF OneMore, Unlooked
  <2> QED BY <1>8, <2>1, CustomKept, Zenon DEF RunCheck
<1> QED BY <1>1, <1>2, <1>3, <1>4, <1>5, <1>6, <1>7, <1>8 DEF Checks, Catalogue

\* Nothing is reported of a file that was there and is when and only when it is the same.
LEMMA EntrySame ==
  ASSUME NEW q, NEW x, NEW y, x # NoFile, y # NoFile, x.content # Unhashed, y.content # Unhashed
  PROVE  CompareEntry(q, RecordOne(x), RecordOne(y)) = {} <=> SameFile(x, y)
<1> DEFINE was == RecordOne(x)
           now == RecordOne(y)
           kinds ==
             (IF Hashed(was) /\ Hashed(now)
              THEN IF was.sha256 # now.sha256 THEN {"content"} ELSE {}
              ELSE IF was.size # now.size THEN {"content"}
              ELSE IF was.mtime # now.mtime THEN {"timestamp"} ELSE {})
             \cup (IF was.mode # now.mode THEN {"permissions"} ELSE {})
             \cup (IF was.uid # now.uid THEN {"owner"} ELSE {})
<1>1. CompareEntry(q, was, now) = {Change(q, k, now.mtime) : k \in kinds}
  BY Zenon DEF CompareEntry
<1>2. /\ was.mode = x.mode /\ was.uid = x.uid /\ was.size = x.size /\ was.mtime = x.mtime
      /\ now.mode = y.mode /\ now.uid = y.uid /\ now.size = y.size /\ now.mtime = y.mtime
  BY DEF RecordOne
<1>3. /\ was.sha256 = IF x.readable THEN x.content ELSE Unhashed
      /\ now.sha256 = IF y.readable THEN y.content ELSE Unhashed
  BY DEF RecordOne
<1>4. (Hashed(was) <=> x.readable) /\ (Hashed(now) <=> y.readable)
  BY <1>3 DEF Hashed
<1> HIDE DEF was, now
<1>5. kinds = {} <=> SameFile(x, y)
  BY <1>2, <1>3, <1>4 DEF SameFile
<1> HIDE DEF kinds
<1>6. CompareEntry(q, was, now) = {} <=> kinds = {}
  BY <1>1
<1> QED BY <1>5, <1>6 DEF was, now

\* Nothing is reported of two states of the watched files when and only when each is the
\* same: none came, none went, and none that stayed is another.
LEMMA CompareSame ==
  ASSUME NEW a, NEW b, DOMAIN a = Paths, DOMAIN b = Paths,
         \A q \in Paths : /\ a[q] # NoFile => a[q].content # Unhashed
                          /\ b[q] # NoFile => b[q].content # Unhashed
  PROVE  Compare(Record(a), Record(b)) = {} <=> \A q \in Paths : SameFile(a[q], b[q])
<1>1. SUFFICES ASSUME NEW was, NEW now, was = Record(a), now = Record(b)
               PROVE  Compare(was, now) = {} <=> \A q \in Paths : SameFile(a[q], b[q])
  OBVIOUS
<1>2. /\ DOMAIN was = {q \in Paths : a[q] # NoFile} /\ DOMAIN now = {q \in Paths : b[q] # NoFile}
      /\ \A q \in DOMAIN was : was[q] = RecordOne(a[q])
      /\ \A q \in DOMAIN now : now[q] = RecordOne(b[q])
  BY <1>1 DEF Record
<1>3. Compare(was, now) = {} <=>
        /\ \A q \in DOMAIN was \cap DOMAIN now : CompareEntry(q, was[q], now[q]) = {}
        /\ DOMAIN now \subseteq DOMAIN was /\ DOMAIN was \subseteq DOMAIN now
  <2>1. \A q \in DOMAIN was \cap DOMAIN now : CompareEntry(q, was[q], now[q]) \subseteq Compare(was, now)
    BY DEF Compare
  <2>2. \A q \in DOMAIN now \ DOMAIN was : Change(q, "added", now[q].mtime) \in Compare(was, now)
    BY DEF Compare
  <2>3. \A q \in DOMAIN was \ DOMAIN now : Change(q, "removed", was[q].mtime) \in Compare(was, now)
    BY DEF Compare
  <2>4. \A x \in Compare(was, now) :
          \/ \E q \in DOMAIN was \cap DOMAIN now : x \in CompareEntry(q, was[q], now[q])
          \/ \E q \in DOMAIN now : q \notin DOMAIN was
          \/ \E q \in DOMAIN was : q \notin DOMAIN now
    BY DEF Compare
  <2> QED BY <2>1, <2>2, <2>3, <2>4
<1>4. ASSUME NEW q \in Paths
      PROVE  SameFile(a[q], b[q]) <=>
               /\ (q \in DOMAIN was) <=> (q \in DOMAIN now)
               /\ q \in DOMAIN was \cap DOMAIN now => CompareEntry(q, was[q], now[q]) = {}
  <2>1. CASE q \in DOMAIN was \cap DOMAIN now
    BY <1>2, <2>1, EntrySame
  <2>2. CASE q \notin DOMAIN was \cap DOMAIN now
    BY <1>2, <2>2 DEF SameFile
  <2> QED BY <2>1, <2>2
<1> QED BY <1>2, <1>3, <1>4

\* The check of the baseline says that nothing has changed when and only when there is a
\* baseline and nothing is reported.
LEMMA DriftSays ==
  ASSUME NEW h, NEW p
  PROVE  Passed("integrity.baseline.unchanged") = BaselineDrift(h, p).found
           <=> h.baselineTaken /\ Compare(Record(h.was), Record(h.now)) = {}
<1> DEFINE changes == Compare(Record(h.was), Record(h.now))
           weight == LET given == IF LooksLikeAKernelUpdate(changes)
                                   THEN p.sev.baseline_drift_expected ELSE p.sev.baseline_drift
                         mild == {c \in changes : c.kind \in SeriousKinds} = {}
                     IN  IF mild /\ given > LOW THEN LOW ELSE given
           unhashed == FoundIf(UnhashedPaths(Record(h.was), Record(h.now)) # {},
                               "integrity.baseline.unhashed", INFO)
<1>1. BaselineDrift(h, p) =
        IF ~h.baselineTaken THEN Yield(Found("integrity.baseline.none", INFO))
        ELSE IF changes = {} THEN Yield(Passed("integrity.baseline.unchanged"))
        ELSE Yield(Found("integrity.baseline.changed", weight) \cup unhashed)
  BY Zenon DEF BaselineDrift
<1> HIDE DEF changes, weight, unhashed
<1>2. Passed("integrity.baseline.unchanged") # Found("integrity.baseline.none", INFO)
  <2>1. \A x \in Passed("integrity.baseline.unchanged") : x.id = "integrity.baseline.unchanged"
    BY DEF Passed, Found
  <2>2. \E x \in Found("integrity.baseline.none", INFO) : x.id = "integrity.baseline.none"
    BY DEF Found
  <2> QED BY <2>1, <2>2
<1>3. Passed("integrity.baseline.unchanged") # Found("integrity.baseline.changed", weight) \cup unhashed
  <2>1. \A x \in Passed("integrity.baseline.unchanged") : x.id = "integrity.baseline.unchanged"
    BY DEF Passed, Found
  <2>2. \E x \in Found("integrity.baseline.changed", weight) : x.id = "integrity.baseline.changed"
    BY DEF Found
  <2> QED BY <2>1, <2>2
<1>4. Passed("integrity.baseline.unchanged") = BaselineDrift(h, p).found <=> h.baselineTaken /\ changes = {}
  BY <1>1, <1>2, <1>3 DEF Yield
<1> QED BY <1>4 DEF changes

\* So every pass is earned on what the probe has.
LEMMA EarnedThen == HostKnown => PassesAreEarned
<1> SUFFICES ASSUME HostKnown PROVE PassesAreEarned
  OBVIOUS
<1>1. Counts(Policy["balanced"])
  <2>1. Policy["balanced"].sev = BaseSeverities
    BY DEF Policy
  <2>2. \A key \in DOMAIN BaseSeverities : BaseSeverities[key] # PASS
    BY Worth DEF BaseSeverities, Rated
  <2> QED BY <2>1, <2>2 DEF Counts
<1>2. PassStands
  <2> SUFFICES ASSUME NEW f \in Catalogue[check].reads, host[f] = Unread(f), ~Unlooked(check, f),
                      NEW ok \in Result(host, "balanced").found, ok.sev = PASS, NEW v \in Readings(f)
               PROVE  LET after == Result([host EXCEPT ![f] = v], "balanced")
                      IN  after.skipped \/ ok \in after.found
    BY DEF PassStands
  <2> DEFINE after == [host EXCEPT ![f] = v]
  <2>1. OneMore(check, host, after, f)
    BY DEF OneMore, HostKnown
  <2>2. check = "custom" => host.definition.kind \in Kinds
    <3>1. "definition" \in Catalogue.custom.reads
      BY TheReads
    <3> QED BY <3>1, KindsKnown DEF HostKnown
  <2> HIDE DEF after
  <2>3. Kept(RunCheck(check, host, Policy["balanced"]), RunCheck(check, after, Policy["balanced"]))
    BY <1>1, <2>1, <2>2, RunKept DEF HostKnown
  <2> QED BY <2>3 DEF Kept, Result, after
<1>3. UnchangedMeansSame
  <2> SUFFICES ASSUME check = "baseline_drift", host.was # << >>
               PROVE  Passed("integrity.baseline.unchanged") = Result(host, "strict").found
                        <=> /\ host.baselineTaken
                            /\ \A q \in Paths : SameFile(host.was[q], host.now[q])
    BY DEF UnchangedMeansSame
  <2>1. PICK s \in Snapshots : host.was = s[1] /\ host.now = s[2]
    BY DEF HostKnown
  <2>2. Compare(Record(host.was), Record(host.now)) = {} <=> \A q \in Paths : SameFile(host.was[q], host.now[q])
    <3>1. /\ DOMAIN s[1] = Paths /\ DOMAIN s[2] = Paths
          /\ \A q \in Paths : /\ s[1][q] # NoFile => s[1][q].content # Unhashed
                              /\ s[2][q] # NoFile => s[2][q].content # Unhashed
      BY SnapshotsAreFiles
    <3> QED BY <2>1, <3>1, CompareSame
  <2>3. Result(host, "strict") = BaselineDrift(host, Policy["strict"])
    BY Zenon DEF Result, RunCheck
  <2> QED BY <2>2, <2>3, DriftSays
<1> QED BY <1>2, <1>3 DEF PassesAreEarned

\* A pass given while a fact was not read stands whatever that fact turns out to be, those
\* of Unlooked apart, and "nothing has changed" is said when and only when every watched
\* file is the same: for each of the 45 checks, any facts and any watched files.
THEOREM PassesStayEarned == Spec => []PassesAreEarned
<1>1. Spec => []HostKnown
  BY HostStarts, HostSteps, PTL DEF Spec
<1> QED BY <1>1, EarnedThen, PTL

=============================================================================
