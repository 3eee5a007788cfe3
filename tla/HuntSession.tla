----------------------------- MODULE HuntSession -----------------------------
\* The Hunt page (ui/pages/hunt.py) and its indexer (core/hunt/indexer.py): one
\* thing at a time runs on a pool thread - a walk for logs, an index, a read of
\* the journal, a query or the rules - while the user goes on typing, asking,
\* cancelling and clearing.  A job's end arrives as a signal, and its handler may
\* begin the next job.
LOCAL INSTANCE Naturals
LOCAL INSTANCE Sequences

CONSTANTS Texts,     \* what the editor can hold beside nothing
          MaxRuns,   \* HISTORY_LIMIT
          MaxJobs    \* a bound of the model: jobs begun

ASSUME HuntBounds == Texts # {} /\ MaxRuns \in Nat \ {0} /\ MaxJobs \in Nat

Jobs  == {"scan", "index", "journal", "query", "review"}
NoText == "nothing"
None  == [of |-> NoText, error |-> FALSE]
Failure == [of |-> NoText, error |-> TRUE]

VARIABLES
  editor,   \* the text of the editor
  stocked,  \* something is indexed
  busy, cancel, \* of the indexer
  job,      \* what runs: its kind, and the text if it is a query
  stage,    \* of the pool thread: "none", "running", "done", "raised"
  insights, \* the Insights panel says that the rules run
  dialog,   \* the Sources dialog is open, over the page
  asked,    \* _last_query
  shown,    \* _last_result
  runs,     \* QueryStore.history
  begun     \* jobs begun
sessionVars == <<editor, stocked, busy, cancel, job, stage, insights, dialog, asked, shown, runs, begun>>

Answers == [of : Texts \cup {NoText}, error : BOOLEAN]
Runs == [text : Texts, answer : Answers]
SessionTypeOK ==
  /\ editor \in Texts \cup {NoText} /\ asked \in Texts \cup {NoText}
  /\ {stocked, busy, cancel, insights, dialog} \subseteq BOOLEAN
  /\ job \in [kind : Jobs, text : Texts \cup {NoText}]
  /\ stage \in {"none", "running", "done", "raised"}
  /\ shown \in Answers
  /\ runs \in Seq(Runs) /\ Len(runs) <= MaxRuns
  /\ begun \in 0 .. MaxJobs

\* The query of a new installation.
FirstQuery == CHOOSE text \in Texts : TRUE
SessionInit ==
  /\ editor = FirstQuery /\ asked = NoText /\ shown = None /\ runs = <<>>
  /\ stocked = FALSE /\ busy = FALSE /\ cancel = FALSE /\ insights = FALSE /\ dialog = FALSE
  /\ job = [kind |-> "query", text |-> NoText] /\ stage = "none" /\ begun = 0

-----------------------------------------------------------------------------
\* The indexer.  A job begins only when none runs, and nothing of an earlier
\* cancel is left then.
Begin(kind, text) ==
  /\ begun < MaxJobs /\ begun' = begun + 1
  /\ busy' = TRUE /\ cancel' = FALSE
  /\ job' = [kind |-> kind, text |-> text] /\ stage' = "running"
NoJob == UNCHANGED <<busy, cancel, job, stage, begun>>

\* What the page does before it asks the indexer for a query: nothing to ask, or
\* something is already running, or nothing is indexed, and then it does not ask.
Declined(text, running) == text = NoText \/ running \/ ~stocked
\* Mutant: the text is kept before it is known that it can be run.
RunQueryMutated(text, running) ==
  asked' = text /\ IF Declined(text, running) THEN NoJob ELSE Begin("query", text)
RunQuery(text, running) ==
  IF Declined(text, running) THEN NoJob /\ UNCHANGED asked ELSE asked' = text /\ Begin("query", text)

-----------------------------------------------------------------------------
\* The user, on the page: not while the dialog is over it.
Type(text) ==
  /\ ~dialog /\ text # editor /\ editor' = text
  /\ NoJob /\ UNCHANGED <<stocked, insights, dialog, asked, shown, runs>>

\* Run, a stage appended by the grid, or a query taken from the rail.
Ask(text) ==
  /\ ~dialog /\ editor' = text /\ RunQuery(text, busy)
  /\ UNCHANGED <<stocked, insights, dialog, shown, runs>>

\* A new time range asks again once there is an answer.
ChangeRange ==
  /\ ~dialog /\ shown # None /\ RunQuery(editor, busy)
  /\ UNCHANGED <<editor, stocked, insights, dialog, shown, runs>>

\* Cancel can be seen only while something runs.
Cancel ==
  /\ ~dialog /\ busy /\ ~cancel /\ cancel' = TRUE
  /\ UNCHANGED <<editor, stocked, busy, job, stage, insights, dialog, asked, shown, runs, begun>>

\* From the menu or the dialog; an index also because the page is shown and what it
\* has is old.
Gather(kind) ==
  /\ ~busy /\ Begin(kind, NoText)
  /\ UNCHANGED <<editor, stocked, insights, dialog, asked, shown, runs>>
ScanForLogs  == Gather("scan")
IndexFiles   == Gather("index")
IndexJournal == Gather("journal")

\* The panel is told before the indexer is asked.
Review ==
  /\ ~dialog /\ ~busy /\ stocked /\ insights' = TRUE /\ Begin("review", NoText)
  /\ UNCHANGED <<editor, stocked, dialog, asked, shown, runs>>

OpenSources ==
  /\ ~dialog /\ dialog' = TRUE
  /\ NoJob /\ UNCHANGED <<editor, stocked, insights, asked, shown, runs>>
CloseSources ==
  /\ dialog /\ dialog' = FALSE
  /\ NoJob /\ UNCHANGED <<editor, stocked, insights, asked, shown, runs>>

\* A source or the journal is forgotten in the dialog, and with it perhaps all
\* there is: whatever runs goes on.
Forget ==
  /\ dialog /\ stocked /\ stocked' = FALSE
  /\ NoJob /\ UNCHANGED <<editor, insights, dialog, asked, shown, runs>>

\* Everything is forgotten, and the answer with it.
Clear ==
  /\ ~dialog /\ stocked /\ stocked' = FALSE /\ shown' = None
  /\ NoJob /\ UNCHANGED <<editor, insights, dialog, asked, runs>>

-----------------------------------------------------------------------------
\* The pool thread: a job ends, well or not.  What is read is there before the end
\* is told, and stays when the job is cancelled or raises.
Work ==
  /\ stage = "running" /\ stage' \in {"done", "raised"}
  /\ stocked' \in {stocked} \cup {TRUE : k \in {job.kind} \cap {"index", "journal"}}
  /\ UNCHANGED <<editor, busy, cancel, job, insights, dialog, asked, shown, runs, begun>>

\* QueryStore.remember: an immediate repeat takes the place of the last run.
LastRun == runs[Len(runs)]
WithoutRepeat(text) == IF runs # <<>> /\ LastRun.text = text THEN SubSeq(runs, 1, Len(runs) - 1) ELSE runs
Newest(all) == SubSeq(all, IF Len(all) > MaxRuns THEN Len(all) - MaxRuns + 1 ELSE 1, Len(all))
Remember(text, answer) == runs' = Newest(Append(WithoutRepeat(text), [text |-> text, answer |-> answer]))

\* busy is over, and the panel's with it, before the handler is called.
Over == stage' = "none" /\ busy' = FALSE /\ insights' = FALSE

QueryAnswered ==
  /\ job.kind = "query" /\ stage = "done" /\ Over
  /\ LET answer == [of |-> job.text, error |-> FALSE] IN
     shown' = answer /\ Remember(asked, answer)
  /\ UNCHANGED <<editor, stocked, cancel, job, dialog, asked, begun>>

QueryFailed ==
  /\ job.kind = "query" /\ stage = "raised" /\ Over
  /\ Remember(asked, Failure)
  /\ UNCHANGED <<editor, stocked, cancel, job, dialog, asked, shown, begun>>

\* The dialog shows what was found, if it is not open already.
ScanFinished ==
  /\ job.kind = "scan" /\ stage = "done" /\ Over /\ dialog' = TRUE
  /\ UNCHANGED <<editor, stocked, cancel, job, asked, shown, runs, begun>>

\* New lines, and no answer yet: the query in the editor is run.  Not if the index
\* saw that it was cancelled, or had a file that it could not read, or nothing new.
IndexFinished ==
  /\ job.kind = "index" /\ stage = "done" /\ insights' = FALSE
  /\ \/ shown = None /\ ~Declined(editor, FALSE) /\ RunQuery(editor, FALSE)
     \/ stage' = "none" /\ busy' = FALSE /\ UNCHANGED <<cancel, job, asked, begun>>
  /\ UNCHANGED <<editor, stocked, dialog, shown, runs>>

\* The journal is read, the rules are reported, or something other than a query raised.
OtherFinished ==
  /\ \/ stage = "done" /\ job.kind \in {"journal", "review"}
     \/ stage = "raised" /\ job.kind # "query"
  /\ Over
  /\ UNCHANGED <<editor, stocked, cancel, job, dialog, asked, shown, runs, begun>>

SessionNext ==
  \/ \E text \in Texts \cup {NoText} : Type(text) \/ Ask(text)
  \/ ScanForLogs \/ IndexFiles \/ IndexJournal
  \/ ChangeRange \/ Cancel \/ Review \/ OpenSources \/ CloseSources \/ Forget \/ Clear
  \/ Work \/ QueryAnswered \/ QueryFailed \/ ScanFinished \/ IndexFinished \/ OtherFinished
SessionSpec == SessionInit /\ [][SessionNext]_sessionVars

-----------------------------------------------------------------------------
\* Every run of the history is kept with its own answer, although the editor goes
\* on changing and other runs are asked for while it lasts; the answer shown is
\* that of the last run if it had one, unless everything was cleared; and the
\* panel says that the rules run only while they do.
HistoryIsTrue ==
  /\ \A i \in DOMAIN runs : runs[i].answer.error \/ runs[i].answer.of = runs[i].text
  /\ runs # <<>> /\ ~LastRun.answer.error => shown \in {None, LastRun.answer}
  /\ insights => busy /\ job.kind = "review"
  /\ busy = (stage # "none")
=============================================================================
