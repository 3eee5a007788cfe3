---------------------------- MODULE ConfigApply ----------------------------
(***************************************************************************)
(* Changing clamd.conf: the Configuration page and the Protection page,    *)
(* each with its ConfigApplier (ui/config_apply.py), the HelperCalls they  *)
(* start (core/privileged.py) and the root helper that writes the file and *)
(* restarts the services.                                                  *)
(*                                                                         *)
(* A helper call is a process of its own: its effect and the signal that   *)
(* reports it are two steps, and the user goes on working in between; only *)
(* the confirmation is modal.  Nothing stops the user from applying again  *)
(* while an apply is under way ("overlap").                                *)
(*                                                                         *)
(* The restarts of a page are one list, which every chain of the page takes *)
(* its next call from and every new apply fills anew: a restart is known by *)
(* the apply that asked for it and its role, whichever chain comes to make  *)
(* it.                                                                     *)
(*                                                                         *)
(* The text of a file is the set of the options that differ from the       *)
(* shipped file.  A diff is the two texts it compares.                     *)
(***************************************************************************)
EXTENDS Naturals

CONSTANTS Options,     \* what can be changed in the file
          Pages,       \* the pages in use, of AllPages
          Units,       \* the roles that have a unit on this machine
          MaxApplies,  \* bound: applies ever begun
          Hazards      \* which of HazardKinds may happen

AllPages == {"configuration", "protection"}
Roles == {"daemon", "onaccess"}
HazardKinds == {"overlap",     \* an apply while another is under way
                "error_twice", \* a process reports an error and then its exit
                "unreadable"}  \* the file cannot be read when a page loads it

ASSUME ApplyConstants == /\ Pages \subseteq AllPages /\ Units \subseteq Roles
                         /\ MaxApplies \in Nat /\ Hazards \subseteq HazardKinds

Jobs == 1..MaxApplies
Restarts == Jobs \X Units
Write == <<0, "write">>
Kinds == Restarts \cup {Write}
Stages == {"none",     \* not started, or all its signals are handled
           "asked",    \* the password prompt, and the helper behind it
           "errored",  \* errorOccurred is handled, finished is still to come
           "done", "refused"}
Texts == SUBSET Options

VARIABLES
  disk,      \* the file
  page,      \* the Configuration page's ConfFile: as loaded, and as edited
  dialog,    \* the job whose confirmation is open, or 0
  jobs,      \* applies begun
  job,       \* what each apply was given
  call,      \* the helper calls of each apply
  pending,   \* ConfigApplier._pending_restarts
  failures,  \* ConfigApplier._restart_failures is not empty
  finished,  \* observation: how often finished was emitted for each apply
  twice,     \* observation: how many calls of each apply reported an error before their exit
  saved,     \* observation: the applies reported as "Configuration saved."
  since,     \* observation: the roles restarted since the job wrote the file
  news,      \* observation: the applies that wrote since the Configuration page read the file
  unseen,    \* observation: the applies that wrote since the page of this one read the file
  beside     \* observation: the applies under way when this one was asked for

reportVars == <<finished, twice, saved, since>>
readVars == <<news, unseen, beside>>
vars == <<disk, page, dialog, jobs, job, call, pending, failures, reportVars, readVars>>

ConfFile == [readable : BOOLEAN, base : Texts, text : Texts]
Job == [page : AllPages, read : BOOLEAN, base : Texts, text : Texts]
NoCalls == [k \in Kinds |-> "none"]

\* Every variable has its type.
TypeOK ==
  /\ disk \in Texts /\ page \in ConfFile
  /\ jobs \in 0..MaxApplies /\ dialog \in 0..jobs
  /\ job \in [Jobs -> Job]
  /\ call \in [Jobs -> [Kinds -> Stages]]
  /\ pending \in [AllPages -> SUBSET Restarts]
  /\ failures \in [AllPages -> BOOLEAN]
  /\ finished \in [Jobs -> Nat] /\ twice \in [Jobs -> Nat]
  /\ saved \in SUBSET Jobs
  /\ since \in [Jobs -> SUBSET Roles]
  /\ news \in SUBSET Jobs
  /\ unseen \in [Jobs -> SUBSET Jobs] /\ beside \in [Jobs -> SUBSET Jobs]

Init ==
  /\ disk = {} /\ page = [readable |-> TRUE, base |-> {}, text |-> {}]
  /\ dialog = 0 /\ jobs = 0
  /\ job = [j \in Jobs |-> [page |-> "protection", read |-> TRUE, base |-> {}, text |-> {}]]
  /\ call = [j \in Jobs |-> NoCalls]
  /\ pending = [p \in AllPages |-> {}]
  /\ failures = [p \in AllPages |-> FALSE]
  /\ finished = [j \in Jobs |-> 0] /\ twice = [j \in Jobs |-> 0]
  /\ saved = {}
  /\ since = [j \in Jobs |-> {}]
  /\ news = {} /\ unseen = [j \in Jobs |-> {}] /\ beside = [j \in Jobs |-> {}]

InFlight(j) == \E k \in Kinds : call[j][k] # "none"
AtRest == dialog = 0 /\ \A j \in Jobs : ~InFlight(j)

\* The operators below that are called "...Mutated" are the wrong turns the
\* properties are tried against; nothing uses them.

\* _load_file: ConfFile.load, or an empty file that can be edited all the same.
Loaded(d) == [readable |-> TRUE, base |-> d, text |-> d]
Unreadable == [readable |-> FALSE, base |-> {}, text |-> {}]
LoadFile ==
  /\ page' = Loaded(disk) \/ ("unreadable" \in Hazards /\ page' = Unreadable)
  /\ news' = {}

-----------------------------------------------------------------------------
(* The user.                                                               *)

Edit(o) ==
  /\ "configuration" \in Pages /\ dialog = 0
  /\ page' = [page EXCEPT !.text = IF o \in @ THEN @ \ {o} ELSE @ \cup {o}]
  /\ UNCHANGED <<disk, dialog, jobs, job, call, pending, failures, reportVars, readVars>>

\* Discard changes; or the page is shown again with nothing changed.
Reload ==
  /\ "configuration" \in Pages /\ dialog = 0
  /\ LoadFile
  /\ UNCHANGED <<disk, dialog, jobs, job, call, pending, failures, reportVars, unseen, beside>>

\* apply: the confirmation opens over a diff that is not empty.  What the page read
\* of the file, and when, is all that the diff and the text to be written know of it.
Ask(p, read, base, text, later) ==
  /\ p \in Pages /\ dialog = 0 /\ base # text
  /\ AtRest \/ "overlap" \in Hazards
  /\ jobs < MaxApplies /\ jobs' = jobs + 1 /\ dialog' = jobs + 1
  /\ job' = [job EXCEPT ![jobs + 1] = [page |-> p, read |-> read, base |-> base, text |-> text]]
  /\ unseen' = [unseen EXCEPT ![jobs + 1] = later]
  /\ beside' = [beside EXCEPT ![jobs + 1] = {j \in Jobs : InFlight(j)}]
  /\ UNCHANGED <<disk, page, call, pending, failures, reportVars, news>>

\* Review and save.
Save == Ask("configuration", page.readable, page.base, page.text, news)

\* Review and apply: the file is read when the remedy is clicked.
ApplyRemedy(o) ==
  Ask("protection", TRUE, disk, IF o \in disk THEN disk \ {o} ELSE disk \cup {o}, {})

\* A role without a unit on this machine is skipped.
ToRestart(j) == {j} \X Units

\* Apply this change: the applier's fields are this apply's from here on.
Agree ==
  /\ dialog # 0 /\ dialog' = 0
  /\ pending' = [pending EXCEPT ![job[dialog].page] = ToRestart(dialog)]
  /\ failures' = [failures EXCEPT ![job[dialog].page] = FALSE]
  /\ call' = [call EXCEPT ![dialog][Write] = "asked"]
  /\ UNCHANGED <<disk, page, jobs, job, reportVars, readVars>>

DeclineMutated ==
  /\ dialog # 0 /\ dialog' = 0
  /\ finished' = [finished EXCEPT ![dialog] = @ + 1]
  /\ call' = [call EXCEPT ![dialog][Write] = "asked"]
  /\ UNCHANGED <<disk, page, jobs, job, pending, failures, twice, saved, since, readVars>>
Decline ==
  /\ dialog # 0 /\ dialog' = 0
  /\ finished' = [finished EXCEPT ![dialog] = @ + 1]
  /\ UNCHANGED <<disk, page, jobs, job, call, pending, failures, twice, saved, since, readVars>>

-----------------------------------------------------------------------------
(* The root helper.                                                        *)

\* verb_write_config: validated, backed up, replaced in one rename.
HelperWrites(j) ==
  /\ call[j][Write] = "asked"
  /\ disk' = job[j].text
  /\ call' = [call EXCEPT ![j][Write] = "done"]
  /\ since' = [since EXCEPT ![j] = {}]
  /\ news' = news \cup {j}
  /\ unseen' = [i \in Jobs |-> unseen[i] \cup ({j} \ {i})]
  /\ UNCHANGED <<page, dialog, jobs, job, pending, failures, finished, twice, saved, beside>>

\* verb_service restart: the service now runs what the file says.
ServiceRestarts(j, t) ==
  /\ call[j][t] = "asked"
  /\ call' = [call EXCEPT ![j][t] = "done"]
  /\ since' = [i \in Jobs |-> since[i] \cup {t[2]}]
  /\ UNCHANGED <<disk, page, dialog, jobs, job, pending, failures, finished, twice, saved, readVars>>

\* The password is refused, the text or the unit is; or it cannot be started.
CallRefused(j, k) ==
  /\ call[j][k] = "asked"
  /\ call' = [call EXCEPT ![j][k] = "refused"]
  /\ UNCHANGED <<disk, page, dialog, jobs, job, pending, failures, reportVars, readVars>>

-----------------------------------------------------------------------------
(* The UI thread handles what a call reports.                              *)

\* The call's signals so far are handled; the process may still have one to come.
Left(j, k, stage) == [call EXCEPT ![j][k] = stage]

\* finished(ok, message); the Configuration page reloads the file when ok.
FinishMutated(j, ok, clean) ==
  /\ finished' = [finished EXCEPT ![j] = @ + 1]
  /\ saved' = IF ok /\ clean THEN saved \cup {j} ELSE saved
  /\ UNCHANGED <<page, news>>
Finish(j, ok, clean) ==
  /\ finished' = [finished EXCEPT ![j] = @ + 1]
  /\ saved' = IF ok /\ clean THEN saved \cup {j} ELSE saved
  /\ IF ok /\ job[j].page = "configuration" THEN LoadFile ELSE UNCHANGED <<page, news>>

\* The daemon comes before the on-access scanner in every remedy.
First(ts) == IF \E t \in ts : t[2] = "daemon" THEN CHOOSE t \in ts : t[2] = "daemon"
             ELSE CHOOSE t \in ts : TRUE

\* _restart_next: the next unit, or the end.
RestartNext(j, calls, failed) ==
  LET p == job[j].page IN
  /\ failures' = [failures EXCEPT ![p] = failed]
  /\ IF pending[p] # {}
     THEN /\ pending' = [pending EXCEPT ![p] = @ \ {First(@)}]
          /\ call' = [calls EXCEPT ![j][First(pending[p])] = "asked"]
          /\ UNCHANGED <<page, news, finished, saved>>
     ELSE /\ Finish(j, TRUE, ~failed)
          /\ call' = calls /\ UNCHANGED pending

Reporting == UNCHANGED <<disk, dialog, jobs, job, since, unseen, beside>>

\* succeeded; _on_written, or the next restart.
Succeeded(j, k) ==
  /\ call[j][k] = "done"
  /\ RestartNext(j, Left(j, k, "none"), failures[job[j].page])
  /\ Reporting /\ UNCHANGED twice

\* failed or cancelled: the end for the write, the next restart for a restart.
GiveUpMutated(j, k, stage) ==
  /\ IF k = Write
     THEN /\ Finish(j, FALSE, FALSE)
          /\ call' = Left(j, k, stage)
          /\ UNCHANGED <<pending, failures>>
     ELSE RestartNext(j, Left(j, k, stage), failures[job[j].page])
  /\ Reporting
GiveUp(j, k, stage) ==
  /\ IF k = Write
     THEN /\ Finish(j, FALSE, FALSE)
          /\ call' = Left(j, k, stage)
          /\ UNCHANGED <<pending, failures>>
     ELSE RestartNext(j, Left(j, k, stage), TRUE)
  /\ Reporting

FailedMutated(j, k) ==
  /\ call[j][k] \in {"refused", "errored"}
  /\ call' = Left(j, k, "none")
  /\ UNCHANGED <<page, finished, saved, pending, failures, news, twice>> /\ Reporting
Failed(j, k) ==
  call[j][k] \in {"refused", "errored"} /\ GiveUp(j, k, "none") /\ UNCHANGED twice

\* The process crashes or cannot take its input: Command emits failed for the
\* error and finished for the exit, and HelperCall reports a failure for each.
Errored(j, k) ==
  /\ "error_twice" \in Hazards /\ call[j][k] = "asked"
  /\ GiveUp(j, k, "errored")
  /\ twice' = [twice EXCEPT ![j] = @ + 1]

User == \/ \E o \in Options : Edit(o) \/ ApplyRemedy(o)
        \/ Reload \/ Save \/ Agree \/ Decline
Root(j) == \/ HelperWrites(j)
           \/ \E t \in Restarts : ServiceRestarts(j, t)
           \/ \E k \in Kinds : CallRefused(j, k)
Report(j) == \E k \in Kinds : Succeeded(j, k) \/ Failed(j, k) \/ Errored(j, k)

Next == User \/ \E j \in Jobs : Root(j) \/ Report(j)

Spec == Init /\ [][Next]_vars

\* Password prompts are answered and helpers end (they have timeouts), the
\* event loop delivers what they report, and the user closes the dialog.
FairSpec == /\ Spec
            /\ \A j \in Jobs : WF_vars(Root(j)) /\ WF_vars(Report(j))
            /\ WF_vars(Agree \/ Decline)

-----------------------------------------------------------------------------
(* Properties.                                                             *)

\* finished is emitted once per apply, and once more for each of its processes that
\* reports an error before its exit and no more than that, however the chains of
\* several applies of one page interleave over its one list of restarts.
\* (config_apply.py: "always emitted exactly once per apply()"; ApplyEnds is the
\* other half.)
FinishedOnce == \A j \in Jobs : finished[j] <= 1 + twice[j]

\* One restart at a time, the daemon's before the on-access scanner's.
\* (_restart_next: "Sequential rather than parallel".)
RestartsInOrder ==
  \A i, j \in Jobs, t, u \in Restarts :
     /\ call[i][t] # "none" /\ call[j][u] # "none" => i = j /\ t = u
     /\ call[i][t] # "none" /\ t[2] = "onaccess" =>
          \A d \in pending[job[i].page] : d[2] # "daemon"

\* "Configuration saved." without a failure means that every service was
\* restarted after this very text was written.
SavedMeansRestarted == \A j \in saved : Units \subseteq since[j]

\* An apply replaces the text that its confirmation showed on the left of the diff,
\* unless its page could not read the file, or an apply of the other page, a later
\* one, or one that was under way beside it wrote after the page had read it: what
\* an earlier apply of its own page has finished is never lost.
ChangedAsShown ==
  [][\A j \in Jobs :
       call[j][Write] = "asked" /\ call'[j][Write] = "done" =>
         \/ job[j].base = disk
         \/ ~job[j].read
         \/ \E i \in unseen[j] : job[i].page # job[j].page \/ i > j \/ i \in beside[j]]_vars

\* Every apply ends.
ApplyEnds == \A j \in Jobs : (jobs >= j) ~> (finished[j] > 0 /\ ~InFlight(j))
=============================================================================
