# ClamGuard: a verification development

ClamGuard is a desktop front-end for ClamAV: one PySide6 process per login session, written in
Python, that drives `clamscan`/`clamdscan`, `freshclam`, `clamonacc` and `systemctl` as child
processes, keeps a scan history in SQLite, moves infected files into a quarantine vault, runs
scheduled scans, edits the ClamAV configuration through a small root helper, indexes log files for
its Hunt page and answers queries of them, and audits the boot chain and the systemd units. This
directory models the parts of it that keep state across several steps, and the pure algorithms whose
answers the user relies on; it model-checks them with TLC and proves central invariants with TLAPS.
Paths below are relative to the repository (`core/` is `src/clamguard/core/`, `ui/` is
`src/clamguard/ui/`).

## 1. The system: parts, state, interactions

**How it runs.** There is one UI thread with a Qt event loop. A handler (a slot, a timer, a
completion) runs to its end before the next begins, except where it opens a modal dialog, which
runs a nested event loop in the middle of the handler. Three things happen outside that thread:
pool threads (`run_in_background`: directory walks, indexing, queries), child processes
(`Command`), and root helpers started with `pkexec`. Their results come back as queued Qt signals,
so a handler always acts on a state that may have changed since the work was started.

| part | source | state it keeps | operations | talks to |
|---|---|---|---|---|
| Scanner | `core/scanner.py` | `_state`, `_result`, `_walker`, `_command` | `start`, `pause`, `resume`, `stop`, walk result, output line, command finished/failed | TargetWalker (thread), Command, AppContext and pages (signals) |
| TargetWalker | `core/scan_targets.py` | `cancelled`, the list file | `enumerate` | read by its thread, cancelled from the UI thread |
| Command | `core/process.py` | the `QProcess`, `_paused`, `_stopping`, line buffers | `start`, `pause`, `resume`, `stop`, drain, finished, error | the child process |
| AppContext | `core/context.py` | `current_scan_id`, real-time counter | start/threat/finish handlers, detection handler, `shutdown` | Scanner, History, RealtimeMonitor, Scheduler |
| History | `core/history.py` | `scans`, `detections` tables, `_realtime_scan_id` | start, finish, add, set action, delete, purge, clear | SQLite |
| Quarantine | `core/quarantine.py` | vault payloads, metadata files | quarantine, restore, delete, verify, list | file system, helper |
| Helper | `packaging/clamguard-helper` | the root vault, configuration files | quarantine, restore, write-config, service, update-db | file system, systemd |
| HelperCall, ConfigApplier | `core/privileged.py`, `ui/config_apply.py` | pending restarts, one running helper | call, stop, apply, written, restart next | Command, Services |
| RealtimeMonitor | `core/realtime.py` | `_recent`, `_suppressed_until`, log tail | start, stop, suppress, line, repeat filter | clamd log, AppContext |
| Scheduler | `core/scheduler.py` | schedules with `last_run` | tick, catch-up, add, update, remove | main window, scan page |
| Freshclam | `core/freshclam.py` | one running update | start, stop, line, finished | Command, helper |
| SingleInstance | `core/single_instance.py` | local socket | forward, listen | the other process |
| Hunt store, indexer | `core/hunt/store.py`, `indexer.py` | `sources`, `events`, `journal_state` | index, ingest, forget, clear, retention, query | worker threads, SQLite, log files, `journalctl` |
| Hunt page | `ui/pages/hunt.py`, `core/hunt/saved.py` | `_last_query`, `_last_result`, the history of runs | run, append a stage, cancel, clear, review | indexer, editor |
| Hunt query engine | `core/hunt/kql/` | none (pure) | lex, parse, plan, run | store (read-only connection) |
| Boot checks | `core/boot/checks/`, `custom.py`, `baseline.py` | none (pure), the baseline file | one function per check, compare | the probe's reads |
| Boot analyzer | `core/boot/analyzer.py`, `profile.py`, `ui/pages/boot.py` | the profile (preset, mutes, overrides), the report shown | analyse, edit, re-weigh | checks (worker thread) |
| Unit inventory | `core/units/`, `ui/pages/services.py` | the list shown, the picked scope, the wanted read | pick, refresh, read, enrich | `systemctl`, package manager, `ss` |
| Diagnoses | `core/diagnostics.py`, `core/services.py` | none (pure) | diagnose, remedies | configuration text, `systemctl` |

**What is hard here.** Results that arrive after the user has moved on; a child process whose
output, error and exit are three separate events; two stores written one after the other with no
transaction around them (vault payload and record, events and cursor, configuration file and
service); handlers interrupted by their own dialogs; sessions that end by a crash; signals emitted
by two objects for one failure. PROJECT.json lists each hazard at its line.

**What makes each part correct.** A scan has one history row, whose verdict is true and final
(Scanner, History). No bytes are lost by quarantine or restore, and root writes only what it has
verified (Quarantine, Helper). An apply ends, is reported once, loses no change that was there to be
read, and is reported as saved only when every service runs the new text (ConfigApplier); an edit of one option leaves the rest of the text alone (conf_file), and
a remedy heals (diagnostics). A catch is reported once in a window, is not one of ClamGuard's own hits, is in
the history if it could be written, and is counted there (RealtimeMonitor). A due schedule is started once for a moment, and none stays due
(Scheduler); one copy runs (SingleInstance). Every kept entry or line before a saved position is in
the index once, and findable (Hunt store). A query gives the same rows wherever its stages run, and is
read as it was written (query engine); it is remembered with its own answer (Hunt page). A check
passes only what it has looked at, a stricter preset never forgives, and the report follows the
profile (Boot). The list shown is of the scope picked, and what it says of a unit was read of that
unit (Units).

## 2. Modules and plan

| module | what it is | proofs | run |
|---|---|---|---|
| `ScanSession`, `ScanLifecycle` | Scanner, walk, Command, AppContext and History through one scan after another; the second is what the history promises, implemented by the first | `ScanSessionProofs` | `scan_session`, `scan_progress` |
| `QuarantineVault` | the vault with the root helper as a concurrent process | `QuarantineProofs` | `vault`, `vault_crash` |
| `ConfigApply` | two pages, their appliers, helper calls and services | `ConfigApplyProofs` | `apply_serial`, `apply_faults` |
| `ConfText`, `OnAccessDiagnosis`, `ClamdConf` | the text of a configuration file under edits; diagnoses of the services and the remedies that edit it; both beside `ConfigApply` | `ConfigApplyProofs` | `apply_serial` |
| `RealtimeLog` | the log follower, suppression and the real-time rows | `RealtimeLogProofs` | `log` |
| `JournalIndex` | the journal's cursor against the stored entries | `JournalIndexProofs` | `journal` |
| `FileIngest` | a log file that grows and rotates against offset, events and text index | `FileIngestProofs` | `ingest` |
| `ScheduledScans` | launches and the socket, the Scheduler's loops as frames, the modal question, the busy scanner | `ScheduledScansProofs` | `schedules` |
| `BootFindings`, eight `...Checks`, `BootAnalysis`, `BootSession` | findings, policy and presets; every check as a function of facts; their catalogue; the page and its worker | `PageProofs` | `boot` |
| `UnitFacts`, `UnitInventory` | what is said of one unit; the Services page and its reader | `PageProofs` | `boot` |
| `KqlValues`, `KqlFunctions`, `KqlExpressions`, `KqlStore`, `KqlPlanner`, `KqlEngine`, `KqlParser`, `HuntQuery` | the query language from values up to a query of an index | | `kql` |
| `HuntSession` | the Hunt page, its indexer's one job at a time, the history of runs | `PageProofs` | `kql` |

Left of the plan: one abstract append-only index that `FileIngest` and `JournalIndex` both implement; and
the results and history pages' quarantine buttons against rows and entries.

Conventions. A module has its CONSTANTS with a named assumption, its variables grouped by owner,
a type invariant, one action per handler or system call, `Spec` and, where liveness is checked,
`FairSpec`. Variables marked *observation* are written by actions and read by properties only.
`Faults` or `Hazards` is the set of things that may go wrong; a run or a theorem says which it admits.
Operators named `...Mutated`, and the few alternatives that a comment marks so, are the wrong turns the
properties are tried against: one mistake that a change to that code could make. Nothing uses them.
`MC...` modules hold the instances whose constants a .cfg cannot write down. Two of them compose parts
that share no state, and explore each while the other is at its start: `MCBootSession` the Boot page
and the Services page, `MCHuntQuery` the query engine and the Hunt page. `ClamdConf` adds to
`ConfigApply` two properties of the text alone, which are looked at once, in the initial state.
A pure function is modelled as an operator over the values its properties tell apart, and checked
either against what another part of the code says (SQL against rows, parser against printed text) or
against every way its facts can be read.

## 3. The modules

**ScanSession** (`core/scanner.py`, `core/process.py`, `core/scan_targets.py`, `core/context.py`,
`core/history.py`, `MainWindow.quit_application`). A handler on the UI thread is one action, with
every signal it emits and every row it writes: `StartScan` is `start` with the row inserted by
`_on_scan_started`; `WalkDelivered` is `_on_prepared` with the launch of the engine or the end of an
empty or failed walk; `EngineEnded` is `_on_finished` and `_on_error` of the Command, the drain of
the pipe, the verdict and `_complete`; `Stop` includes the seconds in which `Command.stop` waits and
kills. The worker thread (`WalkEnds`) and the child (`EngineFinds`, `EngineExits`) move between
handlers. A scan and its row share a number. Files are left out; what is counted is FOUND lines,
because those may not be lost. Faults: a vanished engine, a refused start, a history that cannot be
written, a scan list that cannot be written, a child that outlives SIGKILL.

**ScanLifecycle** is the promise without threads: scans one at a time and in order, at most one
verdict each, none after the program went away, not *completed* after a stop was asked.
`ImplementsLifecycle` maps a row and the busy scanner to a phase.

**QuarantineVault** (`core/quarantine.py`, `packaging/clamguard-helper` 533-760,
`core/privileged.py`). Every system call that changes a store is a step of the UI thread (`gui`) or of
a helper process (`call`): copy, unlink, sidecar; read, store, record, unlink; verify, look, place,
forget. Bytes are one value; `Torn` is bytes that are no file's. The program may die between any two
steps (helpers go on), calls may fail, payloads may be damaged, another program may write a file.

**ConfigApply** (`ui/config_apply.py`, `core/privileged.py`, `ui/pages/configuration.py`,
`ui/pages/protection.py`, the helper's write-config and service). A text is the set of options that
differ from the shipped file; a diff is two texts. A helper call's effect (`HelperWrites`,
`ServiceRestarts`, `CallRefused`) and its report (`Succeeded`, `Failed`, `Errored`) are two steps. The
restarts of a page are one list (`pending`) that every chain of the page takes from, so a restart is
known by the apply that asked for it and its role, whichever chain makes it. Observations: `since[j]`
has the services restarted after write `j`, `twice[j]` the processes of `j` that were heard of twice,
`unseen[j]` the applies that wrote after the page of `j` had read the file, and `beside[j]` those under
way when `j` was asked for.

**RealtimeLog** (`core/realtime.py`, `core/context.py`, `core/history.py`). `Logs` is clamd, asked by
a scan of ClamGuard's (`own`) or by an opened file; `ReadLine` is `_on_line` with the suppression, the
repeat filter, the detection handler and both inserts. Each write of the history may fail
(`write_fails`): the session's row (`OpenRow`, tried again by the next catch), the detection (`Insert`)
and the closing (`Close`); the count goes up before any of them. Time is a count of ticks, of which only
the order of `Lag`, `Grace`, `Window` and `Hour` matters; a scan may stay in one state for any of them.
Observations: `catches[r]` has the lines reported in the session of row `r`, `failed` those whose write
failed, `left` the rows that a crash or a failed closing left running.

**JournalIndex** (`core/hunt/journal.py`, `core/hunt/indexer.py`, `core/hunt/store.py` 785-932,
`ui/pages/hunt.py`). `IndexJournal` takes the cursor on the UI thread; `Read`, `LookUp`, `Store` and
`SaveCursor` are what the pool thread does outside and inside its two transactions; `ForgetSources`,
`ForgetState` and `Clear` are what the page does meanwhile, since nothing there asks for `busy`. An
entry is its number and a cursor the number of an entry. `Vacuum` may remove the cursor's entry, and an
entry may be one that `_entry` makes nothing of (`odd`): it is skipped, and counts against `--lines` but
not against the limit that sets `truncated`, so a read that stopped there looks whole (`capped`).
journalctl is external: it returns the oldest entries after the cursor, or rejects the cursor, as
`journal.py` 13-29 and 249-256 describe.

**FileIngest** (`core/hunt/store.py` 519-781 and 930-1010, `core/hunt/indexer.py`, `ui/pages/hunt.py`).
The log grows by halves and whole lines and rotates, by renaming or in place; `Index` takes the busy
flag; the worker looks at the file, recognises it by inode, head and size, reads, commits events,
saves the offset, and applies the retention limit, each a transaction of its own since the connection
is in autocommit mode. `ForgetText`, `ClearRows` and `Removal` are what the page does meanwhile.
`hidden` counts events whose text is not in the index; `slipped`, `unsaved` and `purged` observe.

**ScheduledScans** (`core/scheduler.py`, `core/single_instance.py`, `app.py`, `ui/main_window.py`,
`ui/pages/scan.py`). A handler that has not returned is a frame on its process's stack: `Consider` and
`Emit` go through the list one schedule at a time, and `asks` marks a frame that waits in the modal
question, under which `Tick` may start the next. `disk` and `mem` are schedules.json and the list in
memory; `Forward`, `Claim`, `Listen`, `Quit` and `Crash` are a launch and its end.

**The Boot modules** (`core/boot/`). A check is an operator over the facts `h` of the machine and the
policy `p`; a fact has one value that stands for *not read* and those it can be read as. `BootAnalysis`
is the catalogue: which facts each check reads and the worst it may say. In `BootSession` the probe
gets or misses one fact after another, the check is judged by the policy of the start (`BeginAnalysis`),
decorated by the profile as it is now, and arrives later, with edits of the profile in between.

**UnitFacts, UnitInventory** (`core/units/`, `ui/pages/services.py`). A machine is the tree of names and
unit records, the two listings, the package manager, exposure, boot times, listening ports and
presets; `Turn` replaces it while the pool thread goes from call to call (`ListFiles`, `ListLoaded`,
`ShowChunk`, `Collected`, `AskOwners`, `AskManagers`, `AskSockets`, `ReadPresets`). `PickScope`,
`PressRefresh` and `ShowPage` are the page, which may ask again while a read runs.

**ConfText, OnAccessDiagnosis, ClamdConf** (`core/conf_file.py`, `core/conf_schema.py`,
`core/diagnostics.py`, `core/services.py`). A line is a hash or none and words; `Parse`, `SetOption`,
`SetAll` and `RemoveOption` work on lines as the class does, by position: `Kept` is the lines at some
positions in their order, `Rewrite` and `Splice` replace the line at one. A diagnosis is an identifier, a
severity and remedies, each a change of one option, for every state of a unit that `ReadStatus` can
tell of.

**The Kql modules, HuntQuery** (`core/hunt/kql/`, `core/hunt/catalogue.py`). A value is a record of one
shape, a text is a sequence of characters because operators look at characters and terms, and a real
keeps sixths. `KqlStore` is SQLite's half: a SELECT evaluated with its storage classes, nulls and
affinities. `KqlPlanner` folds the front of a pipeline into one SELECT and stops at what it cannot say;
`KqlEngine` runs the rest. In `HuntQuery` events are indexed, stages appended, and each query asked and
answered (`Answered`, where its properties look at it). Beyond the checks of section 4, the operators
were compared with the program's own answers: 10,416 of them, to all pairs of the stages but
`getschema` over sixteen histories, with the store and without; 53 scalar functions on 36,676 tuples of arguments and 23
aggregates on 251,539 sets of rows. They agree but for the order of rows that SQLite leaves open, for
texts of dates and lists, which are abstracted, and for means that are no sixths.

**HuntSession** (`ui/pages/hunt.py`, `core/hunt/indexer.py`, `core/hunt/saved.py`). One job at a time:
`Begin` takes it, `Work` is the pool thread, and the handler of its end may begin the next one
(`IndexFinished` runs the query of the editor). Queries are texts; what they answer is `HuntQuery`'s.

## 4. Runs

| run | what it asks | bounds and why they are enough |
|---|---|---|
| `scan_session` | Do rows follow the scanner (`RunningRowIsLive`), are verdicts true and final (`VerdictIsTruthful`), is a stop honoured, does quitting settle the engine, and is all of it a `ScanLifecycle`? Every fault is on, sessions are unlimited. | 2 scans: one and its successor, which is all that `current_scan_id` and `_result` can confuse. 2 FOUND lines: one read, one still in the pipe. |
| `scan_progress` | Is every scan reported once, and does every scan end, also when it is stopped (`ScanEnds`)? | 2 scans, 1 line. Without the two faults that break `ReportedOnce` (section 7). |
| `vault` | Do sidecars and payloads match (`SidecarsMatchPayloads`), and is what is announced gone? | 3 paths on both sides of the privilege boundary, 3 file contents, 2 entries, 2 concurrent helpers: two operations meet on one path, or one on an id of the other. |
| `vault_crash` | Do the bytes survive, and does root write only its record, with a crash between any two steps and stores that cannot be written? | 2 paths, 2 entries, 2 helpers: one operation interrupted, and what runs or starts afterwards. |
| `apply_serial` | One apply at a time, of one page: is what is *saved* restarted? Do edits of the text stay local, and remedies heal? | 3 applies: the third sees what the first two left in the applier. 2 services, 2 options. The texts are all files of up to three lines of a set, for each of five editors (`MCClamdConf`). |
| `apply_faults` | With two pages, overlapping applies, double reports and an unreadable file: does every apply end (`ApplyEnds`), is it reported once and once more for each process heard of twice (`FinishedOnce`), and does it replace what its confirmation showed but where `ChangedAsShown` says (section 7)? | 2 applies, of one page or of both, one after the other or overlapping; 2 services, so that a chain has a restart for the other chain to take; 1 option. |
| `log` | Does an own hit come through only after an hour in one state, is news told once a window and in the history unless its write failed, do rows count? Crashes, deletions of the session's row and failing writes are on. | 5 ticks, with Lag 1 < Grace 2 = Window < Hour 3, so a period can end before, at and after each event, and a scan can stay in one state longer than the hour; 3 lines on 2 paths; 2 rows: the session's and the next one's. |
| `journal` | Is nothing passed over, nothing stored twice without a lost cursor, nothing called complete that is not but for the limit a skipped line hides, and does every read end? | 4 entries read 2 at a time, any of which may be one that cannot be made sense of: a capped read, its continuation, and an entry that arrives meanwhile. A cursor is lost once per entry. |
| `ingest` | Is what a saved offset passes over in the index once, can all that is stored be found by its text, and does every index end? Crashes between commit and offset, forgetting and clearing under a running index. | 2 generations of a log with 2 lines each, of which the head is 1: a rotation that changes the head and one that does not; a limit of 2 events, so the retention cuts a log of both. |
| `schedules` | Does one copy run, is a schedule started once for a moment, and does none stay due? | 2 processes: one that runs and one that is launched, crashes or follows. 2 schedules, the first of which asks and has two moments, 3 ticks: the second comes due under the question. |
| `boot` | Are passes earned, do presets only become harder, does the report follow the profile? And does the list of units follow the picker, and is it earned? | Every reading of every fact of every check, one check at a time, under each preset; one file of the baseline in any two states beside others that stay or are updated; 3 edits of the profile, on two checks, around one analysis. For units: 4 names: a template and its instance, and one that is another's alias, a unit of its own or nobody's; 37 machines over 4 package managers, one change during a read, and any picks. |
| `kql` | Does a query answer the same with its front in the store, do stages share out their rows, and is a query read as it was written? Is every run remembered with its own answer? | 26 stages, all pairs of them, over histories of up to 2 of 4 events: nulls, both cases, ties, nested values, empty texts. A pair is what the planner's folding can get wrong, since a step is folded by what is there before it. 3 texts, 4 jobs, a history of 2. |

Runs with `CHECK_DEADLOCK FALSE` are of modules whose bounded counters (ids, ticks, applies, jobs) run
out; the program itself waits for the user there. The other modules are checked for deadlock. In the
vault's runs `Files` and `Slots` are symmetry sets; no liveness is checked there.

What the code does against its own promise is an exception in the property, so that the run is about
the rest. `OwnHitsStayOut` excepts the scan that has been in one state for an hour, `CatchIsRecorded` the
catch whose own write failed and the session whose row is gone, `FinishedOnce` one report more for a
process heard of twice, `ChangedAsShown` the writes of the other page, of later and of simultaneous
applies and the file that could not be read, `OkReadIsComplete` the limit hidden by a skipped line.
`PushedAgrees` is stated for the queries of `Portable` and `HuntQuery`'s notes: what differs beyond them
is a disagreement of the code with its documents and stands in section 7. `PassesAreEarned` excepts the
facts of `Unlooked`, which are listed one by one. `PrefixIsStored` excepts a log that was truncated in
place and refilled between two looks. Each exception is a counterexample that TLC
found and that the code bears out.

## 5. Fairness

Nothing ever obliges the user. What is fair is what the machine does: the walk visits each directory
once and the engine a finite list, so both end when they run; queued signals are delivered by the
event loop; a helper call ends because every subprocess in the helper has a timeout and a password
prompt is answered or dismissed; a pool thread runs, and `journalctl`, which is not told to follow,
ends (the deadline in `read`, `journal.py` 376, is looked at only when it prints). A removal that the
page has begun goes on (`FileIngest`, `JournalIndex`), for it is one handler. The Scheduler's `Tick` has
strong fairness: its timer is disabled whenever a handler runs, runs out again and again, and gets its
turn between them. One thing a user must do is assumed in `ConfigApply` and `ScheduledScans`: an open
modal question is answered, since nothing else can be clicked. A paused scan may stay paused for ever,
which `ScanEnds` allows for. The Boot, Units and Hunt page models state no fairness and no liveness.

## 6. What is proved

All theorems hold for every value of the constants that satisfies the named assumptions of the module.
The conditions a theorem adds are named here. With each fault they exclude TLC finds the property
violated, but for two that no instance of section 4 shows to be needed: `NoRace` for
`RootWritesOnlyItsRecord` and `Undisturbed` for `AnnouncedFilesAreGone`.

- **ScanSession.** `TypeCorrect`, `VerdictsAreTruthful`, `RunningRowsAreLive`, `StopsAreHonoured`,
  `QuittingSettles`, for every set of faults. The properties say nothing of a scan that is under way, so
  they are not inductive; `IInv` adds what ties the parties together then: one scan at a time and
  everybody means that one (`OneScan`), which scanner states go with which worker and child (`Phases`),
  where the lines are (`LiveScan`: printed = read + in the pipe, and a stop that was asked is remembered
  by the state), and that an unborn scan has left no trace (`Unborn`). `ReportsOnce` without the two
  faults of section 7 (`Reporting`): a scan still unborn or under way has not been reported (`Reports`).
  `ScansAreALifecycle` is the refinement of `ScanLifecycle`, for every set of faults: under `IInv` before
  and after, each step is one of the promise's or leaves `PhaseBar` and `LiveBar` alone.
- **QuarantineVault.** `VaultTypes` for any paths, files, entries, helpers and every fault;
  `RootWritesOnlyItsRecord` for every fault but two restores to one path at once (`NoRace`);
  `NothingIsLost` and `AnnouncedFilesAreGone` when, besides, no other program writes between the copy
  and the unlink (`Alone`). `ContentSurvives` is not inductive, because a payload that is about to be
  removed cannot be what keeps its bytes; `VInv` says that what the stores say of an id agrees, that an
  id being made belongs to one actor and, with `Alone`, that each content has a *home*, a file or payload
  that no step under way may take. A file that was unlinked stays gone until its entry is listed, since
  nobody else places anything there (`Emptied`). `SidecarsMatch` whatever other programs write or restore,
  but without crashes and failures of the metadata and of the helper's disk (`Handled`): a payload
  without its sidecar is on its way in or out in the hands of somebody who is still there (`LInv`).
- **ConfigApply.** `ApplyTypes`, `FinishedOnceHolds` and `FileChangesAsShown` always, for either page and
  any overlap. The first of the two counts: the calls of an apply under way and its reports are
  together at most one more than its processes heard of twice, since each chain replaces a call by one
  call or by a report (`FInv`). The second follows what each page has read: what it shows is the file, or
  something was written since that it has not seen (`PageReads`, `ApplyKnows`), and an apply of the
  Configuration page that has written since the page read the file is still under way (`Writers`), since
  its end would have had the page read the file again.
  `SavedIsRestarted` when applies do not overlap (`Serial`), and `InOrder` when besides a process reports
  its end once (`Clean`). `Chain`: until a call fails, the units are those still pending, the one being
  restarted and those restarted since the write; after a failure, heard of once or twice, nothing is saved.
- **ConfText, OnAccessDiagnosis.** `SpecEditsStayLocal` and `SpecRemediesHeal`, which follow from
  `EveryEditIsLocal`, `EveryRemedyHeals` and `BadgeIsDiagnosis`: these are about any text of any length,
  option, value and machine, and need no state. An edit keeps some lines of the file, replaces or adds
  others, and what is kept is known by its positions: positions of the old and of the new file that are
  matched one to one and in order hold the same lines, so what `Kept` lists of them is the same
  (`Matched`, `KeptSame`). `SameBut` says so of all lines but the option's own and the fillers (the empty
  line and the header), `Now` that the option's active lines have given values in order. Each operation
  is taken once through both (`RemoveIs`, `SetOptionIs`, `SetAllIs`, `AppendIs`, and `ReadKeeps` and
  `ReadNow` for writing and loading), and what an editor or a diagnosis reads follows from the two
  (`SameReading`, `NowReads`). That the help stays is a separate argument, on the lines above the first
  that names an option (`SplicedHelp`). A remedy changes one of the seven options the diagnosis reads,
  so each of the seven looks is compared before and after it (`OfferedHeals`). The assumptions: the
  words ClamGuard writes are words, a word is not both a name and a number, the options consulted are
  different options, and the home directory is none of the system directories.
- **RealtimeLog.** All without a condition, with crashes, deletions of any rows and failing writes:
  `RealtimeTypes`, `DetectionsKeepTheirRow`, `OneOpenRow`, `OwnHitsHold`, `CatchesAreRecorded`,
  `ReportedOncePerWindow` and `ClosedRowsCount`. Suppression lasts for an hour from the last change of
  the scanner's state or for the grace period after it, and an own line that is still unread is younger
  than that period (`Quiet`); no report is later than what the window is measured from (`Remembered`);
  what was reported in the session of a row is stored there or failed, the session's counter is the
  number of its reports, and a row has one session, whichever rows are deleted (`Counting`).
- **JournalIndex.** `PassedOver` and `OkReadsAreComplete` when nobody removes during a read
  (`Undisturbed`), clears an index that has a cursor or dies inside `forget_journal` (`NoHalfRemoval`);
  `NothingTwice` when nobody removes during a read; `TypeCorrect` always. What the worker holds is every
  kept entry that can be made sense of between the cursor it began at, which is still the saved one, and
  the one it will save (`Running`, `CursorIn`); a read that is whole has held all there was when it ran (`Whole`).
- **FileIngest.** `PassedOverIsStored`, with rotations, read errors, removals and crashes between any
  two statements but those of forgetting a source (`RemovalsEnd`). The worker looks at the file, at its
  row and at its head at different moments and the log may rotate at each, so `LineInv` says of every
  value it carries which generation that is of and what of it is stored already (`StatFits`, `FromFits`,
  `GotFits`), and of a saved row which file it would be taken for (`RowFits`). `StoredTextIsIndexed`
  when in addition the text index is not left behind by a crash (`DeletionsEnd`).
- **ScheduledScans.** `OneCopyRuns` when launches do not overlap and the socket can be made (`Calm`).
  `LaunchInv`: at most one launch is under way (`OneLaunch`), a copy that runs has the socket's name and
  a server (`UpHasName`), and a launch that nobody answered knows that nobody runs (`Unanswered`).
  `StartedOncePerMoment` when the list can be saved too (`Writable`). A frame may wait in its question
  while others tick above it, so `MarkInv` says of the whole stack what of it can still start something:
  only the top, and only for a moment that was marked before and not served (`Pending`, `Earned`).
- **BootSession.** `ShownAsProfiled` for any of the 45 checks, facts and edits. What is on show can be
  had back as it was judged (`Restorable`), which needs that no check leaves a finding without a severity
  (`Graded`); each is looked at for that. `PresetsStayOrdered` and `PassesStayEarned` rest on one
  invariant, what the probe can have of each fact (`HostKnown`), and on two comparisons of all 45 checks.
  Under two policies, of which one weighs each thing at least as much and tolerates no more, the harder
  forgives nothing (`RunHarder`): the branches do not depend on the policy but through thresholds, and
  those are compared with numbers (`KnownNumbers`). On two machines that differ in one fact, unread in the
  first, a pass is given again or the check is skipped (`RunKept`). That nothing has changed means that
  every file is the same is proved of any watched files (`CompareSame`), if no file's contents are the
  mark of one that was not hashed (`SnapshotsAreFiles`).
- **UnitInventory.** `ListedAsPicked` for any machine and any number of changes. `ReadInv`: a read that
  has ended holds units of the scope it was asked for, so does the list of the one it names, and
  whenever nothing is read and nothing was refused the two agree. `ListsAreEarned`: what a read has so
  far is kept with the moments it came from, and a machine that changes only adds one (`EarnInv`). The
  assumptions are on systemd and the package managers: a name leads to the record of a unit, which is
  also under the unit's own name (`RecordsLead`), and the file of a unit is spelt one way
  (`OneSpelling`); `MCBootSession`'s machines satisfy both.
- **HuntSession.** `SessionTypes`, and `HistoryStaysTrue` for any texts, history length and number of
  jobs. `HistoryIsTrue` is not inductive: `SessionInv` adds that a running query is the one asked last,
  which holds because a request that is turned down leaves `_last_query` alone.

Where an argument is by induction over data (the last moment that is due, the last of a list), it is made
with the least or greatest element of a set of numbers. The prover does not know `@@`, so `BootSession`
overlays two maps with `Overlaid`.

**Only model-checked:** all liveness (`ScanEnds`, `ApplyEnds`, `ReadEnds`, `IndexEnds`, `DueIsMarked`),
which needs ENABLED; `PushedAgrees`, `AnswersAddUp` and `ParsesBack`, whose operators recurse over
queries and rows. The type invariants that no theorem states are kept out of the
listed runs.

## 7. Where the code and its documents disagree

Met while modelling; the models follow the code. Line numbers are of the files under `src/clamguard/`.

**Scans and history**

- A `start()` that is refused while idle emits `finished` again for the scan before it
  (`scanner.py` 257), and so does an engine that has vanished (`scanner.py` 369), although
  `scanner.py` 200 says "Always emitted exactly once per started scan."
- Own hits are kept out "for as long as the scan lasts" (`context.py` 168), and yet the same line gives
  `suppress` an hour at each change of the scanner's state: a scan that stays in one state for longer
  hears its own hits as real-time catches.
- After the history is cleared, or the session's real-time row is deleted, the later catches of that
  session are refused by the foreign key and are in no row (`history.py` 244, `context.py` 173). A catch
  whose insert fails is reported and counted and is in no row either (`history.py` 271, `context.py`
  174), so the number on the closed row exceeds what it holds; with a closing that fails the row stays
  *running* for ever, although `history.py` 240 has it so "while ClamGuard is open" (`history.py` 230).
- `set_action_for_quarantine` of the history never matches a row; a quarantine from the results page
  takes `current_scan_id`, which is 0 once the scan is over and the next scan's id after that
  (`ui/pages/scan.py` 787); rows marked under a dialog may be rows of a newer table.

**Quarantine and configuration**

- A direct restore writes the damaged bytes to their place before it compares them and takes them away
  again (`quarantine.py` 336; the user guide, 203, says it verifies first).
- A sidecar that cannot be written after the original is gone (`quarantine.py` 242), or a helper that
  fails before its record, leaves a payload that nothing lists (`quarantine.py` 17: "Every payload has
  a sidecar JSON file"); bytes that another program writes between the copy and the unlink are lost
  with the original; two entries from one path can be restored through the helper at once, and the
  second replaces the first (`ui/pages/quarantine.py` 253).
- The Configuration page writes, and shows, the file as it was when the page loaded it
  (`ui/pages/configuration.py` 560, against ARCHITECTURE.md 250). A file that cannot be read stays
  editable, as an empty one (`configuration.py` 377 says that nothing can be edited).
- A second apply on a page overwrites `_pending_restarts` of the first (`config_apply.py` 102) and may
  report *saved* without a restart of the daemon. Two pages restart services at the same time,
  although `config_apply.py` 123 says why that must not be.
- A process that crashes reports `failed` and then its exit, so `finished` of an apply and of a
  `HelperCall` can be emitted twice (`config_apply.py` 41 and `privileged.py` 93: "exactly once").
  Each such report also takes the next restart of the page, so one chain goes on as two.
- In the text: a value that an editor refuses leaves the earlier accepted one to be saved; setting and
  then removing an option that was a commented example loses the example; a file that does not end in
  a newline counts as modified, so the page never reloads it; removing a line makes its comment the
  help of the next option. A list set twice is not the same text twice where only an example in other
  letters was there: the values after the first get the letters of the schema, then those of the
  example (`set_all`, 266; ClamAV reads both alike). `comment_out`, `apply`, `commented_value` and `get_int` have no callers.
- The remedy "Watch directories instead of whole mount points" leaves nothing watched when no
  directory is (`diagnostics.py` 211). "Report only" says that none of the paths are system
  directories also where they are. A daemon that was stopped cleanly has no diagnosis (`one_shot_ok`).

**Scheduler and launches**

- A schedule that was added is never due in `_tick`, because `last_run` is empty; only the catch-up of
  the next launch starts its clock. With catch-up off, a missed run is still started by the first tick
  thirty seconds after the launch (USER_GUIDE.md 823). An edit that enables an old schedule makes it
  due at once.
- Of two schedules due at once the second is marked and not started; "Started" is shown also when the
  user declines. While the question of a scheduled full scan is open no other schedule fires, for the
  timer's handler has not returned. A Yes in the user's own question, after a schedule began one of its
  own, starts the outer targets with the schedule's kind and profile, and a scheduled scan leaves its
  profile selected.
- Two launches that overlap both run (USER_GUIDE.md 122-127), and a launch that is handed over while
  the first copy still asks its catch-up question is dropped. With the hazards `race` or `no_socket`
  `OneCopy` fails; with `no_disk` `OncePerMoment` does.

**Hunt: the index**

- When journalctl rejects the saved cursor, `read` returns nothing and `ingest_journal` keeps the old
  cursor, so neither this read nor a later one reads the window again (`journal.py` 445, `store.py`
  886); `journal.py` 26 and USER_GUIDE.md 593 promise that it is.
- `Store.clear`, "Empty the store completely", keeps the journal's cursor (`store.py` 503), so what was
  read before is not read again: with the hazard `clear`, `PassedIsStored` fails. `forget_journal`
  during a read lets the worker save a cursor past what was removed (`forget_busy`), and the end of
  the process between its two deletions leaves the cursor alone (`crash_forget`).
- A line that `_entry` makes nothing of counts against `--lines` and not against `max_entries`
  (`journal.py` 257, 384, 391): a read that stopped at the limit after one is told as whole, and a full
  limit of them moves no cursor, so that every later read stops at the same lines.
- `_forget_events` is not one transaction, for the connection is in autocommit mode, and the text index
  can keep entries of rows that are gone when the user forgets or clears during an index. Line numbers
  drift after blank lines at the end of a read (`_stream`). A log truncated in place and refilled
  between two looks goes unnoticed.

**Hunt: queries.** `compiler.py` 14-16 says that the planner "can only make a query faster or leave it
alone", and `test_hunt_kql_engine.py` 426 that it may not change the answer. It does, in the following
cases; `PushedAgrees` is checked beside them.

- `count` after `distinct`, `summarize` or `count` counts all rows (`compiler.py` 352-359).
- A column that was dropped or renamed is still found through the table (`compiler.py` 504, 824), and a
  sort by it before a `project` or `distinct` that drops it loses its order; a sort before another
  sort or a top loses the order of ties.
- `not(...)`, `!in` and `!contains` of null; `!endswith ""`; `sum` and `countif` over no rows or nulls
  only; `bin`, `%` and `/` of negatives; constants that encode to nothing.
- `Level`, which is stored as a number, in comparisons, sorts, texts and aggregates, and as the right
  side of a constant; `Timestamp` inside functions; a group by `Timestamp + 1h` is not decoded.
- A text as a condition, comparisons of mixed types, letters beyond ASCII, and `has`, whose terms are
  FTS5's in the store and the ASCII ones of `_TERM_SPLIT` in Python.
- After a `project` or a `summarize`, `getschema` describes other columns: pushed, those called as they
  are in the table (`compiler.py` 203); on rows, those a `project` passes on (`engine.py` 1487).
- Window functions and `rand()` are folded as constants; pushed rows come in SQLite's order, groups in
  the order of their keys.

Elsewhere in the engine: `arg_max` over null keys only gives a short row (`functions.py` 1899,
`engine.py` 827); `percentile(x, 0)` is the median (`functions.py` 1811); `plan`'s `row_limit` is never
passed; `row_cumsum` of a constant raises `IndexError`; `Logs; let x = 1; Logs` is refused
(`parse_query`). On the page: an export while a query runs, or after one failed, names the rows on
screen by the new query's text (`ui/pages/hunt.py` 517, 672); a time range changed meanwhile leaves the
rows of the old one (696); rows of a query that ends after a clear are shown over an empty index.

**Boot**

- The ids of cron findings end in `hash(entry.command)`, which is salted (`persistence.py` 672), so
  mutes and overrides of them end with the process (`model.py`, Finding).
- "We looked and it is fine" is not the same as "we did not look" (`registry.py`), and yet a pass is
  given over the facts of `Unlooked` although they were not read. Files without a hash are only
  reported beside another change (`integrity.py` 74-138, USER_GUIDE.md 452). An unknown taint bit is no
  finding; `init=/bin/sh` costs two; the policy key `initramfs_missing` is never used; only the first
  Exec line of a unit is inspected; `looks_like_a_kernel_update` ignores what is outside /boot.
- `custom.load` "Never raises", but a number that is none and a file that is no text do;
  `record(None)`, when no roots were saved, and a `core_pattern` of "|" end in crash findings; the
  baseline ignores symbolic links, and entries of one name share an id.
- An edit between `apply_to` and the arrival of the report is not in the report shown (USER_GUIDE.md
  397); the policy is the one at the start and the preset named the one at the end; `_on_failed` shows
  "not run" over the list of the report before.

**Units**

- A scope picked while a read runs that then fails leaves the old list under the new scope's label;
  the message says that it could not be read, which is why `ListFollowsPicker` excepts `refused`.
- A package manager that does not answer within thirty seconds counts as asked, so every file is
  flagged "No package owns it" (`enrich.py` `_owners`, against the comment in `model.py`); rpm's answers
  are matched by position, so one file that is gone shifts all later ones. A unit of /etc is called
  unowned although nobody was asked. Ports are matched by a pid read earlier.
- `systemctl show` is called for chunks of names. A name that becomes an alias between two calls is
  answered with a unit that is listed already, and `Inventory.get` of that name finds nothing until the
  next refresh (`inventory.py` `_deduplicate`): the unit kept is the one read first, without the name.

## 8. What is not modelled, and why

The components marked `not_modelled` in PROJECT.json, with their reasons there. Of the query language:
`parse`, `sample`, `print`; hashes, encodings, regular expressions, addresses and calendar fields;
completion and the wording of errors; the limits of memory and time. Of the Boot Analyzer: wording,
evidence and fixes, the export, the tabs of facts and timings, recording a baseline, the profile's file
across restarts, more than one check in one analysis. Of the Services page: selection, filters, tiles,
the detail pane and descriptions of packages. Of the configuration: the entries of the schema, presets.
Of the scheduler: editing the times, the tray's quit inside a question. Of the index: compressed files,
several files of one source, retention by age, journal units switched off, the line parsers (regular
expressions over text, whose control is a table).

Within the modelled parts: purging the history by age; which files a walk selects; file modes and
free-space checks; formats of sidecars and logs beyond what tells two states apart; limits on
remembered detections. `Errored` leaves out that a helper whose client has died may still finish its
work. Times other than those in `RealtimeLog` and `ScheduledScans` are only an order of events. The
answers of SQLite, systemctl, the package managers and journalctl are external: they are modelled from
how this code asks and reads them.

PROJECT.json lists at most forty hazards, the ones that matter most; what is known and not covered by
a property is in section 7.
