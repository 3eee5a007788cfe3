---------------------------- MODULE ScanSession ----------------------------
(***************************************************************************)
(* One on-demand scan after another, from the button to the history row:   *)
(* Scanner (core/scanner.py) driving a TargetWalker on a worker thread and *)
(* then one clamscan/clamdscan child through Command (core/process.py),    *)
(* AppContext (core/context.py) writing the scan's row in the history      *)
(* database, and the user pausing, stopping, deleting rows and quitting    *)
(* at any moment.                                                          *)
(*                                                                         *)
(* Interleaving.  A Python handler on the UI thread is atomic.  What the   *)
(* UI thread shares the world with is the walk (worker thread, result      *)
(* queued to the UI thread) and the child process (its output and its exit *)
(* reach the UI thread later, as Qt events); those take steps of their own.*)
(*                                                                         *)
(* A scan is named by its ordinal.  The history row it gets has that same  *)
(* number: scans.id is AUTOINCREMENT, never reused.  A file is abstracted  *)
(* away; what is counted is the FOUND lines, since those are what may not  *)
(* be lost.  ScanState.FINISHED is entered and left inside one handler, so *)
(* it is never seen between two steps and is merged with "idle".           *)
(***************************************************************************)
EXTENDS Naturals

CONSTANTS MaxScans,     \* bound: scans started over all sessions
          MaxFound,     \* bound: FOUND lines one engine prints
          MaxRefusals,  \* bound: reports beyond the first that a result may get
          Faults        \* which of FaultKinds may happen

FaultKinds == {"engine_missing",   \* the program vanished since it was chosen
               "refused_start",    \* start() returns False on a precondition
               "history_error",    \* sqlite cannot insert the scan's row
               "list_error",       \* the scan list cannot be written
               "hung"}             \* the child outlives SIGKILL by a second

ASSUME ScanBounds == /\ MaxScans \in Nat \ {0}
                     /\ MaxFound \in Nat
                     /\ MaxRefusals \in Nat
                     /\ Faults \subseteq FaultKinds

Scans == 1..MaxScans

ScanStates == {"idle", "preparing", "scanning", "paused", "stopping"}
WalkPhases == {"none", "walking", "listed", "empty", "cancelled", "raised"}
EnginePhases == {"none", "running", "suspended", "exited"}
Exits == {"none", "ok", "error", "crash", "nostart"}
Endings == {"empty", "raised"} \cup Exits
Verdicts == {"completed", "stopped", "failed"}
RowStatuses == {"absent", "running", "deleted"} \cup Verdicts

\* One line of the scans table, with the number of its detections.
Rows == [status : RowStatuses, found : Nat, detections : Nat, errors : BOOLEAN]

VARIABLES
  state,      \* Scanner._state
  scan,       \* whose ScanResult Scanner._result is; 0: none of this session's
  found,      \* len(_result.threats)
  errors,     \* _result.errors says the scan list was cut short
  row,        \* AppContext.current_scan_id
  rows,       \* the scans table, and how many detections hang off each row
  reports,    \* how often Scanner.finished was emitted for each result
  walker,     \* the TargetWalker of the scan being prepared
  cancelled,  \* TargetWalker.cancelled, written by the UI, read by the worker
  short,      \* Enumeration.errors holds a write error
  engine,     \* the child process
  exit,       \* how the child ended, once it has
  pipe,       \* FOUND lines printed and not yet read
  session,    \* the application process
  born,       \* scans started so far, in every session
  base,       \* the value of born when this session began
  produced,   \* observation: FOUND lines each scan's engine printed
  ending,     \* observation: what the walk or the engine of each scan came to
  cut,        \* observation: the scans whose list could not be written in full
  stopAsked   \* observation: the scans somebody asked to stop

appVars == <<state, scan, found, errors, row, rows, reports>>
walkVars == <<walker, cancelled, short>>
engineVars == <<engine, exit, pipe>>
obsVars == <<produced, ending, cut, stopAsked>>
vars == <<appVars, walkVars, engineVars, session, born, base, obsVars>>

FreshRow(status) ==
  [status |-> status, found |-> 0, detections |-> 0, errors |-> FALSE]

Busy == state \in {"preparing", "scanning", "paused", "stopping"}
Up == session = "up"

\* current_scan_id names a row that is still in the table
RowKept == row # 0 /\ rows[row].status # "deleted"

AppTypes ==
  /\ state \in ScanStates
  /\ scan \in 0..MaxScans
  /\ found \in Nat
  /\ errors \in BOOLEAN
  /\ row \in 0..MaxScans
  /\ rows \in [Scans -> Rows]
  /\ reports \in [0..MaxScans -> Nat]

WorkTypes ==
  /\ walker \in WalkPhases /\ cancelled \in BOOLEAN /\ short \in BOOLEAN
  /\ engine \in EnginePhases /\ exit \in Exits /\ pipe \in Nat
  /\ session \in {"up", "quit", "crashed"}
  /\ born \in 0..MaxScans /\ base \in 0..MaxScans

ObsTypes ==
  /\ produced \in [Scans -> Nat]
  /\ ending \in [Scans -> Endings]
  /\ cut \in SUBSET Scans
  /\ stopAsked \in SUBSET Scans

\* Every variable has its type.
TypeOK == AppTypes /\ WorkTypes /\ ObsTypes

Init ==
  /\ state = "idle" /\ scan = 0 /\ found = 0 /\ errors = FALSE /\ row = 0
  /\ rows = [n \in Scans |-> FreshRow("absent")]
  /\ reports = [n \in 0..MaxScans |-> 0]
  /\ walker = "none" /\ cancelled = FALSE /\ short = FALSE
  /\ engine = "none" /\ exit = "none" /\ pipe = 0
  /\ session = "up" /\ born = 0 /\ base = 0
  /\ produced = [n \in Scans |-> 0]
  /\ ending = [n \in Scans |-> "none"]
  /\ cut = {}
  /\ stopAsked = {}

-----------------------------------------------------------------------------
(* Finishing: Scanner._complete/_fail and AppContext._on_scan_finished.    *)

\* The row of the current scan gets its totals, if it is still there:
\* an UPDATE of a deleted row changes nothing and is no error.
SettleRow(status, total, lines) ==
  rows' = IF RowKept
          THEN [rows EXCEPT ![row] = [status |-> status, found |-> total,
                                      detections |-> @.detections + lines,
                                      errors |-> errors]]
          ELSE rows

\* Mutant of Finish: Command._on_finished does not drain the pipe.
FinishUndrained(status, lines, times) ==
  /\ SettleRow(status, found, 0)
  /\ found' = found /\ row' = 0 /\ state' = "idle"
  /\ reports' = [reports EXCEPT ![scan] = @ + times]
  /\ walker' = "none" /\ cancelled' = FALSE /\ short' = FALSE
  /\ engine' = "none" /\ exit' = "none" /\ pipe' = 0
  /\ UNCHANGED <<scan, errors>>

\* The `lines` FOUND lines still buffered are read, then the scan ends:
\* finished is emitted `times` times, only the first of which finds a
\* current_scan_id to write to.
Finish(status, lines, times) ==
  /\ SettleRow(status, found + lines, lines)
  /\ found' = found + lines
  /\ row' = 0
  /\ state' = "idle"
  /\ reports' = [reports EXCEPT ![scan] = @ + times]
  /\ walker' = "none" /\ cancelled' = FALSE /\ short' = FALSE
  /\ engine' = "none" /\ exit' = "none" /\ pipe' = 0
  /\ UNCHANGED <<scan, errors>>

-----------------------------------------------------------------------------
(* Starting and preparing.                                                 *)

\* Mutant of StartScan: start() does not look at busy.
StartScanWhileBusy ==
  /\ Up /\ born < MaxScans
  /\ scan' = born + 1 /\ born' = born + 1
  /\ found' = 0 /\ errors' = FALSE
  /\ row' = born + 1
  /\ rows' = [rows EXCEPT ![born + 1] = FreshRow("running")]
  /\ state' = "preparing"
  /\ walker' = "walking" /\ cancelled' = FALSE /\ short' = FALSE
  /\ UNCHANGED <<reports, engineVars, session, base, obsVars>>

\* Scanner.start accepted: a fresh result, `started` (the history row), the
\* worker thread.  When the row cannot be inserted the scan goes on without.
StartScan ==
  /\ Up /\ ~Busy /\ born < MaxScans
  /\ scan' = born + 1 /\ born' = born + 1
  /\ found' = 0 /\ errors' = FALSE
  /\ \/ /\ row' = born + 1
        /\ rows' = [rows EXCEPT ![born + 1] = FreshRow("running")]
     \/ /\ "history_error" \in Faults
        /\ row' = 0
        /\ rows' = rows
  /\ state' = "preparing"
  /\ walker' = "walking" /\ cancelled' = FALSE /\ short' = FALSE
  /\ UNCHANGED <<reports, engineVars, session, base, obsVars>>

\* Scanner.start refused with nothing running (ClamAV gone, no target, no
\* usable engine): _fail emits finished for the result of the scan BEFORE.
StartRefused ==
  /\ "refused_start" \in Faults
  /\ Up /\ ~Busy
  /\ reports[scan] <= MaxRefusals
  /\ Finish("failed", 0, 1)
  /\ UNCHANGED <<session, born, base, obsVars>>

\* TargetWalker.enumerate returns on the worker thread.  A write error is
\* swallowed into Enumeration.errors and leaves the list cut short or empty;
\* anything raised outside the try block ends the task in an error.
WalkEnds ==
  /\ Up /\ walker = "walking"
  /\ \/ walker' \in {"listed", "empty"} /\ short' = FALSE
     \/ cancelled /\ walker' = "cancelled" /\ short' = FALSE
     \/ /\ "list_error" \in Faults
        /\ \/ walker' \in {"listed", "empty"} /\ short' = TRUE
           \/ walker' = "raised" /\ short' = FALSE
  /\ cut' = IF short' THEN cut \cup {scan} ELSE cut
  /\ UNCHANGED <<cancelled, appVars, engineVars, session, born, base, produced,
                 ending, stopAsked>>

\* Scanner._launch: the child is started, or is found to be missing, in
\* which case failed, finished and the False return each try to end the scan.
Launch ==
  \/ /\ state' = "scanning"
     /\ engine' = "running"
     /\ walker' = "none"
     /\ errors' = short
     /\ UNCHANGED <<scan, found, row, rows, reports, cancelled, short, exit,
                    pipe, obsVars>>
  \/ /\ "engine_missing" \in Faults
     /\ Finish("failed", 0, 2)
     /\ ending' = [ending EXCEPT ![scan] = "nostart"]
     /\ UNCHANGED <<produced, cut, stopAsked>>

\* An enumeration that matched no file completes at once, with whatever
\* error it carries counted in the row.
FinishEmpty ==
  /\ rows' = IF RowKept
             THEN [rows EXCEPT ![row] = [status |-> "completed", found |-> found,
                                         detections |-> @.detections,
                                         errors |-> short]]
             ELSE rows
  /\ errors' = short
  /\ row' = 0
  /\ state' = "idle"
  /\ reports' = [reports EXCEPT ![scan] = @ + 1]
  /\ walker' = "none" /\ cancelled' = FALSE /\ short' = FALSE
  /\ ending' = [ending EXCEPT ![scan] = "empty"]
  /\ UNCHANGED <<scan, found, engineVars, produced, cut, stopAsked>>

\* Mutant of WalkDelivered: only enumeration.cancelled is looked at.
WalkDeliveredDeafToStop ==
  /\ Up
  /\ \/ walker \in {"raised", "cancelled"} /\ Finish("stopped", 0, 1) /\ UNCHANGED obsVars
     \/ walker = "empty" /\ FinishEmpty
     \/ walker = "listed" /\ Launch
  /\ UNCHANGED <<session, born, base>>

\* Scanner._on_prepared, and the on_error callback of the walk.  A raise is
\* reported as a failure even when a stop had been asked for.
WalkDelivered ==
  /\ Up
  /\ \/ /\ walker = "raised"
        /\ Finish("failed", 0, 1)
        /\ ending' = [ending EXCEPT ![scan] = "raised"]
        /\ UNCHANGED <<produced, cut, stopAsked>>
     \/ /\ walker \in {"listed", "empty", "cancelled"}
        /\ state = "stopping" \/ walker = "cancelled"
        /\ Finish("stopped", 0, 1)
        /\ UNCHANGED obsVars
     \/ walker = "empty" /\ state # "stopping" /\ FinishEmpty
     \/ walker = "listed" /\ state # "stopping" /\ Launch
  /\ UNCHANGED <<session, born, base>>

-----------------------------------------------------------------------------
(* The child process, and what the UI thread learns of it.                 *)

EngineFinds ==
  /\ Up /\ engine = "running" /\ state # "stopping"
  /\ produced[scan] < MaxFound
  /\ produced' = [produced EXCEPT ![scan] = @ + 1]
  /\ pipe' = pipe + 1
  /\ UNCHANGED <<appVars, walkVars, engine, exit, session, born, base, ending,
                 cut, stopAsked>>

\* The child ends.  A suspended one, and one that has been sent SIGKILL, can
\* only be killed; one whose exec failed has printed nothing.
EngineExits ==
  /\ Up /\ engine \in {"running", "suspended"}
  /\ exit' \in IF engine = "suspended" \/ state = "stopping" THEN {"crash"}
               ELSE IF produced[scan] = 0 THEN {"ok", "error", "crash", "nostart"}
               ELSE {"ok", "error", "crash"}
  /\ engine' = "exited"
  /\ ending' = [ending EXCEPT ![scan] = exit']
  /\ UNCHANGED <<appVars, walkVars, pipe, session, born, base, produced,
                 cut, stopAsked>>

\* A readyRead event: Scanner._on_line, _record_threat and the detection row.
\* If the scan's row was deleted the foreign key refuses the detection.
ReadLine ==
  /\ Up /\ engine # "none" /\ pipe > 0
  /\ pipe' = pipe - 1
  /\ found' = found + 1
  /\ rows' = IF RowKept THEN [rows EXCEPT ![row].detections = @ + 1] ELSE rows
  /\ UNCHANGED <<state, scan, errors, row, reports, walkVars, engine, exit,
                 session, born, base, obsVars>>

\* The verdict of Command's finished/failed signals: a kill we asked for is
\* "stopped", a child that never started is "failed" even then.
VerdictOf(ex) ==
  IF ex = "nostart" THEN "failed"
  ELSE IF state = "stopping" THEN "stopped"
  ELSE IF ex = "ok" THEN "completed"
  ELSE "failed"

\* Mutant of EngineEnded: _complete runs again when it has nothing to end.
EngineEndedTwice ==
  /\ Up /\ engine = "exited"
  /\ Finish(VerdictOf(exit), pipe, IF exit = "crash" THEN 2 ELSE 1)
  /\ UNCHANGED <<session, born, base, obsVars>>

\* Mutant of EngineEnded: Command.failed is not connected.
EngineEndedNotFailed ==
  /\ Up /\ engine = "exited" /\ exit # "nostart"
  /\ Finish(VerdictOf(exit), pipe, 1)
  /\ UNCHANGED <<session, born, base, obsVars>>

\* Qt delivers the end of the child: the pipe is drained, then the scan ends.
\* A crash emits failed and then finished; the second finds the scan over.
EngineEnded ==
  /\ Up /\ engine = "exited"
  /\ Finish(VerdictOf(exit), pipe, 1)
  /\ UNCHANGED <<session, born, base, obsVars>>

-----------------------------------------------------------------------------
(* The controls.                                                           *)

\* SIGSTOP also "succeeds" on a child that has exited and is not yet reaped.
Pause ==
  /\ Up /\ state = "scanning"
  /\ engine' = IF engine = "running" THEN "suspended" ELSE engine
  /\ state' = "paused"
  /\ UNCHANGED <<scan, found, errors, row, rows, reports, walkVars, exit, pipe,
                 session, born, base, obsVars>>

Resume ==
  /\ Up /\ state = "paused"
  /\ engine' = IF engine = "suspended" THEN "running" ELSE engine
  /\ state' = "scanning"
  /\ UNCHANGED <<scan, found, errors, row, rows, reports, walkVars, exit, pipe,
                 session, born, base, obsVars>>

\* Scanner.stop on a busy scanner.  While walking it only raises a flag.
\* With a child it blocks in Command.stop, resumed first if it was paused,
\* and the child's end is handled inside the call, unless the child is still
\* there after SIGKILL.
StopBusy ==
  /\ stopAsked' = stopAsked \cup {scan}
  /\ \/ /\ engine = "none"
        /\ state' = "stopping"
        /\ cancelled' = TRUE
        /\ UNCHANGED <<scan, found, errors, row, rows, reports, walker, short,
                       engineVars, produced, ending, cut>>
     \/ /\ "hung" \in Faults /\ engine \in {"running", "suspended"}
        /\ state' = "stopping"
        /\ engine' = "running"
        /\ UNCHANGED <<scan, found, errors, row, rows, reports, walkVars, exit,
                       pipe, produced, ending, cut>>
     \/ /\ engine # "none"
        /\ Finish(IF exit = "nostart" THEN "failed" ELSE "stopped", pipe, 1)
        /\ ending' = [ending EXCEPT ![scan] = IF engine = "exited" THEN @ ELSE "crash"]
        /\ UNCHANGED <<produced, cut>>

Stop == Up /\ Busy /\ StopBusy /\ UNCHANGED <<session, born, base>>

\* The History page deletes one record; Clear deletes them all.  Neither
\* looks at whether a scan is running.
DeleteScan(n) ==
  /\ Up /\ rows[n].status \notin {"absent", "deleted"}
  /\ rows' = [rows EXCEPT ![n] = FreshRow("deleted")]
  /\ UNCHANGED <<state, scan, found, errors, row, reports, walkVars, engineVars,
                 session, born, base, obsVars>>

ClearHistory ==
  /\ Up /\ \E n \in Scans : rows[n].status \notin {"absent", "deleted"}
  /\ rows' = [n \in Scans |-> IF rows[n].status = "absent" THEN rows[n]
                              ELSE FreshRow("deleted")]
  /\ UNCHANGED <<state, scan, found, errors, row, reports, walkVars, engineVars,
                 session, born, base, obsVars>>

-----------------------------------------------------------------------------
(* The process.                                                            *)

\* Mutant of Quit: shutdown() leaves the scanner alone.
QuitWithoutStop ==
  /\ Up /\ session' = "quit"
  /\ UNCHANGED <<appVars, walkVars, engineVars, obsVars, born, base>>

\* MainWindow.quit_application: AppContext.shutdown stops a busy scanner and
\* the event loop ends; no queued result is delivered afterwards.
Quit ==
  /\ Up /\ session' = "quit"
  /\ IF Busy THEN StopBusy ELSE UNCHANGED <<appVars, walkVars, engineVars, obsVars>>
  /\ UNCHANGED <<born, base>>

Crash ==
  /\ Up /\ session' = "crashed"
  /\ UNCHANGED <<appVars, walkVars, engineVars, born, base, obsVars>>

\* Mutant of Restart: start-up closes the rows it finds running as completed.
RestartSettling ==
  /\ ~Up /\ session' = "up"
  /\ state' = "idle" /\ scan' = 0 /\ found' = 0 /\ errors' = FALSE /\ row' = 0
  /\ walker' = "none" /\ cancelled' = FALSE /\ short' = FALSE
  /\ engine' = "none" /\ exit' = "none" /\ pipe' = 0
  /\ base' = born
  /\ rows' = [n \in Scans |-> IF rows[n].status = "running"
                              THEN [rows[n] EXCEPT !.status = "completed"] ELSE rows[n]]
  /\ UNCHANGED <<reports, born, obsVars>>

\* A new process opens the same database.  It does not look for rows the
\* last one left running.
Restart ==
  /\ ~Up /\ session' = "up"
  /\ state' = "idle" /\ scan' = 0 /\ found' = 0 /\ errors' = FALSE /\ row' = 0
  /\ walker' = "none" /\ cancelled' = FALSE /\ short' = FALSE
  /\ engine' = "none" /\ exit' = "none" /\ pipe' = 0
  /\ base' = born
  /\ UNCHANGED <<rows, reports, born, obsVars>>

Next ==
  \/ StartScan \/ StartRefused \/ WalkEnds \/ WalkDelivered
  \/ EngineFinds \/ EngineExits \/ ReadLine \/ EngineEnded
  \/ Pause \/ Resume \/ Stop
  \/ (\E n \in Scans : DeleteScan(n)) \/ ClearHistory
  \/ Quit \/ Crash \/ Restart

Spec == Init /\ [][Next]_vars

(* The walk visits each directory once and the engine a finite list, so    *)
(* both end if they run; the thread pool and the event loop deliver what   *)
(* is queued.  Nothing obliges the user to do anything.                    *)
FairSpec == /\ Spec
            /\ WF_vars(WalkEnds) /\ WF_vars(WalkDelivered)
            /\ WF_vars(EngineExits) /\ WF_vars(EngineEnded)

-----------------------------------------------------------------------------
(* Properties.                                                             *)

\* In this session's rows, "running" means running: such a row is the one the
\* busy scanner will settle.  (_on_scan_started, _on_scan_finished: a second
\* scan may not start, nor a scan end, without the row following.)
RunningRowIsLive ==
  Up => \A n \in Scans : n > base /\ rows[n].status = "running" =>
                            Busy /\ row = n /\ scan = n

\* A row that got a verdict tells what happened: every FOUND line the engine
\* printed is in threats_found and has its detection, "completed" is said only
\* of an engine that exited 0 or 1 or of an empty list, and a scan list that
\* could not be written leaves an error in the row.
VerdictIsTruthful ==
  \A n \in Scans : rows[n].status \in Verdicts =>
     /\ rows[n].found = produced[n]
     /\ rows[n].detections = produced[n]
     /\ rows[n].status = "completed" => /\ ending[n] \in {"ok", "empty"}
                                        /\ n \in cut => rows[n].errors

\* Once somebody asked for a scan to stop it is never recorded as completed,
\* even if its engine was already done when the click was handled.
StopHonoured ==
  \A n \in stopAsked : rows[n].status # "completed"

\* finished is emitted once for each started scan: no more than once ever, and
\* once by the time the scanner is idle again.  (Comment on Scanner.finished.)
ReportedOnce ==
  \A n \in Scans : /\ reports[n] <= 1
                   /\ Up /\ n > base /\ n <= born /\ ~(Busy /\ scan = n) =>
                         reports[n] = 1

\* Quitting while the engine works settles the scan's row, with all that was
\* found, paused or not; only a child that outlives SIGKILL escapes it.
QuitSettlesEngine ==
  [][ /\ Up /\ session' = "quit"
      /\ engine # "none" /\ row # 0 /\ rows[row].status = "running"
      => \/ rows'[row].status \in Verdicts /\ rows'[row].found = produced[row]
         \/ engine' = "running" ]_vars

\* A scan that is preparing or scanning comes to an end unless it is paused
\* or the program goes away; so does a paused one whose child has died; and a
\* stop that did not end the scan inside the call ends it later.
ScanEnds ==
  /\ (Up /\ (state \in {"preparing", "scanning"} \/ engine = "exited")) ~>
       ((state \in {"idle", "paused"} /\ engine # "exited") \/ ~Up)
  /\ (Up /\ state = "stopping") ~> (state = "idle" \/ ~Up)

-----------------------------------------------------------------------------
(* What the user is promised of a scan: ScanLifecycle.                     *)

PhaseOf(n) ==
  LET status == rows[n].status IN
  IF n > born THEN "unborn"
  ELSE IF status = "absent" THEN "unrecorded"
  ELSE IF status = "deleted" THEN "forgotten"
  ELSE IF status = "running" /\ ~(Up /\ Busy /\ scan = n) THEN "lost"
  ELSE status

Lifecycle == INSTANCE ScanLifecycle
  WITH phase <- [n \in Scans |-> PhaseOf(n)],
       live <- IF Up /\ Busy THEN scan ELSE 0,
       asked <- stopAsked

ImplementsLifecycle == Lifecycle!Spec
=============================================================================
