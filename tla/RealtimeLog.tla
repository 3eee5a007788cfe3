---------------------------- MODULE RealtimeLog ----------------------------
(***************************************************************************)
(* What the on-access scanner catches: clamd logs a line, RealtimeMonitor  *)
(* (core/realtime.py) follows the log and decides whether the line is news,*)
(* AppContext (core/context.py) has History (core/history.py) record it    *)
(* under the one row that stands for the session's real-time catches.      *)
(*                                                                         *)
(* clamd logs the hits of ClamGuard's own scans in the same place, and the *)
(* monitor has only the clock to tell the two apart.  Time is a count of   *)
(* ticks; only the order of the three periods matters, not their ratio.    *)
(* A line reaches the UI thread up to Lag ticks after it was written.      *)
(*                                                                         *)
(* The rows of ordinary scans are in ScanSession; here are the real-time   *)
(* rows, which get their ids in the same way (AUTOINCREMENT).              *)
(***************************************************************************)
EXTENDS Naturals, Sequences, FiniteSets

CONSTANTS Paths,      \* the infected files
          Hour,       \* what suppress() is given when a scan becomes busy
          Grace,      \* SUPPRESS_GRACE_SECONDS
          Window,     \* REPEAT_WINDOW_SECONDS
          Lag,        \* how late a line of the log can be
          MaxTime,    \* bound: ticks
          MaxLines,   \* bound: lines clamd writes
          MaxRows,    \* bound: real-time rows
          Hazards     \* which of HazardKinds may happen

HazardKinds == {"crash",       \* the application dies
                "delete_open", \* the user deletes the row of this session
                "write_fails"} \* a write of the history fails: locked, disk full

ASSUME LogConstants ==
  /\ Hour \in Nat /\ Grace \in Nat /\ Window \in Nat /\ Lag \in Nat
  /\ MaxTime \in Nat \ {0} /\ MaxLines \in Nat /\ MaxRows \in Nat
  /\ Lag < Grace /\ Grace <= Hour
  /\ Hazards \subseteq HazardKinds

Times == 1..MaxTime
Rows == 1..MaxRows
Lines == [n : 1..MaxLines, path : Paths, own : BOOLEAN, at : Times]
RowStates == {"absent", "running", "completed", "deleted"}
Row == [status : RowStates, threats : Nat]

VARIABLES
  now,         \* time.monotonic()
  up,          \* the application runs
  busy,        \* when the scanner entered its busy state; 0: it is idle
  written,     \* lines clamd has written
  journal,     \* written, and not yet read by the UI thread
  watching,    \* RealtimeMonitor.watching
  quietUntil,  \* RealtimeMonitor._suppressed_until
  recent,      \* RealtimeMonitor._recent; 0: no entry
  caught,      \* RealtimeMonitor.history
  count,       \* AppContext.realtime_detection_count
  row,         \* History._realtime_scan_id
  rows,        \* the real-time rows of the scans table
  detections,  \* the row that holds the detection of each line; 0: none
  here,        \* observation: the lines reported in this session, detected was emitted
  catches,     \* observation: the lines reported in the session a row stands for
  failed,      \* observation: the lines a write of the history failed for
  told,        \* observation: when each path was last reported; 0: never, or forgotten
  left         \* observation: the rows a crash or a failed closing left behind

monitorVars == <<watching, quietUntil, recent, caught>>
historyVars == <<count, row, rows, detections>>
obsVars == <<here, catches, failed, told, left>>
vars == <<now, up, busy, written, journal, monitorVars, historyVars, obsVars>>

\* Every variable has its type.
TypeOK ==
  /\ now \in Times /\ up \in BOOLEAN /\ busy \in 0..MaxTime
  /\ written \in 0..MaxLines /\ journal \in Seq(Lines)
  /\ watching \in BOOLEAN /\ quietUntil \in Nat
  /\ recent \in [Paths -> 0..MaxTime] /\ caught \in SUBSET Lines
  /\ count \in Nat /\ row \in 0..MaxRows /\ rows \in [Rows -> Row]
  /\ detections \in [1..MaxLines -> 0..MaxRows]
  /\ here \in SUBSET (1..MaxLines) /\ catches \in [Rows -> SUBSET (1..MaxLines)]
  /\ failed \in SUBSET (1..MaxLines)
  /\ told \in [Paths -> 0..MaxTime] /\ left \in SUBSET Rows

NoRow == [status |-> "absent", threats |-> 0]
Open == [status |-> "running", threats |-> 0]
Never == [p \in Paths |-> 0]

Init ==
  /\ now = 1 /\ up = TRUE /\ busy = 0 /\ written = 0 /\ journal = <<>>
  /\ watching = FALSE /\ quietUntil = 0 /\ recent = Never /\ caught = {}
  /\ count = 0 /\ row = 0 /\ rows = [r \in Rows |-> NoRow]
  /\ detections = [n \in 1..MaxLines |-> 0]
  /\ here = {} /\ catches = [r \in Rows |-> {}] /\ failed = {} /\ told = Never /\ left = {}

\* The operators below that are called "...Mutated" are the wrong turns the
\* properties are tried against; nothing uses them.

-----------------------------------------------------------------------------
(* Time, the scanner and clamd.                                            *)

\* No line is overdue.
Tick ==
  /\ now < MaxTime /\ now' = now + 1
  /\ \A i \in 1..Len(journal) : now' <= journal[i].at + Lag
  /\ UNCHANGED <<up, busy, written, journal, monitorVars, historyVars, obsVars>>

\* suppress, resume_after.
Later(t) == IF t > quietUntil THEN t ELSE quietUntil

\* The scanner starts, pauses, resumes or is stopping: a busy state.
ScannerBusy ==
  /\ up /\ busy' = now
  /\ quietUntil' = Later(now + Hour)
  /\ UNCHANGED <<now, up, written, journal, watching, recent, caught, historyVars, obsVars>>

ScannerIdleMutated ==
  /\ up /\ busy # 0 /\ busy' = 0
  /\ quietUntil' = now
  /\ UNCHANGED <<now, up, written, journal, watching, recent, caught, historyVars, obsVars>>
ScannerIdle ==
  /\ up /\ busy # 0 /\ busy' = 0
  /\ quietUntil' = now + Grace
  /\ UNCHANGED <<now, up, written, journal, watching, recent, caught, historyVars, obsVars>>

\* clamd finds p, because ClamGuard's scan asked or because the file was opened.
\* The log is followed from now on only, so other lines are never seen.
Logs(p, own) ==
  /\ watching /\ written < MaxLines /\ written' = written + 1
  /\ own => busy # 0
  /\ journal' = Append(journal, [n |-> written', path |-> p, own |-> own, at |-> now])
  /\ UNCHANGED <<now, up, busy, monitorVars, historyVars, obsVars>>

-----------------------------------------------------------------------------
(* The monitor.                                                            *)

Suppressed == now < quietUntil

\* _is_repeat: news, and every repeat of it, starts the window anew.
IsRepeatMutated(p) == recent[p] # 0 /\ recent[p] = now
IsRepeat(p) == recent[p] # 0 /\ now - recent[p] < Window

\* Whether a write of the history succeeds.
Outcomes == IF "write_fails" \in Hazards THEN BOOLEAN ELSE {TRUE}

\* realtime_scan_id: the session's row, opened by its first catch.  start_scan gives
\* 0 for a row it could not insert, and the next catch tries again.
SessionRow(ok) ==
  IF row # 0 \/ ~ok THEN row ELSE CHOOSE r \in Rows : rows[r].status = "absent"
OpenRow(ok) ==
  /\ row' = SessionRow(ok)
  /\ rows' = IF row = row' THEN rows ELSE [rows EXCEPT ![row'] = Open]

\* add_detection: the foreign key refuses a row that is not in the table.
Insert(line, r, ok) ==
  /\ detections' = IF ok /\ r # 0 /\ rows'[r].status # "deleted"
                   THEN [detections EXCEPT ![line.n] = r] ELSE detections
  /\ failed' = IF ok /\ row' # 0 THEN failed ELSE failed \cup {line.n}

\* The catch is counted first, and is counted whether or not it could be stored.
RecordUncounted(line) ==
  \E opens, inserts \in Outcomes :
    count' = count /\ OpenRow(opens) /\ Insert(line, row', inserts)
RecordBeforeRow(line) ==
  \E opens, inserts \in Outcomes :
    count' = count + 1 /\ OpenRow(opens) /\ Insert(line, row, inserts)
Record(line) ==
  \E opens, inserts \in Outcomes :
    count' = count + 1 /\ OpenRow(opens) /\ Insert(line, row', inserts)

\* _on_line: suppressed, a repeat, or news.
ReadLine ==
  /\ up /\ journal # <<>> /\ journal' = Tail(journal)
  /\ LET line == Head(journal) IN
     /\ recent' = IF Suppressed THEN recent ELSE [recent EXCEPT ![line.path] = now]
     /\ IF Suppressed \/ IsRepeat(line.path)
        THEN UNCHANGED <<caught, historyVars, obsVars>>
        ELSE /\ row # 0 \/ \E r \in Rows : rows[r].status = "absent"
             /\ caught' = caught \cup {line} /\ Record(line)
             /\ here' = here \cup {line.n}
             /\ catches' = IF row' = 0 THEN catches ELSE [catches EXCEPT ![row'] = here']
             /\ told' = [told EXCEPT ![line.path] = now] /\ UNCHANGED left
  /\ UNCHANGED <<now, up, busy, written, watching, quietUntil>>

\* refresh: follow the log while the on-access service runs, and not otherwise;
\* journalctl may also fail.  What was not read is gone.
Watch ==
  /\ up /\ ~watching /\ watching' = TRUE
  /\ UNCHANGED <<now, up, busy, written, journal, quietUntil, recent, caught, historyVars, obsVars>>

Unwatch ==
  /\ up /\ watching /\ watching' = FALSE /\ journal' = <<>>
  /\ UNCHANGED <<now, up, busy, written, quietUntil, recent, caught, historyVars, obsVars>>

\* forget: the file was quarantined, or was found to be gone.
Forget(p) ==
  /\ up /\ \E line \in caught : line.path = p
  /\ recent' = [recent EXCEPT ![p] = 0]
  /\ caught' = {line \in caught : line.path # p}
  /\ told' = [told EXCEPT ![p] = 0]
  /\ UNCHANGED <<now, up, busy, written, journal, watching, quietUntil, historyVars, here, catches,
                 failed, left>>

-----------------------------------------------------------------------------
(* The history.                                                            *)

\* The detections go with the rows; _realtime_scan_id stays what it is.
Remove(rs) ==
  /\ rows' = [r \in Rows |-> IF r \in rs THEN [rows[r] EXCEPT !.status = "deleted"] ELSE rows[r]]
  /\ detections' = [n \in 1..MaxLines |-> IF detections[n] \in rs THEN 0 ELSE detections[n]]
  /\ UNCHANGED <<now, up, busy, written, journal, monitorVars, count, row, obsVars>>

Stored == {r \in Rows : rows[r].status \in {"running", "completed"}}
MayRemove(rs) == rs # {} /\ (row \in rs => "delete_open" \in Hazards)

DeleteScan(r) == up /\ r \in Stored /\ MayRemove({r}) /\ Remove({r})
Clear == up /\ MayRemove(Stored) /\ Remove(Stored)

\* close_realtime_scan, finish_scan: an UPDATE, which misses a row that was deleted.
Closed(r) == IF r # 0 /\ rows[r].status # "deleted"
             THEN [rows EXCEPT ![r] = [status |-> "completed", threats |-> count]] ELSE rows

\* The UPDATE may also fail, and the row stays as it was.
Close(r) ==
  \/ rows' = Closed(r) /\ left' = left
  \/ FALSE \in Outcomes /\ rows' = rows /\ left' = left \cup ({r} \ {0})

\* What a process has in its memory is gone with it.
Gone ==
  /\ up /\ up' = FALSE /\ busy' = 0 /\ watching' = FALSE /\ journal' = <<>>
  /\ quietUntil' = 0 /\ recent' = Never /\ caught' = {} /\ count' = 0 /\ row' = 0
  /\ here' = {} /\ told' = Never
  /\ UNCHANGED <<now, written, detections, catches, failed>>

Shutdown == Gone /\ Close(row)
Crash == "crash" \in Hazards /\ Gone /\ rows' = rows /\ left' = left \cup ({row} \ {0})

Launch ==
  /\ ~up /\ up' = TRUE
  /\ UNCHANGED <<now, busy, written, journal, monitorVars, historyVars, obsVars>>

Next == \/ Tick \/ ScannerBusy \/ ScannerIdle \/ ReadLine \/ Watch \/ Unwatch
        \/ \E p \in Paths : Forget(p) \/ \E own \in BOOLEAN : Logs(p, own)
        \/ \E r \in Rows : DeleteScan(r)
        \/ Clear \/ Shutdown \/ Crash \/ Launch

Spec == Init /\ [][Next]_vars

-----------------------------------------------------------------------------
(* Properties.                                                             *)

\* suppress(3600.0), "for as long as the scan lasts": a hit of ClamGuard's own scan
\* is reported as a real-time catch only while the scanner has been in one state for
\* that whole hour, never sooner and never once the scan is over, however late the
\* log is and whatever scans, pauses and restarts come in between.
OwnHitsStayOut ==
  [][\A i \in 1..Len(journal) :
        journal[i].own /\ journal[i].n \in here' \ here => busy # 0 /\ now - busy >= Hour]_vars

\* A path is reported once per window, unless it was forgotten in between.
\* (REPEAT_WINDOW_SECONDS: "Report it once per window.")
OncePerWindow ==
  [][\A p \in Paths : told'[p] = now /\ told'[p] # told[p]
                      => told[p] = 0 \/ now - told[p] >= Window]_vars

\* Every catch of a session that has a row in the table is stored under that row, the
\* first one and those before it could be opened included, unless its own write
\* failed; a session without a row has stored none.  ("so it is not just a log line".)
CatchIsRecorded ==
  /\ \A r \in Stored : \A n \in catches[r] : detections[n] = r \/ n \in failed
  /\ row = 0 => here \subseteq failed

\* A detection belongs to a row that is in the table.
DetectionHasRow == \A n \in 1..MaxLines : detections[n] # 0 => detections[n] \in Stored

\* A real-time row is "running" only "while ClamGuard is open", and there is one;
\* only a crash or a closing that fails leaves one behind.
RunningRowIsOpen ==
  \A r \in Rows : rows[r].status = "running" => (up /\ r = row) \/ r \in left

\* The number on a completed row is that of the detections stored under it and of
\* the catches of its session that could not be stored, and of nothing else.
ClosedRowCounts ==
  \A r \in Rows : rows[r].status = "completed" =>
     rows[r].threats = Cardinality({n \in 1..MaxLines : detections[n] = r})
                       + Cardinality(catches[r] \cap failed)
=============================================================================
