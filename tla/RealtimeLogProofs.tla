------------------------- MODULE RealtimeLogProofs -------------------------
(***************************************************************************)
(* Proofs about RealtimeLog for any files, periods and bounds.             *)
(*                                                                         *)
(* The two sources of the log are kept apart by an argument about time     *)
(* (Quiet): while the scanner is busy the suppression lasts the hour from  *)
(* the moment it entered its state, and a line of the scan that is read    *)
(* later is read within the lag, hence within the grace period.  A row is  *)
(* open in one session only (KInv), and holds a detection or a failed      *)
(* write for each catch of its session (Kept).  A path is reported once    *)
(* per window because no report is later than the line the window is       *)
(* measured from (Remembered), and a completed row counts its detections   *)
(* and what could not be stored because the session counts along with its  *)
(* row (Counting).                                                         *)
(***************************************************************************)
EXTENDS RealtimeLog, FiniteSetTheorems, TLAPS

\* A line of the log that is still to be read.
Timely(line) ==
  /\ line.at <= now /\ now <= line.at + Lag
  /\ line.own => busy # 0 \/ quietUntil >= line.at + Grace

Quiet ==
  /\ busy <= now
  /\ busy # 0 => quietUntil >= busy + Hour
  /\ \A i \in 1..Len(journal) : Timely(journal[i])

\* The lines are numbered as they are written, and each is read once.
Numbered ==
  /\ \A i \in 1..Len(journal) : journal[i].n <= written
  /\ \A i, j \in 1..Len(journal) : i < j => journal[i].n # journal[j].n

QInv == TypeOK /\ Quiet /\ Numbered

\* The session's row is a row that was opened, by a session that still runs.
Opened == row # 0 => up /\ rows[row].status # "absent"
KInv == TypeOK /\ Opened /\ DetectionHasRow /\ RunningRowIsOpen

\* The session's row stands for the catches of the session.
Kept ==
  /\ CatchIsRecorded
  /\ \A n \in 1..MaxLines : detections[n] # 0 => n \in catches[detections[n]] \ failed
  /\ row # 0 => rows[row].status \in {"running", "deleted"} /\ catches[row] = here
  /\ \A r \in Rows : rows[r].status = "absent" => catches[r] = {}

-----------------------------------------------------------------------------
USE LogConstants DEF Times, Rows, monitorVars, historyVars, obsVars

LEMMA LineParts ==
  /\ \A line \in Lines : line.n \in 1..MaxLines /\ line.path \in Paths /\ line.own \in BOOLEAN
                         /\ line.at \in 1..MaxTime
  /\ \A n \in 1..MaxLines, p \in Paths, own \in BOOLEAN, at \in 1..MaxTime :
        [n |-> n, path |-> p, own |-> own, at |-> at] \in Lines
BY DEF Lines

LEMMA RowParts ==
  /\ NoRow \in Row /\ Open \in Row
  /\ \A r \in Row : [r EXCEPT !.status = "deleted"] \in Row
  /\ \A n \in Nat : [status |-> "completed", threats |-> n] \in Row
BY DEF Row, RowStates, NoRow, Open

\* A row can be opened: the session has none, and an id is left.
CanOpen == row # 0 \/ \E r \in Rows : rows[r].status = "absent"

LEMMA Fresh ==
  ASSUME TypeOK, CanOpen, NEW ok \in BOOLEAN
  PROVE  /\ SessionRow(ok) \in 0..MaxRows
         /\ row # 0 => SessionRow(ok) = row
         /\ row = 0 /\ ~ok => SessionRow(ok) = 0
         /\ row = 0 /\ ok => SessionRow(ok) \in Rows /\ rows[SessionRow(ok)].status = "absent"
<1>1. CASE row # 0 \/ ~ok
  BY <1>1 DEF TypeOK, SessionRow
<1>2. CASE row = 0 /\ ok
  <2>1. SessionRow(ok) = CHOOSE r \in Rows : rows[r].status = "absent"
    BY <1>2 DEF SessionRow
  <2>2. \E r \in Rows : rows[r].status = "absent"
    BY <1>2 DEF CanOpen
  <2>3. SessionRow(ok) \in Rows /\ rows[SessionRow(ok)].status = "absent"
    BY <2>1, <2>2, Zenon
  <2>4. \A r \in Rows : r \in 0..MaxRows
    OBVIOUS
  <2> QED  BY <1>2, <2>3, <2>4
<1> QED  BY <1>1, <1>2

LEMMA EmptyJournal == <<>> \in Seq(Lines)
OBVIOUS

LEMMA LoggedLine ==
  ASSUME TypeOK, NEW p \in Paths, NEW own \in BOOLEAN, Logs(p, own)
  PROVE  [n |-> written', path |-> p, own |-> own, at |-> now] \in Lines
<1>1. written' \in 1..MaxLines /\ now \in 1..MaxTime
  BY DEF Logs, TypeOK
<1> QED  BY <1>1, LineParts

LEMMA InitTypes == Init => TypeOK
<1> SUFFICES ASSUME Init PROVE TypeOK
  OBVIOUS
<1>1. /\ recent \in [Paths -> 0..MaxTime] /\ told \in [Paths -> 0..MaxTime]
  BY DEF Init, Never
<1>2. rows \in [Rows -> Row] /\ detections \in [1..MaxLines -> 0..MaxRows]
  BY RowParts DEF Init
<1>3. journal \in Seq(Lines)
  BY EmptyJournal DEF Init
<1>4. /\ now \in Times /\ busy \in 0..MaxTime /\ written \in 0..MaxLines
      /\ quietUntil \in Nat /\ count \in Nat /\ row \in 0..MaxRows
  BY DEF Init
<1>6. up \in BOOLEAN /\ watching \in BOOLEAN
  BY DEF Init
<1>5. /\ caught \in SUBSET Lines /\ left \in SUBSET Rows
      /\ here \in SUBSET (1..MaxLines) /\ catches \in [Rows -> SUBSET (1..MaxLines)]
      /\ failed \in SUBSET (1..MaxLines)
  BY DEF Init
<1> QED  BY <1>1, <1>2, <1>3, <1>4, <1>5, <1>6 DEF TypeOK

\* What is left of the log after its first line, and after one more.
LEMMA JournalTail ==
  ASSUME journal \in Seq(Lines), journal # <<>>
  PROVE  /\ Head(journal) \in Lines /\ Head(journal) = journal[1] /\ 1 \in 1..Len(journal)
         /\ Tail(journal) \in Seq(Lines)
         /\ \A i \in 1..Len(Tail(journal)) : i + 1 \in 1..Len(journal) /\ Tail(journal)[i] = journal[i + 1]
OBVIOUS

LEMMA JournalAppend ==
  ASSUME journal \in Seq(Lines), NEW line \in Lines
  PROVE  /\ Append(journal, line) \in Seq(Lines)
         /\ \A i \in 1..Len(Append(journal, line)) :
               \/ i \in 1..Len(journal) /\ Append(journal, line)[i] = journal[i]
               \/ Append(journal, line)[i] = line
OBVIOUS

\* What recording a catch does to the history: the row is that of the session, one
\* that was opened for it, or none; the catch is stored, refused, or has failed.
Recorded(line, opened, stored) ==
  /\ count' = count + 1
  /\ row' \in 0..MaxRows /\ rows' \in [Rows -> Row]
  /\ row # 0 => row' = row /\ ~opened
  /\ row = 0 => row' # 0 <=> opened
  /\ opened => rows[row'].status = "absent"
  /\ \A r \in Rows : rows'[r] = IF opened /\ r = row' THEN Open ELSE rows[r]
  /\ stored => row' # 0 /\ rows'[row'].status # "deleted"
  /\ \A n \in 1..MaxLines :
        detections'[n] = IF n = line.n /\ stored THEN row' ELSE detections[n]
  /\ failed' = failed \/ failed' = failed \cup {line.n}
  /\ stored \/ line.n \in failed' \/ (row' # 0 /\ rows'[row'].status = "deleted")
  /\ stored => failed' = failed
  /\ detections' \in [1..MaxLines -> 0..MaxRows] /\ failed' \in SUBSET (1..MaxLines)

LEMMA RecordIs ==
  ASSUME TypeOK, NEW line \in Lines, Record(line), CanOpen
  PROVE  \E opened, stored \in BOOLEAN : Recorded(line, opened, stored)
<1>0. Outcomes \subseteq BOOLEAN
  BY DEF Outcomes
<1>1. PICK opens \in BOOLEAN, inserts \in BOOLEAN :
        count' = count + 1 /\ OpenRow(opens) /\ Insert(line, row', inserts)
  BY <1>0 DEF Record
<1>2. PICK m \in 1..MaxLines : m = line.n
  BY LineParts
<1> DEFINE opened == row = 0 /\ opens
           stored == inserts /\ row' # 0 /\ rows'[row'].status # "deleted"
<1>3. /\ row' \in 0..MaxRows /\ row \in 0..MaxRows
      /\ row # 0 => row' = row /\ ~opened
      /\ row = 0 => row' # 0 <=> opened
      /\ opened => row' \in Rows /\ rows[row'].status = "absent"
  BY <1>1, Fresh DEF OpenRow, TypeOK
<1>4. /\ rows' \in [Rows -> Row]
      /\ \A r \in Rows : rows'[r] = IF opened /\ r = row' THEN Open ELSE rows[r]
  <2>1. CASE row' = row
    BY <1>1, <1>3, <2>1 DEF OpenRow, TypeOK
  <2>2. CASE row' # row
    <3>1. opened /\ rows' = [rows EXCEPT ![row'] = Open]
      BY <1>1, <1>3, <2>2 DEF OpenRow
    <3>2. PICK r \in Rows : r = row'
      BY <1>3, <3>1
    <3> QED  BY <3>1, <3>2, RowParts DEF TypeOK
  <2> QED  BY <2>1, <2>2
<1>5. /\ detections' = IF stored THEN [detections EXCEPT ![m] = row'] ELSE detections
      /\ failed' = IF inserts /\ row' # 0 THEN failed ELSE failed \cup {m}
  BY <1>1, <1>2 DEF Insert
<1>6. /\ detections' \in [1..MaxLines -> 0..MaxRows] /\ failed' \in SUBSET (1..MaxLines)
      /\ \A n \in 1..MaxLines : detections'[n] = IF n = m /\ stored THEN row' ELSE detections[n]
  BY <1>3, <1>5 DEF TypeOK
<1>7. Recorded(line, opened, stored)
  BY <1>1, <1>2, <1>3, <1>4, <1>5, <1>6 DEF Recorded
<1>8. opened \in BOOLEAN /\ stored \in BOOLEAN
  OBVIOUS
<1> QED  BY <1>7, <1>8

\* What a line that is news does.
News(line) ==
  /\ caught' = caught \cup {line} /\ here' = here \cup {line.n}
  /\ row' = 0 => catches' = catches
  /\ row' # 0 => catches' = [catches EXCEPT ![row'] = here']
  /\ told' = [told EXCEPT ![line.path] = now] /\ left' = left
  /\ \E opened, stored \in BOOLEAN : Recorded(line, opened, stored)

\* A line is let pass, or is news; nothing else of the log, the clock and the
\* scanner changes.
LEMMA ReadIs ==
  ASSUME TypeOK, ReadLine
  PROVE  /\ journal # <<>> /\ journal' = Tail(journal) /\ up
         /\ UNCHANGED <<now, up, busy, written, watching, quietUntil>>
         /\ \E line \in Lines :
              /\ line = Head(journal)
              /\ recent' \in [Paths -> 0..MaxTime]
              /\ \/ UNCHANGED <<caught, historyVars, obsVars>>
                 \/ ~Suppressed /\ ~IsRepeat(line.path) /\ News(line)
<1>1. PICK line \in Lines : line = Head(journal)
  BY JournalTail DEF TypeOK, ReadLine
<1>2. line.path \in Paths
  BY LineParts
<1>3. recent' \in [Paths -> 0..MaxTime]
  BY <1>1, <1>2 DEF TypeOK, ReadLine
<1>4. CASE Suppressed \/ IsRepeat(line.path)
  <2>1. UNCHANGED <<caught, historyVars, obsVars>>
    BY <1>1, <1>4 DEF ReadLine
  <2> QED  BY <1>1, <1>3, <2>1 DEF ReadLine
<1>5. CASE ~(Suppressed \/ IsRepeat(line.path))
  <2>1. /\ CanOpen /\ caught' = caught \cup {line} /\ Record(line)
        /\ here' = here \cup {line.n}
        /\ catches' = IF row' = 0 THEN catches ELSE [catches EXCEPT ![row'] = here']
        /\ told' = [told EXCEPT ![line.path] = now] /\ left' = left
    BY <1>1, <1>5 DEF ReadLine, CanOpen
  <2>2. News(line)
    BY <2>1, RecordIs DEF News
  <2> QED  BY <1>1, <1>3, <1>5, <2>2 DEF ReadLine
<1> QED  BY <1>4, <1>5

LEMMA ReadTypes == ASSUME TypeOK, ReadLine PROVE TypeOK'
<1>1. journal' \in Seq(Lines)
  BY JournalTail DEF TypeOK, ReadLine
<1>2. PICK line \in Lines :
        /\ recent' \in [Paths -> 0..MaxTime]
        /\ UNCHANGED <<caught, historyVars, obsVars>> \/ News(line)
  BY ReadIs
<1>3. UNCHANGED <<now, up, busy, written, watching, quietUntil>>
  BY ReadIs
<1>4. CASE UNCHANGED <<caught, historyVars, obsVars>>
  BY <1>1, <1>2, <1>3, <1>4 DEF TypeOK
<1>5. CASE News(line)
  <2>1. line.path \in Paths /\ line.n \in 1..MaxLines
    BY LineParts
  <2>2. /\ count' \in Nat /\ row' \in 0..MaxRows /\ rows' \in [Rows -> Row]
        /\ detections' \in [1..MaxLines -> 0..MaxRows] /\ failed' \in SUBSET (1..MaxLines)
    BY <1>5 DEF News, Recorded, TypeOK
  <2>3. here' \in SUBSET (1..MaxLines)
    BY <1>5, <2>1 DEF News, TypeOK
  <2>4. catches' \in [Rows -> SUBSET (1..MaxLines)]
    BY <1>5, <2>2, <2>3 DEF News, TypeOK
  <2>5. told' \in [Paths -> 0..MaxTime] /\ caught' \in SUBSET Lines /\ left' \in SUBSET Rows
    BY <1>5, <2>1 DEF News, TypeOK
  <2> QED  BY <1>1, <1>2, <1>3, <2>2, <2>3, <2>4, <2>5 DEF TypeOK
<1> QED  BY <1>2, <1>4, <1>5

LEMMA StepTypes == ASSUME TypeOK, [Next]_vars PROVE TypeOK'
<1>1. CASE Tick
  BY <1>1 DEF Tick, TypeOK
<1>2. CASE ScannerBusy
  BY <1>2 DEF ScannerBusy, TypeOK, Later
<1>3. CASE ScannerIdle
  BY <1>3 DEF ScannerIdle, TypeOK
<1>4. ASSUME NEW p \in Paths, NEW own \in BOOLEAN, Logs(p, own) PROVE TypeOK'
  <2>1. PICK line \in Lines : journal' = Append(journal, line)
    <3>1. [n |-> written', path |-> p, own |-> own, at |-> now] \in Lines
      BY <1>4, LoggedLine
    <3> QED  BY <1>4, <3>1 DEF Logs
  <2>2. journal' \in Seq(Lines)
    BY <2>1, JournalAppend DEF TypeOK
  <2> QED  BY <1>4, <2>2 DEF Logs, TypeOK
<1>5. CASE Watch
  BY <1>5 DEF Watch, TypeOK
<1>6. CASE Unwatch
  BY <1>6, EmptyJournal DEF Unwatch, TypeOK
<1>7. ASSUME NEW p \in Paths, Forget(p) PROVE TypeOK'
  BY <1>7 DEF Forget, TypeOK
<1>8. ASSUME NEW rs \in SUBSET Rows, Remove(rs) PROVE TypeOK'
  <2>1. rows' \in [Rows -> Row]
    <3>1. ASSUME NEW r \in Rows PROVE [rows[r] EXCEPT !.status = "deleted"] \in Row /\ rows[r] \in Row
      BY RowParts DEF TypeOK
    <3> QED  BY <1>8, <3>1 DEF Remove
  <2>2. detections' \in [1..MaxLines -> 0..MaxRows]
    BY <1>8 DEF Remove, TypeOK
  <2> QED  BY <1>8, <2>1, <2>2 DEF Remove, TypeOK
<1>9. ASSUME Gone, rows' \in [Rows -> Row], left' \in SUBSET Rows PROVE TypeOK'
  <2>1. journal' \in Seq(Lines)
    BY <1>9, EmptyJournal DEF Gone
  <2>2. recent' \in [Paths -> 0..MaxTime] /\ told' \in [Paths -> 0..MaxTime]
    BY <1>9 DEF Gone, Never
  <2>3. /\ now' \in Times /\ busy' \in 0..MaxTime /\ written' \in 0..MaxLines
        /\ quietUntil' \in Nat /\ count' \in Nat /\ row' \in 0..MaxRows
    BY <1>9 DEF Gone, TypeOK
  <2>5. up' \in BOOLEAN /\ watching' \in BOOLEAN
    BY <1>9 DEF Gone
  <2>4. /\ caught' \in SUBSET Lines /\ here' \in SUBSET (1..MaxLines)
        /\ catches' \in [Rows -> SUBSET (1..MaxLines)] /\ failed' \in SUBSET (1..MaxLines)
        /\ detections' \in [1..MaxLines -> 0..MaxRows]
    BY <1>9 DEF Gone, TypeOK
  <2> QED  BY <1>9, <2>1, <2>2, <2>3, <2>4, <2>5 DEF TypeOK
<1>10. CASE Shutdown
  <2>1. rows' \in [Rows -> Row]
    BY <1>10, RowParts DEF Shutdown, Close, Closed, TypeOK
  <2>2. left' \in SUBSET Rows
    <3>1. left' = left \/ left' = left \cup ({row} \ {0})
      BY <1>10 DEF Shutdown, Close
    <3>2. row \in 0..MaxRows /\ left \in SUBSET Rows
      BY DEF TypeOK
    <3>3. {row} \ {0} \subseteq Rows
      BY <3>2
    <3> QED  BY <3>1, <3>2, <3>3
  <2> QED  BY <1>9, <1>10, <2>1, <2>2 DEF Shutdown
<1>11. CASE Crash
  BY <1>9, <1>11 DEF Crash, TypeOK
<1>12. CASE Launch
  BY <1>12 DEF Launch, TypeOK
<1>13. CASE UNCHANGED vars
  BY <1>13 DEF vars, TypeOK
<1>14. CASE \E r \in Rows : DeleteScan(r)
  BY <1>8, <1>14 DEF DeleteScan
<1>15. CASE Clear
  <2>1. Stored \in SUBSET Rows
    BY DEF Stored
  <2> QED  BY <1>8, <1>15, <2>1 DEF Clear
<1> QED  BY <1>1, <1>2, <1>3, <1>4, <1>5, <1>6, <1>7, <1>10, <1>11, <1>12, <1>13, <1>14, <1>15,
            ReadTypes DEF Next

\* Every variable has its type, whatever the periods.
THEOREM RealtimeTypes == Spec => []TypeOK
<1>1. TypeOK /\ [Next]_vars => TypeOK'
  BY StepTypes
<1> QED  BY InitTypes, <1>1, PTL DEF Spec

-----------------------------------------------------------------------------
(* Two sources, told apart by the clock.                                   *)

\* A line of our own scan is read while the monitor is suppressed, unless the scan
\* has been in its state for the whole hour.
LEMMA OwnIsSuppressed ==
  ASSUME TypeOK, Quiet, NEW i \in 1..Len(journal), journal[i].own, ~Suppressed
  PROVE  busy # 0 /\ now - busy >= Hour
<1>1. Timely(journal[i]) /\ journal[i] \in Lines
  BY DEF Quiet, TypeOK
<1>2. journal[i].at \in Nat /\ now \in Nat /\ busy \in Nat /\ quietUntil \in Nat
  BY <1>1, LineParts DEF TypeOK
<1> QED  BY <1>1, <1>2 DEF Timely, Quiet, Suppressed

LEMMA StepQuiet == ASSUME TypeOK, Quiet, [Next]_vars PROVE Quiet'
<1> USE DEF Quiet, Timely
<1>0. /\ now \in Nat /\ busy \in Nat /\ quietUntil \in Nat /\ journal \in Seq(Lines)
      /\ \A i \in 1..Len(journal) : journal[i].at \in Nat
  <2>1. \A i \in 1..Len(journal) : journal[i] \in Lines
    BY DEF TypeOK
  <2> QED  BY <2>1, LineParts DEF TypeOK
<1>1. CASE Tick
  BY <1>0, <1>1 DEF Tick
<1>2. CASE ScannerBusy
  BY <1>0, <1>2 DEF ScannerBusy, Later
<1>3. CASE ScannerIdle
  BY <1>0, <1>3 DEF ScannerIdle
<1>4. ASSUME NEW p \in Paths, NEW own \in BOOLEAN, Logs(p, own) PROVE Quiet'
  <2>1. PICK line \in Lines : /\ line = [n |-> written', path |-> p, own |-> own, at |-> now]
                              /\ journal' = Append(journal, line)
    <3>1. [n |-> written', path |-> p, own |-> own, at |-> now] \in Lines
      BY <1>4, LoggedLine
    <3> QED  BY <1>4, <3>1 DEF Logs
  <2>2. UNCHANGED <<now, busy, quietUntil>> /\ (line.own => busy # 0) /\ line.at = now
    BY <1>4, <2>1 DEF Logs
  <2>3. ASSUME NEW i \in 1..Len(journal') PROVE Timely(journal[i])'
    <3>1. (i \in 1..Len(journal) /\ journal'[i] = journal[i]) \/ journal'[i] = line
      BY <1>0, <2>1, JournalAppend
    <3>2. CASE i \in 1..Len(journal) /\ journal'[i] = journal[i]
      BY <2>2, <3>2
    <3>3. CASE journal'[i] = line
      BY <1>0, <2>2, <3>3
    <3> QED  BY <3>1, <3>2, <3>3
  <2> QED  BY <2>2, <2>3
<1>5. CASE Watch
  BY <1>5 DEF Watch
<1>6. CASE Unwatch
  BY <1>6 DEF Unwatch
<1>7. ASSUME NEW p \in Paths, Forget(p) PROVE Quiet'
  BY <1>7 DEF Forget
<1>8. ASSUME NEW rs, Remove(rs) PROVE Quiet'
  BY <1>8 DEF Remove
<1>9. ASSUME Gone PROVE Quiet'
  BY <1>0, <1>9 DEF Gone
<1>10. CASE Launch
  BY <1>10 DEF Launch
<1>11. CASE ReadLine
  <2>1. UNCHANGED <<now, busy, quietUntil>> /\ journal' = Tail(journal) /\ journal # <<>>
    BY <1>11 DEF ReadLine
  <2> QED  BY <1>0, <2>1, JournalTail
<1>12. CASE UNCHANGED vars
  BY <1>12 DEF vars
<1> QED  BY <1>1, <1>2, <1>3, <1>4, <1>5, <1>6, <1>7, <1>8, <1>9, <1>10, <1>11, <1>12
         DEF Next, DeleteScan, Clear, Shutdown, Crash

LEMMA StepNumbered == ASSUME TypeOK, Numbered, [Next]_vars PROVE Numbered'
<1>1. /\ journal \in Seq(Lines) /\ written \in Nat
      /\ \A i \in 1..Len(journal) : journal[i].n \in 1..MaxLines
  BY LineParts DEF TypeOK
<1>2. ASSUME NEW p \in Paths, NEW own \in BOOLEAN, Logs(p, own) PROVE Numbered'
  <2>1. PICK line \in Lines : line.n = written + 1 /\ journal' = Append(journal, line)
    <3>1. [n |-> written', path |-> p, own |-> own, at |-> now] \in Lines
      BY <1>2, LoggedLine
    <3> QED  BY <1>2, <3>1 DEF Logs
  <2>2. written' = written + 1
    BY <1>2 DEF Logs
  <2>3. /\ Len(journal') = Len(journal) + 1 /\ Len(journal) \in Nat
        /\ \A i \in 1..Len(journal') : journal'[i] = IF i <= Len(journal) THEN journal[i] ELSE line
    BY <1>1, <2>1
  <2> QED  BY <1>1, <2>1, <2>2, <2>3 DEF Numbered
<1>3. CASE ReadLine
  <2>1. journal # <<>> /\ journal' = Tail(journal) /\ written' = written
    BY <1>3 DEF ReadLine
  <2>2. \A i \in 1..Len(journal') : i + 1 \in 1..Len(journal) /\ journal'[i] = journal[i + 1]
    BY <1>1, <2>1, JournalTail
  <2>3. ASSUME NEW i \in 1..Len(journal'), NEW j \in 1..Len(journal'), i < j
        PROVE  journal'[i].n # journal'[j].n
    <3>1. i + 1 \in 1..Len(journal) /\ j + 1 \in 1..Len(journal) /\ i + 1 < j + 1
      BY <2>2, <2>3
    <3> QED  BY <2>2, <3>1 DEF Numbered
  <2> QED  BY <2>1, <2>2, <2>3 DEF Numbered
<1>4. CASE journal' = <<>>
  BY <1>4 DEF Numbered
<1>5. CASE UNCHANGED <<journal, written>>
  BY <1>5 DEF Numbered
<1>6. \/ \E p \in Paths, own \in BOOLEAN : Logs(p, own)
      \/ ReadLine \/ journal' = <<>> \/ UNCHANGED <<journal, written>>
  BY DEF Next, vars, Tick, ScannerBusy, ScannerIdle, Watch, Unwatch, Forget, DeleteScan,
         Clear, Remove, Shutdown, Crash, Gone, Launch
<1> QED  BY <1>2, <1>3, <1>4, <1>5, <1>6

\* The line that is news is the first of the log, and no other step reports one.
LEMMA StepOwn ==
  ASSUME QInv, [Next]_vars
  PROVE  \A i \in 1..Len(journal) :
           journal[i].own /\ journal[i].n \in here' \ here => busy # 0 /\ now - busy >= Hour
<1>1. SUFFICES ASSUME NEW i \in 1..Len(journal), journal[i].own, journal[i].n \in here' \ here
               PROVE  busy # 0 /\ now - busy >= Hour
  OBVIOUS
<1>2. ReadLine \/ here' = here \/ here' = {}
  BY DEF Next, vars, obsVars, Tick, ScannerBusy, ScannerIdle, Logs, Watch, Unwatch, Forget,
         DeleteScan, Clear, Remove, Shutdown, Crash, Gone, Launch
<1>3. ReadLine
  BY <1>1, <1>2
<1>4. PICK line \in Lines :
        line = Head(journal) /\ (here' = here \/ (~Suppressed /\ here' = here \cup {line.n}))
  BY <1>3, ReadIs DEF QInv, News
<1>5. ~Suppressed /\ journal[i].n = line.n
  BY <1>1, <1>4
<1>6. line = journal[1] /\ 1 \in 1..Len(journal)
  BY <1>3, <1>4, JournalTail DEF QInv, TypeOK, ReadLine
<1>7. i = 1
  BY <1>5, <1>6 DEF QInv, Numbered
<1> QED  BY <1>1, <1>5, OwnIsSuppressed DEF QInv

\* A hit of ClamGuard's own scan is reported as a real-time catch only while the
\* scanner has been in one state for the whole hour that suppress() is given: never
\* sooner, and never after the scan, for any hour, any grace period longer than the
\* lag of the log, and any scans, pauses, crashes and restarts.
THEOREM OwnHitsHold == Spec => OwnHitsStayOut
<1>1. Init => QInv
  <2>1. Init => Quiet /\ Numbered
    BY DEF Init, Quiet, Numbered
  <2> QED  BY <2>1, InitTypes DEF QInv
<1>2. QInv /\ [Next]_vars => QInv'
  BY StepTypes, StepQuiet, StepNumbered DEF QInv
<1>3. QInv /\ [Next]_vars
      => [\A i \in 1..Len(journal) :
            journal[i].own /\ journal[i].n \in here' \ here => busy # 0 /\ now - busy >= Hour]_vars
  BY StepOwn
<1> QED  BY <1>1, <1>2, <1>3, PTL DEF Spec, OwnHitsStayOut

-----------------------------------------------------------------------------
(* The rows.                                                               *)

LEMMA InitKept == Init => KInv /\ Kept
<1>1. Init => Opened /\ DetectionHasRow /\ RunningRowIsOpen /\ Kept
  BY DEF Init, Opened, DetectionHasRow, RunningRowIsOpen, NoRow, Kept, CatchIsRecorded, Stored
<1> QED  BY <1>1, InitTypes DEF KInv

\* A catch is recorded in the row of the session, which it may open.
LEMMA RecordKept ==
  ASSUME KInv, up, up' = up, left' = left, NEW line \in Lines,
         NEW opened \in BOOLEAN, NEW stored \in BOOLEAN, Recorded(line, opened, stored)
  PROVE  Opened' /\ DetectionHasRow' /\ RunningRowIsOpen'
<1>1. /\ row' \in 0..MaxRows /\ rows' \in [Rows -> Row]
      /\ row # 0 => row' = row /\ ~opened
      /\ row = 0 => row' # 0 <=> opened
      /\ opened => rows[row'].status = "absent"
      /\ \A r \in Rows : rows'[r] = IF opened /\ r = row' THEN Open ELSE rows[r]
      /\ stored => row' # 0 /\ rows'[row'].status # "deleted"
      /\ \A n \in 1..MaxLines :
            detections'[n] = IF n = line.n /\ stored THEN row' ELSE detections[n]
  BY DEF Recorded
<1>2. row' # 0 => rows'[row'].status # "absent" /\ row' \in Rows
  BY <1>1 DEF KInv, Opened, Open
<1>3. Opened'
  BY <1>2 DEF Opened
<1>4. \A r \in Rows : rows[r].status \in {"running", "completed"}
                      => rows'[r].status \in {"running", "completed"}
  BY <1>1 DEF Open
<1>5. ASSUME NEW n \in 1..MaxLines, detections'[n] # 0 PROVE detections'[n] \in Stored'
  <2>1. CASE detections'[n] = detections[n]
    BY <1>4, <1>5, <2>1 DEF KInv, DetectionHasRow, Stored
  <2>2. CASE detections'[n] = row' /\ stored
    <3>1. row' \in Rows /\ rows'[row'].status \in RowStates
      BY <1>1, <1>2, <2>2 DEF Row
    <3>2. rows'[row'].status \in {"running", "completed"}
      BY <1>1, <1>2, <2>2, <3>1 DEF RowStates
    <3> QED  BY <2>2, <3>1, <3>2 DEF Stored
  <2> QED  BY <1>1, <2>1, <2>2
<1>6. DetectionHasRow'
  BY <1>5 DEF DetectionHasRow
<1>7. RunningRowIsOpen'
  BY <1>1 DEF KInv, RunningRowIsOpen
<1> QED  BY <1>3, <1>6, <1>7

\* The lines that have been reported, in this session or another.
Seen ==
  here \cup failed \cup {n \in 1..MaxLines : detections[n] # 0 \/ \E r \in Rows : n \in catches[r]}

\* A line that is to be read has not been reported before.
Unread ==
  /\ \A n \in Seen : n <= written
  /\ \A i \in 1..Len(journal) : journal[i].n \notin Seen

\* The catches of the session stand for it under its row: the new one is stored
\* there, or its write has failed, or the row is deleted.
LEMMA RecordRemembered ==
  ASSUME KInv, Kept, NEW line \in Lines, News(line), line.n \notin Seen
  PROVE  Kept'
<1>1. PICK opened \in BOOLEAN, stored \in BOOLEAN : Recorded(line, opened, stored)
  BY DEF News
<1>2. /\ row' \in 0..MaxRows /\ row \in 0..MaxRows
      /\ row # 0 => row' = row /\ ~opened
      /\ row = 0 => row' # 0 <=> opened
      /\ opened => rows[row'].status = "absent"
      /\ \A r \in Rows : rows'[r] = IF opened /\ r = row' THEN Open ELSE rows[r]
  BY <1>1 DEF Recorded, KInv, TypeOK
<1>3. /\ stored => row' # 0 /\ rows'[row'].status # "deleted"
      /\ \A n \in 1..MaxLines :
            detections'[n] = IF n = line.n /\ stored THEN row' ELSE detections[n]
      /\ failed \subseteq failed'
      /\ stored \/ line.n \in failed' \/ (row' # 0 /\ rows'[row'].status = "deleted")
  BY <1>1 DEF Recorded
<1>4. /\ here' = here \cup {line.n} /\ here \subseteq 1..MaxLines
      /\ \A r \in Rows : catches'[r] = IF r = row' THEN here' ELSE catches[r]
      /\ \A r \in Rows : catches[r] \subseteq 1..MaxLines
      /\ line.n \in 1..MaxLines
  <2>1. /\ catches \in [Rows -> SUBSET (1..MaxLines)] /\ here \subseteq 1..MaxLines
        /\ line.n \in 1..MaxLines
    BY LineParts DEF KInv, TypeOK
  <2>2. catches' = IF row' = 0 THEN catches ELSE [catches EXCEPT ![row'] = here']
    BY DEF News
  <2> QED  BY <2>1, <2>2 DEF News
<1>41. /\ \A r \in Rows : line.n \notin catches[r]
      /\ line.n \notin failed /\ (stored => failed' = failed)
      /\ failed' \subseteq failed \cup {line.n}
  BY <1>1, <1>4 DEF Seen, Recorded
<1>5. ASSUME NEW r \in Rows, r \in Stored', NEW n \in catches'[r]
      PROVE  detections'[n] = r \/ n \in failed'
  <2>1. CASE n = line.n
    <3>1. r = row'
      BY <1>4, <1>41, <1>5, <2>1
    <3>2. stored \/ line.n \in failed'
      BY <1>3, <1>5, <3>1 DEF Stored
    <3> QED  BY <1>3, <1>4, <2>1, <3>1, <3>2
  <2>2. CASE n # line.n
    <3>1. n \in 1..MaxLines /\ detections'[n] = detections[n]
      BY <1>3, <1>4, <2>2
    <3>2. CASE opened /\ r = row'
      <4>1. n \in here /\ row = 0
        BY <1>2, <1>4, <1>5, <2>2, <3>2
      <4> QED  BY <1>3, <4>1 DEF Kept, CatchIsRecorded
    <3>3. CASE ~(opened /\ r = row')
      <4>1. rows'[r] = rows[r] /\ r \in Stored
        BY <1>2, <1>5, <3>3 DEF Stored
      <4>2. n \in catches[r]
        BY <1>2, <1>4, <1>5, <2>2, <3>3 DEF Kept
      <4>3. detections[n] = r \/ n \in failed
        BY <4>1, <4>2 DEF Kept, CatchIsRecorded
      <4> QED  BY <1>3, <3>1, <4>3
    <3> QED  BY <3>2, <3>3
  <2> QED  BY <2>1, <2>2
<1>6. ASSUME row' = 0 PROVE here' \subseteq failed'
  <2>1. row = 0 /\ ~stored
    BY <1>2, <1>3, <1>6
  <2> QED  BY <1>3, <1>4, <1>6, <2>1 DEF Kept, CatchIsRecorded
<1>7. \A r \in Stored' : r \in Rows
  BY DEF Stored
<1>8. CatchIsRecorded'
  BY <1>5, <1>6, <1>7 DEF CatchIsRecorded
<1>9. row' # 0 => rows'[row'].status \in {"running", "deleted"} /\ catches'[row'] = here'
  BY <1>2, <1>4 DEF Kept, Open
<1>10. \A r \in Rows : rows'[r].status = "absent" => catches'[r] = {}
  BY <1>2, <1>4 DEF KInv, Opened, Kept, Open
<1>11. ASSUME NEW n \in 1..MaxLines, detections'[n] # 0
       PROVE  n \in catches'[detections'[n]] \ failed'
  <2>1. CASE n = line.n /\ stored
    BY <1>2, <1>3, <1>4, <1>41, <2>1
  <2>2. CASE ~(n = line.n /\ stored)
    <3>1. detections'[n] = detections[n] /\ n \in catches[detections[n]] \ failed
      BY <1>3, <1>11, <2>2 DEF Kept
    <3>2. PICK r \in Rows : r = detections[n]
      BY <1>11, <3>1 DEF KInv, TypeOK
    <3>3. n \in catches'[r]
      BY <1>2, <1>4, <3>1, <3>2 DEF Kept
    <3>4. n # line.n
      BY <1>41, <3>1, <3>2
    <3> QED  BY <1>41, <3>1, <3>2, <3>3, <3>4
  <2> QED  BY <2>1, <2>2
<1> QED  BY <1>8, <1>9, <1>10, <1>11 DEF Kept

\* Every other step keeps the detections to rows of the table, one of them open.
LEMMA StepRest ==
  ASSUME KInv, [Next]_vars, ~ReadLine
  PROVE  Opened' /\ DetectionHasRow' /\ RunningRowIsOpen'
<1>0. \A r \in Rows : rows[r] \in Row
  BY DEF KInv, TypeOK
<1>1. ASSUME UNCHANGED <<row, rows, detections, up, left>>
      PROVE  Opened' /\ DetectionHasRow' /\ RunningRowIsOpen'
  BY <1>1 DEF KInv, Opened, DetectionHasRow, RunningRowIsOpen, Stored
<1>2. ASSUME NEW rs, Remove(rs), up' = up PROVE Opened' /\ DetectionHasRow' /\ RunningRowIsOpen'
  <2>1. UNCHANGED <<row, up, left>>
    BY <1>2 DEF Remove
  <2>2. \A r \in Rows : rows'[r].status = IF r \in rs THEN "deleted" ELSE rows[r].status
    BY <1>0, <1>2 DEF Remove, Row
  <2>3. \A n \in 1..MaxLines : detections'[n] = IF detections[n] \in rs THEN 0 ELSE detections[n]
    BY <1>2 DEF Remove
  <2>4. Opened'
    <3>1. row # 0 => row \in Rows
      BY DEF KInv, TypeOK
    <3> QED  BY <1>2, <2>1, <2>2, <3>1 DEF KInv, Opened
  <2>5. DetectionHasRow'
    BY <2>2, <2>3 DEF KInv, DetectionHasRow, Stored
  <2>6. RunningRowIsOpen'
    BY <2>1, <2>2 DEF KInv, RunningRowIsOpen
  <2> QED  BY <2>4, <2>5, <2>6
<1>3. ASSUME Shutdown PROVE Opened' /\ DetectionHasRow' /\ RunningRowIsOpen'
  <2>1. row' = 0 /\ detections' = detections
    BY <1>3 DEF Shutdown, Gone
  <2>2. CASE rows' = Closed(row) /\ left' = left
    <3>1. \A r \in Rows : rows'[r].status = IF r = row /\ rows[r].status # "deleted"
                                            THEN "completed" ELSE rows[r].status
      BY <2>2 DEF Closed, KInv, TypeOK
    <3> QED  BY <2>1, <2>2, <3>1 DEF KInv, Opened, DetectionHasRow, RunningRowIsOpen, Stored
  <2>3. CASE rows' = rows /\ left' = left \cup ({row} \ {0})
    BY <2>1, <2>3 DEF KInv, Opened, DetectionHasRow, RunningRowIsOpen, Stored
  <2> QED  BY <1>3, <2>2, <2>3 DEF Shutdown, Close
<1>4. ASSUME Crash PROVE Opened' /\ DetectionHasRow' /\ RunningRowIsOpen'
  <2>1. row' = 0 /\ left' = left \cup ({row} \ {0}) /\ detections' = detections /\ rows' = rows
    BY <1>4 DEF Crash, Gone
  <2> QED  BY <2>1 DEF KInv, Opened, DetectionHasRow, RunningRowIsOpen, Stored
<1>5. ASSUME Launch PROVE Opened' /\ DetectionHasRow' /\ RunningRowIsOpen'
  <2>1. UNCHANGED <<row, rows, detections, left>> /\ up' = TRUE
    BY <1>5 DEF Launch
  <2> QED  BY <2>1 DEF KInv, Opened, DetectionHasRow, RunningRowIsOpen, Stored
<1>6. \/ Shutdown \/ Crash \/ Launch \/ UNCHANGED <<row, rows, detections, up, left>>
      \/ \E rs : Remove(rs) /\ up' = up
  BY DEF Next, vars, Tick, ScannerBusy, ScannerIdle, Logs, Watch, Unwatch, Forget, DeleteScan,
         Clear, Remove
<1> QED  BY <1>1, <1>2, <1>3, <1>4, <1>5, <1>6

\* A removal takes the detections of the rows it takes; a session that ends leaves
\* its row to what it stands for.
LEMMA RestKept ==
  ASSUME KInv, Kept, [Next]_vars, ~ReadLine PROVE Kept'
<1>0. /\ rows \in [Rows -> Row] /\ row \in 0..MaxRows /\ detections \in [1..MaxLines -> 0..MaxRows]
      /\ \A r \in Rows : catches[r] \subseteq 1..MaxLines
  BY DEF KInv, TypeOK
<1>1. ASSUME NEW rs, Remove(rs) PROVE Kept'
  <2>1. UNCHANGED <<row, here, catches, failed>>
    BY <1>1 DEF Remove, obsVars
  <2>2. \A r \in Rows : rows'[r].status = IF r \in rs THEN "deleted" ELSE rows[r].status
    BY <1>0, <1>1 DEF Remove, Row
  <2>3. \A n \in 1..MaxLines : detections'[n] = IF detections[n] \in rs THEN 0 ELSE detections[n]
    BY <1>1 DEF Remove
  <2>4. ASSUME NEW r \in Stored', NEW n \in catches'[r] PROVE detections'[n] = r \/ n \in failed'
    <3>1. r \in Rows /\ r \in Stored /\ r \notin rs /\ n \in 1..MaxLines /\ n \in catches[r]
      BY <1>0, <2>1, <2>2, <2>4 DEF Stored
    <3> QED  BY <2>1, <2>3, <3>1 DEF Kept, CatchIsRecorded
  <2>5. CatchIsRecorded'
    BY <2>1, <2>4 DEF Kept, CatchIsRecorded
  <2>6. \A n \in 1..MaxLines : detections'[n] # 0 => n \in catches'[detections'[n]] \ failed'
    BY <2>1, <2>3 DEF Kept
  <2>7. /\ row # 0 => rows'[row].status \in {"running", "deleted"} /\ catches[row] = here
        /\ \A r \in Rows : rows'[r].status = "absent" => catches[r] = {}
    BY <1>0, <2>2 DEF Kept
  <2> QED  BY <2>1, <2>5, <2>6, <2>7 DEF Kept
<1>2. ASSUME Gone, rows' = rows \/ rows' = Closed(row) PROVE Kept'
  <2>1. row' = 0 /\ here' = {} /\ UNCHANGED <<detections, catches, failed>>
    BY <1>2 DEF Gone
  <2>2. ASSUME NEW r \in Rows
        PROVE  /\ r \in Stored' => r \in Stored
               /\ rows'[r].status = "absent" => rows[r].status = "absent"
    <3>1. rows'[r] = rows[r] \/ (r = row /\ r # 0 /\ rows[r].status # "deleted"
                               /\ rows'[r].status = "completed")
      BY <1>0, <1>2 DEF Closed
    <3>2. r = row /\ r # 0 /\ rows[r].status # "deleted" => rows[r].status = "running"
      BY DEF Kept
    <3> QED  BY <3>1, <3>2 DEF Stored
  <2>3. CatchIsRecorded'
    <3>1. \A r \in Stored' : r \in Stored
      <4>1. \A r \in Stored' : r \in Rows
        BY DEF Stored
      <4> QED  BY <2>2, <4>1
    <3> QED  BY <2>1, <3>1 DEF Kept, CatchIsRecorded
  <2> QED  BY <2>1, <2>2, <2>3 DEF Kept
<1>3. CASE UNCHANGED <<row, rows, detections, here, catches, failed>>
  BY <1>3 DEF Kept, CatchIsRecorded, Stored
<1>4. \/ UNCHANGED <<row, rows, detections, here, catches, failed>>
      \/ Gone /\ (rows' = rows \/ rows' = Closed(row))
      \/ \E rs : Remove(rs)
  BY DEF Next, vars, historyVars, obsVars, Tick, ScannerBusy, ScannerIdle, Logs, Watch, Unwatch,
         Forget, DeleteScan, Clear, Shutdown, Close, Crash, Launch
<1> QED  BY <1>1, <1>2, <1>3, <1>4

LEMMA ReadSees ==
  ASSUME TypeOK, NEW line \in Lines, News(line) PROVE Seen' \subseteq Seen \cup {line.n}
<1>1. PICK opened \in BOOLEAN, stored \in BOOLEAN : Recorded(line, opened, stored)
  BY DEF News
<1>2. /\ here' = here \cup {line.n} /\ failed' \subseteq failed \cup {line.n}
      /\ \A r \in Rows : catches'[r] = catches[r] \/ catches'[r] = here'
      /\ \A n \in 1..MaxLines : n = line.n \/ detections'[n] = detections[n]
  BY <1>1 DEF News, Recorded, TypeOK
<1> QED  BY <1>2 DEF Seen

LEMMA RestSees ==
  ASSUME TypeOK, [Next]_vars, ~ReadLine PROVE Seen' \subseteq Seen
<1>1. ASSUME NEW rs, Remove(rs) PROVE Seen' \subseteq Seen
  <2>1. /\ UNCHANGED <<here, failed, catches>>
        /\ \A n \in 1..MaxLines : detections'[n] # 0 => detections[n] # 0
    BY <1>1 DEF Remove, obsVars
  <2> QED  BY <2>1 DEF Seen
<1>2. CASE (here' = here \/ here' = {}) /\ UNCHANGED <<failed, catches, detections>>
  BY <1>2 DEF Seen
<1>3. \/ (here' = here \/ here' = {}) /\ UNCHANGED <<failed, catches, detections>>
      \/ \E rs : Remove(rs)
  BY DEF Next, vars, historyVars, obsVars, Tick, ScannerBusy, ScannerIdle, Logs, Watch, Unwatch,
         Forget, DeleteScan, Clear, Shutdown, Crash, Gone, Launch
<1> QED  BY <1>1, <1>2, <1>3

LEMMA StepUnread ==
  ASSUME TypeOK, Numbered, Unread, [Next]_vars PROVE Unread'
<1>1. /\ journal \in Seq(Lines) /\ written \in Nat
      /\ \A i \in 1..Len(journal) : journal[i].n \in 1..MaxLines
  BY LineParts DEF TypeOK
<1>2. ASSUME NEW p \in Paths, NEW own \in BOOLEAN, Logs(p, own) PROVE Unread'
  <2>1. PICK line \in Lines : line.n = written + 1 /\ journal' = Append(journal, line)
    <3>1. [n |-> written', path |-> p, own |-> own, at |-> now] \in Lines
      BY <1>2, LoggedLine
    <3> QED  BY <1>2, <3>1 DEF Logs
  <2>2. written' = written + 1 /\ Seen' = Seen
    BY <1>2 DEF Logs, historyVars, obsVars, Seen
  <2>3. Seen \subseteq Nat
    <3>1. here \subseteq 1..MaxLines /\ failed \subseteq 1..MaxLines
      BY DEF TypeOK
    <3>2. 1..MaxLines \subseteq Nat
      OBVIOUS
    <3> QED  BY <3>1, <3>2 DEF Seen
  <2>4. \A i \in 1..Len(journal') :
          (i \in 1..Len(journal) /\ journal'[i] = journal[i]) \/ journal'[i] = line
    BY <1>1, <2>1, JournalAppend
  <2> QED  BY <1>1, <2>1, <2>2, <2>3, <2>4 DEF Unread
<1>3. CASE ReadLine
  <2>1. journal # <<>> /\ journal' = Tail(journal) /\ written' = written
    BY <1>3 DEF ReadLine
  <2>2. \A i \in 1..Len(journal') : i + 1 \in 1..Len(journal) /\ journal'[i] = journal[i + 1]
    BY <1>1, <2>1, JournalTail
  <2>3. PICK line \in Lines :
          line = Head(journal) /\ (UNCHANGED <<caught, historyVars, obsVars>> \/ News(line))
    BY <1>3, ReadIs
  <2>4. line = journal[1] /\ 1 \in 1..Len(journal)
    BY <1>1, <2>1, <2>3, JournalTail
  <2>5. Seen' \subseteq Seen \cup {line.n}
    <3>1. UNCHANGED <<caught, historyVars, obsVars>> => Seen' = Seen
      BY DEF Seen, historyVars, obsVars
    <3> QED  BY <2>3, <3>1, ReadSees
  <2>6. ASSUME NEW i \in 1..Len(journal') PROVE journal'[i].n \notin Seen'
    <3>1. i + 1 \in 1..Len(journal) /\ journal'[i] = journal[i + 1] /\ 1 < i + 1
      BY <2>2
    <3>2. journal[i + 1].n # line.n
      BY <2>4, <3>1 DEF Numbered
    <3> QED  BY <2>5, <3>1, <3>2 DEF Unread
  <2> QED  BY <2>1, <2>4, <2>5, <2>6 DEF Unread, Numbered
<1>4. ASSUME Seen' \subseteq Seen, written' = written, journal' = <<>> \/ journal' = journal
      PROVE  Unread'
  BY <1>4 DEF Unread
<1>5. \/ \E p \in Paths, own \in BOOLEAN : Logs(p, own)
      \/ ReadLine
      \/ written' = written /\ (journal' = <<>> \/ journal' = journal)
  BY DEF Next, vars, Tick, ScannerBusy, ScannerIdle, Watch, Unwatch, Forget, DeleteScan,
         Clear, Remove, Shutdown, Crash, Gone, Launch
<1> QED  BY <1>2, <1>3, <1>4, <1>5, RestSees

LEMMA ReadKept ==
  ASSUME KInv, Unread, Kept, ReadLine PROVE Kept'
<1>1. PICK line \in Lines :
        line = Head(journal) /\ (UNCHANGED <<caught, historyVars, obsVars>> \/ News(line))
  BY ReadIs DEF KInv
<1>2. line.n \notin Seen
  <2>1. journal # <<>> /\ journal \in Seq(Lines)
    BY DEF ReadLine, KInv, TypeOK
  <2> QED  BY <1>1, <2>1, JournalTail DEF Unread
<1>3. CASE UNCHANGED <<caught, historyVars, obsVars>>
  BY <1>3 DEF Kept, CatchIsRecorded, Stored, historyVars, obsVars
<1>4. CASE News(line)
  BY <1>2, <1>4, RecordRemembered
<1> QED  BY <1>1, <1>3, <1>4

LEMMA StepKInv == ASSUME KInv, [Next]_vars PROVE KInv'
<1>1. TypeOK'
  BY StepTypes DEF KInv
<1>2. ASSUME ReadLine PROVE Opened' /\ DetectionHasRow' /\ RunningRowIsOpen'
  <2>1. PICK line \in Lines : UNCHANGED <<caught, historyVars, obsVars>> \/ News(line)
    BY <1>2, ReadIs DEF KInv
  <2>2. up /\ up' = up
    BY <1>2 DEF ReadLine
  <2>3. CASE UNCHANGED <<caught, historyVars, obsVars>>
    BY <2>2, <2>3 DEF KInv, Opened, DetectionHasRow, RunningRowIsOpen, Stored, historyVars, obsVars
  <2>4. CASE News(line)
    BY <2>2, <2>4, RecordKept DEF News
  <2> QED  BY <2>1, <2>3, <2>4
<1> QED  BY <1>1, <1>2, StepRest DEF KInv

\* No detection hangs off a row that is not there, whatever is deleted and when.
THEOREM DetectionsKeepTheirRow == Spec => []DetectionHasRow
<1>1. KInv /\ [Next]_vars => KInv'
  BY StepKInv
<1>2. KInv => DetectionHasRow
  BY DEF KInv
<1> QED  BY InitKept, <1>1, <1>2, PTL DEF Spec

\* One real-time row is open at a time, and only in a session that runs, but for
\* those that a crash or a closing that failed left behind.
THEOREM OneOpenRow == Spec => []RunningRowIsOpen
<1>1. KInv /\ [Next]_vars => KInv'
  BY StepKInv
<1>2. KInv => RunningRowIsOpen
  BY DEF KInv
<1> QED  BY InitKept, <1>1, <1>2, PTL DEF Spec

RInv == KInv /\ Numbered /\ Unread /\ Kept

LEMMA InitRecorded == Init => RInv
<1>1. Init => Numbered /\ Unread
  BY DEF Init, Numbered, Unread, Seen
<1> QED  BY <1>1, InitKept DEF RInv

LEMMA StepRecorded == ASSUME RInv, [Next]_vars PROVE RInv'
<1>1. TypeOK
  BY DEF RInv, KInv
<1> QED  BY <1>1, StepKInv, StepNumbered, StepUnread, ReadKept, RestKept DEF RInv

\* Every catch of a session whose row is in the table is stored under that row, or
\* its write has failed, through deletions of any rows, the session's own included,
\* failing writes, crashes and restarts.
THEOREM CatchesAreRecorded == Spec => []CatchIsRecorded
<1>1. RInv /\ [Next]_vars => RInv'
  BY StepRecorded
<1>2. RInv => CatchIsRecorded
  BY DEF RInv, Kept
<1> QED  BY InitRecorded, <1>1, <1>2, PTL DEF Spec

-----------------------------------------------------------------------------
(* A path is reported once per window.                                     *)

\* The monitor remembers no report later than the last line it let through, and
\* forgets the line only together with the report.
Remembered == \A p \in Paths : told[p] <= recent[p] /\ recent[p] <= now
WInv == TypeOK /\ Remembered

\* What reading a line does to the two clocks of a path, and when.
LEMMA ReadRemembers ==
  ASSUME WInv, ReadLine
  PROVE  /\ Remembered'
         /\ \A p \in Paths : told'[p] # told[p] => told[p] = 0 \/ now - told[p] >= Window
<1>1. PICK line \in Lines : line = Head(journal)
  BY JournalTail DEF WInv, TypeOK, ReadLine
<1>2. PICK q \in Paths : q = line.path
  BY LineParts
<1>3. now' = now /\ now \in Nat /\ recent \in [Paths -> 0..MaxTime] /\ told \in [Paths -> 0..MaxTime]
  BY DEF ReadLine, WInv, TypeOK
<1>4. CASE told' = told
  <2>1. recent' = recent \/ recent' = [recent EXCEPT ![q] = now]
    BY <1>1, <1>2 DEF ReadLine
  <2> QED BY <1>3, <1>4, <2>1 DEF WInv, Remembered
<1>5. CASE told' # told
  <2>1. /\ recent' = [recent EXCEPT ![q] = now] /\ told' = [told EXCEPT ![q] = now]
        /\ ~IsRepeat(q)
    BY <1>1, <1>2, <1>5 DEF ReadLine
  <2>2. Remembered'
    BY <1>3, <2>1 DEF WInv, Remembered
  <2>3. told[q] = 0 \/ now - told[q] >= Window
    BY <1>3, <2>1 DEF IsRepeat, WInv, Remembered
  <2> QED BY <1>3, <2>1, <2>2, <2>3
<1> QED BY <1>4, <1>5

\* No other step reports anything.
LEMMA RestRemembers ==
  ASSUME WInv, [Next]_vars, ~ReadLine
  PROVE  Remembered' /\ \A p \in Paths : told'[p] = told[p] \/ told'[p] = 0
<1>1. /\ now \in Nat /\ recent \in [Paths -> 0..MaxTime] /\ told \in [Paths -> 0..MaxTime]
  BY DEF WInv, TypeOK
<1>2. CASE UNCHANGED <<told, recent>> /\ (now' = now \/ now' = now + 1)
  BY <1>1, <1>2 DEF WInv, Remembered
<1>3. ASSUME NEW q \in Paths, Forget(q)
      PROVE  Remembered' /\ \A p \in Paths : told'[p] = told[p] \/ told'[p] = 0
  <2>1. now' = now /\ recent' = [recent EXCEPT ![q] = 0] /\ told' = [told EXCEPT ![q] = 0]
    BY <1>3 DEF Forget
  <2> QED BY <1>1, <2>1 DEF WInv, Remembered
<1>4. CASE Gone
  <2>1. now' = now /\ \A p \in Paths : recent'[p] = 0 /\ told'[p] = 0
    BY <1>4 DEF Gone, Never
  <2> QED BY <1>1, <2>1 DEF Remembered
<1>5. \/ Gone \/ \E q \in Paths : Forget(q)
      \/ UNCHANGED <<told, recent>> /\ (now' = now \/ now' = now + 1)
  BY DEF Next, vars, Tick, ScannerBusy, ScannerIdle, Logs, Watch, Unwatch, DeleteScan,
         Clear, Remove, Shutdown, Crash, Launch
<1> QED BY <1>2, <1>3, <1>4, <1>5

\* A path is reported again only when the window is over or it was forgotten:
\* every line of a path that is let through, reported or not, starts the window
\* anew, so the report is at least as old as the line it is measured from.
THEOREM ReportedOncePerWindow == Spec => OncePerWindow
<1>1. Init => WInv
  <2>1. Init => Remembered
    BY DEF Init, Remembered, Never
  <2> QED BY <2>1, InitTypes DEF WInv
<1>2. WInv /\ [Next]_vars => WInv'
  BY StepTypes, ReadRemembers, RestRemembers DEF WInv
<1>3. WInv /\ [Next]_vars
      => [\A p \in Paths : told'[p] = now /\ told'[p] # told[p]
                             => told[p] = 0 \/ now - told[p] >= Window]_vars
  <2>1. WInv => now # 0
    BY DEF WInv, TypeOK
  <2> QED BY <2>1, ReadRemembers, RestRemembers
<1> QED BY <1>1, <1>2, <1>3, PTL DEF Spec, OncePerWindow

-----------------------------------------------------------------------------
(* What the number on a completed row counts.                               *)

\* The session counts what it reported, and a completed row tells that.
Counting ==
  /\ count = Cardinality(here)
  /\ \A r \in Rows : rows[r].status = "completed" => rows[r].threats = Cardinality(catches[r])

NInv == RInv /\ Counting

LEMMA FiniteLines ==
  ASSUME NEW S \in SUBSET (1..MaxLines) PROVE IsFiniteSet(S) /\ Cardinality(S) \in Nat
<1>1. IsFiniteSet(1..MaxLines)
  BY FS_Interval
<1> QED BY <1>1, FS_Subset, FS_CardinalityType

\* A catch that is new is one more to count; the row that is written to is not
\* completed.
LEMMA ReadCounts == ASSUME NInv, ReadLine PROVE Counting'
<1>1. TypeOK
  BY DEF NInv, RInv, KInv
<1>2. PICK line \in Lines :
        line = Head(journal) /\ (UNCHANGED <<caught, historyVars, obsVars>> \/ News(line))
  BY <1>1, ReadIs
<1>3. line.n \notin here
  <2>1. journal # <<>> /\ journal \in Seq(Lines)
    BY <1>1 DEF ReadLine, TypeOK
  <2> QED  BY <1>2, <2>1, JournalTail DEF NInv, RInv, Unread, Seen
<1>4. CASE UNCHANGED <<caught, historyVars, obsVars>>
  BY <1>4 DEF NInv, Counting, historyVars, obsVars
<1>5. CASE News(line)
  <2>1. PICK opened \in BOOLEAN, stored \in BOOLEAN : Recorded(line, opened, stored)
    BY <1>5 DEF News
  <2>2. count' = count + 1 /\ here' = here \cup {line.n}
    BY <1>5, <2>1 DEF News, Recorded
  <2>3. count' = Cardinality(here')
    <3>1. IsFiniteSet(here)
      BY <1>1, FiniteLines DEF TypeOK
    <3>2. Cardinality(here \cup {line.n}) = Cardinality(here) + 1
      BY <1>3, <3>1, FS_AddElement
    <3> QED  BY <2>2, <3>2 DEF NInv, Counting
  <2>4. ASSUME NEW r \in Rows, rows'[r].status = "completed"
        PROVE  rows'[r] = rows[r] /\ catches'[r] = catches[r]
    <3>1. rows'[r] = rows[r] /\ rows[r].status = "completed"
      BY <2>1, <2>4 DEF Recorded, Open
    <3>2. r # row'
      BY <2>1, <3>1 DEF NInv, RInv, Kept, Recorded
    <3> QED  BY <1>1, <1>5, <3>1, <3>2 DEF News, TypeOK
  <2> QED  BY <2>3, <2>4 DEF NInv, Counting
<1> QED  BY <1>2, <1>4, <1>5

LEMMA RestCounts == ASSUME NInv, [Next]_vars, ~ReadLine PROVE Counting'
<1>1. rows \in [Rows -> Row] /\ row \in 0..MaxRows
  BY DEF NInv, RInv, KInv, TypeOK
<1>2. CASE UNCHANGED <<rows, count, here, catches>>
  BY <1>2 DEF NInv, Counting
<1>3. ASSUME NEW rs, Remove(rs) PROVE Counting'
  <2>1. UNCHANGED <<count, here, catches>>
    BY <1>3 DEF Remove, obsVars
  <2>2. \A r \in Rows : /\ r \in rs => rows'[r].status = "deleted"
                        /\ r \notin rs => rows'[r] = rows[r]
    BY <1>1, <1>3 DEF Remove, Row
  <2> QED BY <2>1, <2>2 DEF NInv, Counting
<1>4. ASSUME Gone, rows' = rows \/ rows' = Closed(row) PROVE Counting'
  <2>1. count' = 0 /\ here' = {} /\ catches' = catches
    BY <1>4 DEF Gone
  <2>2. count' = Cardinality(here')
    BY <2>1, FS_EmptySet
  <2>3. ASSUME NEW r \in Rows, rows'[r].status = "completed"
        PROVE  rows'[r].threats = Cardinality(catches[r])
    <3>1. CASE rows'[r] = rows[r]
      BY <2>3, <3>1 DEF NInv, Counting
    <3>2. CASE rows'[r] # rows[r]
      <4>1. r = row /\ row # 0 /\ rows'[r].threats = count
        BY <1>1, <1>4, <3>2 DEF Closed
      <4>2. catches[r] = here
        BY <4>1 DEF NInv, RInv, Kept
      <4> QED  BY <4>1, <4>2 DEF NInv, Counting
    <3> QED  BY <3>1, <3>2
  <2> QED  BY <2>1, <2>2, <2>3 DEF Counting
<1>5. \/ UNCHANGED <<rows, count, here, catches>>
      \/ Gone /\ (rows' = rows \/ rows' = Closed(row))
      \/ \E rs : Remove(rs)
  BY DEF Next, vars, historyVars, obsVars, Tick, ScannerBusy, ScannerIdle, Logs, Watch, Unwatch,
         Forget, DeleteScan, Clear, Shutdown, Close, Crash, Launch
<1> QED BY <1>2, <1>3, <1>4, <1>5

\* The catches of a completed row's session are those stored under it and those
\* whose write failed.
LEMMA CatchesSplit ==
  ASSUME NInv, NEW r \in Rows, rows[r].status = "completed"
  PROVE  Cardinality(catches[r]) = Cardinality({n \in 1..MaxLines : detections[n] = r})
                                   + Cardinality(catches[r] \cap failed)
<1> DEFINE A == {n \in 1..MaxLines : detections[n] = r}
           B == catches[r] \cap failed
<1>1. catches[r] \subseteq 1..MaxLines
  BY DEF NInv, RInv, KInv, TypeOK
<1>2. r \in Stored /\ r # 0
  BY DEF Stored
<1>3. A \subseteq catches[r] /\ A \cap failed = {}
  BY <1>2 DEF NInv, RInv, Kept
<1>4. catches[r] \subseteq A \cup B
  BY <1>1, <1>2 DEF NInv, RInv, Kept, CatchIsRecorded
<1>5. catches[r] = A \cup B /\ A \cap B = {}
  BY <1>3, <1>4
<1>6. IsFiniteSet(A) /\ IsFiniteSet(B) /\ Cardinality(A) \in Nat /\ Cardinality(B) \in Nat
  BY <1>1, FiniteLines
<1>7. Cardinality(A \cup B) = Cardinality(A) + Cardinality(B) - Cardinality(A \cap B)
  BY <1>6, FS_Union
<1>8. Cardinality(A \cap B) = 0
  BY <1>5, FS_EmptySet
<1>9. Cardinality(catches[r]) = Cardinality(A) + Cardinality(B)
  <2> HIDE DEF A, B
  <2> QED  BY <1>5, <1>6, <1>7, <1>8
<1> QED  BY <1>9

\* The number on a completed row is that of the detections under it and of the
\* catches of its session that could not be stored, whichever rows are deleted
\* meanwhile, however sessions end and whatever writes fail.
THEOREM ClosedRowsCount == Spec => []ClosedRowCounts
<1>1. Init => NInv
  <2>1. Init => Counting
    BY FS_EmptySet DEF Init, Counting, NoRow
  <2> QED BY <2>1, InitRecorded DEF NInv
<1>2. NInv /\ [Next]_vars => NInv'
  BY StepRecorded, ReadCounts, RestCounts DEF NInv
<1>3. NInv => ClosedRowCounts
  BY CatchesSplit DEF NInv, Counting, ClosedRowCounts
<1> QED BY <1>1, <1>2, <1>3, PTL DEF Spec
=============================================================================
