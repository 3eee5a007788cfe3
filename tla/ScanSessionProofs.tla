------------------------- MODULE ScanSessionProofs -------------------------
(***************************************************************************)
(* Proofs about ScanSession for every number of scans and FOUND lines and  *)
(* every set of faults.  The invariant to prove says nothing about a scan  *)
(* that is under way; IInv adds what is true then: which scan the scanner, *)
(* the context and the child are all talking about, where its lines are,   *)
(* and that a stop, once asked, is remembered by the state.                *)
(***************************************************************************)
EXTENDS ScanSession, TLAPS

\* One scan at a time: what is busy is the latest scan, and current_scan_id
\* is that scan or nothing.
OneScan ==
  /\ base <= born
  /\ Up /\ Busy => scan = born /\ base < scan /\ row \in {0, scan}
  /\ Up /\ ~Busy => row = 0

\* The phase of the scanner against the worker thread and the child.
Phases ==
  Up => /\ walker # "none" => engine = "none" /\ state \in {"preparing", "stopping"}
        /\ engine # "none" => walker = "none" /\ state \in {"scanning", "paused", "stopping"}
        /\ engine = "suspended" => state = "paused"
        /\ state \in {"scanning", "paused"} => engine # "none"
        /\ state = "preparing" => walker # "none"
        /\ state = "stopping" => walker # "none" \/ engine # "none"
        /\ walker = "cancelled" => state = "stopping"
        /\ cancelled => state = "stopping"
        /\ engine = "exited" => exit # "none" /\ ending[scan] = exit
        /\ engine # "exited" => exit = "none"
        /\ engine = "none" => pipe = 0

\* Nothing is known yet of a scan that has not been started.
Unborn ==
  \A n \in Scans : n > born =>
     /\ rows[n] = FreshRow("absent") /\ produced[n] = 0
     /\ n \notin stopAsked /\ n \notin cut

\* Of the scan under way: its lines are read or in the pipe, and its row, if
\* it still has one, is running and has a detection for each line read.
LiveScan ==
  Up /\ Busy =>
     /\ produced[scan] = found + pipe
     /\ rows[scan].status \notin Verdicts
     /\ RowKept => rows[row].status = "running" /\ rows[row].detections = found
     /\ scan \in stopAsked => state = "stopping"
     /\ walker # "none" => found = 0
     /\ walker = "walking" => scan \notin cut
     /\ walker # "none" /\ scan \in cut => short
     /\ engine # "none" /\ scan \in cut => errors

RunningRows ==
  Up => \A n \in Scans : n > base /\ rows[n].status = "running" =>
                            Busy /\ row = n

IInv == /\ TypeOK /\ OneScan /\ Phases /\ Unborn /\ LiveScan
        /\ RunningRows /\ VerdictIsTruthful /\ StopHonoured

-----------------------------------------------------------------------------
LEMMA FreshRowType ==
  ASSUME NEW st \in RowStatuses
  PROVE  /\ FreshRow(st) \in Rows
         /\ FreshRow(st).status = st
         /\ FreshRow(st).found = 0
         /\ FreshRow(st).detections = 0
  BY DEF FreshRow, Rows

LEMMA FreshRows ==
  /\ FreshRow("absent") \in Rows /\ FreshRow("absent").status = "absent"
  /\ FreshRow("running") \in Rows /\ FreshRow("running").status = "running"
  /\ FreshRow("running").detections = 0
  /\ FreshRow("deleted") \in Rows /\ FreshRow("deleted").status = "deleted"
  BY FreshRowType DEF RowStatuses

LEMMA InitInv == Init => IInv
<1> SUFFICES ASSUME Init PROVE IInv
  OBVIOUS
<1> USE ScanBounds DEF Init
<1>1. TypeOK
  <2>1. AppTypes
    <3>1. rows \in [Scans -> Rows]
      BY FreshRows
    <3>2. reports \in [0..MaxScans -> Nat]
      OBVIOUS
    <3>3. state \in ScanStates /\ errors \in BOOLEAN
      BY DEF ScanStates
    <3>4. scan \in 0..MaxScans /\ row \in 0..MaxScans /\ found \in Nat
      OBVIOUS
    <3> QED
      BY <3>1, <3>2, <3>3, <3>4 DEF AppTypes
  <2>2. WorkTypes
    <3>1. walker \in WalkPhases /\ cancelled \in BOOLEAN /\ short \in BOOLEAN
      BY DEF WalkPhases
    <3>2. engine \in EnginePhases /\ exit \in Exits /\ pipe \in Nat
      BY DEF EnginePhases, Exits
    <3>3. born \in 0..MaxScans /\ base \in 0..MaxScans
      OBVIOUS
    <3> QED
      BY <3>1, <3>2, <3>3 DEF WorkTypes
  <2>3. ObsTypes
    BY DEF ObsTypes, Endings, Exits
  <2> QED
    BY <2>1, <2>2, <2>3 DEF TypeOK
<1>2. OneScan /\ Phases
  BY DEF OneScan, Phases, Up, Busy
<1>3. Unborn
  BY DEF Unborn
<1>4. LiveScan /\ RunningRows
  BY FreshRows DEF LiveScan, RunningRows, Up, Busy
<1>5. VerdictIsTruthful /\ StopHonoured
  BY FreshRows DEF VerdictIsTruthful, StopHonoured, Verdicts
<1> QED
  BY <1>1, <1>2, <1>3, <1>4, <1>5 DEF IInv

LEMMA StartScanInv == ASSUME IInv, StartScan PROVE IInv'
<1> USE ScanBounds, FreshRows DEF StartScan, IInv, TypeOK
<1>1. born + 1 \in Scans /\ born \in Nat /\ born + 1 \in 0..MaxScans
  BY DEF WorkTypes, Scans
<1>2. TypeOK'
  <2>1. AppTypes'
    <3>1. rows' \in [Scans -> Rows]
      BY <1>1 DEF AppTypes
    <3>2. state' \in ScanStates /\ errors' \in BOOLEAN
      BY DEF ScanStates
    <3>3. scan' \in 0..MaxScans /\ row' \in 0..MaxScans /\ found' \in Nat
      BY <1>1
    <3>4. reports' \in [0..MaxScans -> Nat]
      BY DEF AppTypes
    <3> QED
      BY <3>1, <3>2, <3>3, <3>4 DEF AppTypes
  <2>2. WorkTypes'
    BY <1>1 DEF WorkTypes, WalkPhases, engineVars
  <2>3. ObsTypes'
    BY DEF ObsTypes, obsVars
  <2> QED
    BY <2>1, <2>2, <2>3
<1>3. OneScan'
  BY DEF OneScan, WorkTypes, Up, Busy
<1>4. Phases'
  BY DEF OneScan, Phases, Up, Busy, engineVars
<1>5. Unborn'
  BY <1>1 DEF Unborn, AppTypes, WorkTypes, Scans, obsVars
<1>6. LiveScan'
  <2>1. /\ produced[born + 1] = 0 /\ born + 1 \notin stopAsked /\ born + 1 \notin cut
        /\ rows[born + 1] = FreshRow("absent")
    BY <1>1 DEF Unborn
  <2>2. rows'[born + 1].status \in {"absent", "running"}
    BY <1>1, <2>1 DEF AppTypes
  <2>3. RowKept' => rows'[row'] = FreshRow("running")
    BY <1>1 DEF RowKept, AppTypes
  <2>4. pipe' = 0 /\ produced' = produced /\ engine' = "none"
    BY DEF Phases, engineVars, obsVars, Busy
  <2> QED
    BY <2>1, <2>2, <2>3, <2>4 DEF LiveScan, Verdicts, obsVars
<1>7. RunningRows'
  BY <1>1 DEF RunningRows, OneScan, AppTypes, WorkTypes, Up, Busy, Scans
<1>8. rows' = rows \/ rows' = [rows EXCEPT ![born + 1] = FreshRow("running")]
  OBVIOUS
<1>9. VerdictIsTruthful'
  BY <1>1, <1>8 DEF VerdictIsTruthful, AppTypes, Verdicts, obsVars
<1>10. StopHonoured'
  BY <1>1, <1>8 DEF StopHonoured, AppTypes, ObsTypes, obsVars
<1> QED
  BY <1>2, <1>3, <1>4, <1>5, <1>6, <1>7, <1>9, <1>10

\* The end of a scan, however it is reached, keeps the invariant, provided a
\* busy scanner drains the pipe and "completed" is said only when it is true.
LEMMA FinishInv ==
  ASSUME IInv, Up, session' \in {"up", "quit"},
         NEW status \in Verdicts, NEW lines \in Nat, NEW times \in Nat,
         Finish(status, lines, times),
         UNCHANGED <<born, base, produced, cut>>,
         \/ stopAsked' = stopAsked
         \/ Busy /\ stopAsked' = stopAsked \cup {scan},
         ending' \in [Scans -> Endings],
         \A n \in Scans : n # scan => ending'[n] = ending[n],
         Busy => /\ lines = pipe
                 /\ status = "completed" =>
                      engine # "none" /\ ending'[scan] = "ok" /\ scan \notin stopAsked',
         ~Busy => UNCHANGED ending
  PROVE  IInv'
<1> USE ScanBounds DEF IInv, TypeOK
<1> DEFINE settled == [status |-> status, found |-> found + lines,
                       detections |-> rows[row].detections + lines,
                       errors |-> errors]
<1>1. /\ found \in Nat /\ born \in Nat /\ base \in Nat /\ scan \in Nat
      /\ Busy => scan \in Scans
  BY DEF AppTypes, WorkTypes, OneScan, Scans, Up
<1>2. rows' = IF RowKept THEN [rows EXCEPT ![row] = settled] ELSE rows
  BY DEF Finish, SettleRow
<1>3. RowKept => Busy /\ row = scan /\ row \in Scans
  BY <1>1 DEF RowKept, OneScan, Up
<1>4. RowKept => settled \in Rows
  <2> SUFFICES ASSUME RowKept PROVE settled \in Rows
    OBVIOUS
  <2>1. rows[row] \in Rows
    BY <1>3 DEF AppTypes
  <2> QED
    BY <2>1 DEF Rows, RowStatuses, AppTypes
<1>5. TypeOK'
  <2>1. rows' \in [Scans -> Rows]
    BY <1>2, <1>4 DEF AppTypes
  <2>2. AppTypes'
    BY <2>1 DEF Finish, AppTypes, ScanStates
  <2>3. WorkTypes'
    BY DEF Finish, WorkTypes, WalkPhases, EnginePhases, Exits
  <2>4. ObsTypes'
    BY <1>1 DEF ObsTypes
  <2> QED
    BY <2>2, <2>3, <2>4
<1>6. OneScan'
  BY DEF OneScan, Finish, Up, Busy
<1>7. Phases' /\ LiveScan'
  BY DEF Phases, LiveScan, Finish, Up, Busy
<1>8. Unborn'
  BY <1>1, <1>2, <1>3 DEF Unborn, OneScan, AppTypes, Up
<1>9. RunningRows'
  <2> SUFFICES ASSUME NEW n \in Scans, n > base, rows'[n].status = "running"
               PROVE  FALSE
    BY DEF RunningRows
  <2>1. CASE RowKept /\ n = row
    BY <2>1, <1>2, <1>3 DEF AppTypes, Verdicts
  <2>2. CASE ~(RowKept /\ n = row)
    <3>1. rows'[n] = rows[n]
      BY <2>2, <1>2 DEF AppTypes
    <3>2. Busy /\ row = n
      BY <3>1 DEF RunningRows
    <3> QED
      BY <3>1, <3>2, <2>2 DEF RowKept, Scans
  <2> QED
    BY <2>1, <2>2
<1>10. VerdictIsTruthful'
  <2> SUFFICES ASSUME NEW n \in Scans, rows'[n].status \in Verdicts
               PROVE  /\ rows'[n].found = produced[n]
                      /\ rows'[n].detections = produced[n]
                      /\ rows'[n].status = "completed" =>
                            /\ ending'[n] \in {"ok", "empty"}
                            /\ n \in cut => rows'[n].errors
    BY DEF VerdictIsTruthful
  <2>1. CASE RowKept /\ n = row
    <3>1. rows'[n] = settled /\ n = scan /\ Busy
      BY <2>1, <1>2, <1>3 DEF AppTypes
    <3>2. produced[scan] = found + lines /\ rows[row].detections = found
      BY <3>1, <2>1 DEF LiveScan
    <3> QED
      BY <3>1, <3>2, <2>1 DEF LiveScan
  <2>2. CASE ~(RowKept /\ n = row)
    <3>1. rows'[n] = rows[n]
      BY <2>2, <1>2 DEF AppTypes
    <3>2. n # scan \/ ~Busy
      BY <3>1 DEF LiveScan
    <3> QED
      BY <3>1, <3>2 DEF VerdictIsTruthful
  <2> QED
    BY <2>1, <2>2
<1>11. StopHonoured'
  <2> SUFFICES ASSUME NEW n \in stopAsked' PROVE rows'[n].status # "completed"
    BY DEF StopHonoured
  <2>1. n \in Scans
    BY <1>1 DEF ObsTypes
  <2>2. CASE RowKept /\ n = row
    BY <2>1, <2>2, <1>2, <1>3 DEF AppTypes
  <2>3. CASE ~(RowKept /\ n = row)
    <3>1. rows'[n] = rows[n]
      BY <2>1, <2>3, <1>2 DEF AppTypes
    <3>2. CASE n \in stopAsked
      BY <3>1, <3>2 DEF StopHonoured
    <3>3. CASE Busy /\ n = scan
      BY <3>1, <3>3 DEF LiveScan, Verdicts
    <3> QED
      BY <3>2, <3>3
  <2> QED
    BY <2>2, <2>3
<1> QED
  BY <1>5, <1>6, <1>7, <1>8, <1>9, <1>10, <1>11

-----------------------------------------------------------------------------
(* The other steps.                                                        *)

LEMMA StartRefusedInv == ASSUME IInv, StartRefused PROVE IInv'
<1>1. Finish("failed", 0, 1) /\ Up /\ ~Busy
  BY DEF StartRefused
<1> QED
  BY <1>1, FinishInv DEF StartRefused, obsVars, Verdicts, IInv, TypeOK, ObsTypes, Up

LEMMA WalkEndsInv == ASSUME IInv, WalkEnds PROVE IInv'
<1> USE ScanBounds DEF WalkEnds, IInv, TypeOK
<1>1. scan \in Scans /\ Busy /\ scan = born
  BY DEF OneScan, Phases, AppTypes, Scans, Up, Busy, WorkTypes
<1>2. TypeOK'
  BY <1>1 DEF AppTypes, WorkTypes, ObsTypes, WalkPhases, appVars, engineVars
<1>3. OneScan' /\ Phases'
  BY DEF OneScan, Phases, Up, Busy, appVars, engineVars
<1>4. Unborn'
  BY <1>1 DEF Unborn, appVars, WorkTypes
<1>5. LiveScan'
  BY <1>1 DEF LiveScan, Phases, Up, Busy, appVars, engineVars, RowKept
<1>6. RunningRows' /\ StopHonoured'
  BY DEF RunningRows, Up, Busy, appVars, StopHonoured
<1>7. VerdictIsTruthful'
  BY <1>1 DEF VerdictIsTruthful, LiveScan, appVars
<1> QED
  BY <1>2, <1>3, <1>4, <1>5, <1>6, <1>7

LEMMA EngineFindsInv == ASSUME IInv, EngineFinds PROVE IInv'
<1> USE ScanBounds DEF EngineFinds, IInv, TypeOK
<1>1. scan \in Scans /\ Busy /\ scan = born
  BY DEF OneScan, Phases, AppTypes, Scans, Up, Busy, WorkTypes
<1>2. TypeOK'
  BY <1>1 DEF AppTypes, WorkTypes, ObsTypes, appVars, walkVars
<1>3. OneScan' /\ Phases'
  BY DEF OneScan, Phases, Up, Busy, appVars, walkVars
<1>4. Unborn'
  BY <1>1 DEF Unborn, appVars, WorkTypes, ObsTypes
<1>5. LiveScan'
  BY <1>1 DEF LiveScan, Phases, Up, Busy, appVars, walkVars, RowKept, ObsTypes, AppTypes, WorkTypes
<1>6. RunningRows' /\ StopHonoured'
  BY DEF RunningRows, Up, Busy, appVars, StopHonoured
<1>7. VerdictIsTruthful'
  BY <1>1 DEF VerdictIsTruthful, LiveScan, appVars, ObsTypes
<1> QED
  BY <1>2, <1>3, <1>4, <1>5, <1>6, <1>7

LEMMA EngineExitsInv == ASSUME IInv, EngineExits PROVE IInv'
<1> USE ScanBounds DEF EngineExits, IInv, TypeOK
<1>1. scan \in Scans /\ Busy /\ scan = born
  BY DEF OneScan, Phases, AppTypes, Scans, Up, Busy, WorkTypes
<1>2. exit' \in {"ok", "error", "crash", "nostart"}
  OBVIOUS
<1>3. TypeOK'
  BY <1>1, <1>2 DEF AppTypes, WorkTypes, ObsTypes, appVars, walkVars, EnginePhases, Exits, Endings
<1>4. OneScan'
  BY DEF OneScan, Up, Busy, appVars
<1>5. Phases'
  BY <1>1, <1>2 DEF Phases, Up, ObsTypes, appVars, walkVars
<1>6. Unborn' /\ LiveScan'
  BY DEF Unborn, LiveScan, Up, Busy, appVars, walkVars, RowKept
<1>7. RunningRows' /\ StopHonoured'
  BY DEF RunningRows, Up, Busy, appVars, StopHonoured
<1>8. VerdictIsTruthful'
  BY <1>1 DEF VerdictIsTruthful, LiveScan, appVars, ObsTypes
<1> QED
  BY <1>3, <1>4, <1>5, <1>6, <1>7, <1>8

\* The empty list: completed, with the walk's error in the row.
LEMMA FinishEmptyInv ==
  ASSUME IInv, Up, UNCHANGED <<session, born, base>>,
         walker = "empty", state # "stopping", FinishEmpty
  PROVE  IInv'
<1> USE ScanBounds DEF IInv, TypeOK
<1> DEFINE settled == [status |-> "completed", found |-> found,
                       detections |-> rows[row].detections, errors |-> short]
<1>1. /\ Busy /\ scan = born /\ scan \in Scans /\ base < scan /\ row \in {0, scan}
      /\ engine = "none" /\ pipe = 0 /\ found = 0
      /\ scan \notin stopAsked
  BY DEF OneScan, Phases, LiveScan, AppTypes, WorkTypes, Scans, Up, Busy
<1>2. rows' = IF RowKept THEN [rows EXCEPT ![row] = settled] ELSE rows
  BY DEF FinishEmpty
<1>3. RowKept => row = scan /\ rows[row].detections = 0
  BY <1>1 DEF RowKept, LiveScan
<1>4. RowKept => settled \in Rows
  BY <1>3, <1>1 DEF Rows, RowStatuses, Verdicts, WorkTypes
<1>5. rows' \in [Scans -> Rows]
  BY <1>1, <1>2, <1>3, <1>4 DEF AppTypes
<1>6. TypeOK'
  <2>1. AppTypes'
    BY <1>5 DEF FinishEmpty, AppTypes, WorkTypes, ScanStates
  <2>2. WorkTypes' /\ ObsTypes'
    BY DEF FinishEmpty, WorkTypes, ObsTypes, WalkPhases, engineVars, Endings
  <2> QED
    BY <2>1, <2>2
<1>7. OneScan' /\ Phases' /\ LiveScan'
  BY <1>1 DEF OneScan, Phases, LiveScan, FinishEmpty, engineVars, Up, Busy
<1>8. Unborn'
  BY <1>1, <1>2, <1>3 DEF Unborn, AppTypes, FinishEmpty
<1>9. \A n \in Scans : rows'[n] = IF RowKept /\ n = scan THEN settled ELSE rows[n]
  BY <1>1, <1>2, <1>3 DEF AppTypes
<1>10. RunningRows'
  <2> SUFFICES ASSUME NEW n \in Scans, n > base, rows'[n].status = "running"
               PROVE  FALSE
    BY DEF RunningRows, FinishEmpty
  <2>1. rows'[n] = rows[n] /\ ~(RowKept /\ n = scan)
    BY <1>9
  <2>2. row = n
    BY <2>1 DEF RunningRows
  <2> QED
    BY <2>1, <2>2, <1>1 DEF RowKept, Scans
<1>11. VerdictIsTruthful'
  <2> SUFFICES ASSUME NEW n \in Scans, rows'[n].status \in Verdicts
               PROVE  /\ rows'[n].found = produced[n]
                      /\ rows'[n].detections = produced[n]
                      /\ rows'[n].status = "completed" =>
                            /\ ending'[n] \in {"ok", "empty"}
                            /\ n \in cut => rows'[n].errors
    BY DEF VerdictIsTruthful, FinishEmpty
  <2>1. CASE RowKept /\ n = scan
    <3>1. rows'[n] = settled
      BY <2>1, <1>9
    <3>2. produced[n] = 0 /\ ending'[n] = "empty"
      BY <2>1, <1>1 DEF LiveScan, FinishEmpty, ObsTypes
    <3>3. n \in cut => short
      BY <2>1, <1>1 DEF LiveScan
    <3> QED
      BY <3>1, <3>2, <3>3, <1>1, <1>3, <2>1
  <2>2. CASE ~(RowKept /\ n = scan)
    <3>1. rows'[n] = rows[n] /\ n # scan
      BY <2>2, <1>9, <1>1 DEF LiveScan
    <3>2. ending'[n] = ending[n]
      BY <3>1 DEF FinishEmpty, ObsTypes
    <3> QED
      BY <3>1, <3>2 DEF VerdictIsTruthful
  <2> QED
    BY <2>1, <2>2
<1>12. StopHonoured'
  BY <1>9, <1>1 DEF StopHonoured, FinishEmpty, ObsTypes
<1> QED
  BY <1>6, <1>7, <1>8, <1>10, <1>11, <1>12

LEMMA LaunchInv ==
  ASSUME IInv, Up, UNCHANGED <<session, born, base>>,
         walker = "listed", state # "stopping", Launch
  PROVE  IInv'
<1> USE ScanBounds
<1>1. /\ Busy /\ scan = born /\ scan \in Scans /\ state = "preparing"
      /\ engine = "none" /\ pipe = 0 /\ found = 0 /\ exit = "none" /\ ~cancelled
  BY DEF IInv, TypeOK, OneScan, Phases, LiveScan, AppTypes, WorkTypes, Scans, Up, Busy
<1>2. CASE Finish("failed", 0, 2) /\ ending' = [ending EXCEPT ![scan] = "nostart"]
           /\ UNCHANGED <<produced, cut, stopAsked>>
  <2>1. ending' \in [Scans -> Endings] /\ \A n \in Scans : n # scan => ending'[n] = ending[n]
    BY <1>1, <1>2 DEF IInv, TypeOK, ObsTypes, Endings, Exits
  <2> QED
    BY <1>1, <1>2, <2>1, FinishInv DEF Verdicts, Up
<1>3. CASE /\ state' = "scanning" /\ engine' = "running" /\ walker' = "none"
           /\ errors' = short
           /\ UNCHANGED <<scan, found, row, rows, reports, cancelled, short, exit,
                          pipe, obsVars>>
  <2> USE <1>1, <1>3 DEF IInv, TypeOK
  <2>1. TypeOK'
    BY DEF AppTypes, WorkTypes, ObsTypes, ScanStates, EnginePhases, WalkPhases, obsVars
  <2>2. OneScan' /\ Phases'
    BY DEF OneScan, Phases, Up, Busy
  <2>3. Unborn' /\ LiveScan'
    BY DEF Unborn, LiveScan, Up, Busy, RowKept, obsVars
  <2>4. RunningRows' /\ VerdictIsTruthful' /\ StopHonoured'
    BY DEF RunningRows, VerdictIsTruthful, StopHonoured, Up, Busy, obsVars
  <2> QED
    BY <2>1, <2>2, <2>3, <2>4
<1> QED
  BY <1>2, <1>3 DEF Launch

LEMMA WalkDeliveredInv == ASSUME IInv, WalkDelivered PROVE IInv'
<1> USE ScanBounds DEF WalkDelivered
<1>1. walker # "none" => Busy /\ scan \in Scans /\ engine = "none" /\ pipe = 0
  BY DEF IInv, TypeOK, OneScan, Phases, AppTypes, WorkTypes, Scans, Up, Busy
<1>2. CASE walker = "raised" /\ Finish("failed", 0, 1)
           /\ ending' = [ending EXCEPT ![scan] = "raised"]
           /\ UNCHANGED <<produced, cut, stopAsked>>
  <2>1. ending' \in [Scans -> Endings] /\ \A n \in Scans : n # scan => ending'[n] = ending[n]
    BY <1>1, <1>2 DEF IInv, TypeOK, ObsTypes, Endings
  <2> QED
    BY <1>1, <1>2, <2>1, FinishInv DEF Verdicts, Up
<1>3. CASE walker \in {"listed", "empty", "cancelled"} /\ Finish("stopped", 0, 1)
           /\ UNCHANGED obsVars
  <2>1. ending' \in [Scans -> Endings]
    BY <1>3 DEF IInv, TypeOK, ObsTypes, obsVars
  <2> QED
    BY <1>1, <1>3, <2>1, FinishInv DEF Verdicts, Up, obsVars
<1>4. CASE walker = "empty" /\ state # "stopping" /\ FinishEmpty
  BY <1>4, FinishEmptyInv
<1>5. CASE walker = "listed" /\ state # "stopping" /\ Launch
  BY <1>5, LaunchInv
<1> QED
  BY <1>2, <1>3, <1>4, <1>5

LEMMA EngineEndedInv == ASSUME IInv, EngineEnded PROVE IInv'
<1> USE ScanBounds DEF EngineEnded
<1>1. Busy /\ scan \in Scans /\ ending[scan] = exit /\ pipe \in Nat
  BY DEF IInv, TypeOK, OneScan, Phases, AppTypes, WorkTypes, Scans, Up, Busy
<1>2. VerdictOf(exit) \in Verdicts
      /\ (VerdictOf(exit) = "completed" => exit = "ok" /\ state # "stopping")
  BY DEF VerdictOf, Verdicts
<1>3. scan \in stopAsked => state = "stopping"
  BY <1>1 DEF IInv, LiveScan
<1>4. ending' \in [Scans -> Endings]
  BY DEF IInv, TypeOK, ObsTypes, obsVars
<1> QED
  BY <1>1, <1>2, <1>3, <1>4, FinishInv DEF obsVars, Up

LEMMA PauseResumeInv == ASSUME IInv, Pause \/ Resume PROVE IInv'
<1> USE DEF Pause, Resume, IInv, TypeOK
<1>1. TypeOK'
  BY DEF AppTypes, WorkTypes, ObsTypes, ScanStates, EnginePhases, walkVars, obsVars
<1>2. OneScan' /\ Phases'
  BY DEF OneScan, Phases, Up, Busy, walkVars, obsVars
<1>3. Unborn' /\ LiveScan'
  BY DEF Unborn, LiveScan, Phases, Up, Busy, RowKept, walkVars, obsVars
<1>4. RunningRows' /\ VerdictIsTruthful' /\ StopHonoured'
  BY DEF RunningRows, VerdictIsTruthful, StopHonoured, Up, Busy, obsVars
<1> QED
  BY <1>1, <1>2, <1>3, <1>4

LEMMA ReadLineInv == ASSUME IInv, ReadLine PROVE IInv'
<1> USE ScanBounds DEF ReadLine, IInv, TypeOK
<1>1. /\ Busy /\ scan \in Scans /\ row \in {0, scan} /\ walker = "none"
      /\ found \in Nat /\ pipe \in Nat /\ pipe - 1 \in Nat
  BY DEF OneScan, Phases, AppTypes, WorkTypes, Scans, Up, Busy
<1>2. RowKept => /\ rows[scan].status = "running" /\ rows[scan].detections = found
                 /\ row = scan
  BY <1>1 DEF LiveScan, RowKept
<1> DEFINE grown == [rows[scan] EXCEPT !.detections = found + 1]
<1>3. /\ grown \in Rows /\ grown.status = rows[scan].status
      /\ grown.detections = found + 1
  BY <1>1 DEF AppTypes, Rows
<1>4. rows' = IF RowKept THEN [rows EXCEPT ![scan] = grown] ELSE rows
  BY <1>1, <1>2 DEF AppTypes, Rows
<1>5. \A n \in Scans : rows'[n] = IF RowKept /\ n = scan THEN grown ELSE rows[n]
  BY <1>1, <1>4 DEF AppTypes
<1>6. TypeOK'
  <2>1. rows' \in [Scans -> Rows]
    BY <1>1, <1>3, <1>4 DEF AppTypes
  <2> QED
    BY <2>1, <1>1 DEF AppTypes, WorkTypes, ObsTypes, walkVars, obsVars
<1>7. OneScan' /\ Phases'
  BY <1>1 DEF OneScan, Phases, Up, Busy, walkVars, obsVars
<1>8. Unborn'
  BY <1>1, <1>5 DEF Unborn, OneScan, WorkTypes, Scans, obsVars
<1>9. LiveScan'
  <2>1. RowKept' => RowKept /\ rows'[row] = grown
    BY <1>1, <1>5, <1>2, <1>3 DEF RowKept
  <2>2. rows'[scan].status = rows[scan].status
    BY <1>1, <1>3, <1>5
  <2>3. produced[scan] = found' + pipe'
    BY <1>1 DEF LiveScan, ObsTypes
  <2>4. RowKept' => rows'[row'].status = "running" /\ rows'[row'].detections = found'
    BY <2>1, <1>2, <1>3
  <2> QED
    BY <1>1, <2>2, <2>3, <2>4 DEF LiveScan, Up, Busy, walkVars, obsVars
<1>10. RunningRows' /\ VerdictIsTruthful' /\ StopHonoured'
  BY <1>1, <1>2, <1>3, <1>5 DEF RunningRows, VerdictIsTruthful, StopHonoured, Up, Busy, obsVars, ObsTypes, Verdicts
<1> QED
  BY <1>6, <1>7, <1>8, <1>9, <1>10

\* Scanner.stop, from the Stop button or from the quit path: the flag, the
\* child that will not die, or the end of the scan inside the call.
LEMMA StopBusyInv ==
  ASSUME IInv, Up, Busy, StopBusy, session' \in {"up", "quit"},
         UNCHANGED <<born, base>>
  PROVE  IInv'
<1> USE ScanBounds
<1>1. scan \in Scans /\ scan = born /\ pipe \in Nat
  BY DEF IInv, TypeOK, OneScan, AppTypes, WorkTypes, Scans, Up
<1>2. CASE /\ engine # "none"
           /\ Finish(IF exit = "nostart" THEN "failed" ELSE "stopped", pipe, 1)
           /\ ending' = [ending EXCEPT ![scan] = IF engine = "exited" THEN @ ELSE "crash"]
           /\ UNCHANGED <<produced, cut>>
  <2>1. ending' \in [Scans -> Endings] /\ \A n \in Scans : n # scan => ending'[n] = ending[n]
    BY <1>1, <1>2 DEF IInv, TypeOK, ObsTypes, Endings, Exits
  <2>2. stopAsked' = stopAsked \cup {scan}
    BY DEF StopBusy
  <2>3. CASE exit = "nostart"
    BY <1>1, <1>2, <2>1, <2>2, <2>3, FinishInv DEF Verdicts
  <2>4. CASE exit # "nostart"
    BY <1>1, <1>2, <2>1, <2>2, <2>4, FinishInv DEF Verdicts
  <2> QED
    BY <2>3, <2>4
<1>3. CASE /\ engine = "none" /\ state' = "stopping" /\ cancelled' = TRUE
           /\ UNCHANGED <<scan, found, errors, row, rows, reports, walker, short,
                          engineVars, produced, ending, cut>>
  <2> USE <1>1, <1>3 DEF StopBusy, IInv, TypeOK
  <2>1. TypeOK'
    BY DEF AppTypes, WorkTypes, ObsTypes, ScanStates, engineVars
  <2>2. OneScan' /\ Phases'
    BY DEF OneScan, Phases, Up, Busy, engineVars
  <2>3. Unborn' /\ LiveScan'
    BY DEF Unborn, LiveScan, Up, Busy, RowKept, engineVars, WorkTypes
  <2>4. RunningRows' /\ VerdictIsTruthful'
    BY DEF RunningRows, VerdictIsTruthful, Up, Busy
  <2>5. StopHonoured'
    BY DEF StopHonoured, LiveScan, Verdicts
  <2> QED
    BY <2>1, <2>2, <2>3, <2>4, <2>5
<1>4. CASE /\ engine \in {"running", "suspended"}
           /\ state' = "stopping" /\ engine' = "running"
           /\ UNCHANGED <<scan, found, errors, row, rows, reports, walkVars, exit,
                          pipe, produced, ending, cut>>
  <2> USE <1>1, <1>4 DEF StopBusy, IInv, TypeOK
  <2>1. TypeOK'
    BY DEF AppTypes, WorkTypes, ObsTypes, ScanStates, EnginePhases, walkVars
  <2>2. OneScan' /\ Phases'
    BY DEF OneScan, Phases, Up, Busy, walkVars
  <2>3. Unborn' /\ LiveScan'
    BY DEF Unborn, LiveScan, Phases, Up, Busy, RowKept, walkVars, WorkTypes
  <2>4. RunningRows' /\ VerdictIsTruthful'
    BY DEF RunningRows, VerdictIsTruthful, Up, Busy
  <2>5. StopHonoured'
    BY DEF StopHonoured, LiveScan, Verdicts
  <2> QED
    BY <2>1, <2>2, <2>3, <2>4, <2>5
<1> QED
  BY <1>2, <1>3, <1>4 DEF StopBusy

\* Deleting rows, one or all: a row that is gone can no longer lie.
LEMMA DeleteInv ==
  ASSUME IInv, Up,
         NEW gone \in SUBSET {n \in Scans : rows[n].status # "absent"},
         rows' = [n \in Scans |-> IF n \in gone THEN FreshRow("deleted") ELSE rows[n]],
         UNCHANGED <<state, scan, found, errors, row, reports, walkVars, engineVars,
                     session, born, base, obsVars>>
  PROVE  IInv'
<1> USE ScanBounds, FreshRows DEF IInv, TypeOK
<1>1. \A n \in Scans : rows'[n] = IF n \in gone THEN FreshRow("deleted") ELSE rows[n]
  OBVIOUS
<1>2. TypeOK'
  <2>1. rows' \in [Scans -> Rows]
    BY DEF AppTypes
  <2> QED
    BY <2>1 DEF AppTypes, WorkTypes, ObsTypes, walkVars, engineVars, obsVars
<1>3. OneScan' /\ Phases'
  BY DEF OneScan, Phases, Up, Busy, walkVars, engineVars, obsVars
<1>4. Unborn'
  BY <1>1 DEF Unborn, obsVars
<1>5. LiveScan'
  <2>1. Busy => scan \in Scans /\ row \in {0, scan}
    BY DEF OneScan, AppTypes, WorkTypes, Scans, Up
  <2>2. RowKept' /\ Busy => RowKept /\ rows'[row] = rows[row]
    BY <1>1, <2>1 DEF RowKept
  <2>3. Busy => rows'[scan].status \notin Verdicts
    BY <1>1, <2>1 DEF LiveScan, Verdicts
  <2> QED
    BY <2>1, <2>2, <2>3 DEF LiveScan, Up, Busy, walkVars, engineVars, obsVars
<1>6. RunningRows' /\ VerdictIsTruthful' /\ StopHonoured'
  BY <1>1 DEF RunningRows, VerdictIsTruthful, StopHonoured, Up, Busy, Verdicts, ObsTypes, obsVars
<1> QED
  BY <1>2, <1>3, <1>4, <1>5, <1>6

LEMMA DeleteScanInv == ASSUME IInv, NEW n \in Scans, DeleteScan(n) PROVE IInv'
<1> DEFINE gone == {n}
<1>1. gone \in SUBSET {k \in Scans : rows[k].status # "absent"}
  BY DEF DeleteScan
<1>2. rows' = [k \in Scans |-> IF k \in gone THEN FreshRow("deleted") ELSE rows[k]]
  BY DEF DeleteScan, IInv, TypeOK, AppTypes
<1> HIDE DEF gone
<1> QED
  BY <1>1, <1>2, DeleteInv DEF DeleteScan

LEMMA ClearHistoryInv == ASSUME IInv, ClearHistory PROVE IInv'
<1> DEFINE gone == {k \in Scans : rows[k].status # "absent"}
<1>1. rows' = [k \in Scans |-> IF k \in gone THEN FreshRow("deleted") ELSE rows[k]]
  BY DEF ClearHistory
<1>2. gone \in SUBSET {k \in Scans : rows[k].status # "absent"}
  OBVIOUS
<1> HIDE DEF gone
<1> QED
  BY <1>1, <1>2, DeleteInv DEF ClearHistory

\* When the program is gone only the table is left to speak of.
LEMMA DownInv ==
  ASSUME IInv, ~(Up'), session' \in {"quit", "crashed"},
         UNCHANGED <<appVars, walkVars, engineVars, born, base, obsVars>>
  PROVE  IInv'
<1> USE ScanBounds DEF IInv, TypeOK
<1>1. TypeOK' /\ OneScan' /\ Phases'
  BY DEF AppTypes, WorkTypes, ObsTypes, OneScan, Phases, appVars, walkVars, engineVars, obsVars
<1>2. Unborn' /\ LiveScan' /\ RunningRows'
  BY DEF Unborn, LiveScan, RunningRows, appVars, obsVars
<1>3. VerdictIsTruthful' /\ StopHonoured'
  BY DEF VerdictIsTruthful, StopHonoured, appVars, obsVars
<1> QED
  BY <1>1, <1>2, <1>3

LEMMA RestartInv == ASSUME IInv, Restart PROVE IInv'
<1> USE ScanBounds DEF IInv, TypeOK, Restart
<1>1. TypeOK'
  <2>1. AppTypes'
    <3>1. state' \in ScanStates /\ errors' \in BOOLEAN
      BY DEF ScanStates
    <3>2. scan' \in 0..MaxScans /\ row' \in 0..MaxScans /\ found' \in Nat
      OBVIOUS
    <3> QED
      BY <3>1, <3>2 DEF AppTypes
  <2>2. walker' \in WalkPhases /\ cancelled' \in BOOLEAN /\ short' \in BOOLEAN
    BY DEF WalkPhases
  <2>3. engine' \in EnginePhases /\ exit' \in Exits /\ pipe' \in Nat
    BY DEF EnginePhases, Exits
  <2>4. WorkTypes' /\ ObsTypes'
    BY <2>2, <2>3 DEF WorkTypes, ObsTypes, obsVars
  <2> QED
    BY <2>1, <2>4
<1>2. OneScan' /\ Phases' /\ LiveScan'
  BY DEF OneScan, Phases, LiveScan, Up, Busy, WorkTypes
<1>3. Unborn' /\ RunningRows'
  BY FreshRows DEF Unborn, RunningRows, obsVars, WorkTypes, Scans
<1>4. VerdictIsTruthful' /\ StopHonoured'
  BY DEF VerdictIsTruthful, StopHonoured, obsVars
<1> QED
  BY <1>1, <1>2, <1>3, <1>4

LEMMA NextInv == IInv /\ [Next]_vars => IInv'
<1> SUFFICES ASSUME IInv, [Next]_vars PROVE IInv'
  OBVIOUS
<1>1. CASE StartScan
  BY <1>1, StartScanInv
<1>2. CASE StartRefused
  BY <1>2, StartRefusedInv
<1>3. CASE WalkEnds
  BY <1>3, WalkEndsInv
<1>4. CASE WalkDelivered
  BY <1>4, WalkDeliveredInv
<1>5. CASE EngineFinds \/ EngineExits
  BY <1>5, EngineFindsInv, EngineExitsInv
<1>6. CASE ReadLine \/ EngineEnded
  BY <1>6, ReadLineInv, EngineEndedInv
<1>7. CASE Pause \/ Resume
  BY <1>7, PauseResumeInv
<1>8. CASE Stop
  BY <1>8, StopBusyInv DEF Stop, Up
<1>9. CASE (\E n \in Scans : DeleteScan(n)) \/ ClearHistory
  BY <1>9, DeleteScanInv, ClearHistoryInv
<1>10. CASE Quit
  <2>1. CASE Busy
    BY <1>10, <2>1, StopBusyInv DEF Quit
  <2>2. CASE ~Busy
    BY <1>10, <2>2, DownInv DEF Quit, Up
  <2> QED
    BY <2>1, <2>2
<1>11. CASE Crash
  BY <1>11, DownInv DEF Crash, Up
<1>12. CASE Restart
  BY <1>12, RestartInv
<1>13. CASE UNCHANGED vars
  BY <1>13 DEF IInv, TypeOK, AppTypes, WorkTypes, ObsTypes, OneScan, Phases, Unborn,
      LiveScan, RunningRows, VerdictIsTruthful, StopHonoured, Up, Busy, RowKept,
      vars, appVars, walkVars, engineVars, obsVars
<1> QED
  BY <1>1, <1>2, <1>3, <1>4, <1>5, <1>6, <1>7, <1>8, <1>9, <1>10, <1>11, <1>12, <1>13
  DEF Next

THEOREM InductiveInvariant == Spec => []IInv
  BY InitInv, NextInv, PTL DEF Spec

\* Every variable keeps its type (the state of Scanner, AppContext, Command
\* and the history table).
THEOREM TypeCorrect == Spec => []TypeOK
<1>1. IInv => TypeOK
  BY DEF IInv
<1> QED
  BY <1>1, InductiveInvariant, PTL

\* A row with a verdict has every FOUND line and its detection, and says
\* "completed" only of an engine that exited 0 or 1, or of an empty list
\* (Scanner._on_command_finished, AppContext._on_scan_finished).
THEOREM VerdictsAreTruthful == Spec => []VerdictIsTruthful
<1>1. IInv => VerdictIsTruthful
  BY DEF IInv
<1> QED
  BY <1>1, InductiveInvariant, PTL

\* In this session's rows "running" means that the scanner is on it
\* (AppContext._on_scan_started, _on_scan_finished).
THEOREM RunningRowsAreLive == Spec => []RunningRowIsLive
<1>1. IInv => RunningRowIsLive
  BY DEF IInv, RunningRows, RunningRowIsLive, OneScan, Scans
<1> QED
  BY <1>1, InductiveInvariant, PTL

\* A scan that was asked to stop is never recorded as completed
\* (Scanner.stop, _on_prepared, _on_command_finished).
THEOREM StopsAreHonoured == Spec => []StopHonoured
<1>1. IInv => StopHonoured
  BY DEF IInv
<1> QED
  BY <1>1, InductiveInvariant, PTL

-----------------------------------------------------------------------------
\* Quitting with an engine at work leaves no row running, and loses no line, unless
\* the child outlives SIGKILL (AppContext.shutdown, Scanner.stop).
THEOREM QuittingSettles == Spec => QuitSettlesEngine
<1>1. ASSUME IInv, [Next]_vars, Up, session' = "quit",
             engine # "none", row # 0, rows[row].status = "running"
      PROVE  \/ rows'[row].status \in Verdicts /\ rows'[row].found = produced[row]
             \/ engine' = "running"
  <2>1. Busy /\ Quit
    BY <1>1 DEF Next, vars, IInv, Phases, Up, Busy, Quit, Stop, StartScan, StartRefused, WalkEnds,
       WalkDelivered, EngineFinds, EngineExits, ReadLine, EngineEnded, Pause, Resume,
       DeleteScan, ClearHistory, Crash, Restart
  <2>2. RowKept /\ row \in Scans /\ scan = row /\ produced[row] = found + pipe
    BY <1>1, <2>1, ScanBounds DEF IInv, TypeOK, AppTypes, OneScan, LiveScan, RowKept, Scans
  <2>3. CASE Finish(IF exit = "nostart" THEN "failed" ELSE "stopped", pipe, 1)
    <3> DEFINE settled == [status |-> IF exit = "nostart" THEN "failed" ELSE "stopped",
                           found |-> found + pipe, detections |-> rows[row].detections + pipe,
                           errors |-> errors]
    <3>1. rows' = [rows EXCEPT ![row] = settled]
      BY <2>2, <2>3 DEF Finish, SettleRow
    <3>2. rows \in [Scans -> Rows]
      BY <1>1 DEF IInv, TypeOK, AppTypes
    <3> HIDE DEF settled
    <3>3. rows'[row] = settled
      BY <2>2, <3>1, <3>2
    <3> QED
      BY <2>2, <3>3 DEF Verdicts, settled
  <2> QED
    BY <1>1, <2>1, <2>3 DEF Quit, StopBusy
<1>2. IInv /\ [Next]_vars =>
        [ /\ Up /\ session' = "quit"
          /\ engine # "none" /\ row # 0 /\ rows[row].status = "running"
          => \/ rows'[row].status \in Verdicts /\ rows'[row].found = produced[row]
             \/ engine' = "running" ]_vars
  BY <1>1
<1> QED
  BY <1>2, InductiveInvariant, PTL DEF Spec, QuitSettlesEngine

-----------------------------------------------------------------------------
\* With an engine that is there when it is called, and no start() that is refused
\* while idle, which would report the scan before it once more.
Reporting == Faults \cap {"engine_missing", "refused_start"} = {}

Reports ==
  /\ \A n \in Scans : n > born => reports[n] = 0
  /\ Up /\ Busy => reports[scan] = 0
  /\ ReportedOnce

\* The end of the scan under way is its first report.
LEMMA FinishReports ==
  ASSUME IInv, Reports, Up, Busy, ~(Busy'), UNCHANGED <<born, base>>,
         session' \in {"up", "quit"}, reports' = [reports EXCEPT ![scan] = @ + 1]
  PROVE  Reports'
<1>1. scan \in Scans /\ scan = born /\ born \in Nat /\ scan \in 0..MaxScans
  BY ScanBounds DEF IInv, TypeOK, AppTypes, WorkTypes, OneScan, Scans
<1>2. \A n \in Scans : reports'[n] = IF n = scan THEN 1 ELSE reports[n]
  BY <1>1 DEF Reports, IInv, TypeOK, AppTypes, Scans
<1> QED
  BY <1>1, <1>2, ScanBounds DEF Reports, ReportedOnce, Scans, Up

\* Nothing else reports anything.
LEMMA SilentReports ==
  ASSUME IInv, Reports, UNCHANGED <<reports, born, base>>,
         Up' => Up /\ (Busy' <=> Busy) /\ scan' = scan
  PROVE  Reports'
  BY DEF Reports, ReportedOnce

LEMMA NextReports ==
  ASSUME Reporting, IInv, IInv', Reports, [Next]_vars PROVE Reports'
<1>1. CASE StartScan
  <2>1. born \in Nat /\ born' = born + 1 /\ scan' = born' /\ Busy' /\ Up /\ ~Busy /\ born' \in Scans
    BY <1>1 DEF StartScan, IInv, TypeOK, WorkTypes, Busy, Scans
  <2>2. UNCHANGED <<reports, base, session>>
    BY <1>1 DEF StartScan
  <2> QED
    BY <2>1, <2>2 DEF Reports, ReportedOnce, Up, Scans
<1>2. CASE WalkDelivered
  <2>1. Up /\ Busy /\ Up' /\ UNCHANGED <<born, base, session>>
    BY <1>2 DEF WalkDelivered, IInv, Phases, Up, Busy
  <2>2. CASE ~(Busy')
    <3>1. reports' = [reports EXCEPT ![scan] = @ + 1]
      BY <1>2, <2>2 DEF WalkDelivered, Finish, FinishEmpty, Launch, Reporting, Busy
    <3> QED
      BY <2>1, <2>2, <3>1, FinishReports DEF Up
  <2>3. CASE Busy'
    BY <1>2, <2>1, <2>3, SilentReports DEF WalkDelivered, Finish, FinishEmpty, Launch, Reporting, Busy
  <2> QED
    BY <2>2, <2>3
<1>3. CASE EngineEnded
  <2>1. Up /\ Busy /\ ~(Busy') /\ UNCHANGED <<born, base, session>>
        /\ reports' = [reports EXCEPT ![scan] = @ + 1]
    BY <1>3 DEF EngineEnded, Finish, IInv, Phases, Up, Busy
  <2> QED
    BY <2>1, FinishReports DEF Up
<1>4. CASE Busy /\ (Stop \/ Quit)
  <2>1. Up /\ Busy /\ UNCHANGED <<born, base>> /\ session' \in {"up", "quit"} /\ StopBusy
    BY <1>4 DEF Stop, Quit, Up
  <2>2. CASE state' = "stopping" /\ UNCHANGED <<scan, reports>>
    BY <2>1, <2>2, SilentReports DEF Busy
  <2>3. CASE Finish(IF exit = "nostart" THEN "failed" ELSE "stopped", pipe, 1)
    BY <2>1, <2>3, FinishReports DEF Finish, Busy
  <2> QED
    BY <2>1, <2>2, <2>3 DEF StopBusy
<1>5. CASE Crash \/ (Quit /\ ~Busy)
  BY <1>5, SilentReports DEF Crash, Quit, appVars, Up
<1>6. CASE Restart
  <2>1. base' = born /\ born' = born /\ reports' = reports /\ ~(Busy')
    BY <1>6 DEF Restart, Busy
  <2> QED
    BY <2>1 DEF Reports, ReportedOnce, IInv, TypeOK, WorkTypes, Scans
<1>7. CASE \/ WalkEnds \/ EngineFinds \/ EngineExits \/ ReadLine \/ Pause \/ Resume
           \/ (\E n \in Scans : DeleteScan(n)) \/ ClearHistory \/ UNCHANGED vars
  <2>1. UNCHANGED <<reports, born, base, session, scan>> /\ (Busy' <=> Busy)
    BY <1>7 DEF WalkEnds, EngineFinds, EngineExits, ReadLine, Pause, Resume, DeleteScan,
       ClearHistory, vars, appVars, Busy
  <2> QED
    BY <2>1, SilentReports DEF Up
<1>8. CASE StartRefused
  BY <1>8 DEF StartRefused, Reporting
<1> QED
  BY <1>1, <1>2, <1>3, <1>4, <1>5, <1>6, <1>7, <1>8 DEF Next, Stop

\* Scanner.finished is emitted exactly once for every scan that was started, when
\* the two faults of Reporting are excluded (scanner.py 200).
THEOREM ReportsOnce == ASSUME Reporting PROVE Spec => []ReportedOnce
<1>1. Init => Reports
  BY ScanBounds DEF Init, Reports, ReportedOnce, Busy, Scans
<1>2. IInv /\ IInv' /\ Reports /\ [Next]_vars => Reports'
  BY NextReports
<1>3. Reports => ReportedOnce
  BY DEF Reports
<1> QED
  BY <1>1, <1>2, <1>3, InductiveInvariant, PTL DEF Spec

-----------------------------------------------------------------------------
(* ScanSession implements ScanLifecycle.                                   *)

\* The abstract variables.
PhaseBar == [n \in Scans |-> PhaseOf(n)]
LiveBar == IF Up /\ Busy THEN scan ELSE 0

\* What the table says of a scan that has begun.
LEMMA PhaseCases ==
  ASSUME IInv, NEW n \in Scans
  PROVE  /\ n > born => PhaseOf(n) = "unborn"
         /\ n <= born /\ rows[n].status = "absent" => PhaseOf(n) = "unrecorded"
         /\ n <= born /\ rows[n].status = "deleted" => PhaseOf(n) = "forgotten"
         /\ n <= born /\ rows[n].status = "running" =>
              PhaseOf(n) = IF LiveBar = n THEN "running" ELSE "lost"
         /\ n <= born /\ rows[n].status \in Verdicts => PhaseOf(n) = rows[n].status
         /\ rows[n].status \in RowStatuses
         /\ n \in Nat \ {0} /\ born \in Nat
<1> USE DEF PhaseOf, IInv, TypeOK, Scans
<1>1. n \in Nat \ {0} /\ born \in Nat /\ rows[n].status \in RowStatuses
  BY ScanBounds DEF AppTypes, WorkTypes, Rows
<1>2. (Up /\ Busy /\ scan = n) <=> LiveBar = n
  BY <1>1 DEF LiveBar
<1> QED
  BY <1>1, <1>2 DEF Verdicts

LEMMA LiveScanner ==
  ASSUME IInv
  PROVE  /\ Up /\ Busy => LiveBar = scan /\ scan \in Scans /\ scan = born /\ LiveBar # 0
         /\ ~(Up /\ Busy) => LiveBar = 0
  BY ScanBounds DEF LiveBar, IInv, TypeOK, OneScan, AppTypes, WorkTypes, Scans

\* The row of the scan under way: running, or it has none, or it is deleted.
LEMMA LiveRow ==
  ASSUME IInv, Up, Busy
  PROVE  /\ RowKept => row = scan /\ rows[scan].status = "running"
         /\ ~RowKept => rows[scan].status \in {"absent", "deleted"}
<1>1. scan \in Scans /\ scan > base /\ row \in {0, scan}
  BY LiveScanner DEF IInv, OneScan, TypeOK, WorkTypes, Scans
<1>2. rows[scan].status \in RowStatuses
  BY <1>1, PhaseCases
<1> QED
  BY <1>1, <1>2 DEF IInv, LiveScan, RunningRows, RowKept, RowStatuses, Scans

LEMMA Unmoved ==
  ASSUME IInv, IInv', UNCHANGED <<born, stopAsked>>, LiveBar' = LiveBar,
         \A n \in Scans : rows'[n].status = rows[n].status
  PROVE  UNCHANGED Lifecycle!vars
<1>1. ASSUME NEW n \in Scans PROVE PhaseOf(n)' = PhaseOf(n)
  <2>1. rows'[n].status = rows[n].status
    OBVIOUS
  <2> QED
    BY <2>1 DEF PhaseOf, LiveBar, Scans
<1>2. PhaseBar' = PhaseBar
  BY <1>1 DEF PhaseBar
<1> QED
  BY <1>2 DEF Lifecycle!vars, PhaseBar, LiveBar

LEMMA BeginStep == ASSUME IInv, IInv', StartScan PROVE \E n \in Lifecycle!Scans : Lifecycle!Begin(n)
<1> USE ScanBounds, FreshRows DEF StartScan
<1>1. born + 1 \in Scans /\ born \in Nat /\ LiveBar = 0
  BY LiveScanner DEF IInv, TypeOK, WorkTypes, Scans
<1> PICK n \in Scans : n = born + 1
  BY <1>1
<1>2. Up' /\ Busy' /\ scan' = n /\ born' = n /\ stopAsked' = stopAsked
  BY DEF Up, Busy, obsVars
<1>3. LiveBar' = n
  BY <1>2 DEF LiveBar
<1>4. \A m \in 1..(n - 1) : m \in Scans /\ PhaseOf(m) # "unborn"
  BY <1>1, PhaseCases DEF Scans, RowStatuses, Verdicts
<1>5. \A m \in Scans : m # n => PhaseOf(m)' = PhaseOf(m)
  <2> SUFFICES ASSUME NEW m \in Scans, m # n PROVE PhaseOf(m)' = PhaseOf(m)
    OBVIOUS
  <2>1. rows'[m] = rows[m] /\ LiveBar # m /\ LiveBar' # m /\ (m > born <=> m > born')
    BY <1>1, <1>2, <1>3 DEF IInv, TypeOK, AppTypes, Scans
  <2> QED
    BY <2>1, <1>1, <1>2 DEF PhaseOf, LiveBar, Scans
<1>6. PhaseOf(n) = "unborn" /\ PhaseOf(n)' \in {"running", "unrecorded"}
  <2>1. rows'[n].status \in {"absent", "running"}
    BY <1>1 DEF IInv, TypeOK, AppTypes, Unborn
  <2>2. n > born /\ ~(n > born')
    BY <1>1, <1>2
  <2> QED
    BY <1>2, <2>1, <2>2 DEF PhaseOf
<1>7. PhaseBar' = [PhaseBar EXCEPT ![n] = PhaseOf(n)']
  BY <1>5 DEF PhaseBar
<1>8. Lifecycle!Begin(n)
  BY <1>1, <1>2, <1>3, <1>4, <1>6, <1>7 DEF Lifecycle!Begin, Lifecycle!Scans, PhaseBar, LiveBar, Scans
<1> QED
  BY <1>8 DEF Lifecycle!Scans, Scans

\* The end of a scan, with whatever verdict its row may get.
LEMMA EndStep ==
  ASSUME IInv, IInv', Up, Busy, NEW verdict \in Verdicts, LiveBar' = 0, born' = born,
         stopAsked' \in {stopAsked, stopAsked \cup {scan}},
         verdict = "completed" => scan \notin stopAsked',
         \A n \in Scans : rows'[n].status = IF RowKept /\ n = scan THEN verdict ELSE rows[n].status
  PROVE  \E v \in Lifecycle!Verdicts : Lifecycle!End(v)
<1>1. LiveBar = scan /\ scan \in Scans /\ scan = born /\ LiveBar # 0
  BY LiveScanner
<1> PICK s \in Scans : s = scan
  BY <1>1
<1>2. ASSUME NEW n \in Scans, n # s PROVE PhaseOf(n)' = PhaseOf(n)
  <2>1. rows'[n].status = rows[n].status /\ LiveBar # n /\ LiveBar' # n
    BY <1>1, <1>2 DEF Scans
  <2> QED
    BY <2>1 DEF PhaseOf, LiveBar, Scans
<1>3. PhaseOf(s)' = IF PhaseOf(s) = "running" THEN verdict ELSE PhaseOf(s)
  <2>1. rows'[s].status = IF RowKept THEN verdict ELSE rows[s].status
    BY <1>1
  <2>2. s <= born /\ ~(s > born) /\ s \in Nat
    BY <1>1 DEF Scans
  <2>3. RowKept => PhaseOf(s) = "running"
    BY <1>1, <2>2, LiveRow, PhaseCases
  <2>4. ~RowKept => PhaseOf(s) \in {"unrecorded", "forgotten"}
    BY <1>1, <2>2, LiveRow, PhaseCases
  <2>5. PhaseOf(s)' = IF RowKept THEN verdict ELSE PhaseOf(s)
    BY <2>1, <2>2, LiveRow DEF PhaseOf, Verdicts
  <2> QED
    BY <2>3, <2>4, <2>5
<1>4. PhaseBar' = [PhaseBar EXCEPT ![s] = IF @ = "running" THEN verdict ELSE @]
  BY <1>2, <1>3 DEF PhaseBar
<1>5. Lifecycle!End(verdict)
  BY <1>1, <1>4 DEF Lifecycle!End, Lifecycle!AskedOrNot, PhaseBar, LiveBar
<1> QED
  BY <1>5 DEF Lifecycle!Verdicts, Verdicts

\* The program goes away under the scan; it may have asked it to stop.
LEMMA LoseStep ==
  ASSUME IInv, IInv', Up, Busy, ~(Up'), born' = born, scan' = scan, rows' = rows,
         stopAsked' \in {stopAsked, stopAsked \cup {scan}}
  PROVE  Lifecycle!Lose
<1>1. LiveBar = scan /\ scan \in Scans /\ scan = born /\ LiveBar # 0 /\ LiveBar' = 0
  BY LiveScanner DEF LiveBar
<1>2. ASSUME NEW n \in Scans
      PROVE  PhaseOf(n)' = IF n = scan /\ PhaseOf(n) = "running" THEN "lost" ELSE PhaseOf(n)
  BY <1>1, PhaseCases DEF PhaseOf, Verdicts, RowStatuses, Scans
<1>3. PhaseBar' = [PhaseBar EXCEPT ![scan] = IF @ = "running" THEN "lost" ELSE @]
  BY <1>1, <1>2 DEF PhaseBar
<1> QED
  BY <1>1, <1>3 DEF Lifecycle!Lose, Lifecycle!AskedOrNot, PhaseBar, LiveBar

\* A stop that the worker thread or a child that will not die still has to see.
LEMMA AskStep ==
  ASSUME IInv, IInv', Up, Busy, Up', Busy', UNCHANGED <<born, scan, rows>>,
         stopAsked' = stopAsked \cup {scan}
  PROVE  Lifecycle!AskStop
<1>1. LiveBar = scan /\ LiveBar # 0 /\ LiveBar' = LiveBar
  BY LiveScanner DEF LiveBar
<1>2. ASSUME NEW n \in Scans PROVE PhaseOf(n)' = PhaseOf(n)
  BY DEF PhaseOf
<1>3. PhaseBar' = PhaseBar
  BY <1>2 DEF PhaseBar
<1> QED
  BY <1>1, <1>3 DEF Lifecycle!AskStop, PhaseBar, LiveBar

LEMMA ForgetStep ==
  ASSUME IInv, IInv', NEW gone \in SUBSET Scans,
         \A n \in gone : rows[n].status \notin {"absent"},
         \A n \in Scans : rows'[n] = IF n \in gone THEN FreshRow("deleted") ELSE rows[n],
         UNCHANGED <<state, scan, session, born, stopAsked>>
  PROVE  \E S \in SUBSET {n \in Lifecycle!Scans : PhaseBar[n] \notin {"unborn", "unrecorded"}} :
            Lifecycle!Forget(S)
<1> USE FreshRows
<1>1. gone \in SUBSET {n \in Scans : PhaseBar[n] \notin {"unborn", "unrecorded"}}
  <2> SUFFICES ASSUME NEW n \in gone PROVE PhaseOf(n) \notin {"unborn", "unrecorded"}
    BY DEF PhaseBar
  <2>1. ~(n > born)
    BY DEF IInv, Unborn
  <2>2. rows[n].status \in RowStatuses
    BY PhaseCases
  <2> QED
    BY <2>1, <2>2 DEF PhaseOf, RowStatuses, Verdicts
<1>2. ASSUME NEW n \in Scans PROVE PhaseOf(n)' = IF n \in gone THEN "forgotten" ELSE PhaseOf(n)
  <2>1. n \in gone => ~(n > born)
    BY DEF IInv, Unborn
  <2> QED
    BY <2>1 DEF PhaseOf, Up, Busy
<1>3. PhaseBar' = [n \in Scans |-> IF n \in gone THEN "forgotten" ELSE PhaseBar[n]]
  BY <1>2 DEF PhaseBar
<1>4. Lifecycle!Forget(gone)
  BY <1>3 DEF Lifecycle!Forget, Lifecycle!Scans, PhaseBar, LiveBar, Scans, Up, Busy
<1> QED
  BY <1>1, <1>4 DEF Lifecycle!Scans, Scans

LEMMA FinishStep ==
  ASSUME IInv, IInv', Up, Busy, NEW status \in Verdicts, NEW lines, NEW times,
         Finish(status, lines, times), born' = born,
         stopAsked' \in {stopAsked, stopAsked \cup {scan}},
         status = "completed" => scan \notin stopAsked'
  PROVE  \E v \in Lifecycle!Verdicts : Lifecycle!End(v)
<1>1. LiveBar' = 0
  BY DEF LiveBar, Finish, Busy
<1>2. scan \in Scans
  BY LiveScanner
<1>3. \A n \in Scans : rows'[n].status = IF RowKept /\ n = scan THEN status ELSE rows[n].status
  BY <1>2, LiveRow DEF Finish, SettleRow, IInv, TypeOK, AppTypes
<1> QED
  BY <1>1, <1>3, EndStep

LEMMA FinishEmptyStep ==
  ASSUME IInv, IInv', Up, Busy, FinishEmpty, born' = born, state # "stopping"
  PROVE  \E v \in Lifecycle!Verdicts : Lifecycle!End(v)
<1>1. LiveBar' = 0 /\ stopAsked' = stopAsked
  BY DEF LiveBar, FinishEmpty, Busy
<1>2. scan \in Scans /\ scan \notin stopAsked
  BY LiveScanner DEF IInv, LiveScan
<1>3. \A n \in Scans : rows'[n].status = IF RowKept /\ n = scan THEN "completed" ELSE rows[n].status
  BY <1>2, LiveRow DEF FinishEmpty, IInv, TypeOK, AppTypes
<1>4. "completed" \in Verdicts
  BY DEF Verdicts
<1> QED
  BY <1>1, <1>2, <1>3, <1>4, EndStep

\* A busy scanner is asked to stop, by the button or by the end of the program.
LEMMA StopStep ==
  ASSUME IInv, IInv', Up, Busy, StopBusy, born' = born
  PROVE  Lifecycle!Next
<1>1. CASE state' = "stopping" /\ UNCHANGED <<scan, rows>>
  <2>1. CASE Up'
    BY <1>1, <2>1, AskStep DEF StopBusy, Busy, Lifecycle!Next
  <2>2. CASE ~(Up')
    BY <1>1, <2>2, LoseStep DEF StopBusy, Lifecycle!Next
  <2> QED
    BY <2>1, <2>2
<1>2. CASE Finish(IF exit = "nostart" THEN "failed" ELSE "stopped", pipe, 1)
  <2>1. (IF exit = "nostart" THEN "failed" ELSE "stopped") \in Verdicts \ {"completed"}
    BY DEF Verdicts
  <2> QED
    BY <1>2, <2>1, FinishStep DEF StopBusy, Lifecycle!Next
<1> QED
  BY <1>1, <1>2 DEF StopBusy

LEMMA WalkDeliveredStep ==
  ASSUME IInv, IInv', WalkDelivered PROVE [Lifecycle!Next]_Lifecycle!vars
<1> USE DEF WalkDelivered
<1>1. Up /\ Busy /\ Up' /\ born' = born
  BY DEF IInv, Phases, Up, Busy
<1>2. CASE Finish("failed", 0, 1) /\ stopAsked' = stopAsked
  BY <1>1, <1>2, FinishStep DEF Verdicts, Lifecycle!Next
<1>3. CASE Finish("stopped", 0, 1) /\ UNCHANGED obsVars
  BY <1>1, <1>3, FinishStep DEF Verdicts, Lifecycle!Next, obsVars
<1>4. CASE state # "stopping" /\ FinishEmpty
  BY <1>1, <1>4, FinishEmptyStep DEF Lifecycle!Next
<1>5. CASE Launch
  <2>1. CASE Finish("failed", 0, 2) /\ UNCHANGED stopAsked
    BY <1>1, <2>1, FinishStep DEF Verdicts, Lifecycle!Next
  <2>2. CASE state' = "scanning" /\ UNCHANGED <<scan, rows, obsVars>>
    <3>1. LiveBar' = LiveBar
      BY <1>1, <2>2 DEF LiveBar, Busy
    <3> QED
      BY <1>1, <2>2, <3>1, Unmoved DEF obsVars
  <2> QED
    BY <1>5, <2>1, <2>2 DEF Launch
<1> QED
  BY <1>2, <1>3, <1>4, <1>5

LEMMA EngineEndedStep ==
  ASSUME IInv, IInv', EngineEnded PROVE Lifecycle!Next
<1>1. Up /\ Busy /\ born' = born /\ stopAsked' = stopAsked
  BY DEF EngineEnded, IInv, Phases, Up, Busy, obsVars
<1>2. VerdictOf(exit) \in Verdicts /\ (VerdictOf(exit) = "completed" => scan \notin stopAsked)
  BY <1>1 DEF VerdictOf, Verdicts, IInv, LiveScan
<1> QED
  BY <1>1, <1>2, FinishStep DEF EngineEnded, Lifecycle!Next

\* Steps that the history says nothing of.
LEMMA QuietStep ==
  ASSUME IInv, IInv',
         StartRefused \/ WalkEnds \/ EngineFinds \/ EngineExits \/ ReadLine \/ Pause \/ Resume \/ Restart
  PROVE  UNCHANGED Lifecycle!vars
<1>1. CASE StartRefused
  <2>1. ~RowKept /\ ~Busy
    BY <1>1 DEF IInv, OneScan, StartRefused, RowKept
  <2> QED
    BY <1>1, <2>1, Unmoved DEF StartRefused, Finish, SettleRow, LiveBar, Busy, obsVars
<1>2. CASE WalkEnds \/ EngineFinds \/ EngineExits
  <2>1. UNCHANGED <<state, scan, rows, session, born, stopAsked>>
    BY <1>2 DEF WalkEnds, EngineFinds, EngineExits, appVars
  <2> QED
    BY <2>1, Unmoved DEF LiveBar, Up, Busy
<1>3. CASE ReadLine
  <2>1. UNCHANGED <<state, scan, session, born, stopAsked>>
    BY <1>3 DEF ReadLine, obsVars
  <2>2. \A n \in Scans : rows'[n].status = rows[n].status
    BY <1>3 DEF ReadLine, IInv, TypeOK, AppTypes, Rows
  <2> QED
    BY <2>1, <2>2, Unmoved DEF LiveBar, Up, Busy
<1>4. CASE Pause \/ Resume
  BY <1>4, Unmoved DEF Pause, Resume, LiveBar, Up, Busy, obsVars
<1>5. CASE Restart
  BY <1>5, Unmoved DEF Restart, LiveBar, Busy, obsVars
<1> QED
  BY <1>1, <1>2, <1>3, <1>4, <1>5

LEMMA NextStep ==
  ASSUME IInv, IInv', [Next]_vars PROVE [Lifecycle!Next]_Lifecycle!vars
<1>1. CASE StartScan
  BY <1>1, BeginStep DEF Lifecycle!Next
<1>2. CASE StartRefused \/ WalkEnds \/ EngineFinds \/ EngineExits \/ ReadLine \/ Pause \/ Resume \/ Restart
  BY <1>2, QuietStep
<1>3. CASE WalkDelivered \/ EngineEnded
  BY <1>3, WalkDeliveredStep, EngineEndedStep
<1>4. CASE Stop
  BY <1>4, StopStep DEF Stop, Up
<1>5. ASSUME NEW n \in Scans, DeleteScan(n) PROVE Lifecycle!Next
  <2>1. \A m \in Scans : rows'[m] = IF m \in {n} THEN FreshRow("deleted") ELSE rows[m]
    BY <1>5 DEF DeleteScan, IInv, TypeOK, AppTypes
  <2>2. \A m \in {n} : rows[m].status \notin {"absent"}
    BY <1>5 DEF DeleteScan
  <2>3. {n} \in SUBSET Scans /\ UNCHANGED <<state, scan, session, born, stopAsked>>
    BY <1>5 DEF DeleteScan, obsVars
  <2> QED
    BY <2>1, <2>2, <2>3, ForgetStep DEF Lifecycle!Next, PhaseBar
<1>6. CASE ClearHistory
  <2> DEFINE gone == {m \in Scans : rows[m].status # "absent"}
  <2>1. \A m \in Scans : rows'[m] = IF m \in gone THEN FreshRow("deleted") ELSE rows[m]
    BY <1>6 DEF ClearHistory
  <2>2. gone \in SUBSET Scans /\ \A m \in gone : rows[m].status \notin {"absent"}
    OBVIOUS
  <2>3. UNCHANGED <<state, scan, session, born, stopAsked>>
    BY <1>6 DEF ClearHistory, obsVars
  <2> HIDE DEF gone
  <2> QED
    BY <2>1, <2>2, <2>3, ForgetStep DEF Lifecycle!Next, PhaseBar
<1>7. CASE Quit \/ Crash
  <2>1. CASE Quit /\ Busy
    BY <2>1, StopStep DEF Quit, Up
  <2>2. CASE Crash /\ Busy
    BY <2>2, LoseStep DEF Crash, Up, appVars, obsVars, Lifecycle!Next
  <2>3. CASE ~Busy
    BY <1>7, <2>3, Unmoved DEF Quit, Crash, Busy, LiveBar, appVars, obsVars
  <2> QED
    BY <1>7, <2>1, <2>2, <2>3
<1>8. CASE UNCHANGED vars
  BY <1>8, Unmoved DEF vars, appVars, obsVars, LiveBar, Up, Busy
<1> QED
  BY <1>1, <1>2, <1>3, <1>4, <1>5, <1>6, <1>7, <1>8 DEF Next

LEMMA InitStep == Init => Lifecycle!Init
<1>1. Init => /\ [n \in Scans |-> PhaseOf(n)] = [n \in Scans |-> "unborn"]
              /\ ~Busy /\ stopAsked = {}
  BY DEF Init, PhaseOf, Scans, Busy
<1> QED
  BY <1>1 DEF Lifecycle!Init, Lifecycle!Scans, Scans

\* Whatever the engine, the worker thread and the user do, the history shows scans
\* one at a time, with one verdict each, none after the program went away and none
\* "completed" after a stop was asked (Scanner, AppContext and HistoryStore).
THEOREM ScansAreALifecycle == Spec => ImplementsLifecycle
<1>1. IInv /\ IInv' /\ [Next]_vars => [Lifecycle!Next]_Lifecycle!vars
  BY NextStep
<1> QED
  BY <1>1, InductiveInvariant, InitStep, PTL DEF Spec, ImplementsLifecycle, Lifecycle!Spec
=============================================================================
