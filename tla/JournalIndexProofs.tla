------------------------- MODULE JournalIndexProofs -------------------------
(***************************************************************************)
(* What JournalIndex promises of the index for any number of entries and   *)
(* any limit: its types; that nothing is passed over and a read reported as*)
(* complete is complete (as long as nobody clears or forgets during a read *)
(* and forget_journal is not interrupted); and that nothing is stored twice*)
(* (as long as nobody removes entries during a read).                      *)
(***************************************************************************)
EXTENDS JournalIndex, TLAPS

-----------------------------------------------------------------------------
(* Types.                                                                  *)

\* The positions of the entries a read asks for lie inside the journal.
LEMMA Positions ==
  ASSUME JournalConstants, TypeOK
  PROVE  /\ From \in Nat \ {0} /\ From <= written + 1
         /\ UpTo \in Nat /\ From - 1 <= UpTo /\ UpTo <= written
  BY JournalConstants DEF TypeOK, JournalConstants, From, UpTo

\* What journal.read returns: nothing, or the entries up to the last one it took.
LEMMA ReadTakes ==
  ASSUME JournalConstants, TypeOK, Read
  PROVE  \/ got' = {} /\ to' = 0
         \/ \E last \in Nat : last <= UpTo /\ got' = (From..last) \ odd /\ IsCursorOf(to', got')
<1>1. From \in Nat \ {0} /\ UpTo \in Nat
  BY Positions
<1> QED BY <1>1 DEF Read, Parsed

\* The cursor is none, or one of the entries, which lie inside the journal.
LEMMA CursorIn ==
  ASSUME JournalConstants, TypeOK, Read
  PROVE  /\ to' = 0 \/ to' \in got'
         /\ \A e \in got' : e \in Nat /\ From <= e /\ e <= UpTo
<1>1. From \in Nat \ {0} /\ UpTo \in Nat
  BY Positions
<1>2. CASE got' = {} /\ to' = 0
  BY <1>2
<1>3. ASSUME NEW last \in Nat, last <= UpTo, got' = (From..last) \ odd, IsCursorOf(to', got')
      PROVE  /\ to' = 0 \/ to' \in got'
             /\ \A e \in got' : e \in Nat /\ From <= e /\ e <= UpTo
  BY <1>1, <1>3 DEF IsCursorOf
<1> QED  BY <1>2, <1>3, ReadTakes

\* The initial state is of the type.
LEMMA InitTyped == ASSUME Init PROVE TypeOK
<1>1. copies \in [Entries -> Nat] /\ got \in SUBSET Entries /\ unsaved \in SUBSET Entries
      /\ odd \in SUBSET Entries
  BY DEF Init, None
<1>2. /\ source \in BOOLEAN /\ busy \in BOOLEAN /\ cancel \in BOOLEAN /\ known \in BOOLEAN
      /\ stale \in BOOLEAN /\ capped \in BOOLEAN
  BY DEF Init
<1>3. /\ ui \in {"idle", "forgetting", "gone"} /\ worker \in Working \cup {"none", "done", "failed"}
      /\ outcome \in {"ok", "short", "error"}
  BY DEF Init
<1>4. /\ written \in 0..MaxEntries /\ first \in 1..(written + 1) /\ cursor \in 0..written
      /\ asked \in 0..written /\ to \in 0..written /\ had \in 0..written
  BY JournalConstants DEF JournalConstants, Init
<1> QED BY <1>1, <1>2, <1>3, <1>4 DEF TypeOK

\* The type in three parts: positions, sets of entries, and states.
Placed ==
  /\ written \in 0..MaxEntries /\ first \in 1..(written + 1) /\ cursor \in 0..written
  /\ asked \in 0..written /\ to \in 0..written /\ had \in 0..written
Counted ==
  /\ copies \in [Entries -> Nat] /\ got \in SUBSET Entries /\ unsaved \in SUBSET Entries
  /\ odd \in SUBSET Entries
States ==
  /\ source \in BOOLEAN /\ busy \in BOOLEAN /\ cancel \in BOOLEAN
  /\ known \in BOOLEAN /\ stale \in BOOLEAN /\ capped \in BOOLEAN
  /\ ui \in {"idle", "forgetting", "gone"}
  /\ worker \in Working \cup {"none", "done", "failed"}
  /\ outcome \in {"ok", "short", "error"}

LEMMA TypeParts == TypeOK <=> Placed /\ Counted /\ States
  BY DEF TypeOK, Placed, Counted, States

\* No step moves a position beyond the end of the journal.
LEMMA NextPlaced ==
  ASSUME TypeOK, [Next]_vars PROVE Placed'
<1>1. MaxEntries \in Nat /\ Placed
  BY JournalConstants, TypeParts DEF JournalConstants
<1> USE <1>1 DEF Placed
<1>2. CASE Log BY <1>2 DEF Log, storeVars, readVars
<1>3. CASE Vacuum BY <1>3 DEF Vacuum, storeVars, readVars
<1>4. CASE IndexJournal BY <1>4 DEF IndexJournal, storeVars, journalVars
<1>5. CASE Read
  <2>1. had' = written /\ written' = written
    BY <1>5 DEF Read, journalVars
  <2>2. /\ From \in Nat \ {0} /\ UpTo \in Nat /\ UpTo <= written
        /\ to' = 0 \/ (to' \in Nat /\ to' <= UpTo)
    BY <1>5, Positions, CursorIn, JournalConstants
  <2>3. to' \in 0..written
    BY <1>1, <2>2
  <2> QED BY <1>5, <2>1, <2>3 DEF Read, storeVars, journalVars
<1>6. CASE LookUp BY <1>6 DEF LookUp, storeVars, journalVars
<1>7. CASE Store BY <1>7 DEF Store, journalVars, readVars
<1>8. CASE SaveCursor BY <1>8 DEF SaveCursor, journalVars, readVars
<1>9. CASE Delivered \/ Failed BY <1>9 DEF Delivered, Failed, storeVars, journalVars, readVars
<1>10. CASE ForgetSources \/ Clear BY <1>10 DEF ForgetSources, Clear, journalVars, readVars
<1>11. CASE ForgetState BY <1>11 DEF ForgetState, journalVars, readVars
<1>12. CASE Quit \/ Crash \/ Restart
  BY <1>12 DEF Quit, Crash, Restart, storeVars, journalVars, readVars
<1>13. CASE UNCHANGED vars BY <1>13 DEF vars, storeVars, journalVars, readVars
<1> QED
  BY <1>2, <1>3, <1>4, <1>5, <1>6, <1>7, <1>8, <1>9, <1>10, <1>11, <1>12, <1>13
  DEF Next, Work

\* The index holds a number of copies of each entry.
LEMMA NextCounted ==
  ASSUME TypeOK, [Next]_vars PROVE Counted'
<1>1. Counted
  BY TypeParts
<1> USE <1>1 DEF Counted
<1>2. CASE Log
  <2>1. written' \in Entries /\ (odd' = odd \/ odd' = odd \cup {written'})
    BY <1>2, JournalConstants, TypeParts DEF Log, Placed, Entries, JournalConstants
  <2> QED BY <1>2, <2>1 DEF Log, storeVars, readVars
<1>12. CASE Vacuum \/ IndexJournal \/ LookUp
  BY <1>12 DEF Vacuum, IndexJournal, LookUp, storeVars, readVars, journalVars
<1>3. CASE Read
  <2>1. MaxEntries \in Nat /\ written \in Nat /\ written <= MaxEntries
    BY JournalConstants, TypeParts DEF JournalConstants, Placed
  <2>2. /\ From \in Nat \ {0} /\ UpTo \in Nat /\ UpTo <= written
        /\ \A e \in got' : e \in Nat /\ From <= e /\ e <= UpTo
    BY <1>3, Positions, CursorIn, JournalConstants
  <2>3. got' \in SUBSET Entries
    BY <2>1, <2>2 DEF Entries
  <2> QED BY <1>3, <2>3 DEF Read, storeVars, journalVars
<1>4. CASE Store BY <1>4 DEF Store, readVars, journalVars
<1>5. CASE SaveCursor BY <1>5 DEF SaveCursor, CursorLost, readVars, journalVars
<1>6. CASE Delivered \/ Failed BY <1>6 DEF Delivered, Failed, storeVars, readVars, journalVars
<1>7. CASE ForgetSources \/ Clear BY <1>7 DEF ForgetSources, Clear, None, readVars, journalVars
<1>8. CASE ForgetState BY <1>8 DEF ForgetState, readVars, journalVars
<1>9. CASE Quit \/ Restart BY <1>9 DEF Quit, Restart, storeVars, readVars, journalVars
<1>10. CASE Crash BY <1>10 DEF Crash, CursorLost, storeVars, readVars, journalVars
<1>11. CASE UNCHANGED vars BY <1>11 DEF vars, storeVars, readVars, journalVars
<1> QED
  BY <1>2, <1>3, <1>4, <1>5, <1>6, <1>7, <1>8, <1>9, <1>10, <1>11, <1>12
  DEF Next, Work

\* The threads are where the code has them.
LEMMA NextStates ==
  ASSUME TypeOK, [Next]_vars PROVE States'
<1>1. States
  BY TypeParts
<1> USE <1>1 DEF States, Working, storeVars, appVars, readVars
<1>2. CASE Log \/ Vacuum BY <1>2 DEF Log, Vacuum
<1>3. CASE IndexJournal BY <1>3 DEF IndexJournal
<1>4. CASE Read
  <2>1. outcome' \in {"ok", "short", "error"} /\ capped' \in BOOLEAN
    BY <1>4 DEF Read, Outcome
  <2> QED BY <1>4, <2>1 DEF Read
<1>5. CASE LookUp BY <1>5 DEF LookUp
<1>6. CASE Store BY <1>6, Zenon DEF Store
<1>7. CASE SaveCursor BY <1>7 DEF SaveCursor
<1>8. CASE Delivered \/ Failed BY <1>8 DEF Delivered, Failed
<1>9. CASE ForgetSources \/ Clear BY <1>9 DEF ForgetSources, Clear
<1>10. CASE ForgetState BY <1>10 DEF ForgetState
<1>11. CASE Quit \/ Crash \/ Restart BY <1>11 DEF Quit, Crash, Restart
<1>12. CASE UNCHANGED vars BY <1>12 DEF vars
<1> QED
  BY <1>2, <1>3, <1>4, <1>5, <1>6, <1>7, <1>8, <1>9, <1>10, <1>11, <1>12 DEF Next, Work

LEMMA NextTyped == ASSUME TypeOK, [Next]_vars PROVE TypeOK'
<1>1. Placed' /\ Counted' /\ States'
  BY NextPlaced, NextCounted, NextStates
<1> QED BY <1>1 DEF TypeOK, Placed, Counted, States

\* Every variable keeps its type, and no position is beyond the journal's end.
THEOREM TypeCorrect == Spec => []TypeOK
  BY InitTyped, NextTyped, PTL DEF Spec

-----------------------------------------------------------------------------
(* A read that is under way.                                               *)

\* Nobody removes anything while a read is under way.
Undisturbed == "forget_busy" \notin Hazards

\* A working thread means busy, no removal is half done meanwhile, and the
\* saved cursor is still the one the read began at.
Alone ==
  /\ worker \in Working => busy /\ asked = cursor
  /\ ui = "forgetting" => ~busy

\* What the thread holds is what comes next: every entry that is kept between the
\* cursor it began at and the one it will leave, save the skipped, and nothing else.
Ahead(e) == asked < e /\ e <= to
Held ==
  worker \in {"looking", "storing", "saving"} =>
     /\ to = 0 \/ asked < to
     /\ \A e \in got : Ahead(e)
     /\ \A e \in Entries \ odd : first <= e /\ Ahead(e) => e \in got

Running == Alone /\ Held

\* A fresh read begins next to the cursor, or at the oldest entry without one.
LEMMA ReadHolds ==
  ASSUME JournalConstants, TypeOK, Read PROVE Held'
<1>1. CASE worker' = "done"
  BY <1>1 DEF Held
<1>2. CASE worker' = "looking"
  <2>1. /\ asked \in Nat /\ first \in Nat /\ first >= 1 /\ UpTo \in Nat
        /\ From = (IF asked = 0 THEN first ELSE asked + 1)
    BY Positions, TypeParts DEF Placed, From
  <2>2. asked' = asked /\ first' = first /\ odd' = odd
    BY DEF Read, journalVars
  <2>3. MaxEntries \in Nat /\ Entries = 1..MaxEntries
    BY JournalConstants DEF JournalConstants, Entries
  <2>4. CASE got' = {} /\ to' = 0
    BY <2>1, <2>2, <2>3, <2>4 DEF Held, Ahead
  <2>5. ASSUME NEW last \in Nat, got' = (From..last) \ odd, IsCursorOf(to', got')
        PROVE  Held'
    <3>1. CASE got' = {}
      BY <2>4, <2>5, <3>1 DEF IsCursorOf
    <3>2. CASE got' # {}
      <4>1. to' \in got' /\ \A e \in got' : e <= to'
        BY <2>5, <3>2 DEF IsCursorOf
      <4>2. \A e \in got' : e \in Nat /\ asked < e /\ e <= last
        BY <2>1, <2>5
      <4>3. to' \in Nat /\ asked < to' /\ to' <= last
        BY <4>1, <4>2
      <4>4. \A e \in got' : asked' < e /\ e <= to'
        BY <2>2, <4>1, <4>2
      <4>5. \A e \in Entries \ odd' : first' <= e /\ asked' < e /\ e <= to' => e \in got'
        BY <2>1, <2>2, <2>3, <2>5, <4>3
      <4> QED BY <2>2, <4>3, <4>4, <4>5 DEF Held, Ahead
    <3> QED BY <3>1, <3>2
  <2> QED BY <2>4, <2>5, ReadTakes
<1> QED BY <1>1, <1>2 DEF Read

LEMMA NextRunning ==
  ASSUME JournalConstants, Undisturbed, TypeOK, Running, [Next]_vars
  PROVE  Running'
<1> USE DEF Running, Alone, Working, storeVars, appVars, readVars, journalVars
<1>1. CASE Log
  <2>1. odd \subseteq odd'
    BY <1>1 DEF Log
  <2> QED BY <1>1, <2>1 DEF Log, Held, Ahead
<1>2. CASE Vacuum
  <2>1. first \in Nat /\ written \in Nat /\ MaxEntries \in Nat
    BY JournalConstants, TypeParts DEF Placed, JournalConstants
  <2>2. Held'
    BY <1>2, <2>1 DEF Vacuum, Held, Ahead, Entries
  <2> QED BY <1>2, <2>2 DEF Vacuum
<1>3. CASE IndexJournal BY <1>3 DEF IndexJournal, Held
<1>4. CASE Read
  <2>1. Held' BY <1>4, ReadHolds
  <2> QED BY <1>4, <2>1 DEF Read
<1>5. CASE LookUp BY <1>5 DEF LookUp, Held, Ahead
<1>6. CASE Store BY <1>6 DEF Store, Held, Ahead
<1>7. CASE SaveCursor BY <1>7 DEF SaveCursor, Held
<1>8. CASE Delivered \/ Failed BY <1>8 DEF Delivered, Failed, Held
<1>9. CASE ForgetSources BY <1>9 DEF ForgetSources, MayRemove, Undisturbed, Held, Ahead
<1>10. CASE ForgetState BY <1>10 DEF ForgetState, Held, Ahead
<1>11. CASE Clear BY <1>11 DEF Clear, Held, Ahead
<1>12. CASE Quit BY <1>12 DEF Quit, Held, Ahead
<1>13. CASE Crash \/ Restart BY <1>13 DEF Crash, Restart, Held
<1>14. CASE UNCHANGED vars BY <1>14 DEF vars, Held, Ahead
<1> QED
  BY <1>1, <1>2, <1>3, <1>4, <1>5, <1>6, <1>7, <1>8, <1>9, <1>10, <1>11, <1>12, <1>13, <1>14
  DEF Next, Work

-----------------------------------------------------------------------------
(* Nothing is passed over.                                                 *)

\* No clearing with a cursor, and no end of the process inside forget_journal.
NoHalfRemoval == "clear" \notin Hazards /\ "crash_forget" \notin Hazards

Behind ==
  ui # "forgetting" => \A e \in Entries \ odd : first <= e /\ e <= cursor => copies[e] > 0
Committed == worker = "saving" => \A e \in got : copies[e] > 0

PInv == TypeOK /\ Running /\ Behind /\ Committed

LEMMA InitPassed == ASSUME JournalConstants, Init PROVE PInv
<1>1. Running /\ Committed
  BY DEF Init, Running, Alone, Held, Committed, Working
<1>2. Behind
  BY JournalConstants DEF Init, Behind, Entries, JournalConstants
<1> QED BY <1>1, <1>2, InitTyped DEF PInv

LEMMA NextPassed ==
  ASSUME JournalConstants, Undisturbed, NoHalfRemoval, PInv, [Next]_vars
  PROVE  Behind' /\ Committed'
<1>1. /\ copies \in [Entries -> Nat] /\ got \in SUBSET Entries
      /\ first \in Nat /\ cursor \in Nat /\ asked \in Nat /\ to \in Nat
      /\ MaxEntries \in Nat /\ Entries = 1..MaxEntries
  BY JournalConstants, TypeParts DEF PInv, Counted, Placed, JournalConstants, Entries
<1> USE <1>1 DEF storeVars, appVars, readVars, journalVars, PInv, Behind, Committed
<1>2. CASE IndexJournal \/ Read \/ LookUp
  BY <1>2 DEF IndexJournal, Read, LookUp
<1>12. CASE Log
  <2>1. odd \subseteq odd'
    BY <1>12 DEF Log
  <2> QED BY <1>12, <2>1 DEF Log
<1>3. CASE Vacuum BY <1>3 DEF Vacuum, TypeOK
<1>4. CASE Store
  <2>1. /\ cursor' = cursor /\ first' = first /\ odd' = odd /\ got' = got /\ ui' = ui
        /\ \/ worker' = "failed" /\ copies' = copies
           \/ /\ worker' = "saving"
              /\ copies' = [e \in Entries |-> IF e \in got THEN copies[e] + 1 ELSE copies[e]]
    BY <1>4 DEF Store
  <2> QED BY <2>1
<1>5. CASE SaveCursor
  <2>1. /\ worker' # "saving" /\ copies' = copies /\ first' = first /\ odd' = odd /\ ui' = ui
        /\ cursor' = cursor \/ cursor' = to
    BY <1>5 DEF SaveCursor
  <2>2. ASSUME NEW e \in Entries \ odd, first <= e, e <= to, ui # "forgetting"
        PROVE  copies[e] > 0
    <3>1. asked = cursor /\ \A f \in Entries \ odd : first <= f /\ asked < f /\ f <= to => f \in got
      BY <1>5 DEF SaveCursor, Running, Alone, Held, Ahead, Working
    <3>2. \A f \in got : copies[f] > 0
      BY <1>5 DEF SaveCursor
    <3> QED BY <2>2, <3>1, <3>2
  <2> QED BY <2>1, <2>2
<1>6. CASE Delivered \/ Failed BY <1>6 DEF Delivered, Failed
<1>7. CASE ForgetSources
  <2>1. worker' # "saving" /\ ui' = "forgetting"
    BY <1>7 DEF ForgetSources, MayRemove, Undisturbed, Running, Alone, Working
  <2> QED BY <2>1
<1>8. CASE ForgetState
  <2>1. worker' # "saving" /\ cursor' = 0
    BY <1>8 DEF ForgetState, Running, Alone, Working
  <2> QED BY <2>1
<1>9. CASE Clear
  <2>1. worker' # "saving" /\ cursor' = 0
    BY <1>9 DEF Clear, MayRemove, Undisturbed, NoHalfRemoval, Running, Alone, Working
  <2> QED BY <2>1
<1>10. CASE Quit \/ Crash \/ Restart
  BY <1>10 DEF Quit, Crash, Restart, NoHalfRemoval
<1>11. CASE UNCHANGED vars BY <1>11 DEF vars
<1> QED
  BY <1>2, <1>3, <1>4, <1>5, <1>6, <1>7, <1>8, <1>9, <1>10, <1>11, <1>12
  DEF Next, Work

\* Nothing before the cursor that could be made sense of is missing from the
\* index, whatever the limit, the skipped lines, the cancelled reads, the failed
\* transactions, the lost cursors and the crashes outside forget_journal: the cursor
\* only ever moves to the end of what was committed, and what was committed begins
\* where the cursor was.
THEOREM PassedOver ==
  ASSUME Undisturbed, NoHalfRemoval PROVE Spec => []PassedIsStored
<1>1. Init => PInv
  BY InitPassed, JournalConstants
<1>2. PInv /\ [Next]_vars => PInv'
  <2>1. ASSUME PInv, [Next]_vars PROVE PInv'
    <3>1. TypeOK' BY <2>1, NextTyped DEF PInv
    <3>2. Running' BY <2>1, NextRunning, JournalConstants DEF PInv
    <3>3. Behind' /\ Committed' BY <2>1, NextPassed, JournalConstants
    <3> QED BY <3>1, <3>2, <3>3 DEF PInv
  <2> QED BY <2>1
<1>3. PInv => PassedIsStored
  BY DEF PInv, Behind, PassedIsStored
<1> QED BY <1>1, <1>2, <1>3, PTL DEF Spec

-----------------------------------------------------------------------------
(* Nothing is stored twice.                                                *)

\* What a read may still bring is not in the index, save for the entries a lost
\* cursor makes it bring again; a unit without a row has no events.
Fresh(e) == e > cursor /\ ~(worker = "saving" /\ e \in got)
NotYet == \A e \in Entries : e \notin unsaved /\ Fresh(e) => copies[e] = 0
Emptied == ~source \/ ui = "forgetting" => \A e \in Entries : copies[e] = 0

OInv == TypeOK /\ Running /\ NotYet /\ Emptied /\ StoredOnce

LEMMA InitOnce == ASSUME JournalConstants, Init PROVE OInv
<1>1. Running
  BY DEF Init, Running, Alone, Held, Working
<1>2. NotYet /\ Emptied /\ StoredOnce
  BY DEF Init, None, NotYet, Emptied, StoredOnce
<1> QED BY <1>1, <1>2, InitTyped DEF OInv

LEMMA NextOnce ==
  ASSUME JournalConstants, Undisturbed, OInv, [Next]_vars
  PROVE  NotYet' /\ Emptied' /\ StoredOnce'
<1>1. /\ copies \in [Entries -> Nat] /\ got \in SUBSET Entries
      /\ cursor \in Nat /\ asked \in Nat /\ to \in Nat
      /\ MaxEntries \in Nat /\ Entries = 1..MaxEntries
  BY JournalConstants, TypeParts DEF OInv, Counted, Placed, JournalConstants, Entries
<1> USE <1>1 DEF storeVars, appVars, readVars, journalVars, OInv, NotYet, Fresh, Emptied, StoredOnce
<1>2. CASE Log \/ Vacuum \/ IndexJournal
  BY <1>2 DEF Log, Vacuum, IndexJournal, Running, Alone, Working
<1>3. CASE Read \/ LookUp
  BY <1>3 DEF Read, LookUp
<1>4. CASE Store
  <2>1. /\ cursor' = cursor /\ got' = got /\ ui' = ui /\ unsaved' = unsaved
        /\ \/ worker' = "failed" /\ copies' = copies /\ source' = source
           \/ /\ worker' = "saving" /\ source' = (source \/ got # {})
              /\ copies' = [e \in Entries |-> IF e \in got THEN copies[e] + 1 ELSE copies[e]]
    BY <1>4 DEF Store
  <2>2. /\ worker = "storing" /\ ui # "forgetting" /\ \A e \in got : e > cursor
    BY <1>4 DEF Store, Running, Alone, Held, Ahead, Working
  <2>3. CASE worker' = "failed" /\ copies' = copies /\ source' = source
    BY <2>1, <2>2, <2>3
  <2>4. ASSUME worker' = "saving", source' = (source \/ got # {}),
               copies' = [e \in Entries |-> IF e \in got THEN copies[e] + 1 ELSE copies[e]]
        PROVE  NotYet' /\ Emptied' /\ StoredOnce'
    <3>1. \A e \in Entries : e \notin unsaved /\ e \in got => copies[e] = 0 /\ copies'[e] = 1
      BY <2>2, <2>4
    <3>2. \A e \in Entries : e \notin got => copies'[e] = copies[e]
      BY <2>4
    <3>3. NotYet' /\ StoredOnce'
      BY <2>1, <2>2, <2>4, <3>1, <3>2
    <3>4. Emptied'
      BY <2>1, <2>2, <2>4, <3>2
    <3> QED BY <3>3, <3>4
  <2> QED BY <2>1, <2>3, <2>4
<1>5. CASE SaveCursor
  <2>1. asked = cursor /\ (to = 0 \/ asked < to) /\ \A e \in got : asked < e /\ e <= to
    BY <1>5 DEF SaveCursor, Running, Alone, Held, Ahead, Working
  <2>2. /\ worker = "saving" /\ worker' # "saving" /\ copies' = copies /\ source' = source
        /\ ui' = ui /\ got' = got
        /\ \/ cursor' = (IF to = 0 THEN cursor ELSE to) /\ unsaved' = unsaved
           \/ cursor' = cursor /\ unsaved' = unsaved \cup got
    BY <1>5 DEF SaveCursor, CursorLost
  <2>3. Emptied' /\ StoredOnce'
    BY <2>2
  <2>4. NotYet'
    BY <2>1, <2>2
  <2> QED BY <2>3, <2>4
<1>6. CASE Delivered \/ Failed BY <1>6 DEF Delivered, Failed
<1>7. CASE ForgetSources
  <2>1. \A e \in Entries : copies'[e] = 0
    BY <1>7 DEF ForgetSources, None
  <2> QED BY <2>1
<1>8. CASE ForgetState
  <2>1. \A e \in Entries : copies'[e] = 0
    BY <1>8 DEF ForgetState
  <2> QED BY <2>1
<1>9. CASE Clear
  <2>1. \A e \in Entries : copies'[e] = 0
    BY <1>9 DEF Clear, None
  <2> QED BY <2>1
<1>10. CASE Quit \/ Restart BY <1>10 DEF Quit, Restart, Working
<1>11. CASE Crash BY <1>11 DEF Crash, CursorLost
<1>12. CASE UNCHANGED vars BY <1>12 DEF vars
<1> QED
  BY <1>2, <1>3, <1>4, <1>5, <1>6, <1>7, <1>8, <1>9, <1>10, <1>11, <1>12 DEF Next, Work

\* An entry is stored a second time only after its own cursor was lost: reads
\* begin next to the cursor, or, without one, when the index is empty.
THEOREM NothingTwice ==
  ASSUME Undisturbed PROVE Spec => []StoredOnce
<1>1. Init => OInv
  BY InitOnce, JournalConstants
<1>2. OInv /\ [Next]_vars => OInv'
  <2>1. ASSUME OInv, [Next]_vars PROVE OInv'
    <3>1. TypeOK' BY <2>1, NextTyped DEF OInv
    <3>2. Running' BY <2>1, NextRunning, JournalConstants DEF OInv
    <3>3. NotYet' /\ Emptied' /\ StoredOnce' BY <2>1, NextOnce, JournalConstants
    <3> QED BY <3>1, <3>2, <3>3 DEF OInv
  <2> QED BY <2>1
<1>3. OInv => StoredOnce
  BY DEF OInv
<1> QED BY <1>1, <1>2, <1>3, PTL DEF Spec

-----------------------------------------------------------------------------
(* A read that says it has everything.                                     *)

\* What a read that was neither cut short nor refused holds: every entry that is
\* kept beyond the cursor it began at, up to the end the journal then had, save the
\* skipped.
Whole ==
  worker \in {"looking", "storing", "saving"} /\ outcome = "ok" /\ ~stale /\ ~capped =>
     \A e \in Entries \ odd : first <= e /\ asked < e /\ e <= had => e \in got

\* A result that waits for the page keeps the page from removing anything.
Waiting == worker = "done" => busy

CInv == PInv /\ Whole /\ Waiting /\ OkReadIsComplete

LEMMA InitComplete == ASSUME JournalConstants, Init PROVE CInv
<1>1. Whole /\ Waiting /\ OkReadIsComplete
  BY DEF Init, Whole, Waiting, OkReadIsComplete
<1> QED BY <1>1, InitPassed DEF CInv

\* journal.read says "ok" only of a read that reached the end of the journal
\* with room to spare below the limit.
LEMMA ReadWhole ==
  ASSUME JournalConstants, TypeOK, Read PROVE Whole' /\ OkReadIsComplete'
<1>1. OkReadIsComplete'
  BY DEF Read, OkReadIsComplete
<1>2. SUFFICES ASSUME worker' = "looking", outcome' = "ok", stale' = FALSE, ~capped'
               PROVE  Whole'
  BY <1>1 DEF Read, Whole
<1>3. PICK last \in (From - 1)..UpTo :
              /\ got' = (From..last) \ odd /\ outcome' = Outcome(last)
              /\ capped' = (AtLimit(last) /\ Parsed(last) # From..last)
  BY <1>2 DEF Read, Parsed
<1>4. /\ asked \in Nat /\ first \in Nat \ {0} /\ written \in Nat /\ UpTo \in Nat /\ Limit \in Nat
      /\ From \in Nat \ {0} /\ From = (IF asked = 0 THEN first ELSE asked + 1)
      /\ UpTo = (IF From + Limit <= written THEN From + Limit - 1 ELSE written)
  BY Positions, TypeParts, JournalConstants DEF Placed, From, UpTo, JournalConstants
<1>5. last = written
  <2>1. ~(last < UpTo) /\ ~AtLimit(last)
    BY <1>2, <1>3 DEF Outcome
  <2> QED BY <1>3, <1>4, <2>1 DEF AtLimit
<1>6. asked' = asked /\ first' = first /\ had' = written /\ odd' = odd
  BY DEF Read, journalVars
<1>7. MaxEntries \in Nat /\ Entries = 1..MaxEntries
  BY JournalConstants DEF JournalConstants, Entries
<1>8. \A e \in Entries \ odd' : first' <= e /\ asked' < e /\ e <= had' => e \in got'
  BY <1>3, <1>4, <1>5, <1>6, <1>7
<1> QED BY <1>8 DEF Whole

LEMMA NextComplete ==
  ASSUME JournalConstants, Undisturbed, CInv, [Next]_vars
  PROVE  Whole' /\ Waiting' /\ OkReadIsComplete'
<1>1. /\ copies \in [Entries -> Nat] /\ first \in Nat /\ cursor \in Nat /\ asked \in Nat
      /\ had \in Nat /\ MaxEntries \in Nat /\ Entries = 1..MaxEntries
  BY JournalConstants, TypeParts
  DEF CInv, PInv, Counted, Placed, JournalConstants, Entries
<1> USE <1>1 DEF storeVars, appVars, readVars, journalVars, CInv, Whole, Waiting, OkReadIsComplete
<1>2. CASE IndexJournal \/ LookUp
  BY <1>2 DEF IndexJournal, LookUp
<1>13. CASE Log
  <2>1. odd \subseteq odd'
    BY <1>13 DEF Log
  <2> QED BY <1>13, <2>1 DEF Log
<1>3. CASE Vacuum
  <2>1. \A e \in Entries : first' <= e => first <= e
    BY <1>3 DEF Vacuum, PInv, TypeOK
  <2> QED BY <1>3, <2>1 DEF Vacuum
<1>4. CASE Read
  <2>1. TypeOK BY DEF PInv
  <2>2. Waiting'
    BY <1>4 DEF Read, PInv, Running, Alone, Working
  <2> QED BY <1>4, <2>1, <2>2, ReadWhole, JournalConstants DEF Whole, OkReadIsComplete
<1>5. CASE Store
  BY <1>5 DEF Store
<1>6. CASE SaveCursor
  <2>1. /\ worker = "saving" /\ worker' \in {"done", "failed"} /\ copies' = copies
        /\ first' = first /\ had' = had /\ outcome' = outcome /\ stale' = stale /\ busy' = busy
        /\ odd' = odd /\ capped' = capped
    BY <1>6 DEF SaveCursor
  <2>2. busy /\ asked = cursor /\ ui # "forgetting"
    BY <2>1 DEF PInv, Running, Alone, Working
  <2>3. \A e \in Entries \ odd : first <= e /\ e <= cursor => copies[e] > 0
    BY <2>2 DEF PInv, Behind
  <2>4. \A e \in got : copies[e] > 0
    BY <2>1 DEF PInv, Committed
  <2>5. OkReadIsComplete'
    BY <2>1, <2>2, <2>3, <2>4
  <2> QED BY <2>1, <2>2, <2>5
<1>7. CASE Delivered \/ Failed BY <1>7 DEF Delivered, Failed
<1>8. CASE ForgetSources \/ Clear
  <2>1. worker \notin Working /\ worker # "done"
    BY <1>8 DEF ForgetSources, Clear, MayRemove, Undisturbed, PInv, Running, Alone
  <2> QED BY <1>8, <2>1 DEF ForgetSources, Clear, Working
<1>9. CASE ForgetState BY <1>9 DEF ForgetState
<1>10. CASE Quit BY <1>10 DEF Quit
<1>11. CASE Crash \/ Restart BY <1>11 DEF Crash, Restart
<1>12. CASE UNCHANGED vars BY <1>12 DEF vars
<1> QED
  BY <1>2, <1>3, <1>4, <1>5, <1>6, <1>7, <1>8, <1>9, <1>10, <1>11, <1>12, <1>13
  DEF Next, Work

\* A read that is reported as neither cut short nor failed has everything the journal
\* had when it ran and that could be made sense of, unless a skipped line hides that
\* the limit was reached: what it brought reaches from the cursor to the end,
\* and what was before the cursor was there already.
THEOREM OkReadsAreComplete ==
  ASSUME Undisturbed, NoHalfRemoval PROVE Spec => []OkReadIsComplete
<1>1. Init => CInv
  BY InitComplete, JournalConstants
<1>2. CInv /\ [Next]_vars => CInv'
  <2>1. ASSUME CInv, [Next]_vars PROVE CInv'
    <3>1. TypeOK' BY <2>1, NextTyped DEF CInv, PInv
    <3>2. Running' BY <2>1, NextRunning, JournalConstants DEF CInv, PInv
    <3>3. Behind' /\ Committed' BY <2>1, NextPassed, JournalConstants DEF CInv
    <3>4. Whole' /\ Waiting' /\ OkReadIsComplete' BY <2>1, NextComplete, JournalConstants
    <3> QED BY <3>1, <3>2, <3>3, <3>4 DEF CInv, PInv
  <2> QED BY <2>1
<1>3. CInv => OkReadIsComplete
  BY DEF CInv
<1> QED BY <1>1, <1>2, <1>3, PTL DEF Spec
=============================================================================
