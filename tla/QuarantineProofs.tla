-------------------------- MODULE QuarantineProofs --------------------------
(***************************************************************************)
(* Proofs about QuarantineVault for any paths, files, entries and helper   *)
(* processes.  What the stores say of an entry agrees whatever happens.    *)
(* That no bytes are lost holds for every fault but two: a file another    *)
(* program writes inside the copy-to-unlink window, and two restores to    *)
(* one path at once.                                                       *)
(*                                                                         *)
(* ContentSurvives is not inductive: a payload that a step is about to     *)
(* remove cannot be what keeps its bytes.  Home counts only the files and  *)
(* payloads that no step may take away as things stand, and each step that *)
(* moves a file hands its bytes from one home to the next.                 *)
(***************************************************************************)
EXTENDS QuarantineVault, TLAPS

QSteps == {"q_asked", "q_read", "q_stored", "q_recorded", "q_done"}
RSteps == {"r_asked", "r_read", "r_clear", "r_placed", "r_done"}

\* No other program writes between two steps of one operation on a file, and no
\* two restores to one path are under way at once.
Undisturbed == "outsider" \notin Faults
NoRace == "race" \notin Faults
Alone == Undisturbed /\ NoRace

\* The payload of an id is the bytes d, or it was tampered with and they are lost.
Keeps(i, d) == IF i \in tampered THEN d \in given_up ELSE payload[i] = d

\* The UI thread's operation: an id being made is listed nowhere, and what is
\* copied or placed is still where it was found or put.
GuiOK ==
  /\ gui.step # "idle" => gui.id \in 1..used
  /\ ~alive => gui.step = "idle"
  /\ gui.step \in {"copied", "removed", "placed"} => gui.path \in Owned
  /\ gui.step \in {"copied", "removed"} =>
        /\ gui.data \in Files /\ Keeps(gui.id, gui.data)
        /\ meta[gui.id] = None /\ known[gui.id] = None /\ record[gui.id] = None
  /\ Undisturbed /\ gui.step \in {"copied", "placed"} => file[gui.path] = gui.data
  /\ gui.step = "placed" => known[gui.id] # None

\* A helper process.
SlotOK(s) ==
  /\ call[s].step # "free" => call[s].id \in 1..used /\ call[s].path \in Rooted
  /\ call[s].step \notin {"free", "q_asked", "r_asked"} => call[s].data \in Files
  /\ call[s].step \in QSteps =>
        /\ meta[call[s].id] = None /\ known[call[s].id] = None
        /\ gui.step # "idle" => gui.id # call[s].id
  /\ call[s].step # "free" /\ gui.step \in {"copied", "removed"} => gui.id # call[s].id
  /\ call[s].step \in {"q_asked", "q_read"} =>
        payload[call[s].id] = None /\ call[s].id \notin tampered
  /\ call[s].step \in {"q_asked", "q_read", "q_stored"} => record[call[s].id] = None
  /\ call[s].step \in {"q_stored", "q_recorded", "q_done"} => Keeps(call[s].id, call[s].data)
  /\ call[s].step \in {"q_recorded", "q_done"} \/ (NoRace /\ call[s].step \in {"r_read", "r_clear"}) =>
        record[call[s].id] = [path |-> call[s].path, sha |-> call[s].data]
  /\ call[s].step \in RSteps /\ record[call[s].id] # None =>
        record[call[s].id].path = call[s].path
  /\ Alone /\ call[s].step = "r_clear" => file[call[s].path] = None

\* Two helper processes: an id being made is one's alone, and two restores
\* under way are to two paths.
PairOK(s, t) ==
  /\ call[s].step \in QSteps /\ call[t].step # "free" => call[t].id # call[s].id
  /\ NoRace /\ call[s].step \in RSteps /\ call[t].step \in RSteps => call[s].path # call[t].path

\* What the stores say of one id agrees, unless its payload was tampered with
\* or shredded; an id not made yet has nothing.
IdOK(i) ==
  /\ i > used => /\ payload[i] = None /\ meta[i] = None /\ record[i] = None
                  /\ known[i] = None /\ i \notin tampered
  /\ known[i] # None => /\ record[i] # None => record[i].path = known[i].path
                        /\ payload[i] \in Files /\ i \notin tampered =>
                             payload[i] = known[i].sha
  /\ meta[i] # None => /\ record[i] # None => record[i].path = meta[i].path
                       /\ payload[i] \in Files /\ i \notin tampered =>
                            payload[i] = meta[i].sha
  /\ record[i] # None /\ payload[i] \in Files /\ i \notin tampered =>
       payload[i] = record[i].sha

\* A payload some step may take away, and a file one may.
Passing(i) ==
  \/ i \in tampered
  \/ gui.id = i /\ gui.step \in {"copied", "leaving", "shredded", "left"}
  \/ \E s \in Slots : /\ call[s].id = i
                      /\ call[s].step \in {"q_stored", "q_recorded", "r_placed", "r_done"}
Unsure(p) == gui.step = "placed" /\ gui.path = p

InFiles(c) == \E p \in Paths : file[p] = c /\ ~Unsure(p)
InVault(c) == \E i \in Ids : payload[i] = c /\ ~Passing(i)
Home == \A c \in seen \ given_up : InFiles(c) \/ InVault(c)

VInv == /\ TypeOK /\ GuiOK
        /\ \A s \in Slots : SlotOK(s)
        /\ \A s, t \in Slots : s # t => PairOK(s, t)
        /\ \A i \in Ids : IdOK(i)
        /\ Alone => Home


-----------------------------------------------------------------------------
\* Where bytes are after a step: kept, or given up by it.
Moved(c) == InFiles(c)' \/ InVault(c)' \/ c \in given_up'

\* It is enough to look at what each home becomes.
LEMMA HomeMoves ==
  ASSUME Home, SeenTypes, \A c \in seen' \ seen : InFiles(c)', given_up \subseteq given_up',
         \A c \in Files, q \in Paths : file[q] = c /\ ~Unsure(q) => Moved(c),
         \A c \in Files, j \in Ids : payload[j] = c /\ ~Passing(j) => Moved(c)
  PROVE  Home'
<1> SUFFICES ASSUME NEW c \in seen' \ given_up' PROVE InFiles(c)' \/ InVault(c)'
  BY DEF Home
<1> SUFFICES ASSUME c \in seen PROVE InFiles(c)' \/ InVault(c)'
  OBVIOUS
<1>1. c \in seen \ given_up /\ c \in Files /\ c \notin given_up'
  BY DEF SeenTypes
<1>2. CASE InFiles(c)
  <2>1. PICK q \in Paths : file[q] = c /\ ~Unsure(q)
    BY <1>2 DEF InFiles
  <2> QED  BY <2>1, <1>1 DEF Moved, InFiles, InVault, Unsure, Passing
<1>3. CASE InVault(c)
  <2>1. PICK j \in Ids : payload[j] = c /\ ~Passing(j)
    BY <1>3 DEF InVault
  <2> QED  BY <2>1, <1>1 DEF Moved, InFiles, InVault, Unsure, Passing
<1> QED  BY <1>1, <1>2, <1>3 DEF Home

USE VaultBounds, NoneIsNoEntry DEF disk, Ready, NewId, Idle, Free, WithoutPayload, WithoutSidecar,
    Unlinked, Vacant, Quiet, Matches, QSteps, RSteps, Ids, Paths

\* Every id that is worked on is one of Ids.
LEMMA InRange ==
  ASSUME VInv
  PROVE  /\ gui.step # "idle" => gui.id \in Ids /\ gui.id <= used
         /\ \A s \in Slots : call[s].step # "free" => call[s].id \in Ids /\ call[s].id <= used
<1>1. used \in Nat /\ used <= MaxEntries
  BY DEF VInv, TypeOK, WorkTypes
<1>2. gui.step # "idle" => gui.id \in 1..used
  BY DEF VInv, GuiOK
<1>3. \A s \in Slots : call[s].step # "free" => call[s].id \in 1..used
  BY DEF VInv, SlotOK
<1> QED  BY <1>1, <1>2, <1>3

\* What a helper's step leaves of its own slot and of the others.
LEMMA SlotAdvances ==
  ASSUME CallTypes, NEW s \in Slots, NEW step \in CallSteps, Advance(s, step)
  PROVE  /\ CallTypes'
         /\ call'[s].step = step /\ call'[s].id = call[s].id
         /\ call'[s].path = call[s].path /\ call'[s].data = call[s].data
         /\ \A t \in Slots : t # s => call'[t] = call[t]
BY DEF CallTypes, Call, Advance

LEMMA SlotReads ==
  ASSUME CallTypes, NEW s \in Slots, NEW step \in CallSteps, NEW d \in Files,
         call' = [call EXCEPT ![s].step = step, ![s].data = d]
  PROVE  /\ CallTypes'
         /\ call'[s].step = step /\ call'[s].id = call[s].id
         /\ call'[s].path = call[s].path /\ call'[s].data = d
         /\ \A t \in Slots : t # s => call'[t] = call[t]
BY DEF CallTypes, Call

LEMMA GiveUp ==
  ASSUME VInv, NEW s \in Slots, Fail(s), UNCHANGED disk,
         UNCHANGED <<gui, alive, used, known, seen, tampered, given_up>>
  PROVE  VInv'
<1>0. /\ CallTypes' /\ call'[s] = Free
       /\ \A t \in Slots : t # s => call'[t] = call[t]
  BY DEF VInv, TypeOK, CallTypes, Call, CallSteps, Fail
<1>1. TypeOK'
  BY <1>0, InRange DEF VInv, GuiOK, SlotOK, TypeOK, DiskTypes, WorkTypes, CallTypes, SeenTypes, Operation, Call, GuiSteps, CallSteps, Entry, Bytes
<1>2. GuiOK'
  BY <1>0, InRange DEF VInv, GuiOK, SlotOK, IdOK, Keeps, TypeOK, DiskTypes, WorkTypes, CallTypes, Operation, Call, Entry
<1>3. ASSUME NEW t \in Slots PROVE SlotOK(t)'
  <2>1. CASE t = s
    BY <1>0, <2>1, InRange DEF VInv, GuiOK, SlotOK, IdOK, Keeps, TypeOK, DiskTypes, WorkTypes, CallTypes, Operation, Call, Entry
  <2>2. CASE t # s
    <3>1. SlotOK(t) /\ SlotOK(s) /\ PairOK(s, t) /\ PairOK(t, s)
      BY <2>2 DEF VInv
    <3> QED  BY <1>0, <2>2, <3>1, InRange DEF VInv, SlotOK, PairOK, IdOK, Keeps, TypeOK, DiskTypes, WorkTypes, CallTypes, Operation, Call, Entry
  <2> QED  BY <2>1, <2>2
<1>4. ASSUME NEW t \in Slots, NEW u \in Slots, t # u PROVE PairOK(t, u)'
  <2>1. PairOK(t, u) /\ SlotOK(t) /\ SlotOK(u)
    BY <1>4 DEF VInv
  <2> QED  BY <1>0, <1>4, <2>1 DEF PairOK, SlotOK
<1>5. ASSUME NEW j \in Ids PROVE IdOK(j)'
  BY <1>0, InRange DEF VInv, GuiOK, SlotOK, IdOK, Keeps, TypeOK, DiskTypes, WorkTypes, CallTypes, Operation, Call, Entry
<1>6. Alone => Home'
  <2> SUFFICES ASSUME Alone PROVE Home'
    OBVIOUS
  <2>1. \A j \in Ids : Passing(j)' => Passing(j)
    BY <1>0, InRange DEF Passing, VInv, TypeOK, CallTypes, WorkTypes, Operation, Call
  <2>2. \A q \in Paths : Unsure(q)' => Unsure(q)
    BY <1>0, InRange DEF Unsure, VInv, TypeOK, WorkTypes, Operation
  <2>3. ASSUME NEW c \in Files, NEW q \in Paths, file[q] = c, ~Unsure(q)
        PROVE  Moved(c)
    BY <1>0, <2>1, <2>2, <2>3, InRange DEF VInv, GuiOK, SlotOK, Keeps, Moved, InFiles, InVault, TypeOK, DiskTypes, WorkTypes
  <2>4. ASSUME NEW c \in Files, NEW j \in Ids, payload[j] = c, ~Passing(j)
        PROVE  Moved(c)
    BY <1>0, <2>1, <2>2, <2>4, InRange DEF VInv, GuiOK, SlotOK, IdOK, Keeps, Moved, InFiles, InVault, TypeOK, DiskTypes, WorkTypes
  <2> QED  BY <2>3, <2>4, HomeMoves DEF VInv, TypeOK, SeenTypes
<1> QED  BY <1>1, <1>2, <1>3, <1>4, <1>5, <1>6 DEF VInv

LEMMA ReadOne ==
  ASSUME VInv, NEW s \in Slots, call[s].step = "q_asked", file[call[s].path] \in Files,
         call' = [call EXCEPT ![s].step = "q_read", ![s].data = file[call[s].path]],
         UNCHANGED disk, UNCHANGED <<gui, alive, used, known, seen, tampered, given_up>>
  PROVE  VInv'
<1>0. /\ CallTypes'
       /\ call'[s].step = "q_read" /\ call'[s].id = call[s].id
       /\ call'[s].path = call[s].path /\ call'[s].data = file[call[s].path]
       /\ \A t \in Slots : t # s => call'[t] = call[t]
  BY SlotReads DEF VInv, TypeOK, CallSteps
<1>1. TypeOK'
  BY <1>0, InRange DEF VInv, GuiOK, SlotOK, TypeOK, DiskTypes, WorkTypes, CallTypes, SeenTypes, Operation, Call, GuiSteps, CallSteps, Entry, Bytes
<1>2. GuiOK'
  BY <1>0, InRange DEF VInv, GuiOK, SlotOK, IdOK, Keeps, TypeOK, DiskTypes, WorkTypes, CallTypes, Operation, Call, Entry
<1>3. ASSUME NEW t \in Slots PROVE SlotOK(t)'
  <2>1. CASE t = s
    <3>1. SlotOK(s)
      BY DEF VInv
    <3> QED  BY <1>0, <2>1, <3>1 DEF SlotOK
  <2>2. CASE t # s
    <3>1. SlotOK(t) /\ SlotOK(s) /\ PairOK(s, t) /\ PairOK(t, s)
      BY <2>2 DEF VInv
    <3> QED  BY <1>0, <2>2, <3>1, InRange DEF VInv, SlotOK, PairOK, IdOK, Keeps, TypeOK, DiskTypes, WorkTypes, CallTypes, Operation, Call, Entry
  <2> QED  BY <2>1, <2>2
<1>4. ASSUME NEW t \in Slots, NEW u \in Slots, t # u PROVE PairOK(t, u)'
  <2>1. PairOK(t, u) /\ SlotOK(t) /\ SlotOK(u)
    BY <1>4 DEF VInv
  <2> QED  BY <1>0, <1>4, <2>1 DEF PairOK, SlotOK
<1>5. ASSUME NEW j \in Ids PROVE IdOK(j)'
  BY <1>0, InRange DEF VInv, GuiOK, SlotOK, IdOK, Keeps, TypeOK, DiskTypes, WorkTypes, CallTypes, Operation, Call, Entry
<1>6. Alone => Home'
  <2> SUFFICES ASSUME Alone PROVE Home'
    OBVIOUS
  <2>1. \A j \in Ids : Passing(j)' => Passing(j)
    BY <1>0, InRange DEF Passing, VInv, TypeOK, CallTypes, WorkTypes, Operation, Call
  <2>2. \A q \in Paths : Unsure(q)' => Unsure(q)
    BY <1>0, InRange DEF Unsure, VInv, TypeOK, WorkTypes, Operation
  <2>3. ASSUME NEW c \in Files, NEW q \in Paths, file[q] = c, ~Unsure(q)
        PROVE  Moved(c)
    BY <1>0, <2>1, <2>2, <2>3, InRange DEF VInv, GuiOK, SlotOK, Keeps, Moved, InFiles, InVault, TypeOK, DiskTypes, WorkTypes
  <2>4. ASSUME NEW c \in Files, NEW j \in Ids, payload[j] = c, ~Passing(j)
        PROVE  Moved(c)
    BY <1>0, <2>1, <2>2, <2>4, InRange DEF VInv, GuiOK, SlotOK, IdOK, Keeps, Moved, InFiles, InVault, TypeOK, DiskTypes, WorkTypes
  <2> QED  BY <2>3, <2>4, HomeMoves DEF VInv, TypeOK, SeenTypes
<1> QED  BY <1>1, <1>2, <1>3, <1>4, <1>5, <1>6 DEF VInv

LEMMA StoreOne ==
  ASSUME VInv, NEW s \in Slots, call[s].step = "q_read", Advance(s, "q_stored"),
         payload' = [payload EXCEPT ![call[s].id] = call[s].data],
         UNCHANGED <<file, meta, record>>, UNCHANGED <<gui, alive, used, known, seen, tampered, given_up>>
  PROVE  VInv'
<1>0. /\ CallTypes'
       /\ call'[s].step = "q_stored" /\ call'[s].id = call[s].id
       /\ call'[s].path = call[s].path /\ call'[s].data = call[s].data
       /\ \A t \in Slots : t # s => call'[t] = call[t]
  BY SlotAdvances DEF VInv, TypeOK, CallSteps
<1>1. TypeOK'
  BY <1>0, InRange DEF VInv, GuiOK, SlotOK, TypeOK, DiskTypes, WorkTypes, CallTypes, SeenTypes, Operation, Call, GuiSteps, CallSteps, Entry, Bytes
<1>2. GuiOK'
  BY <1>0, InRange DEF VInv, GuiOK, SlotOK, IdOK, Keeps, TypeOK, DiskTypes, WorkTypes, CallTypes, Operation, Call, Entry
<1>3. ASSUME NEW t \in Slots PROVE SlotOK(t)'
  <2>1. CASE t = s
    BY <1>0, <2>1, InRange DEF VInv, GuiOK, SlotOK, IdOK, Keeps, TypeOK, DiskTypes, WorkTypes, CallTypes, Operation, Call, Entry
  <2>2. CASE t # s
    <3>1. SlotOK(t) /\ SlotOK(s) /\ PairOK(s, t) /\ PairOK(t, s)
      BY <2>2 DEF VInv
    <3> QED  BY <1>0, <2>2, <3>1, InRange DEF VInv, SlotOK, PairOK, IdOK, Keeps, TypeOK, DiskTypes, WorkTypes, CallTypes, Operation, Call, Entry
  <2> QED  BY <2>1, <2>2
<1>4. ASSUME NEW t \in Slots, NEW u \in Slots, t # u PROVE PairOK(t, u)'
  <2>1. PairOK(t, u) /\ SlotOK(t) /\ SlotOK(u)
    BY <1>4 DEF VInv
  <2> QED  BY <1>0, <1>4, <2>1 DEF PairOK, SlotOK
<1>5. ASSUME NEW j \in Ids PROVE IdOK(j)'
  <2>1. CASE j = call[s].id
    <3>1. SlotOK(s) /\ IdOK(j) /\ call[s].id <= used /\ used \in Nat /\ call[s].id \in Nat
      BY InRange DEF VInv, TypeOK, WorkTypes
    <3> QED  BY <2>1, <3>1 DEF SlotOK, IdOK
  <2>2. CASE j # call[s].id
    <3>1. payload'[j] = payload[j]
      BY <2>2 DEF VInv, TypeOK, DiskTypes
    <3> QED  BY <3>1 DEF VInv, IdOK
  <2> QED  BY <2>1, <2>2
<1>6. Alone => Home'
  <2> SUFFICES ASSUME Alone PROVE Home'
    OBVIOUS
  <2>1. \A j \in Ids : Passing(j)' => Passing(j) \/ j = call[s].id
    BY <1>0, InRange DEF Passing, VInv, TypeOK, CallTypes, WorkTypes, Operation, Call
  <2>2. \A q \in Paths : Unsure(q)' => Unsure(q)
    BY <1>0, InRange DEF Unsure, VInv, TypeOK, WorkTypes, Operation
  <2>3. ASSUME NEW c \in Files, NEW q \in Paths, file[q] = c, ~Unsure(q)
        PROVE  Moved(c)
    BY <1>0, <2>1, <2>2, <2>3, InRange DEF VInv, GuiOK, SlotOK, Keeps, Moved, InFiles, InVault, TypeOK, DiskTypes, WorkTypes
  <2>4. ASSUME NEW c \in Files, NEW j \in Ids, payload[j] = c, ~Passing(j)
        PROVE  Moved(c)
    BY <1>0, <2>1, <2>2, <2>4, InRange DEF VInv, GuiOK, SlotOK, IdOK, Keeps, Moved, InFiles, InVault, TypeOK, DiskTypes, WorkTypes
  <2> QED  BY <2>3, <2>4, HomeMoves DEF VInv, TypeOK, SeenTypes
<1> QED  BY <1>1, <1>2, <1>3, <1>4, <1>5, <1>6 DEF VInv

LEMMA StoreNone ==
  ASSUME VInv, NEW s \in Slots, call[s].step = "q_read", Fail(s), NEW b \in {None, Torn},
         payload' = [payload EXCEPT ![call[s].id] = b],
         UNCHANGED <<file, meta, record>>, UNCHANGED <<gui, alive, used, known, seen, tampered, given_up>>
  PROVE  VInv'
<1>0. /\ CallTypes' /\ call'[s] = Free
       /\ \A t \in Slots : t # s => call'[t] = call[t]
  BY DEF VInv, TypeOK, CallTypes, Call, CallSteps, Fail
<1>1. TypeOK'
  BY <1>0, InRange DEF VInv, GuiOK, SlotOK, TypeOK, DiskTypes, WorkTypes, CallTypes, SeenTypes, Operation, Call, GuiSteps, CallSteps, Entry, Bytes
<1>2. GuiOK'
  BY <1>0, InRange DEF VInv, GuiOK, SlotOK, IdOK, Keeps, TypeOK, DiskTypes, WorkTypes, CallTypes, Operation, Call, Entry
<1>3. ASSUME NEW t \in Slots PROVE SlotOK(t)'
  <2>1. CASE t = s
    BY <1>0, <2>1, InRange DEF VInv, GuiOK, SlotOK, IdOK, Keeps, TypeOK, DiskTypes, WorkTypes, CallTypes, Operation, Call, Entry
  <2>2. CASE t # s
    <3>1. SlotOK(t) /\ SlotOK(s) /\ PairOK(s, t) /\ PairOK(t, s)
      BY <2>2 DEF VInv
    <3> QED  BY <1>0, <2>2, <3>1, InRange DEF VInv, SlotOK, PairOK, IdOK, Keeps, TypeOK, DiskTypes, WorkTypes, CallTypes, Operation, Call, Entry
  <2> QED  BY <2>1, <2>2
<1>4. ASSUME NEW t \in Slots, NEW u \in Slots, t # u PROVE PairOK(t, u)'
  <2>1. PairOK(t, u) /\ SlotOK(t) /\ SlotOK(u)
    BY <1>4 DEF VInv
  <2> QED  BY <1>0, <1>4, <2>1 DEF PairOK, SlotOK
<1>5. ASSUME NEW j \in Ids PROVE IdOK(j)'
  BY <1>0, InRange DEF VInv, GuiOK, SlotOK, IdOK, Keeps, TypeOK, DiskTypes, WorkTypes, CallTypes, Operation, Call, Entry
<1>6. Alone => Home'
  <2> SUFFICES ASSUME Alone PROVE Home'
    OBVIOUS
  <2>1. \A j \in Ids : Passing(j)' => Passing(j)
    BY <1>0, InRange DEF Passing, VInv, TypeOK, CallTypes, WorkTypes, Operation, Call
  <2>2. \A q \in Paths : Unsure(q)' => Unsure(q)
    BY <1>0, InRange DEF Unsure, VInv, TypeOK, WorkTypes, Operation
  <2>3. ASSUME NEW c \in Files, NEW q \in Paths, file[q] = c, ~Unsure(q)
        PROVE  Moved(c)
    BY <1>0, <2>1, <2>2, <2>3, InRange DEF VInv, GuiOK, SlotOK, Keeps, Moved, InFiles, InVault, TypeOK, DiskTypes, WorkTypes
  <2>4. ASSUME NEW c \in Files, NEW j \in Ids, payload[j] = c, ~Passing(j)
        PROVE  Moved(c)
    <3>1. payload[call[s].id] = None /\ call[s].id \in Ids
      BY InRange DEF VInv, SlotOK
    <3>2. payload'[j] = payload[j]
      BY <2>4, <3>1 DEF VInv, TypeOK, DiskTypes
    <3> QED  BY <2>1, <2>4, <3>2 DEF Moved, InVault
  <2> QED  BY <2>3, <2>4, HomeMoves DEF VInv, TypeOK, SeenTypes
<1> QED  BY <1>1, <1>2, <1>3, <1>4, <1>5, <1>6 DEF VInv

LEMMA RecordOne ==
  ASSUME VInv, NEW s \in Slots, call[s].step = "q_stored", Advance(s, "q_recorded"),
         record' = [record EXCEPT ![call[s].id] = [path |-> call[s].path, sha |-> call[s].data]],
         UNCHANGED <<file, meta, payload>>, UNCHANGED <<gui, alive, used, known, seen, tampered, given_up>>
  PROVE  VInv'
<1>0. /\ CallTypes'
       /\ call'[s].step = "q_recorded" /\ call'[s].id = call[s].id
       /\ call'[s].path = call[s].path /\ call'[s].data = call[s].data
       /\ \A t \in Slots : t # s => call'[t] = call[t]
  BY SlotAdvances DEF VInv, TypeOK, CallSteps
<1>1. TypeOK'
  BY <1>0, InRange DEF VInv, GuiOK, SlotOK, TypeOK, DiskTypes, WorkTypes, CallTypes, SeenTypes, Operation, Call, GuiSteps, CallSteps, Entry, Bytes
<1>2. GuiOK'
  BY <1>0, InRange DEF VInv, GuiOK, SlotOK, IdOK, Keeps, TypeOK, DiskTypes, WorkTypes, CallTypes, Operation, Call, Entry
<1>3. ASSUME NEW t \in Slots PROVE SlotOK(t)'
  <2>1. CASE t = s
    BY <1>0, <2>1, InRange DEF VInv, GuiOK, SlotOK, IdOK, Keeps, TypeOK, DiskTypes, WorkTypes, CallTypes, Operation, Call, Entry
  <2>2. CASE t # s
    <3>1. SlotOK(t) /\ SlotOK(s) /\ PairOK(s, t) /\ PairOK(t, s)
      BY <2>2 DEF VInv
    <3> QED  BY <1>0, <2>2, <3>1, InRange DEF VInv, SlotOK, PairOK, IdOK, Keeps, TypeOK, DiskTypes, WorkTypes, CallTypes, Operation, Call, Entry
  <2> QED  BY <2>1, <2>2
<1>4. ASSUME NEW t \in Slots, NEW u \in Slots, t # u PROVE PairOK(t, u)'
  <2>1. PairOK(t, u) /\ SlotOK(t) /\ SlotOK(u)
    BY <1>4 DEF VInv
  <2> QED  BY <1>0, <1>4, <2>1 DEF PairOK, SlotOK
<1>5. ASSUME NEW j \in Ids PROVE IdOK(j)'
  BY <1>0, InRange DEF VInv, GuiOK, SlotOK, IdOK, Keeps, TypeOK, DiskTypes, WorkTypes, CallTypes, Operation, Call, Entry
<1>6. Alone => Home'
  <2> SUFFICES ASSUME Alone PROVE Home'
    OBVIOUS
  <2>1. \A j \in Ids : Passing(j)' => Passing(j)
    BY <1>0, InRange DEF Passing, VInv, TypeOK, CallTypes, WorkTypes, Operation, Call
  <2>2. \A q \in Paths : Unsure(q)' => Unsure(q)
    BY <1>0, InRange DEF Unsure, VInv, TypeOK, WorkTypes, Operation
  <2>3. ASSUME NEW c \in Files, NEW q \in Paths, file[q] = c, ~Unsure(q)
        PROVE  Moved(c)
    BY <1>0, <2>1, <2>2, <2>3, InRange DEF VInv, GuiOK, SlotOK, Keeps, Moved, InFiles, InVault, TypeOK, DiskTypes, WorkTypes
  <2>4. ASSUME NEW c \in Files, NEW j \in Ids, payload[j] = c, ~Passing(j)
        PROVE  Moved(c)
    BY <1>0, <2>1, <2>2, <2>4, InRange DEF VInv, GuiOK, SlotOK, IdOK, Keeps, Moved, InFiles, InVault, TypeOK, DiskTypes, WorkTypes
  <2> QED  BY <2>3, <2>4, HomeMoves DEF VInv, TypeOK, SeenTypes
<1> QED  BY <1>1, <1>2, <1>3, <1>4, <1>5, <1>6 DEF VInv

LEMMA RemoveOne ==
  ASSUME VInv, NEW s \in Slots, call[s].step = "q_recorded", Advance(s, "q_done"),
         file[call[s].path] = call[s].data, file' = Unlinked(call[s].path),
         UNCHANGED <<payload, meta, record>>, UNCHANGED <<gui, alive, used, known, seen, tampered, given_up>>
  PROVE  VInv'
<1>0. /\ CallTypes'
       /\ call'[s].step = "q_done" /\ call'[s].id = call[s].id
       /\ call'[s].path = call[s].path /\ call'[s].data = call[s].data
       /\ \A t \in Slots : t # s => call'[t] = call[t]
  BY SlotAdvances DEF VInv, TypeOK, CallSteps
<1>1. TypeOK'
  BY <1>0, InRange DEF VInv, GuiOK, SlotOK, TypeOK, DiskTypes, WorkTypes, CallTypes, SeenTypes, Operation, Call, GuiSteps, CallSteps, Entry, Bytes
<1>2. GuiOK'
  BY <1>0, InRange DEF VInv, GuiOK, SlotOK, IdOK, Keeps, TypeOK, DiskTypes, WorkTypes, CallTypes, Operation, Call, Entry
<1>3. ASSUME NEW t \in Slots PROVE SlotOK(t)'
  <2>1. CASE t = s
    BY <1>0, <2>1, InRange DEF VInv, GuiOK, SlotOK, IdOK, Keeps, TypeOK, DiskTypes, WorkTypes, CallTypes, Operation, Call, Entry
  <2>2. CASE t # s
    <3>1. SlotOK(t) /\ SlotOK(s) /\ PairOK(s, t) /\ PairOK(t, s)
      BY <2>2 DEF VInv
    <3> QED  BY <1>0, <2>2, <3>1, InRange DEF VInv, SlotOK, PairOK, IdOK, Keeps, TypeOK, DiskTypes, WorkTypes, CallTypes, Operation, Call, Entry
  <2> QED  BY <2>1, <2>2
<1>4. ASSUME NEW t \in Slots, NEW u \in Slots, t # u PROVE PairOK(t, u)'
  <2>1. PairOK(t, u) /\ SlotOK(t) /\ SlotOK(u)
    BY <1>4 DEF VInv
  <2> QED  BY <1>0, <1>4, <2>1 DEF PairOK, SlotOK
<1>5. ASSUME NEW j \in Ids PROVE IdOK(j)'
  BY <1>0, InRange DEF VInv, GuiOK, SlotOK, IdOK, Keeps, TypeOK, DiskTypes, WorkTypes, CallTypes, Operation, Call, Entry
<1>6. Alone => Home'
  <2> SUFFICES ASSUME Alone PROVE Home'
    OBVIOUS
  <2>1. \A j \in Ids : Passing(j)' => Passing(j)
    BY <1>0, InRange DEF Passing, VInv, TypeOK, CallTypes, WorkTypes, Operation, Call
  <2>2. \A q \in Paths : Unsure(q)' => Unsure(q)
    BY <1>0, InRange DEF Unsure, VInv, TypeOK, WorkTypes, Operation
  <2>3. ASSUME NEW c \in Files, NEW q \in Paths, file[q] = c, ~Unsure(q)
        PROVE  Moved(c)
    <3>1. CASE q # call[s].path
      <4>1. file'[q] = file[q]
        BY <2>3, <3>1 DEF VInv, TypeOK, DiskTypes
      <4> QED  BY <2>2, <2>3, <4>1 DEF Moved, InFiles
    <3>2. CASE q = call[s].path
      <4>1. PICK d \in Ids : d = call[s].id /\ Keeps(d, c)
        BY <2>3, <3>2, InRange DEF VInv, GuiOK, SlotOK
      <4>2. CASE d \in tampered
        BY <4>1, <4>2 DEF Keeps, Moved
      <4>3. CASE d \notin tampered
        <5>1. \A t \in Slots : call'[t].step \in {"q_stored", "q_recorded", "r_placed", "r_done"} =>
                 call'[t].id # d
          BY <1>0, <4>1, InRange DEF VInv, GuiOK, SlotOK, PairOK
        <5>2. gui'.step \in {"copied", "leaving", "shredded", "left"} => gui'.id # d
          BY <1>0, <4>1 DEF VInv, GuiOK, SlotOK, TypeOK, WorkTypes, Operation
        <5>3. ~Passing(d)'
          BY <4>3, <5>1, <5>2 DEF Passing
        <5>4. payload'[d] = c
          BY <4>1, <4>3 DEF Keeps
        <5> QED  BY <5>3, <5>4 DEF Moved, InVault
      <4> QED  BY <4>2, <4>3
    <3> QED  BY <3>1, <3>2
  <2>4. ASSUME NEW c \in Files, NEW j \in Ids, payload[j] = c, ~Passing(j)
        PROVE  Moved(c)
    BY <1>0, <2>1, <2>2, <2>4, InRange DEF VInv, GuiOK, SlotOK, IdOK, Keeps, Moved, InFiles, InVault, TypeOK, DiskTypes, WorkTypes
  <2> QED  BY <2>3, <2>4, HomeMoves DEF VInv, TypeOK, SeenTypes
<1> QED  BY <1>1, <1>2, <1>3, <1>4, <1>5, <1>6 DEF VInv

LEMMA RollBack ==
  ASSUME VInv, NEW s \in Slots, call[s].step = "q_recorded", Fail(s), payload' = WithoutPayload(call[s].id),
         record' = [record EXCEPT ![call[s].id] = None],
         UNCHANGED <<file, meta>>, UNCHANGED <<gui, alive, used, known, seen, tampered, given_up>>
  PROVE  VInv'
<1>0. /\ CallTypes' /\ call'[s] = Free
       /\ \A t \in Slots : t # s => call'[t] = call[t]
  BY DEF VInv, TypeOK, CallTypes, Call, CallSteps, Fail
<1>1. TypeOK'
  BY <1>0, InRange DEF VInv, GuiOK, SlotOK, TypeOK, DiskTypes, WorkTypes, CallTypes, SeenTypes, Operation, Call, GuiSteps, CallSteps, Entry, Bytes
<1>2. GuiOK'
  BY <1>0, InRange DEF VInv, GuiOK, SlotOK, IdOK, Keeps, TypeOK, DiskTypes, WorkTypes, CallTypes, Operation, Call, Entry
<1>3. ASSUME NEW t \in Slots PROVE SlotOK(t)'
  <2>1. CASE t = s
    BY <1>0, <2>1, InRange DEF VInv, GuiOK, SlotOK, IdOK, Keeps, TypeOK, DiskTypes, WorkTypes, CallTypes, Operation, Call, Entry
  <2>2. CASE t # s
    <3>1. SlotOK(t) /\ SlotOK(s) /\ PairOK(s, t) /\ PairOK(t, s)
      BY <2>2 DEF VInv
    <3> QED  BY <1>0, <2>2, <3>1, InRange DEF VInv, SlotOK, PairOK, IdOK, Keeps, TypeOK, DiskTypes, WorkTypes, CallTypes, Operation, Call, Entry
  <2> QED  BY <2>1, <2>2
<1>4. ASSUME NEW t \in Slots, NEW u \in Slots, t # u PROVE PairOK(t, u)'
  <2>1. PairOK(t, u) /\ SlotOK(t) /\ SlotOK(u)
    BY <1>4 DEF VInv
  <2> QED  BY <1>0, <1>4, <2>1 DEF PairOK, SlotOK
<1>5. ASSUME NEW j \in Ids PROVE IdOK(j)'
  BY <1>0, InRange DEF VInv, GuiOK, SlotOK, IdOK, Keeps, TypeOK, DiskTypes, WorkTypes, CallTypes, Operation, Call, Entry
<1>6. Alone => Home'
  <2> SUFFICES ASSUME Alone PROVE Home'
    OBVIOUS
  <2>1. \A j \in Ids : Passing(j)' => Passing(j)
    BY <1>0 DEF Passing, Free
  <2>2. \A q \in Paths : Unsure(q)' => Unsure(q)
    BY <1>0, InRange DEF Unsure, VInv, TypeOK, WorkTypes, Operation
  <2>3. ASSUME NEW c \in Files, NEW q \in Paths, file[q] = c, ~Unsure(q)
        PROVE  Moved(c)
    BY <1>0, <2>1, <2>2, <2>3, InRange DEF VInv, GuiOK, SlotOK, Keeps, Moved, InFiles, InVault, TypeOK, DiskTypes, WorkTypes
  <2>4. ASSUME NEW c \in Files, NEW j \in Ids, payload[j] = c, ~Passing(j)
        PROVE  Moved(c)
    <3>1. j # call[s].id
      BY <2>4 DEF Passing
    <3>2. payload'[j] = payload[j]
      BY <2>4, <3>1 DEF VInv, TypeOK, DiskTypes
    <3> QED  BY <2>1, <2>4, <3>2 DEF Moved, InVault
  <2> QED  BY <2>3, <2>4, HomeMoves DEF VInv, TypeOK, SeenTypes
<1> QED  BY <1>1, <1>2, <1>3, <1>4, <1>5, <1>6 DEF VInv

LEMMA ReportOne ==
  ASSUME VInv, NEW s \in Slots, call[s].step = "q_done", Fail(s), Ready,
         meta' = [meta EXCEPT ![call[s].id] = [path |-> call[s].path, sha |-> call[s].data]],
         known' = [known EXCEPT ![call[s].id] = [path |-> call[s].path, sha |-> call[s].data]],
         UNCHANGED <<file, payload, record, gui, alive, used, seen, tampered, given_up>>
  PROVE  VInv'
<1>0. /\ CallTypes' /\ call'[s] = Free
       /\ \A t \in Slots : t # s => call'[t] = call[t]
  BY DEF VInv, TypeOK, CallTypes, Call, CallSteps, Fail
<1>1. TypeOK'
  BY <1>0, InRange DEF VInv, GuiOK, SlotOK, TypeOK, DiskTypes, WorkTypes, CallTypes, SeenTypes, Operation, Call, GuiSteps, CallSteps, Entry, Bytes
<1>2. GuiOK'
  BY <1>0, InRange DEF VInv, GuiOK, SlotOK, IdOK, Keeps, TypeOK, DiskTypes, WorkTypes, CallTypes, Operation, Call, Entry
<1>3. ASSUME NEW t \in Slots PROVE SlotOK(t)'
  <2>1. CASE t = s
    BY <1>0, <2>1 DEF VInv, SlotOK
  <2>2. CASE t # s
    <3>1. SlotOK(t) /\ SlotOK(s) /\ PairOK(s, t) /\ PairOK(t, s)
      BY <2>2 DEF VInv
    <3> QED  BY <1>0, <2>2, <3>1, InRange DEF VInv, SlotOK, PairOK, IdOK, Keeps, TypeOK, DiskTypes, WorkTypes, CallTypes, Operation, Call, Entry
  <2> QED  BY <2>1, <2>2
<1>4. ASSUME NEW t \in Slots, NEW u \in Slots, t # u PROVE PairOK(t, u)'
  <2>1. PairOK(t, u) /\ SlotOK(t) /\ SlotOK(u)
    BY <1>4 DEF VInv
  <2> QED  BY <1>0, <1>4, <2>1 DEF PairOK, SlotOK
<1>5. ASSUME NEW j \in Ids PROVE IdOK(j)'
  <2>0. /\ call[s].id \in Ids /\ call[s].data \in Files
        /\ record[call[s].id] = [path |-> call[s].path, sha |-> call[s].data]
        /\ Keeps(call[s].id, call[s].data)
    <3>1. SlotOK(s) /\ TypeOK
      BY DEF VInv
    <3>2. call[s].id \in 1..used /\ call[s].data \in Files
      BY <3>1 DEF SlotOK
    <3>3. call[s].id \in Ids
      BY <3>1, <3>2, InRange DEF TypeOK, WorkTypes
    <3>4. record[call[s].id] = [path |-> call[s].path, sha |-> call[s].data]
      BY <3>1 DEF SlotOK
    <3>5. Keeps(call[s].id, call[s].data)
      BY <3>1 DEF SlotOK
    <3> QED  BY <3>2, <3>3, <3>4, <3>5
  <2>1. CASE j = call[s].id
    <3>1. IdOK(j)
      BY DEF VInv
    <3>2. /\ known'[j] = [path |-> call[s].path, sha |-> call[s].data] /\ meta'[j] = known'[j]
          /\ known'[j].path = record[j].path /\ known'[j].sha = record[j].sha
      BY <2>0, <2>1 DEF VInv, TypeOK, DiskTypes, WorkTypes
    <3>3. j <= used
      BY <2>0, <2>1 DEF VInv, SlotOK, TypeOK, WorkTypes
    <3>4. j \notin tampered => payload[j] = known'[j].sha
      BY <2>0, <2>1, <3>2 DEF Keeps
    <3> QED  BY <2>0, <2>1, <3>1, <3>2, <3>3, <3>4 DEF IdOK, Keeps, VInv, TypeOK, WorkTypes
  <2>2. CASE j # call[s].id
    <3>1. IdOK(j) /\ known'[j] = known[j] /\ meta'[j] = meta[j]
      BY <2>0, <2>2 DEF VInv, TypeOK, DiskTypes, WorkTypes
    <3> QED  BY <3>1 DEF IdOK
  <2> QED  BY <2>1, <2>2
<1>6. Alone => Home'
  <2> SUFFICES ASSUME Alone PROVE Home'
    OBVIOUS
  <2>1. \A j \in Ids : Passing(j)' => Passing(j)
    BY <1>0 DEF Passing
  <2>2. \A q \in Paths : Unsure(q)' => Unsure(q)
    BY <1>0, InRange DEF Unsure, VInv, TypeOK, WorkTypes, Operation
  <2>3. ASSUME NEW c \in Files, NEW q \in Paths, file[q] = c, ~Unsure(q)
        PROVE  Moved(c)
    BY <1>0, <2>1, <2>2, <2>3, InRange DEF VInv, GuiOK, SlotOK, Keeps, Moved, InFiles, InVault, TypeOK, DiskTypes, WorkTypes
  <2>4. ASSUME NEW c \in Files, NEW j \in Ids, payload[j] = c, ~Passing(j)
        PROVE  Moved(c)
    BY <1>0, <2>1, <2>2, <2>4, InRange DEF VInv, GuiOK, SlotOK, IdOK, Keeps, Moved, InFiles, InVault, TypeOK, DiskTypes, WorkTypes
  <2> QED  BY <2>3, <2>4, HomeMoves DEF VInv, TypeOK, SeenTypes
<1> QED  BY <1>1, <1>2, <1>3, <1>4, <1>5, <1>6 DEF VInv

LEMMA SlotVerifies ==
  ASSUME CallTypes, NEW s \in Slots, NEW p \in Paths, NEW d \in Files,
         call' = [call EXCEPT ![s].step = "r_read", ![s].data = d, ![s].path = p]
  PROVE  /\ CallTypes'
         /\ call'[s].step = "r_read" /\ call'[s].id = call[s].id
         /\ call'[s].path = p /\ call'[s].data = d
         /\ \A t \in Slots : t # s => call'[t] = call[t]
<1>1. "r_read" \in CallSteps
  BY DEF CallSteps
<1> QED  BY <1>1 DEF CallTypes, Call

LEMMA VerifyOne ==
  ASSUME VInv, NEW s \in Slots, NEW p \in Paths, NEW d \in Files, call[s].step = "r_asked",
         record[call[s].id] = [path |-> p, sha |-> d], payload[call[s].id] = d,
         call' = [call EXCEPT ![s].step = "r_read", ![s].data = d, ![s].path = p],
         UNCHANGED disk, UNCHANGED <<gui, alive, used, known, seen, tampered, given_up>>
  PROVE  VInv'
<1>0. /\ CallTypes'
       /\ call'[s].step = "r_read" /\ call'[s].id = call[s].id
       /\ call'[s].path = call[s].path /\ call'[s].data = payload[call[s].id]
       /\ \A t \in Slots : t # s => call'[t] = call[t]
  <2>1. [path |-> p, sha |-> d] # None
    BY DEF Entry
  <2>2. record[call[s].id] # None /\ record[call[s].id].path = p
    BY <2>1
  <2>3. SlotOK(s) /\ CallTypes
    BY DEF VInv, TypeOK
  <2>4. p = call[s].path
    <3>1. record[call[s].id] # None => record[call[s].id].path = call[s].path
      BY <2>3 DEF SlotOK
    <3> QED  BY <2>2, <3>1
  <2>5. /\ CallTypes'
        /\ call'[s].step = "r_read" /\ call'[s].id = call[s].id
        /\ call'[s].path = p /\ call'[s].data = d
        /\ \A t \in Slots : t # s => call'[t] = call[t]
    BY <2>3, SlotVerifies
  <2> QED  BY <2>4, <2>5
<1>1. TypeOK'
  BY <1>0, InRange DEF VInv, GuiOK, SlotOK, TypeOK, DiskTypes, WorkTypes, CallTypes, SeenTypes, Operation, Call, GuiSteps, CallSteps, Entry, Bytes
<1>2. GuiOK'
  BY <1>0, InRange DEF VInv, GuiOK, SlotOK, IdOK, Keeps, TypeOK, DiskTypes, WorkTypes, CallTypes, Operation, Call, Entry
<1>3. ASSUME NEW t \in Slots PROVE SlotOK(t)'
  <2>1. CASE t = s
    BY <1>0, <2>1, InRange DEF VInv, GuiOK, SlotOK, IdOK, Keeps, TypeOK, DiskTypes, WorkTypes, CallTypes, Operation, Call, Entry
  <2>2. CASE t # s
    <3>1. SlotOK(t) /\ SlotOK(s) /\ PairOK(s, t) /\ PairOK(t, s)
      BY <2>2 DEF VInv
    <3> QED  BY <1>0, <2>2, <3>1, InRange DEF VInv, SlotOK, PairOK, IdOK, Keeps, TypeOK, DiskTypes, WorkTypes, CallTypes, Operation, Call, Entry
  <2> QED  BY <2>1, <2>2
<1>4. ASSUME NEW t \in Slots, NEW u \in Slots, t # u PROVE PairOK(t, u)'
  <2>1. PairOK(t, u) /\ SlotOK(t) /\ SlotOK(u)
    BY <1>4 DEF VInv
  <2> QED  BY <1>0, <1>4, <2>1 DEF PairOK, SlotOK
<1>5. ASSUME NEW j \in Ids PROVE IdOK(j)'
  BY <1>0, InRange DEF VInv, GuiOK, SlotOK, IdOK, Keeps, TypeOK, DiskTypes, WorkTypes, CallTypes, Operation, Call, Entry
<1>6. Alone => Home'
  <2> SUFFICES ASSUME Alone PROVE Home'
    OBVIOUS
  <2>1. \A j \in Ids : Passing(j)' => Passing(j)
    BY <1>0, InRange DEF Passing, VInv, TypeOK, CallTypes, WorkTypes, Operation, Call
  <2>2. \A q \in Paths : Unsure(q)' => Unsure(q)
    BY <1>0, InRange DEF Unsure, VInv, TypeOK, WorkTypes, Operation
  <2>3. ASSUME NEW c \in Files, NEW q \in Paths, file[q] = c, ~Unsure(q)
        PROVE  Moved(c)
    BY <1>0, <2>1, <2>2, <2>3, InRange DEF VInv, GuiOK, SlotOK, Keeps, Moved, InFiles, InVault, TypeOK, DiskTypes, WorkTypes
  <2>4. ASSUME NEW c \in Files, NEW j \in Ids, payload[j] = c, ~Passing(j)
        PROVE  Moved(c)
    BY <1>0, <2>1, <2>2, <2>4, InRange DEF VInv, GuiOK, SlotOK, IdOK, Keeps, Moved, InFiles, InVault, TypeOK, DiskTypes, WorkTypes
  <2> QED  BY <2>3, <2>4, HomeMoves DEF VInv, TypeOK, SeenTypes
<1> QED  BY <1>1, <1>2, <1>3, <1>4, <1>5, <1>6 DEF VInv

LEMMA SeeNoFile ==
  ASSUME VInv, NEW s \in Slots, call[s].step = "r_read", Advance(s, "r_clear"), Vacant(call[s].path),
         UNCHANGED disk, UNCHANGED <<gui, alive, used, known, seen, tampered, given_up>>
  PROVE  VInv'
<1>0. /\ CallTypes'
       /\ call'[s].step = "r_clear" /\ call'[s].id = call[s].id
       /\ call'[s].path = call[s].path /\ call'[s].data = call[s].data
       /\ \A t \in Slots : t # s => call'[t] = call[t]
  BY SlotAdvances DEF VInv, TypeOK, CallSteps
<1>1. TypeOK'
  BY <1>0, InRange DEF VInv, GuiOK, SlotOK, TypeOK, DiskTypes, WorkTypes, CallTypes, SeenTypes, Operation, Call, GuiSteps, CallSteps, Entry, Bytes
<1>2. GuiOK'
  BY <1>0, InRange DEF VInv, GuiOK, SlotOK, IdOK, Keeps, TypeOK, DiskTypes, WorkTypes, CallTypes, Operation, Call, Entry
<1>3. ASSUME NEW t \in Slots PROVE SlotOK(t)'
  <2>1. CASE t = s
    BY <1>0, <2>1, InRange DEF VInv, GuiOK, SlotOK, IdOK, Keeps, TypeOK, DiskTypes, WorkTypes, CallTypes, Operation, Call, Entry
  <2>2. CASE t # s
    <3>1. SlotOK(t) /\ SlotOK(s) /\ PairOK(s, t) /\ PairOK(t, s)
      BY <2>2 DEF VInv
    <3> QED  BY <1>0, <2>2, <3>1, InRange DEF VInv, SlotOK, PairOK, IdOK, Keeps, TypeOK, DiskTypes, WorkTypes, CallTypes, Operation, Call, Entry
  <2> QED  BY <2>1, <2>2
<1>4. ASSUME NEW t \in Slots, NEW u \in Slots, t # u PROVE PairOK(t, u)'
  <2>1. PairOK(t, u) /\ SlotOK(t) /\ SlotOK(u)
    BY <1>4 DEF VInv
  <2> QED  BY <1>0, <1>4, <2>1 DEF PairOK, SlotOK
<1>5. ASSUME NEW j \in Ids PROVE IdOK(j)'
  BY <1>0, InRange DEF VInv, GuiOK, SlotOK, IdOK, Keeps, TypeOK, DiskTypes, WorkTypes, CallTypes, Operation, Call, Entry
<1>6. Alone => Home'
  <2> SUFFICES ASSUME Alone PROVE Home'
    OBVIOUS
  <2>1. \A j \in Ids : Passing(j)' => Passing(j)
    BY <1>0, InRange DEF Passing, VInv, TypeOK, CallTypes, WorkTypes, Operation, Call
  <2>2. \A q \in Paths : Unsure(q)' => Unsure(q)
    BY <1>0, InRange DEF Unsure, VInv, TypeOK, WorkTypes, Operation
  <2>3. ASSUME NEW c \in Files, NEW q \in Paths, file[q] = c, ~Unsure(q)
        PROVE  Moved(c)
    BY <1>0, <2>1, <2>2, <2>3, InRange DEF VInv, GuiOK, SlotOK, Keeps, Moved, InFiles, InVault, TypeOK, DiskTypes, WorkTypes
  <2>4. ASSUME NEW c \in Files, NEW j \in Ids, payload[j] = c, ~Passing(j)
        PROVE  Moved(c)
    BY <1>0, <2>1, <2>2, <2>4, InRange DEF VInv, GuiOK, SlotOK, IdOK, Keeps, Moved, InFiles, InVault, TypeOK, DiskTypes, WorkTypes
  <2> QED  BY <2>3, <2>4, HomeMoves DEF VInv, TypeOK, SeenTypes
<1> QED  BY <1>1, <1>2, <1>3, <1>4, <1>5, <1>6 DEF VInv

LEMMA PlaceOne ==
  ASSUME VInv, NEW s \in Slots, call[s].step = "r_clear", Advance(s, "r_placed"),
         file' = [file EXCEPT ![call[s].path] = call[s].data],
         UNCHANGED <<payload, meta, record>>, UNCHANGED <<gui, alive, used, known, seen, tampered, given_up>>
  PROVE  VInv'
<1>0. /\ CallTypes'
       /\ call'[s].step = "r_placed" /\ call'[s].id = call[s].id
       /\ call'[s].path = call[s].path /\ call'[s].data = call[s].data
       /\ \A t \in Slots : t # s => call'[t] = call[t]
  BY SlotAdvances DEF VInv, TypeOK, CallSteps
<1>1. TypeOK'
  BY <1>0, InRange DEF VInv, GuiOK, SlotOK, TypeOK, DiskTypes, WorkTypes, CallTypes, SeenTypes, Operation, Call, GuiSteps, CallSteps, Entry, Bytes
<1>2. GuiOK'
  BY <1>0, InRange DEF VInv, GuiOK, SlotOK, IdOK, Keeps, TypeOK, DiskTypes, WorkTypes, CallTypes, Operation, Call, Entry
<1>3. ASSUME NEW t \in Slots PROVE SlotOK(t)'
  <2>1. CASE t = s
    BY <1>0, <2>1, InRange DEF VInv, GuiOK, SlotOK, IdOK, Keeps, TypeOK, DiskTypes, WorkTypes, CallTypes, Operation, Call, Entry
  <2>2. CASE t # s
    <3>1. SlotOK(t) /\ SlotOK(s) /\ PairOK(s, t) /\ PairOK(t, s)
      BY <2>2 DEF VInv
    <3> QED  BY <1>0, <2>2, <3>1, InRange DEF VInv, SlotOK, PairOK, Alone, IdOK, Keeps, TypeOK, DiskTypes, WorkTypes, CallTypes, Operation, Call, Entry
  <2> QED  BY <2>1, <2>2
<1>4. ASSUME NEW t \in Slots, NEW u \in Slots, t # u PROVE PairOK(t, u)'
  <2>1. PairOK(t, u) /\ SlotOK(t) /\ SlotOK(u)
    BY <1>4 DEF VInv
  <2> QED  BY <1>0, <1>4, <2>1 DEF PairOK, SlotOK
<1>5. ASSUME NEW j \in Ids PROVE IdOK(j)'
  BY <1>0, InRange DEF VInv, GuiOK, SlotOK, IdOK, Keeps, TypeOK, DiskTypes, WorkTypes, CallTypes, Operation, Call, Entry
<1>6. Alone => Home'
  <2> SUFFICES ASSUME Alone PROVE Home'
    OBVIOUS
  <2>1. \A j \in Ids : Passing(j)' => Passing(j) \/ j = call[s].id
    BY <1>0, InRange DEF Passing, VInv, TypeOK, CallTypes, WorkTypes, Operation, Call
  <2>2. \A q \in Paths : Unsure(q)' => Unsure(q)
    BY <1>0, InRange DEF Unsure, VInv, TypeOK, WorkTypes, Operation
  <2>3. ASSUME NEW c \in Files, NEW q \in Paths, file[q] = c, ~Unsure(q)
        PROVE  Moved(c)
    BY <1>0, <2>1, <2>2, <2>3, InRange DEF VInv, GuiOK, SlotOK, Keeps, Moved, InFiles, InVault, TypeOK, DiskTypes, WorkTypes
  <2>4. ASSUME NEW c \in Files, NEW j \in Ids, payload[j] = c, ~Passing(j)
        PROVE  Moved(c)
    <3>1. CASE j # call[s].id
      BY <2>1, <2>4, <3>1 DEF Moved, InVault
    <3>2. CASE j = call[s].id
      <4>1. record[j] = [path |-> call[s].path, sha |-> call[s].data]
        BY <3>2 DEF Alone, VInv, SlotOK
      <4>2. call[s].data = c
        <5>1. call[s].path \in Paths /\ call[s].data \in Files
          BY DEF VInv, SlotOK
        <5>2. record[j] # None
          BY <4>1, <5>1 DEF Entry
        <5>3. j \notin tampered
          BY <2>4 DEF Passing
        <5>4. payload[j] = record[j].sha
          BY <2>4, <5>2, <5>3 DEF VInv, IdOK
        <5> QED  BY <2>4, <4>1, <5>4
      <4>3. PICK q \in Rooted : q = call[s].path
        BY DEF VInv, SlotOK
      <4>4. file'[q] = c
        BY <4>1, <4>2, <4>3 DEF VInv, TypeOK, DiskTypes
      <4>5. ~Unsure(q)'
        BY <4>3 DEF Unsure, VInv, GuiOK
      <4> QED  BY <4>4, <4>5 DEF Moved, InFiles
    <3> QED  BY <3>1, <3>2
  <2> QED  BY <2>3, <2>4, HomeMoves DEF VInv, TypeOK, SeenTypes
<1> QED  BY <1>1, <1>2, <1>3, <1>4, <1>5, <1>6 DEF VInv

LEMMA ForgetOne ==
  ASSUME VInv, NEW s \in Slots, call[s].step = "r_placed", Advance(s, "r_done"),
         record' = [record EXCEPT ![call[s].id] = None],
         UNCHANGED <<file, payload, meta>>, UNCHANGED <<gui, alive, used, known, seen, tampered, given_up>>
  PROVE  VInv'
<1>0. /\ CallTypes'
       /\ call'[s].step = "r_done" /\ call'[s].id = call[s].id
       /\ call'[s].path = call[s].path /\ call'[s].data = call[s].data
       /\ \A t \in Slots : t # s => call'[t] = call[t]
  BY SlotAdvances DEF VInv, TypeOK, CallSteps
<1>1. TypeOK'
  BY <1>0, InRange DEF VInv, GuiOK, SlotOK, TypeOK, DiskTypes, WorkTypes, CallTypes, SeenTypes, Operation, Call, GuiSteps, CallSteps, Entry, Bytes
<1>2. GuiOK'
  BY <1>0, InRange DEF VInv, GuiOK, SlotOK, IdOK, Keeps, TypeOK, DiskTypes, WorkTypes, CallTypes, Operation, Call, Entry
<1>3. ASSUME NEW t \in Slots PROVE SlotOK(t)'
  <2>1. CASE t = s
    BY <1>0, <2>1, InRange DEF VInv, GuiOK, SlotOK, IdOK, Keeps, TypeOK, DiskTypes, WorkTypes, CallTypes, Operation, Call, Entry
  <2>2. CASE t # s
    <3>1. SlotOK(t) /\ SlotOK(s) /\ PairOK(s, t) /\ PairOK(t, s)
      BY <2>2 DEF VInv
    <3> QED  BY <1>0, <2>2, <3>1, InRange DEF VInv, SlotOK, PairOK, IdOK, Keeps, TypeOK, DiskTypes, WorkTypes, CallTypes, Operation, Call, Entry
  <2> QED  BY <2>1, <2>2
<1>4. ASSUME NEW t \in Slots, NEW u \in Slots, t # u PROVE PairOK(t, u)'
  <2>1. PairOK(t, u) /\ SlotOK(t) /\ SlotOK(u)
    BY <1>4 DEF VInv
  <2> QED  BY <1>0, <1>4, <2>1 DEF PairOK, SlotOK
<1>5. ASSUME NEW j \in Ids PROVE IdOK(j)'
  BY <1>0, InRange DEF VInv, GuiOK, SlotOK, IdOK, Keeps, TypeOK, DiskTypes, WorkTypes, CallTypes, Operation, Call, Entry
<1>6. Alone => Home'
  <2> SUFFICES ASSUME Alone PROVE Home'
    OBVIOUS
  <2>1. \A j \in Ids : Passing(j)' => Passing(j)
    BY <1>0, InRange DEF Passing, VInv, TypeOK, CallTypes, WorkTypes, Operation, Call
  <2>2. \A q \in Paths : Unsure(q)' => Unsure(q)
    BY <1>0, InRange DEF Unsure, VInv, TypeOK, WorkTypes, Operation
  <2>3. ASSUME NEW c \in Files, NEW q \in Paths, file[q] = c, ~Unsure(q)
        PROVE  Moved(c)
    BY <1>0, <2>1, <2>2, <2>3, InRange DEF VInv, GuiOK, SlotOK, Keeps, Moved, InFiles, InVault, TypeOK, DiskTypes, WorkTypes
  <2>4. ASSUME NEW c \in Files, NEW j \in Ids, payload[j] = c, ~Passing(j)
        PROVE  Moved(c)
    BY <1>0, <2>1, <2>2, <2>4, InRange DEF VInv, GuiOK, SlotOK, IdOK, Keeps, Moved, InFiles, InVault, TypeOK, DiskTypes, WorkTypes
  <2> QED  BY <2>3, <2>4, HomeMoves DEF VInv, TypeOK, SeenTypes
<1> QED  BY <1>1, <1>2, <1>3, <1>4, <1>5, <1>6 DEF VInv

LEMMA ReportRestored ==
  ASSUME VInv, NEW s \in Slots, call[s].step = "r_done", Fail(s), Ready,
         gui' = [step |-> "leaving", id |-> call[s].id, path |-> call[s].path, data |-> call[s].data],
         UNCHANGED disk, UNCHANGED <<alive, used, known, seen, tampered, given_up>>
  PROVE  VInv'
<1>0. /\ CallTypes' /\ call'[s] = Free
       /\ \A t \in Slots : t # s => call'[t] = call[t]
  BY DEF VInv, TypeOK, CallTypes, Call, CallSteps, Fail
<1>1. TypeOK'
  BY <1>0, InRange DEF VInv, GuiOK, SlotOK, TypeOK, DiskTypes, WorkTypes, CallTypes, SeenTypes, Operation, Call, GuiSteps, CallSteps, Entry, Bytes
<1>2. GuiOK'
  BY <1>0, InRange DEF VInv, GuiOK, SlotOK, IdOK, Keeps, TypeOK, DiskTypes, WorkTypes, CallTypes, Operation, Call, Entry
<1>3. ASSUME NEW t \in Slots PROVE SlotOK(t)'
  <2>1. CASE t = s
    BY <1>0, <2>1, InRange DEF VInv, GuiOK, SlotOK, IdOK, Keeps, TypeOK, DiskTypes, WorkTypes, CallTypes, Operation, Call, Entry
  <2>2. CASE t # s
    <3>1. SlotOK(t) /\ SlotOK(s) /\ PairOK(s, t) /\ PairOK(t, s)
      BY <2>2 DEF VInv
    <3> QED  BY <1>0, <2>2, <3>1, InRange DEF VInv, SlotOK, PairOK, IdOK, Keeps, TypeOK, DiskTypes, WorkTypes, CallTypes, Operation, Call, Entry
  <2> QED  BY <2>1, <2>2
<1>4. ASSUME NEW t \in Slots, NEW u \in Slots, t # u PROVE PairOK(t, u)'
  <2>1. PairOK(t, u) /\ SlotOK(t) /\ SlotOK(u)
    BY <1>4 DEF VInv
  <2> QED  BY <1>0, <1>4, <2>1 DEF PairOK, SlotOK
<1>5. ASSUME NEW j \in Ids PROVE IdOK(j)'
  BY <1>0, InRange DEF VInv, GuiOK, SlotOK, IdOK, Keeps, TypeOK, DiskTypes, WorkTypes, CallTypes, Operation, Call, Entry
<1>6. Alone => Home'
  <2> SUFFICES ASSUME Alone PROVE Home'
    OBVIOUS
  <2>1. \A j \in Ids : Passing(j)' => Passing(j)
    BY <1>0, InRange DEF Passing, VInv, TypeOK, CallTypes, WorkTypes, Operation, Call
  <2>2. \A q \in Paths : Unsure(q)' => Unsure(q)
    BY <1>0, InRange DEF Unsure, VInv, TypeOK, WorkTypes, Operation
  <2>3. ASSUME NEW c \in Files, NEW q \in Paths, file[q] = c, ~Unsure(q)
        PROVE  Moved(c)
    BY <1>0, <2>1, <2>2, <2>3, InRange DEF VInv, GuiOK, SlotOK, Keeps, Moved, InFiles, InVault, TypeOK, DiskTypes, WorkTypes
  <2>4. ASSUME NEW c \in Files, NEW j \in Ids, payload[j] = c, ~Passing(j)
        PROVE  Moved(c)
    BY <1>0, <2>1, <2>2, <2>4, InRange DEF VInv, GuiOK, SlotOK, IdOK, Keeps, Moved, InFiles, InVault, TypeOK, DiskTypes, WorkTypes
  <2> QED  BY <2>3, <2>4, HomeMoves DEF VInv, TypeOK, SeenTypes
<1> QED  BY <1>1, <1>2, <1>3, <1>4, <1>5, <1>6 DEF VInv

LEMMA AskQuarantineOne ==
  ASSUME VInv, NEW s \in Slots, NEW p \in Paths, AskQuarantine(p, s)
  PROVE  VInv'
<1>0. /\ CallTypes' /\ call[s].step = "free"
       /\ call'[s].step = "q_asked" /\ call'[s].id = used + 1 /\ call'[s].path = p
       /\ \A t \in Slots : t # s => call'[t] = call[t]
  BY DEF AskQuarantine, VInv, TypeOK, CallTypes, WorkTypes, Call, CallSteps
<1>1. TypeOK'
  BY <1>0, InRange DEF AskQuarantine, VInv, GuiOK, SlotOK, TypeOK, DiskTypes, WorkTypes, CallTypes, SeenTypes, Operation, Call, GuiSteps, CallSteps, Entry, Bytes
<1>2. GuiOK'
  BY <1>0, InRange DEF AskQuarantine, VInv, GuiOK, SlotOK, IdOK, Keeps, TypeOK, DiskTypes, WorkTypes, CallTypes, Operation, Call, Entry
<1>3. ASSUME NEW t \in Slots PROVE SlotOK(t)'
  <2>1. CASE t = s
    BY <1>0, <2>1, InRange DEF AskQuarantine, VInv, GuiOK, SlotOK, IdOK, Keeps, TypeOK, DiskTypes, WorkTypes, CallTypes, Operation, Call, Entry
  <2>2. CASE t # s
    <3>1. SlotOK(t) /\ SlotOK(s) /\ PairOK(s, t) /\ PairOK(t, s)
      BY <2>2 DEF VInv
    <3> QED  BY <1>0, <2>2, <3>1, InRange DEF AskQuarantine, VInv, SlotOK, PairOK, IdOK, Keeps, TypeOK, DiskTypes, WorkTypes, CallTypes, Operation, Call, Entry
  <2> QED  BY <2>1, <2>2
<1>4. ASSUME NEW t \in Slots, NEW u \in Slots, t # u PROVE PairOK(t, u)'
  <2>1. PairOK(t, u) /\ SlotOK(t) /\ SlotOK(u)
    BY <1>4 DEF VInv
  <2> QED  BY <1>0, <1>4, <2>1, InRange DEF AskQuarantine, VInv, SlotOK, PairOK, IdOK, TypeOK, CallTypes, DiskTypes, WorkTypes, Call, Entry
<1>5. ASSUME NEW j \in Ids PROVE IdOK(j)'
  BY <1>0, InRange DEF AskQuarantine, VInv, GuiOK, SlotOK, IdOK, Keeps, TypeOK, DiskTypes, WorkTypes, CallTypes, Operation, Call, Entry
<1>6. Alone => Home'
  <2> SUFFICES ASSUME Alone PROVE Home'
    OBVIOUS
  <2>1. \A j \in Ids : Passing(j)' => Passing(j)
    BY <1>0, InRange DEF AskQuarantine, Passing, VInv, TypeOK, CallTypes, WorkTypes, Operation, Call
  <2>2. \A q \in Paths : Unsure(q)' => Unsure(q)
    BY <1>0, InRange DEF AskQuarantine, Unsure, VInv, TypeOK, WorkTypes, Operation
  <2>3. ASSUME NEW c \in Files, NEW q \in Paths, file[q] = c, ~Unsure(q)
        PROVE  Moved(c)
    BY <1>0, <2>1, <2>2, <2>3, InRange DEF AskQuarantine, VInv, GuiOK, SlotOK, Keeps, Moved, InFiles, InVault, TypeOK, DiskTypes, WorkTypes
  <2>4. ASSUME NEW c \in Files, NEW j \in Ids, payload[j] = c, ~Passing(j)
        PROVE  Moved(c)
    BY <1>0, <2>1, <2>2, <2>4, InRange DEF AskQuarantine, VInv, GuiOK, SlotOK, IdOK, Keeps, Moved, InFiles, InVault, TypeOK, DiskTypes, WorkTypes
  <2> QED  BY <2>3, <2>4, HomeMoves DEF VInv, TypeOK, SeenTypes, AskQuarantine
<1> QED  BY <1>1, <1>2, <1>3, <1>4, <1>5, <1>6 DEF VInv

LEMMA AskRestoreOne ==
  ASSUME VInv, NEW s \in Slots, NEW i \in Ids, AskRestore(i, s)
  PROVE  VInv'
<1>0. /\ CallTypes' /\ call[s].step = "free"
       /\ call'[s].step = "r_asked" /\ call'[s].id = i /\ call'[s].path = known[i].path
       /\ \A t \in Slots : t # s => call'[t] = call[t]
  BY DEF NoRace, AskRestore, VInv, TypeOK, CallTypes, WorkTypes, Call, CallSteps, Entry
<1>1. TypeOK'
  BY <1>0, InRange DEF NoRace, AskRestore, VInv, GuiOK, SlotOK, TypeOK, DiskTypes, WorkTypes, CallTypes, SeenTypes, Operation, Call, GuiSteps, CallSteps, Entry, Bytes
<1>2. GuiOK'
  BY <1>0, InRange DEF NoRace, AskRestore, VInv, GuiOK, SlotOK, IdOK, Keeps, TypeOK, DiskTypes, WorkTypes, CallTypes, Operation, Call, Entry
<1>3. ASSUME NEW t \in Slots PROVE SlotOK(t)'
  <2>1. CASE t = s
    BY <1>0, <2>1, InRange DEF NoRace, AskRestore, VInv, GuiOK, SlotOK, IdOK, Keeps, TypeOK, DiskTypes, WorkTypes, CallTypes, Operation, Call, Entry
  <2>2. CASE t # s
    <3>1. SlotOK(t) /\ SlotOK(s) /\ PairOK(s, t) /\ PairOK(t, s)
      BY <2>2 DEF NoRace, VInv
    <3> QED  BY <1>0, <2>2, <3>1, InRange DEF NoRace, AskRestore, VInv, SlotOK, PairOK, IdOK, Keeps, TypeOK, DiskTypes, WorkTypes, CallTypes, Operation, Call, Entry
  <2> QED  BY <2>1, <2>2
<1>4. ASSUME NEW t \in Slots, NEW u \in Slots, t # u PROVE PairOK(t, u)'
  <2>1. PairOK(t, u) /\ SlotOK(t) /\ SlotOK(u)
    BY <1>4 DEF NoRace, VInv
  <2> QED  BY <1>0, <1>4, <2>1, InRange DEF NoRace, AskRestore, VInv, SlotOK, PairOK, IdOK, TypeOK, CallTypes, DiskTypes, WorkTypes, Call, Entry
<1>5. ASSUME NEW j \in Ids PROVE IdOK(j)'
  BY <1>0, InRange DEF NoRace, AskRestore, VInv, GuiOK, SlotOK, IdOK, Keeps, TypeOK, DiskTypes, WorkTypes, CallTypes, Operation, Call, Entry
<1>6. Alone => Home'
  <2> SUFFICES ASSUME Alone PROVE Home'
    OBVIOUS
  <2>1. \A j \in Ids : Passing(j)' => Passing(j)
    BY <1>0, InRange DEF NoRace, AskRestore, Passing, VInv, TypeOK, CallTypes, WorkTypes, Operation, Call
  <2>2. \A q \in Paths : Unsure(q)' => Unsure(q)
    BY <1>0, InRange DEF NoRace, AskRestore, Unsure, VInv, TypeOK, WorkTypes, Operation
  <2>3. ASSUME NEW c \in Files, NEW q \in Paths, file[q] = c, ~Unsure(q)
        PROVE  Moved(c)
    BY <1>0, <2>1, <2>2, <2>3, InRange DEF NoRace, AskRestore, VInv, GuiOK, SlotOK, Keeps, Moved, InFiles, InVault, TypeOK, DiskTypes, WorkTypes
  <2>4. ASSUME NEW c \in Files, NEW j \in Ids, payload[j] = c, ~Passing(j)
        PROVE  Moved(c)
    BY <1>0, <2>1, <2>2, <2>4, InRange DEF NoRace, AskRestore, VInv, GuiOK, SlotOK, IdOK, Keeps, Moved, InFiles, InVault, TypeOK, DiskTypes, WorkTypes
  <2> QED  BY <2>3, <2>4, HomeMoves DEF NoRace, VInv, TypeOK, SeenTypes, AskRestore
<1> QED  BY <1>1, <1>2, <1>3, <1>4, <1>5, <1>6 DEF NoRace, VInv

LEMMA CopyOne ==
  ASSUME VInv, NEW p \in Owned, Ready, file[p] \in Files,
         used < MaxEntries, used' = used + 1,
         payload' = [payload EXCEPT ![used + 1] = file[p]],
         gui' = [step |-> "copied", id |-> used + 1, path |-> p, data |-> file[p]],
         UNCHANGED <<file, meta, record>>, UNCHANGED <<call, alive, known, seen, tampered, given_up>>
  PROVE  VInv'
<1>1. TypeOK'
  BY InRange DEF VInv, GuiOK, SlotOK, TypeOK, DiskTypes, WorkTypes, CallTypes, SeenTypes, Operation, Call, GuiSteps, CallSteps, Entry, Bytes
<1>2. GuiOK'
  BY InRange DEF VInv, GuiOK, SlotOK, IdOK, Keeps, TypeOK, DiskTypes, WorkTypes, CallTypes, Operation, Call, Entry
<1>3. ASSUME NEW t \in Slots PROVE SlotOK(t)'
  BY InRange DEF VInv, GuiOK, SlotOK, IdOK, Keeps, TypeOK, DiskTypes, WorkTypes, CallTypes, Operation, Call, Entry
<1>4. ASSUME NEW t \in Slots, NEW u \in Slots, t # u PROVE PairOK(t, u)'
  BY <1>4, InRange DEF VInv, SlotOK, PairOK, TypeOK, CallTypes, Call, WorkTypes
<1>5. ASSUME NEW j \in Ids PROVE IdOK(j)'
  BY InRange DEF VInv, GuiOK, SlotOK, IdOK, Keeps, TypeOK, DiskTypes, WorkTypes, CallTypes, Operation, Call, Entry
<1>6. Alone => Home'
  <2> SUFFICES ASSUME Alone PROVE Home'
    OBVIOUS
  <2>1. \A j \in Ids : Passing(j)' => Passing(j) \/ j = used + 1
    BY InRange DEF Passing, VInv, TypeOK, CallTypes, WorkTypes, Operation, Call
  <2>2. \A q \in Paths : Unsure(q)' => Unsure(q)
    BY InRange DEF Unsure, VInv, TypeOK, WorkTypes, Operation
  <2>3. ASSUME NEW c \in Files, NEW q \in Paths, file[q] = c, ~Unsure(q)
        PROVE  Moved(c)
    BY <2>1, <2>2, <2>3, InRange DEF VInv, GuiOK, SlotOK, Keeps, Moved, InFiles, InVault, TypeOK, DiskTypes, WorkTypes
  <2>4. ASSUME NEW c \in Files, NEW j \in Ids, payload[j] = c, ~Passing(j)
        PROVE  Moved(c)
    <3>1. payload[used + 1] = None
      BY DEF VInv, IdOK, TypeOK, WorkTypes
    <3>2. j # used + 1
      BY <2>4, <3>1
    <3>3. payload'[j] = c
      BY <2>4, <3>2 DEF VInv, TypeOK, DiskTypes
    <3>4. ~Passing(j)'
      BY <2>1, <2>4, <3>2
    <3> QED  BY <3>3, <3>4 DEF Moved, InVault
  <2> QED  BY <2>3, <2>4, HomeMoves DEF VInv, TypeOK, SeenTypes
<1> QED  BY <1>1, <1>2, <1>3, <1>4, <1>5, <1>6 DEF VInv

LEMMA CopyNone ==
  ASSUME VInv, Ready, used < MaxEntries, used' = used + 1, UNCHANGED <<disk, gui>>,
         UNCHANGED <<call, alive, known, seen, tampered, given_up>>
  PROVE  VInv'
<1>1. TypeOK'
  BY InRange DEF VInv, GuiOK, SlotOK, TypeOK, DiskTypes, WorkTypes, CallTypes, SeenTypes, Operation, Call, GuiSteps, CallSteps, Entry, Bytes
<1>2. GuiOK'
  BY InRange DEF VInv, GuiOK, SlotOK, IdOK, Keeps, TypeOK, DiskTypes, WorkTypes, CallTypes, Operation, Call, Entry
<1>3. ASSUME NEW t \in Slots PROVE SlotOK(t)'
  BY InRange DEF VInv, GuiOK, SlotOK, IdOK, Keeps, TypeOK, DiskTypes, WorkTypes, CallTypes, Operation, Call, Entry
<1>4. ASSUME NEW t \in Slots, NEW u \in Slots, t # u PROVE PairOK(t, u)'
  BY <1>4, InRange DEF VInv, SlotOK, PairOK, TypeOK, CallTypes, Call, WorkTypes
<1>5. ASSUME NEW j \in Ids PROVE IdOK(j)'
  BY InRange DEF VInv, GuiOK, SlotOK, IdOK, Keeps, TypeOK, DiskTypes, WorkTypes, CallTypes, Operation, Call, Entry
<1>6. Alone => Home'
  <2> SUFFICES ASSUME Alone PROVE Home'
    OBVIOUS
  <2>1. \A j \in Ids : Passing(j)' => Passing(j)
    BY InRange DEF Passing, VInv, TypeOK, CallTypes, WorkTypes, Operation, Call
  <2>2. \A q \in Paths : Unsure(q)' => Unsure(q)
    BY InRange DEF Unsure, VInv, TypeOK, WorkTypes, Operation
  <2>3. ASSUME NEW c \in Files, NEW q \in Paths, file[q] = c, ~Unsure(q)
        PROVE  Moved(c)
    BY <2>1, <2>2, <2>3, InRange DEF VInv, GuiOK, SlotOK, Keeps, Moved, InFiles, InVault, TypeOK, DiskTypes, WorkTypes
  <2>4. ASSUME NEW c \in Files, NEW j \in Ids, payload[j] = c, ~Passing(j)
        PROVE  Moved(c)
    BY <2>1, <2>2, <2>4, InRange DEF VInv, GuiOK, SlotOK, IdOK, Keeps, Moved, InFiles, InVault, TypeOK, DiskTypes, WorkTypes
  <2> QED  BY <2>3, <2>4, HomeMoves DEF VInv, TypeOK, SeenTypes
<1> QED  BY <1>1, <1>2, <1>3, <1>4, <1>5, <1>6 DEF VInv

LEMMA RemoveDirect ==
  ASSUME VInv, alive, gui.step = "copied", file' = Unlinked(gui.path),
         gui' = [gui EXCEPT !.step = "removed"],
         UNCHANGED <<payload, meta, record, used>>, UNCHANGED <<call, alive, known, seen, tampered, given_up>>
  PROVE  VInv'
<1>1. TypeOK'
  BY InRange DEF VInv, GuiOK, SlotOK, TypeOK, DiskTypes, WorkTypes, CallTypes, SeenTypes, Operation, Call, GuiSteps, CallSteps, Entry, Bytes
<1>2. GuiOK'
  BY InRange DEF VInv, GuiOK, SlotOK, IdOK, Keeps, TypeOK, DiskTypes, WorkTypes, CallTypes, Operation, Call, Entry
<1>3. ASSUME NEW t \in Slots PROVE SlotOK(t)'
  BY InRange DEF VInv, GuiOK, SlotOK, IdOK, Keeps, TypeOK, DiskTypes, WorkTypes, CallTypes, Operation, Call, Entry
<1>4. ASSUME NEW t \in Slots, NEW u \in Slots, t # u PROVE PairOK(t, u)'
  BY <1>4, InRange DEF VInv, SlotOK, PairOK, TypeOK, CallTypes, Call, WorkTypes
<1>5. ASSUME NEW j \in Ids PROVE IdOK(j)'
  BY InRange DEF VInv, GuiOK, SlotOK, IdOK, Keeps, TypeOK, DiskTypes, WorkTypes, CallTypes, Operation, Call, Entry
<1>6. Alone => Home'
  <2> SUFFICES ASSUME Alone PROVE Home'
    OBVIOUS
  <2>1. \A j \in Ids : Passing(j)' => Passing(j)
    BY InRange DEF Passing, VInv, TypeOK, CallTypes, WorkTypes, Operation, Call
  <2>2. \A q \in Paths : Unsure(q)' => Unsure(q)
    BY InRange DEF Unsure, VInv, TypeOK, WorkTypes, Operation
  <2>3. ASSUME NEW c \in Files, NEW q \in Paths, file[q] = c, ~Unsure(q)
        PROVE  Moved(c)
    <3>1. CASE q # gui.path
      <4>1. file'[q] = file[q]
        BY <2>3, <3>1 DEF VInv, TypeOK, DiskTypes
      <4> QED  BY <2>2, <2>3, <4>1 DEF Moved, InFiles
    <3>2. CASE q = gui.path
      <4>1. PICK d \in Ids : d = gui.id /\ Keeps(d, c)
        BY <2>3, <3>2, InRange DEF Alone, VInv, GuiOK, SlotOK
      <4>2. CASE d \in tampered
        BY <4>1, <4>2 DEF Keeps, Moved
      <4>3. CASE d \notin tampered
        <5>1. \A t \in Slots : call'[t].step \in {"q_stored", "q_recorded", "r_placed", "r_done"} =>
                 call'[t].id # d
          BY <4>1, InRange DEF VInv, GuiOK, SlotOK, PairOK
        <5>2. gui'.step \in {"copied", "leaving", "shredded", "left"} => gui'.id # d
          BY <4>1 DEF VInv, GuiOK, SlotOK, TypeOK, WorkTypes, Operation
        <5>3. ~Passing(d)'
          BY <4>3, <5>1, <5>2 DEF Passing
        <5>4. payload'[d] = c
          BY <4>1, <4>3 DEF Keeps
        <5> QED  BY <5>3, <5>4 DEF Moved, InVault
      <4> QED  BY <4>2, <4>3
    <3> QED  BY <3>1, <3>2
  <2>4. ASSUME NEW c \in Files, NEW j \in Ids, payload[j] = c, ~Passing(j)
        PROVE  Moved(c)
    BY <2>1, <2>2, <2>4, InRange DEF VInv, GuiOK, SlotOK, IdOK, Keeps, Moved, InFiles, InVault, TypeOK, DiskTypes, WorkTypes
  <2> QED  BY <2>3, <2>4, HomeMoves DEF VInv, TypeOK, SeenTypes
<1> QED  BY <1>1, <1>2, <1>3, <1>4, <1>5, <1>6 DEF VInv

LEMMA UndoCopy ==
  ASSUME VInv, gui.step = "copied", payload' = WithoutPayload(gui.id), gui' = Idle,
         UNCHANGED <<file, meta, record, used>>, UNCHANGED <<call, alive, known, seen, tampered, given_up>>
  PROVE  VInv'
<1>1. TypeOK'
  BY InRange DEF VInv, GuiOK, SlotOK, TypeOK, DiskTypes, WorkTypes, CallTypes, SeenTypes, Operation, Call, GuiSteps, CallSteps, Entry, Bytes
<1>2. GuiOK'
  BY InRange DEF VInv, GuiOK, SlotOK, IdOK, Keeps, TypeOK, DiskTypes, WorkTypes, CallTypes, Operation, Call, Entry
<1>3. ASSUME NEW t \in Slots PROVE SlotOK(t)'
  BY InRange DEF VInv, GuiOK, SlotOK, IdOK, Keeps, TypeOK, DiskTypes, WorkTypes, CallTypes, Operation, Call, Entry
<1>4. ASSUME NEW t \in Slots, NEW u \in Slots, t # u PROVE PairOK(t, u)'
  BY <1>4, InRange DEF VInv, SlotOK, PairOK, TypeOK, CallTypes, Call, WorkTypes
<1>5. ASSUME NEW j \in Ids PROVE IdOK(j)'
  BY InRange DEF VInv, GuiOK, SlotOK, IdOK, Keeps, TypeOK, DiskTypes, WorkTypes, CallTypes, Operation, Call, Entry
<1>6. Alone => Home'
  <2> SUFFICES ASSUME Alone PROVE Home'
    OBVIOUS
  <2>1. \A j \in Ids : Passing(j)' => Passing(j)
    BY InRange DEF Passing, VInv, TypeOK, CallTypes, WorkTypes, Operation, Call
  <2>2. \A q \in Paths : Unsure(q)' => Unsure(q)
    BY InRange DEF Unsure, VInv, TypeOK, WorkTypes, Operation
  <2>3. ASSUME NEW c \in Files, NEW q \in Paths, file[q] = c, ~Unsure(q)
        PROVE  Moved(c)
    BY <2>1, <2>2, <2>3, InRange DEF VInv, GuiOK, SlotOK, Keeps, Moved, InFiles, InVault, TypeOK, DiskTypes, WorkTypes
  <2>4. ASSUME NEW c \in Files, NEW j \in Ids, payload[j] = c, ~Passing(j)
        PROVE  Moved(c)
    <3>1. j # gui.id
      BY <2>4 DEF Passing
    <3>2. payload'[j] = payload[j]
      BY <2>4, <3>1 DEF VInv, TypeOK, DiskTypes
    <3> QED  BY <2>1, <2>4, <3>2 DEF Moved, InVault
  <2> QED  BY <2>3, <2>4, HomeMoves DEF VInv, TypeOK, SeenTypes
<1> QED  BY <1>1, <1>2, <1>3, <1>4, <1>5, <1>6 DEF VInv

LEMMA SidecarOne ==
  ASSUME VInv, gui.step = "removed", gui' = Idle,
         meta' = [meta EXCEPT ![gui.id] = [path |-> gui.path, sha |-> gui.data]],
         known' = [known EXCEPT ![gui.id] = [path |-> gui.path, sha |-> gui.data]],
         UNCHANGED <<file, payload, record, call, alive, used, seen, tampered, given_up>>
  PROVE  VInv'
<1>1. TypeOK'
  BY InRange DEF VInv, GuiOK, SlotOK, TypeOK, DiskTypes, WorkTypes, CallTypes, SeenTypes, Operation, Call, GuiSteps, CallSteps, Entry, Bytes
<1>2. GuiOK'
  BY InRange DEF VInv, GuiOK, SlotOK, IdOK, Keeps, TypeOK, DiskTypes, WorkTypes, CallTypes, Operation, Call, Entry
<1>3. ASSUME NEW t \in Slots PROVE SlotOK(t)'
  BY InRange DEF VInv, GuiOK, SlotOK, IdOK, Keeps, TypeOK, DiskTypes, WorkTypes, CallTypes, Operation, Call, Entry
<1>4. ASSUME NEW t \in Slots, NEW u \in Slots, t # u PROVE PairOK(t, u)'
  BY <1>4, InRange DEF VInv, SlotOK, PairOK, TypeOK, CallTypes, Call, WorkTypes
<1>5. ASSUME NEW j \in Ids PROVE IdOK(j)'
  BY InRange DEF VInv, GuiOK, SlotOK, IdOK, Keeps, TypeOK, DiskTypes, WorkTypes, CallTypes, Operation, Call, Entry
<1>6. Alone => Home'
  <2> SUFFICES ASSUME Alone PROVE Home'
    OBVIOUS
  <2>1. \A j \in Ids : Passing(j)' => Passing(j)
    BY InRange DEF Passing, VInv, TypeOK, CallTypes, WorkTypes, Operation, Call
  <2>2. \A q \in Paths : Unsure(q)' => Unsure(q)
    BY InRange DEF Unsure, VInv, TypeOK, WorkTypes, Operation
  <2>3. ASSUME NEW c \in Files, NEW q \in Paths, file[q] = c, ~Unsure(q)
        PROVE  Moved(c)
    BY <2>1, <2>2, <2>3, InRange DEF VInv, GuiOK, SlotOK, Keeps, Moved, InFiles, InVault, TypeOK, DiskTypes, WorkTypes
  <2>4. ASSUME NEW c \in Files, NEW j \in Ids, payload[j] = c, ~Passing(j)
        PROVE  Moved(c)
    BY <2>1, <2>2, <2>4, InRange DEF VInv, GuiOK, SlotOK, IdOK, Keeps, Moved, InFiles, InVault, TypeOK, DiskTypes, WorkTypes
  <2> QED  BY <2>3, <2>4, HomeMoves DEF VInv, TypeOK, SeenTypes
<1> QED  BY <1>1, <1>2, <1>3, <1>4, <1>5, <1>6 DEF VInv

LEMMA SidecarNone ==
  ASSUME VInv, gui.step = "removed", gui' = Idle, UNCHANGED <<disk, used>>,
         UNCHANGED <<call, alive, known, seen, tampered, given_up>>
  PROVE  VInv'
<1>1. TypeOK'
  BY InRange DEF VInv, GuiOK, SlotOK, TypeOK, DiskTypes, WorkTypes, CallTypes, SeenTypes, Operation, Call, GuiSteps, CallSteps, Entry, Bytes
<1>2. GuiOK'
  BY InRange DEF VInv, GuiOK, SlotOK, IdOK, Keeps, TypeOK, DiskTypes, WorkTypes, CallTypes, Operation, Call, Entry
<1>3. ASSUME NEW t \in Slots PROVE SlotOK(t)'
  BY InRange DEF VInv, GuiOK, SlotOK, IdOK, Keeps, TypeOK, DiskTypes, WorkTypes, CallTypes, Operation, Call, Entry
<1>4. ASSUME NEW t \in Slots, NEW u \in Slots, t # u PROVE PairOK(t, u)'
  BY <1>4, InRange DEF VInv, SlotOK, PairOK, TypeOK, CallTypes, Call, WorkTypes
<1>5. ASSUME NEW j \in Ids PROVE IdOK(j)'
  BY InRange DEF VInv, GuiOK, SlotOK, IdOK, Keeps, TypeOK, DiskTypes, WorkTypes, CallTypes, Operation, Call, Entry
<1>6. Alone => Home'
  <2> SUFFICES ASSUME Alone PROVE Home'
    OBVIOUS
  <2>1. \A j \in Ids : Passing(j)' => Passing(j)
    BY InRange DEF Passing, VInv, TypeOK, CallTypes, WorkTypes, Operation, Call
  <2>2. \A q \in Paths : Unsure(q)' => Unsure(q)
    BY InRange DEF Unsure, VInv, TypeOK, WorkTypes, Operation
  <2>3. ASSUME NEW c \in Files, NEW q \in Paths, file[q] = c, ~Unsure(q)
        PROVE  Moved(c)
    BY <2>1, <2>2, <2>3, InRange DEF VInv, GuiOK, SlotOK, Keeps, Moved, InFiles, InVault, TypeOK, DiskTypes, WorkTypes
  <2>4. ASSUME NEW c \in Files, NEW j \in Ids, payload[j] = c, ~Passing(j)
        PROVE  Moved(c)
    BY <2>1, <2>2, <2>4, InRange DEF VInv, GuiOK, SlotOK, IdOK, Keeps, Moved, InFiles, InVault, TypeOK, DiskTypes, WorkTypes
  <2> QED  BY <2>3, <2>4, HomeMoves DEF VInv, TypeOK, SeenTypes
<1> QED  BY <1>1, <1>2, <1>3, <1>4, <1>5, <1>6 DEF VInv

LEMMA PlaceDirect ==
  ASSUME VInv, NEW i \in Ids, NEW p \in Owned, Ready, known[i] # None, payload[i] # None, Vacant(p),
         file' = [file EXCEPT ![p] = payload[i]],
         gui' = [step |-> "placed", id |-> i, path |-> p, data |-> payload[i]],
         UNCHANGED <<payload, meta, record, used>>, UNCHANGED <<call, alive, known, seen, tampered, given_up>>
  PROVE  VInv'
<1>1. TypeOK'
  BY InRange DEF VInv, GuiOK, SlotOK, TypeOK, DiskTypes, WorkTypes, CallTypes, SeenTypes, Operation, Call, GuiSteps, CallSteps, Entry, Bytes
<1>2. GuiOK'
  BY InRange DEF VInv, GuiOK, SlotOK, IdOK, Keeps, TypeOK, DiskTypes, WorkTypes, CallTypes, Operation, Call, Entry
<1>3. ASSUME NEW t \in Slots PROVE SlotOK(t)'
  BY InRange DEF VInv, GuiOK, SlotOK, IdOK, Keeps, TypeOK, DiskTypes, WorkTypes, CallTypes, Operation, Call, Entry
<1>4. ASSUME NEW t \in Slots, NEW u \in Slots, t # u PROVE PairOK(t, u)'
  BY <1>4, InRange DEF VInv, SlotOK, PairOK, TypeOK, CallTypes, Call, WorkTypes
<1>5. ASSUME NEW j \in Ids PROVE IdOK(j)'
  BY InRange DEF VInv, GuiOK, SlotOK, IdOK, Keeps, TypeOK, DiskTypes, WorkTypes, CallTypes, Operation, Call, Entry
<1>6. Alone => Home'
  <2> SUFFICES ASSUME Alone PROVE Home'
    OBVIOUS
  <2>1. \A j \in Ids : Passing(j)' => Passing(j)
    BY InRange DEF Passing, VInv, TypeOK, CallTypes, WorkTypes, Operation, Call
  <2>2. \A q \in Paths : Unsure(q)' => Unsure(q) \/ q = p
    BY InRange DEF Unsure, VInv, TypeOK, WorkTypes, Operation
  <2>3. ASSUME NEW c \in Files, NEW q \in Paths, file[q] = c, ~Unsure(q)
        PROVE  Moved(c)
    BY <2>1, <2>2, <2>3, InRange DEF VInv, GuiOK, SlotOK, Keeps, Moved, InFiles, InVault, TypeOK, DiskTypes, WorkTypes
  <2>4. ASSUME NEW c \in Files, NEW j \in Ids, payload[j] = c, ~Passing(j)
        PROVE  Moved(c)
    BY <2>1, <2>2, <2>4, InRange DEF VInv, GuiOK, SlotOK, IdOK, Keeps, Moved, InFiles, InVault, TypeOK, DiskTypes, WorkTypes
  <2> QED  BY <2>3, <2>4, HomeMoves DEF VInv, TypeOK, SeenTypes
<1> QED  BY <1>1, <1>2, <1>3, <1>4, <1>5, <1>6 DEF VInv

LEMMA PlaceTorn ==
  ASSUME VInv, NEW p \in Owned, Ready, Vacant(p), file' = [file EXCEPT ![p] = Torn],
         UNCHANGED <<payload, meta, record, gui, used>>, UNCHANGED <<call, alive, known, seen, tampered, given_up>>
  PROVE  VInv'
<1>1. TypeOK'
  BY InRange DEF VInv, GuiOK, SlotOK, TypeOK, DiskTypes, WorkTypes, CallTypes, SeenTypes, Operation, Call, GuiSteps, CallSteps, Entry, Bytes
<1>2. GuiOK'
  BY InRange DEF VInv, GuiOK, SlotOK, IdOK, Keeps, TypeOK, DiskTypes, WorkTypes, CallTypes, Operation, Call, Entry
<1>3. ASSUME NEW t \in Slots PROVE SlotOK(t)'
  BY InRange DEF VInv, GuiOK, SlotOK, IdOK, Keeps, TypeOK, DiskTypes, WorkTypes, CallTypes, Operation, Call, Entry
<1>4. ASSUME NEW t \in Slots, NEW u \in Slots, t # u PROVE PairOK(t, u)'
  BY <1>4, InRange DEF VInv, SlotOK, PairOK, TypeOK, CallTypes, Call, WorkTypes
<1>5. ASSUME NEW j \in Ids PROVE IdOK(j)'
  BY InRange DEF VInv, GuiOK, SlotOK, IdOK, Keeps, TypeOK, DiskTypes, WorkTypes, CallTypes, Operation, Call, Entry
<1>6. Alone => Home'
  <2> SUFFICES ASSUME Alone PROVE Home'
    OBVIOUS
  <2>1. \A j \in Ids : Passing(j)' => Passing(j)
    BY InRange DEF Passing, VInv, TypeOK, CallTypes, WorkTypes, Operation, Call
  <2>2. \A q \in Paths : Unsure(q)' => Unsure(q)
    BY InRange DEF Unsure, VInv, TypeOK, WorkTypes, Operation
  <2>3. ASSUME NEW c \in Files, NEW q \in Paths, file[q] = c, ~Unsure(q)
        PROVE  Moved(c)
    BY <2>1, <2>2, <2>3, InRange DEF VInv, GuiOK, SlotOK, Keeps, Moved, InFiles, InVault, TypeOK, DiskTypes, WorkTypes
  <2>4. ASSUME NEW c \in Files, NEW j \in Ids, payload[j] = c, ~Passing(j)
        PROVE  Moved(c)
    BY <2>1, <2>2, <2>4, InRange DEF VInv, GuiOK, SlotOK, IdOK, Keeps, Moved, InFiles, InVault, TypeOK, DiskTypes, WorkTypes
  <2> QED  BY <2>3, <2>4, HomeMoves DEF VInv, TypeOK, SeenTypes
<1> QED  BY <1>1, <1>2, <1>3, <1>4, <1>5, <1>6 DEF VInv

LEMMA CompareGood ==
  ASSUME VInv, alive, gui.step = "placed", gui.data = known[gui.id].sha,
         gui' = [gui EXCEPT !.step = "leaving"], UNCHANGED <<disk, used>>,
         UNCHANGED <<call, alive, known, seen, tampered, given_up>>
  PROVE  VInv'
<1>1. TypeOK'
  BY InRange DEF VInv, GuiOK, SlotOK, TypeOK, DiskTypes, WorkTypes, CallTypes, SeenTypes, Operation, Call, GuiSteps, CallSteps, Entry, Bytes
<1>2. GuiOK'
  BY InRange DEF VInv, GuiOK, SlotOK, IdOK, Keeps, TypeOK, DiskTypes, WorkTypes, CallTypes, Operation, Call, Entry
<1>3. ASSUME NEW t \in Slots PROVE SlotOK(t)'
  BY InRange DEF VInv, GuiOK, SlotOK, IdOK, Keeps, TypeOK, DiskTypes, WorkTypes, CallTypes, Operation, Call, Entry
<1>4. ASSUME NEW t \in Slots, NEW u \in Slots, t # u PROVE PairOK(t, u)'
  BY <1>4, InRange DEF VInv, SlotOK, PairOK, TypeOK, CallTypes, Call, WorkTypes
<1>5. ASSUME NEW j \in Ids PROVE IdOK(j)'
  BY InRange DEF VInv, GuiOK, SlotOK, IdOK, Keeps, TypeOK, DiskTypes, WorkTypes, CallTypes, Operation, Call, Entry
<1>6. Alone => Home'
  <2> SUFFICES ASSUME Alone PROVE Home'
    OBVIOUS
  <2>1. \A j \in Ids : Passing(j)' => Passing(j) \/ j = gui.id
    BY InRange DEF Passing, VInv, TypeOK, CallTypes, WorkTypes, Operation, Call
  <2>2. \A q \in Paths : Unsure(q)' => Unsure(q)
    BY InRange DEF Unsure, VInv, TypeOK, WorkTypes, Operation
  <2>3. ASSUME NEW c \in Files, NEW q \in Paths, file[q] = c, ~Unsure(q)
        PROVE  Moved(c)
    BY <2>1, <2>2, <2>3, InRange DEF VInv, GuiOK, SlotOK, Keeps, Moved, InFiles, InVault, TypeOK, DiskTypes, WorkTypes
  <2>4. ASSUME NEW c \in Files, NEW j \in Ids, payload[j] = c, ~Passing(j)
        PROVE  Moved(c)
    <3>1. CASE j # gui.id
      BY <2>1, <2>4, <3>1 DEF Moved, InVault
    <3>2. CASE j = gui.id
      <4>1. c = file[gui.path] /\ gui.path \in Owned
        BY <2>4, <3>2 DEF Alone, VInv, GuiOK, IdOK, Passing
      <4>2. ~Unsure(gui.path)'
        BY DEF Unsure, VInv, TypeOK, WorkTypes, Operation
      <4> QED  BY <4>1, <4>2 DEF Moved, InFiles
    <3> QED  BY <3>1, <3>2
  <2> QED  BY <2>3, <2>4, HomeMoves DEF VInv, TypeOK, SeenTypes
<1> QED  BY <1>1, <1>2, <1>3, <1>4, <1>5, <1>6 DEF VInv

LEMMA CompareBad ==
  ASSUME VInv, gui.step = "placed", gui' = Idle, file' = Unlinked(gui.path),
         UNCHANGED <<payload, meta, record, used>>, UNCHANGED <<call, alive, known, seen, tampered, given_up>>
  PROVE  VInv'
<1>1. TypeOK'
  BY InRange DEF VInv, GuiOK, SlotOK, TypeOK, DiskTypes, WorkTypes, CallTypes, SeenTypes, Operation, Call, GuiSteps, CallSteps, Entry, Bytes
<1>2. GuiOK'
  BY InRange DEF VInv, GuiOK, SlotOK, IdOK, Keeps, TypeOK, DiskTypes, WorkTypes, CallTypes, Operation, Call, Entry
<1>3. ASSUME NEW t \in Slots PROVE SlotOK(t)'
  BY InRange DEF VInv, GuiOK, SlotOK, IdOK, Keeps, TypeOK, DiskTypes, WorkTypes, CallTypes, Operation, Call, Entry
<1>4. ASSUME NEW t \in Slots, NEW u \in Slots, t # u PROVE PairOK(t, u)'
  BY <1>4, InRange DEF VInv, SlotOK, PairOK, TypeOK, CallTypes, Call, WorkTypes
<1>5. ASSUME NEW j \in Ids PROVE IdOK(j)'
  BY InRange DEF VInv, GuiOK, SlotOK, IdOK, Keeps, TypeOK, DiskTypes, WorkTypes, CallTypes, Operation, Call, Entry
<1>6. Alone => Home'
  <2> SUFFICES ASSUME Alone PROVE Home'
    OBVIOUS
  <2>1. \A j \in Ids : Passing(j)' => Passing(j)
    BY InRange DEF Passing, VInv, TypeOK, CallTypes, WorkTypes, Operation, Call
  <2>2. \A q \in Paths : Unsure(q)' => Unsure(q)
    BY InRange DEF Unsure, VInv, TypeOK, WorkTypes, Operation
  <2>3. ASSUME NEW c \in Files, NEW q \in Paths, file[q] = c, ~Unsure(q)
        PROVE  Moved(c)
    <3>1. q # gui.path
      BY <2>3 DEF Unsure
    <3>2. file'[q] = file[q]
      BY <2>3, <3>1 DEF VInv, TypeOK, DiskTypes
    <3> QED  BY <2>2, <2>3, <3>2 DEF Moved, InFiles
  <2>4. ASSUME NEW c \in Files, NEW j \in Ids, payload[j] = c, ~Passing(j)
        PROVE  Moved(c)
    BY <2>1, <2>2, <2>4, InRange DEF VInv, GuiOK, SlotOK, IdOK, Keeps, Moved, InFiles, InVault, TypeOK, DiskTypes, WorkTypes
  <2> QED  BY <2>3, <2>4, HomeMoves DEF VInv, TypeOK, SeenTypes
<1> QED  BY <1>1, <1>2, <1>3, <1>4, <1>5, <1>6 DEF VInv

LEMMA ForgetPayloadOne ==
  ASSUME VInv, ForgetPayload
  PROVE  VInv'
<1>1. TypeOK'
  BY InRange DEF ForgetPayload, VInv, GuiOK, SlotOK, TypeOK, DiskTypes, WorkTypes, CallTypes, SeenTypes, Operation, Call, GuiSteps, CallSteps, Entry, Bytes
<1>2. GuiOK'
  BY InRange DEF ForgetPayload, VInv, GuiOK, SlotOK, IdOK, Keeps, TypeOK, DiskTypes, WorkTypes, CallTypes, Operation, Call, Entry
<1>3. ASSUME NEW t \in Slots PROVE SlotOK(t)'
  BY InRange DEF ForgetPayload, VInv, GuiOK, SlotOK, IdOK, Keeps, TypeOK, DiskTypes, WorkTypes, CallTypes, Operation, Call, Entry
<1>4. ASSUME NEW t \in Slots, NEW u \in Slots, t # u PROVE PairOK(t, u)'
  BY <1>4, InRange DEF ForgetPayload, VInv, SlotOK, PairOK, TypeOK, CallTypes, Call, WorkTypes
<1>5. ASSUME NEW j \in Ids PROVE IdOK(j)'
  BY InRange DEF ForgetPayload, VInv, GuiOK, SlotOK, IdOK, Keeps, TypeOK, DiskTypes, WorkTypes, CallTypes, Operation, Call, Entry
<1>6. Alone => Home'
  <2> SUFFICES ASSUME Alone PROVE Home'
    OBVIOUS
  <2>1. \A j \in Ids : Passing(j)' => Passing(j)
    BY InRange DEF ForgetPayload, Passing, VInv, TypeOK, CallTypes, WorkTypes, Operation, Call
  <2>2. \A q \in Paths : Unsure(q)' => Unsure(q)
    BY InRange DEF ForgetPayload, Unsure, VInv, TypeOK, WorkTypes, Operation
  <2>3. ASSUME NEW c \in Files, NEW q \in Paths, file[q] = c, ~Unsure(q)
        PROVE  Moved(c)
    BY <2>1, <2>2, <2>3, InRange DEF ForgetPayload, VInv, GuiOK, SlotOK, Keeps, Moved, InFiles, InVault, TypeOK, DiskTypes, WorkTypes
  <2>4. ASSUME NEW c \in Files, NEW j \in Ids, payload[j] = c, ~Passing(j)
        PROVE  Moved(c)
    <3>1. j # gui.id
      BY <2>4 DEF Passing, ForgetPayload
    <3>2. payload'[j] = payload[j]
      BY <2>4, <3>1 DEF VInv, TypeOK, DiskTypes, ForgetPayload
    <3> QED  BY <2>1, <2>4, <3>2 DEF Moved, InVault
  <2> QED  BY <2>3, <2>4, HomeMoves DEF VInv, TypeOK, SeenTypes, ForgetPayload
<1> QED  BY <1>1, <1>2, <1>3, <1>4, <1>5, <1>6 DEF VInv

LEMMA ForgetSidecarOne ==
  ASSUME VInv, ForgetSidecar
  PROVE  VInv'
<1>1. TypeOK'
  BY InRange DEF ForgetSidecar, VInv, GuiOK, SlotOK, TypeOK, DiskTypes, WorkTypes, CallTypes, SeenTypes, Operation, Call, GuiSteps, CallSteps, Entry, Bytes
<1>2. GuiOK'
  BY InRange DEF ForgetSidecar, VInv, GuiOK, SlotOK, IdOK, Keeps, TypeOK, DiskTypes, WorkTypes, CallTypes, Operation, Call, Entry
<1>3. ASSUME NEW t \in Slots PROVE SlotOK(t)'
  BY InRange DEF ForgetSidecar, VInv, GuiOK, SlotOK, IdOK, Keeps, TypeOK, DiskTypes, WorkTypes, CallTypes, Operation, Call, Entry
<1>4. ASSUME NEW t \in Slots, NEW u \in Slots, t # u PROVE PairOK(t, u)'
  BY <1>4, InRange DEF ForgetSidecar, VInv, SlotOK, PairOK, TypeOK, CallTypes, Call, WorkTypes
<1>5. ASSUME NEW j \in Ids PROVE IdOK(j)'
  BY InRange DEF ForgetSidecar, VInv, GuiOK, SlotOK, IdOK, Keeps, TypeOK, DiskTypes, WorkTypes, CallTypes, Operation, Call, Entry
<1>6. Alone => Home'
  <2> SUFFICES ASSUME Alone PROVE Home'
    OBVIOUS
  <2>1. \A j \in Ids : Passing(j)' => Passing(j)
    BY InRange DEF ForgetSidecar, Passing, VInv, TypeOK, CallTypes, WorkTypes, Operation, Call
  <2>2. \A q \in Paths : Unsure(q)' => Unsure(q)
    BY InRange DEF ForgetSidecar, Unsure, VInv, TypeOK, WorkTypes, Operation
  <2>3. ASSUME NEW c \in Files, NEW q \in Paths, file[q] = c, ~Unsure(q)
        PROVE  Moved(c)
    BY <2>1, <2>2, <2>3, InRange DEF ForgetSidecar, VInv, GuiOK, SlotOK, Keeps, Moved, InFiles, InVault, TypeOK, DiskTypes, WorkTypes
  <2>4. ASSUME NEW c \in Files, NEW j \in Ids, payload[j] = c, ~Passing(j)
        PROVE  Moved(c)
    BY <2>1, <2>2, <2>4, InRange DEF ForgetSidecar, VInv, GuiOK, SlotOK, IdOK, Keeps, Moved, InFiles, InVault, TypeOK, DiskTypes, WorkTypes
  <2> QED  BY <2>3, <2>4, HomeMoves DEF VInv, TypeOK, SeenTypes, ForgetSidecar
<1> QED  BY <1>1, <1>2, <1>3, <1>4, <1>5, <1>6 DEF VInv

LEMMA DeleteOne ==
  ASSUME VInv, NEW i \in Ids, Delete(i)
  PROVE  VInv'
<1>1. TypeOK'
  BY InRange DEF Delete, VInv, GuiOK, SlotOK, TypeOK, DiskTypes, WorkTypes, CallTypes, SeenTypes, Operation, Call, GuiSteps, CallSteps, Entry, Bytes
<1>2. GuiOK'
  BY InRange DEF Delete, VInv, GuiOK, SlotOK, IdOK, Keeps, TypeOK, DiskTypes, WorkTypes, CallTypes, Operation, Call, Entry
<1>3. ASSUME NEW t \in Slots PROVE SlotOK(t)'
  BY InRange DEF Delete, VInv, GuiOK, SlotOK, IdOK, Keeps, TypeOK, DiskTypes, WorkTypes, CallTypes, Operation, Call, Entry
<1>4. ASSUME NEW t \in Slots, NEW u \in Slots, t # u PROVE PairOK(t, u)'
  BY <1>4, InRange DEF Delete, VInv, SlotOK, PairOK, TypeOK, CallTypes, Call, WorkTypes
<1>5. ASSUME NEW j \in Ids PROVE IdOK(j)'
  BY InRange DEF Delete, VInv, GuiOK, SlotOK, IdOK, Keeps, TypeOK, DiskTypes, WorkTypes, CallTypes, Operation, Call, Entry
<1>6. Alone => Home'
  <2> SUFFICES ASSUME Alone PROVE Home'
    OBVIOUS
  <2>1. \A j \in Ids : Passing(j)' => Passing(j) \/ j = i
    BY InRange DEF Delete, Passing, VInv, TypeOK, CallTypes, WorkTypes, Operation, Call
  <2>2. \A q \in Paths : Unsure(q)' => Unsure(q)
    BY InRange DEF Delete, Unsure, VInv, TypeOK, WorkTypes, Operation
  <2>3. ASSUME NEW c \in Files, NEW q \in Paths, file[q] = c, ~Unsure(q)
        PROVE  Moved(c)
    BY <2>1, <2>2, <2>3, InRange DEF Delete, VInv, GuiOK, SlotOK, Keeps, Moved, InFiles, InVault, TypeOK, DiskTypes, WorkTypes
  <2>4. ASSUME NEW c \in Files, NEW j \in Ids, payload[j] = c, ~Passing(j)
        PROVE  Moved(c)
    BY <2>1, <2>2, <2>4, InRange DEF Delete, VInv, GuiOK, SlotOK, IdOK, Keeps, Moved, InFiles, InVault, TypeOK, DiskTypes, WorkTypes
  <2> QED  BY <2>3, <2>4, HomeMoves DEF VInv, TypeOK, SeenTypes, Delete
<1> QED  BY <1>1, <1>2, <1>3, <1>4, <1>5, <1>6 DEF VInv

LEMMA CrashOne ==
  ASSUME VInv, Crash
  PROVE  VInv'
<1>0. /\ CallTypes'
      /\ \A t \in Slots : /\ call'[t].step = call[t].step /\ call'[t].id = call[t].id
                          /\ call'[t].path = call[t].path /\ call'[t].data = call[t].data
  BY DEF Crash, VInv, TypeOK, CallTypes, Call
<1>1. TypeOK'
  <2>1. gui' \in Operation /\ known' \in [Ids -> Entry \cup {None}] /\ alive' \in BOOLEAN
    <3>1. gui' = Idle /\ known' = [j \in Ids |-> None] /\ alive' = FALSE
      BY DEF Crash
    <3>2. Idle \in Operation
      BY DEF Operation, GuiSteps
    <3>3. [j \in Ids |-> None] \in [Ids -> Entry \cup {None}]
      OBVIOUS
    <3> HIDE DEF Idle
    <3> QED  BY <3>1, <3>2, <3>3
  <2> QED  BY <1>0, <2>1 DEF Crash, VInv, TypeOK, DiskTypes, WorkTypes, SeenTypes
<1>2. GuiOK'
  BY <1>0, InRange DEF Crash, VInv, GuiOK, SlotOK, IdOK, Keeps, TypeOK, DiskTypes, WorkTypes, Operation, Entry
<1>3. ASSUME NEW t \in Slots PROVE SlotOK(t)'
  <2>1. SlotOK(t) /\ (call[t].step # "free" => call[t].id \in Ids)
    BY InRange DEF VInv
  <2>2. gui' = Idle /\ known' = [j \in Ids |-> None] /\ UNCHANGED <<disk, used, tampered, given_up>>
    BY DEF Crash
  <2> QED  BY <1>0, <2>1, <2>2 DEF SlotOK, Keeps
<1>4. ASSUME NEW t \in Slots, NEW u \in Slots, t # u PROVE PairOK(t, u)'
  BY <1>4, InRange DEF Crash, VInv, SlotOK, PairOK, TypeOK, CallTypes, Call, WorkTypes
<1>5. ASSUME NEW j \in Ids PROVE IdOK(j)'
  BY <1>0, InRange DEF Crash, VInv, GuiOK, SlotOK, IdOK, Keeps, TypeOK, DiskTypes, WorkTypes, Operation, Entry
<1>6. Alone => Home'
  <2> SUFFICES ASSUME Alone PROVE Home'
    OBVIOUS
  <2>1. \A j \in Ids : Passing(j)' => Passing(j)
    BY <1>0, InRange DEF Crash, Passing, VInv, TypeOK, CallTypes, WorkTypes, Operation, Call
  <2>2. \A q \in Paths : Unsure(q)' => Unsure(q)
    BY <1>0, InRange DEF Crash, Unsure, VInv, TypeOK, WorkTypes, Operation
  <2>3. ASSUME NEW c \in Files, NEW q \in Paths, file[q] = c, ~Unsure(q)
        PROVE  Moved(c)
    BY <1>0, <2>1, <2>2, <2>3, InRange DEF Crash, VInv, GuiOK, SlotOK, Keeps, Moved, InFiles, InVault, TypeOK, DiskTypes, WorkTypes
  <2>4. ASSUME NEW c \in Files, NEW j \in Ids, payload[j] = c, ~Passing(j)
        PROVE  Moved(c)
    BY <1>0, <2>1, <2>2, <2>4, InRange DEF Crash, VInv, GuiOK, SlotOK, IdOK, Keeps, Moved, InFiles, InVault, TypeOK, DiskTypes, WorkTypes
  <2> QED  BY <2>3, <2>4, HomeMoves DEF VInv, TypeOK, SeenTypes, Crash
<1> QED  BY <1>1, <1>2, <1>3, <1>4, <1>5, <1>6 DEF VInv

LEMMA RestartOne ==
  ASSUME VInv, Restart
  PROVE  VInv'
<1>1. TypeOK'
  BY InRange DEF Restart, VInv, GuiOK, SlotOK, TypeOK, DiskTypes, WorkTypes, CallTypes, SeenTypes, Operation, Call, GuiSteps, CallSteps, Entry, Bytes
<1>2. GuiOK'
  BY InRange DEF Restart, VInv, GuiOK, SlotOK, IdOK, Keeps, TypeOK, DiskTypes, WorkTypes, CallTypes, Operation, Call, Entry
<1>3. ASSUME NEW t \in Slots PROVE SlotOK(t)'
  BY InRange DEF Restart, VInv, GuiOK, SlotOK, IdOK, Keeps, TypeOK, DiskTypes, WorkTypes, CallTypes, Operation, Call, Entry
<1>4. ASSUME NEW t \in Slots, NEW u \in Slots, t # u PROVE PairOK(t, u)'
  BY <1>4, InRange DEF Restart, VInv, SlotOK, PairOK, TypeOK, CallTypes, Call, WorkTypes
<1>5. ASSUME NEW j \in Ids PROVE IdOK(j)'
  BY InRange DEF Restart, VInv, GuiOK, SlotOK, IdOK, Keeps, TypeOK, DiskTypes, WorkTypes, CallTypes, Operation, Call, Entry
<1>6. Alone => Home'
  <2> SUFFICES ASSUME Alone PROVE Home'
    OBVIOUS
  <2>1. \A j \in Ids : Passing(j)' => Passing(j)
    BY InRange DEF Restart, Passing, VInv, TypeOK, CallTypes, WorkTypes, Operation, Call
  <2>2. \A q \in Paths : Unsure(q)' => Unsure(q)
    BY InRange DEF Restart, Unsure, VInv, TypeOK, WorkTypes, Operation
  <2>3. ASSUME NEW c \in Files, NEW q \in Paths, file[q] = c, ~Unsure(q)
        PROVE  Moved(c)
    BY <2>1, <2>2, <2>3, InRange DEF Restart, VInv, GuiOK, SlotOK, Keeps, Moved, InFiles, InVault, TypeOK, DiskTypes, WorkTypes
  <2>4. ASSUME NEW c \in Files, NEW j \in Ids, payload[j] = c, ~Passing(j)
        PROVE  Moved(c)
    BY <2>1, <2>2, <2>4, InRange DEF Restart, VInv, GuiOK, SlotOK, IdOK, Keeps, Moved, InFiles, InVault, TypeOK, DiskTypes, WorkTypes
  <2> QED  BY <2>3, <2>4, HomeMoves DEF VInv, TypeOK, SeenTypes, Restart
<1> QED  BY <1>1, <1>2, <1>3, <1>4, <1>5, <1>6 DEF VInv

LEMMA OutsiderOne ==
  ASSUME VInv, NEW p \in Paths, Outsider(p)
  PROVE  VInv'
<1>1. TypeOK'
  BY InRange DEF Alone, Undisturbed, Outsider, VInv, GuiOK, SlotOK, TypeOK, DiskTypes, WorkTypes, CallTypes, SeenTypes, Operation, Call, GuiSteps, CallSteps, Entry, Bytes
<1>2. GuiOK'
  BY InRange DEF Alone, Undisturbed, Outsider, VInv, GuiOK, SlotOK, IdOK, Keeps, TypeOK, DiskTypes, WorkTypes, CallTypes, Operation, Call, Entry
<1>3. ASSUME NEW t \in Slots PROVE SlotOK(t)'
  BY InRange DEF Alone, Undisturbed, Outsider, VInv, GuiOK, SlotOK, IdOK, Keeps, TypeOK, DiskTypes, WorkTypes, CallTypes, Operation, Call, Entry
<1>4. ASSUME NEW t \in Slots, NEW u \in Slots, t # u PROVE PairOK(t, u)'
  BY <1>4, InRange DEF Alone, Undisturbed, Outsider, VInv, SlotOK, PairOK, TypeOK, CallTypes, Call, WorkTypes
<1>5. ASSUME NEW j \in Ids PROVE IdOK(j)'
  BY InRange DEF Alone, Undisturbed, Outsider, VInv, GuiOK, SlotOK, IdOK, Keeps, TypeOK, DiskTypes, WorkTypes, CallTypes, Operation, Call, Entry
<1>6. Alone => Home'
  <2> SUFFICES ASSUME Alone PROVE Home'
    OBVIOUS
  <2>1. \A j \in Ids : Passing(j)' => Passing(j)
    BY InRange DEF Alone, Undisturbed, Outsider, Passing, VInv, TypeOK, CallTypes, WorkTypes, Operation, Call
  <2>2. \A q \in Paths : Unsure(q)' => Unsure(q)
    BY InRange DEF Alone, Undisturbed, Outsider, Unsure, VInv, TypeOK, WorkTypes, Operation
  <2>3. ASSUME NEW c \in Files, NEW q \in Paths, file[q] = c, ~Unsure(q)
        PROVE  Moved(c)
    BY <2>1, <2>2, <2>3, InRange DEF Alone, Undisturbed, Outsider, VInv, GuiOK, SlotOK, Keeps, Moved, InFiles, InVault, TypeOK, DiskTypes, WorkTypes
  <2>4. ASSUME NEW c \in Files, NEW j \in Ids, payload[j] = c, ~Passing(j)
        PROVE  Moved(c)
    BY <2>1, <2>2, <2>4, InRange DEF Alone, Undisturbed, Outsider, VInv, GuiOK, SlotOK, IdOK, Keeps, Moved, InFiles, InVault, TypeOK, DiskTypes, WorkTypes
  <2>5. \A c \in seen' \ seen : InFiles(c)'
    BY DEF Alone, Undisturbed, Outsider, InFiles, Unsure, VInv, TypeOK, DiskTypes
  <2> QED  BY <2>3, <2>4, <2>5, HomeMoves DEF Alone, Undisturbed, Outsider, VInv, TypeOK
<1> QED  BY <1>1, <1>2, <1>3, <1>4, <1>5, <1>6 DEF VInv

LEMMA TamperOne ==
  ASSUME VInv, NEW i \in Ids, Tamper(i)
  PROVE  VInv'
<1>1. TypeOK'
  BY InRange DEF Tamper, VInv, GuiOK, SlotOK, TypeOK, DiskTypes, WorkTypes, CallTypes, SeenTypes, Operation, Call, GuiSteps, CallSteps, Entry, Bytes
<1>2. GuiOK'
  BY InRange DEF Tamper, VInv, GuiOK, SlotOK, IdOK, Keeps, TypeOK, DiskTypes, WorkTypes, CallTypes, Operation, Call, Entry
<1>3. ASSUME NEW t \in Slots PROVE SlotOK(t)'
  BY InRange DEF Tamper, VInv, GuiOK, SlotOK, IdOK, Keeps, TypeOK, DiskTypes, WorkTypes, CallTypes, Operation, Call, Entry
<1>4. ASSUME NEW t \in Slots, NEW u \in Slots, t # u PROVE PairOK(t, u)'
  BY <1>4, InRange DEF Tamper, VInv, SlotOK, PairOK, TypeOK, CallTypes, Call, WorkTypes
<1>5. ASSUME NEW j \in Ids PROVE IdOK(j)'
  BY InRange DEF Tamper, VInv, GuiOK, SlotOK, IdOK, Keeps, TypeOK, DiskTypes, WorkTypes, CallTypes, Operation, Call, Entry
<1>6. Alone => Home'
  <2> SUFFICES ASSUME Alone PROVE Home'
    OBVIOUS
  <2>1. \A j \in Ids : Passing(j)' => Passing(j) \/ j = i
    BY InRange DEF Tamper, Passing, VInv, TypeOK, CallTypes, WorkTypes, Operation, Call
  <2>2. \A q \in Paths : Unsure(q)' => Unsure(q)
    BY InRange DEF Tamper, Unsure, VInv, TypeOK, WorkTypes, Operation
  <2>3. ASSUME NEW c \in Files, NEW q \in Paths, file[q] = c, ~Unsure(q)
        PROVE  Moved(c)
    BY <2>1, <2>2, <2>3, InRange DEF Tamper, VInv, GuiOK, SlotOK, Keeps, Moved, InFiles, InVault, TypeOK, DiskTypes, WorkTypes
  <2>4. ASSUME NEW c \in Files, NEW j \in Ids, payload[j] = c, ~Passing(j)
        PROVE  Moved(c)
    BY <2>1, <2>2, <2>4, InRange DEF Tamper, VInv, GuiOK, SlotOK, IdOK, Keeps, Moved, InFiles, InVault, TypeOK, DiskTypes, WorkTypes
  <2> QED  BY <2>3, <2>4, HomeMoves DEF VInv, TypeOK, SeenTypes, Tamper
<1> QED  BY <1>1, <1>2, <1>3, <1>4, <1>5, <1>6 DEF VInv

LEMMA InitInv == Init => VInv
<1> SUFFICES ASSUME Init PROVE VInv
  OBVIOUS
<1>1. PICK f \in [Paths -> Files \cup {None}] :
         file = f /\ seen = {f[p] : p \in Paths} \ {None}
  BY DEF Init
<1>2. TypeOK
  BY <1>1 DEF Init, TypeOK, DiskTypes, WorkTypes, CallTypes, SeenTypes, Operation, Call,
              GuiSteps, CallSteps, Bytes
<1>3. Home
  BY <1>1 DEF Init, Home, InFiles, Unsure
<1> QED  BY <1>2, <1>3 DEF Init, VInv, GuiOK, SlotOK, PairOK, IdOK

LEMMA NextInv == ASSUME VInv, [Next]_vars PROVE VInv'
<1>1. ASSUME NEW p \in Paths, CopyToVault(p) PROVE VInv'
  <2>1. CASE payload' = [payload EXCEPT ![used + 1] = file[p]]
             /\ gui' = [step |-> "copied", id |-> used + 1, path |-> p, data |-> file[p]]
    BY <1>1, <2>1, CopyOne DEF CopyToVault
  <2>2. CASE UNCHANGED <<payload, gui>>
    BY <1>1, <2>2, CopyNone DEF CopyToVault
  <2> QED  BY <1>1, <2>1, <2>2 DEF CopyToVault
<1>2. CASE RemoveOriginal
  BY <1>2, RemoveDirect, UndoCopy DEF RemoveOriginal
<1>3. CASE WriteSidecar
  BY <1>3, SidecarOne, SidecarNone DEF WriteSidecar
<1>4. ASSUME NEW i \in Ids, NEW p \in Paths, PlaceRestored(i, p) PROVE VInv'
  <2>1. CASE file' = [file EXCEPT ![p] = payload[i]]
             /\ gui' = [step |-> "placed", id |-> i, path |-> p, data |-> payload[i]]
    BY <1>4, <2>1, PlaceDirect DEF PlaceRestored
  <2>2. CASE file' = [file EXCEPT ![p] = Torn] /\ UNCHANGED gui
    BY <1>4, <2>2, PlaceTorn DEF PlaceRestored
  <2> QED  BY <1>4, <2>1, <2>2 DEF PlaceRestored
<1>5. CASE CompareRestored
  BY <1>5, CompareGood, CompareBad DEF CompareRestored
<1>6. ASSUME NEW s \in Slots, HelperReads(s) PROVE VInv'
  BY <1>6, ReadOne, GiveUp DEF HelperReads
<1>7. ASSUME NEW s \in Slots, HelperStores(s) PROVE VInv'
  BY <1>7, StoreOne, StoreNone DEF HelperStores
<1>8. ASSUME NEW s \in Slots, HelperRecords(s) PROVE VInv'
  BY <1>8, RecordOne, GiveUp DEF HelperRecords
<1>9. ASSUME NEW s \in Slots, HelperRemoves(s) PROVE VInv'
  BY <1>9, RemoveOne, RollBack DEF HelperRemoves
<1>10. ASSUME NEW s \in Slots, QuarantineReported(s) PROVE VInv'
  BY <1>10, ReportOne, GiveUp DEF QuarantineReported
<1>11. ASSUME NEW s \in Slots, HelperVerifies(s) PROVE VInv'
  <2>1. CASE Fail(s)
    BY <1>11, <2>1, GiveUp DEF HelperVerifies
  <2>2. CASE ~Fail(s)
    <3>1. call[s].id \in Ids
      BY <1>11, InRange DEF HelperVerifies
    <3>2. record[call[s].id] \in Entry
      BY <1>11, <2>2, <3>1 DEF HelperVerifies, VInv, TypeOK, DiskTypes
    <3>3. PICK p \in Paths, d \in Files : record[call[s].id] = [path |-> p, sha |-> d]
      BY <3>2 DEF Entry
    <3>4. payload[call[s].id] = d
      BY <1>11, <2>2, <3>3 DEF HelperVerifies
    <3>5. call' = [call EXCEPT ![s].step = "r_read", ![s].data = d, ![s].path = p]
      BY <1>11, <2>2, <3>3, <3>4 DEF HelperVerifies
    <3> QED  BY <1>11, <3>3, <3>4, <3>5, VerifyOne DEF HelperVerifies
  <2> QED  BY <2>1, <2>2
<1>12. ASSUME NEW s \in Slots, HelperSeesNoFile(s) PROVE VInv'
  BY <1>12, SeeNoFile, GiveUp DEF HelperSeesNoFile
<1>13. ASSUME NEW s \in Slots, HelperPlaces(s) PROVE VInv'
  BY <1>13, PlaceOne, GiveUp DEF HelperPlaces
<1>14. ASSUME NEW s \in Slots, HelperForgets(s) PROVE VInv'
  BY <1>14, ForgetOne DEF HelperForgets
<1>15. ASSUME NEW s \in Slots, RestoreReported(s) PROVE VInv'
  BY <1>15, ReportRestored, GiveUp DEF RestoreReported
<1>16. CASE UNCHANGED vars
  BY <1>16 DEF vars, VInv, TypeOK, DiskTypes, WorkTypes, CallTypes, SeenTypes, GuiOK, SlotOK,
               PairOK, IdOK, Keeps, Home, InFiles, InVault, Passing, Unsure
<1> QED
  BY <1>1, <1>2, <1>3, <1>4, <1>5, <1>6, <1>7, <1>8, <1>9, <1>10, <1>11, <1>12, <1>13,
     <1>14, <1>15, <1>16, AskQuarantineOne, AskRestoreOne, ForgetPayloadOne, ForgetSidecarOne,
     DeleteOne, TamperOne, OutsiderOne, CrashOne, RestartOne
  DEF Next

\* The inductive invariant holds whatever fails, dies or is damaged; its parts
\* that need it are stated for no "outsider" or no "race".
THEOREM VaultInvariant == Spec => []VInv
<1>1. VInv /\ [Next]_vars => VInv'
  BY NextInv
<1> QED  BY InitInv, <1>1, PTL DEF Spec

\* Every variable has its type.
THEOREM VaultTypes == Spec => []TypeOK
<1>1. VInv => TypeOK
  BY DEF VInv
<1> QED  BY VaultInvariant, <1>1, PTL

\* No bytes are lost by any order of copies, unlinks, renames, rollbacks and
\* crashes of the application and its helpers.
THEOREM NothingIsLost ==
  ASSUME Alone PROVE Spec => []ContentSurvives
<1>1. VInv => ContentSurvives
  BY DEF VInv, Home, InFiles, InVault, ContentSurvives, Held, Live
<1> QED  BY VaultInvariant, <1>1, PTL

\* Root writes only what it took from that very path and has verified, also
\* while other programs write to the paths it works on.
THEOREM RootWritesOnlyItsRecord ==
  ASSUME NoRace PROVE Spec => RootWritesItsRecord
<1> DEFINE RootStep == \A p \in Rooted : file[p] # file'[p] /\ file'[p] # None /\ seen = seen' =>
                         \E i \in Ids : record[i] = [path |-> p, sha |-> file'[p]]
<1>1. ASSUME VInv, [Next]_vars PROVE RootStep
  <2> SUFFICES ASSUME NEW r \in Rooted, file[r] # file'[r], file'[r] # None, seen = seen'
               PROVE  \E i \in Ids : record[i] = [path |-> r, sha |-> file'[r]]
    OBVIOUS
  <2>1. ASSUME NEW s \in Slots, HelperPlaces(s) PROVE \E i \in Ids : record[i] = [path |-> r, sha |-> file'[r]]
    <3>1. call[s].path = r /\ file'[r] = call[s].data
      BY <1>1, <2>1 DEF HelperPlaces, VInv, TypeOK, DiskTypes
    <3>2. call[s].id \in Ids
      BY <1>1, <2>1, InRange DEF HelperPlaces
    <3> QED  BY <1>1, <2>1, <3>1, <3>2 DEF HelperPlaces, VInv, SlotOK
  <2>2. ASSUME NEW p \in Paths, Outsider(p) PROVE FALSE
    BY <1>1, <2>2 DEF Outsider
  <2>3. ~RemoveOriginal /\ ~CompareRestored
    BY <1>1 DEF RemoveOriginal, CompareRestored, VInv, GuiOK, TypeOK, DiskTypes
  <2>4. ASSUME NEW s \in Slots, HelperRemoves(s) PROVE FALSE
    BY <1>1, <2>4 DEF HelperRemoves, VInv, TypeOK, DiskTypes
  <2>5. ASSUME NEW i \in Ids, NEW p \in Paths, PlaceRestored(i, p) PROVE FALSE
    BY <1>1, <2>5 DEF PlaceRestored, VInv, TypeOK, DiskTypes
  <2> QED
    BY <1>1, <2>1, <2>2, <2>3, <2>4, <2>5 DEF Next, vars, CopyToVault, WriteSidecar,
       ForgetPayload, ForgetSidecar, AskQuarantine, HelperReads, HelperStores, HelperRecords,
       QuarantineReported, AskRestore, HelperVerifies, HelperSeesNoFile, HelperForgets,
       RestoreReported, Delete, Tamper, Crash, Restart
<1>2. VInv /\ [Next]_vars => [RootStep]_vars
  BY <1>1
<1> QED  BY VaultInvariant, <1>2, PTL DEF Spec, RootWritesItsRecord

-----------------------------------------------------------------------------
(* An announced file is no longer where it was found.                      *)

\* Nothing is where a file was just taken from, or where one is about to be put
\* back; and no path is both at once.
Vacating == {"q_done", "r_asked", "r_read", "r_clear"}
Placing == {"r_asked", "r_read", "r_clear"}
Emptied ==
  /\ gui.step = "removed" => file[gui.path] = None
  /\ \A s \in Slots : call[s].step \in Vacating => file[call[s].path] = None
  /\ \A s, t \in Slots : call[s].step \in QSteps /\ call[t].step \in Placing =>
        call[s].path # call[t].path

\* Steps that write no file, and helpers that only go on where they are or stop.
LEMMA EmptyStays ==
  ASSUME Emptied, UNCHANGED file, gui'.step # "removed" \/ gui' = gui,
         \A s \in Slots : \/ call'[s].step \notin QSteps \cup Placing
                          \/ /\ call'[s].path = call[s].path
                             /\ call'[s].step \in QSteps <=> call[s].step \in QSteps
                             /\ call'[s].step \in Vacating => call[s].step \in Vacating
                             /\ call'[s].step \in Placing => call[s].step \in Placing
  PROVE  Emptied'
BY DEF Emptied, Vacating, Placing

LEMMA NextEmptied ==
  ASSUME Alone, VInv, Emptied, [Next]_vars PROVE Emptied'
<1>0. /\ file \in [Paths -> Bytes \cup {None}] /\ gui \in Operation /\ call \in [Slots -> Call]
      /\ record \in [Ids -> Entry \cup {None}] /\ known \in [Ids -> Entry \cup {None}]
  BY DEF VInv, TypeOK, DiskTypes, WorkTypes, CallTypes
<1>1. \A s \in Slots : call[s].step # "free" => call[s].path \in Rooted /\ call[s].id \in Ids
  BY InRange DEF VInv, SlotOK
<1>2. ASSUME NEW p \in Paths, CopyToVault(p) PROVE Emptied'
  <2>1. gui'.step # "removed" \/ gui' = gui
    BY <1>2 DEF CopyToVault
  <2> QED BY <1>2, <2>1, EmptyStays DEF CopyToVault
<1>3. CASE RemoveOriginal
  <2>1. gui.path \in Owned /\ call' = call
    BY <1>3 DEF RemoveOriginal, VInv, GuiOK
  <2>2. CASE file' = Unlinked(gui.path) /\ gui' = [gui EXCEPT !.step = "removed"]
    <3>1. gui'.path = gui.path /\ file'[gui.path] = None /\ \A p \in Rooted : file'[p] = file[p]
      BY <1>0, <2>1, <2>2 DEF Operation
    <3> QED BY <1>1, <2>1, <3>1 DEF Emptied, Vacating
  <2>3. CASE file' = file /\ gui' = Idle
    BY <2>1, <2>3, EmptyStays
  <2> QED BY <1>3, <2>2, <2>3 DEF RemoveOriginal
<1>4. CASE WriteSidecar \/ ForgetPayload \/ ForgetSidecar
  <2>1. gui'.step # "removed" /\ UNCHANGED <<file, call>>
    BY <1>0, <1>4 DEF WriteSidecar, ForgetPayload, ForgetSidecar, Operation
  <2> QED BY <2>1, EmptyStays
<1>5. ASSUME NEW i \in Ids, NEW p \in Paths, PlaceRestored(i, p) PROVE Emptied'
  <2>1. p \in Owned /\ call' = call /\ gui'.step # "removed" /\ \A q \in Rooted : file'[q] = file[q]
    BY <1>0, <1>5 DEF PlaceRestored
  <2> QED BY <1>1, <2>1 DEF Emptied, Vacating
<1>6. CASE CompareRestored
  <2>1. /\ gui.path \in Owned /\ call' = call /\ gui'.step # "removed"
        /\ \A q \in Rooted : file'[q] = file[q]
    BY <1>0, <1>6 DEF CompareRestored, VInv, GuiOK, Operation
  <2> QED BY <1>1, <2>1 DEF Emptied, Vacating
<1>7. ASSUME NEW i \in Ids, Delete(i) PROVE Emptied'
  BY <1>7, EmptyStays DEF Delete
<1>8. ASSUME NEW s \in Slots, Fail(s), UNCHANGED file, gui' = gui \/ gui'.step # "removed"
      PROVE  Emptied'
  <2>1. \A t \in Slots : call'[t].step = "free" \/ call'[t] = call[t]
    BY <1>0, <1>8 DEF Fail
  <2> QED BY <1>8, <2>1, EmptyStays DEF Placing
<1>9. ASSUME NEW s \in Slots, NEW step \in CallSteps, Advance(s, step), UNCHANGED <<file, gui>>,
             step \in QSteps <=> call[s].step \in QSteps,
             step \in Vacating => call[s].step \in Vacating,
             step \in Placing => call[s].step \in Placing
      PROVE  Emptied'
  <2>1. /\ call'[s].step = step /\ call'[s].path = call[s].path
        /\ \A t \in Slots : t # s => call'[t] = call[t]
    BY <1>0, <1>9 DEF Advance, Call
  <2> QED BY <1>9, <2>1, EmptyStays
<1>10. ASSUME NEW s \in Slots, HelperReads(s) PROVE Emptied'
  <2>1. CASE Fail(s)
    BY <1>8, <1>10, <2>1 DEF HelperReads
  <2>2. CASE call' = [call EXCEPT ![s].step = "q_read", ![s].data = file[call[s].path]]
    <3>1. /\ call'[s].step = "q_read" /\ call'[s].path = call[s].path
          /\ \A t \in Slots : t # s => call'[t] = call[t]
      BY <1>0, <2>2 DEF Call
    <3> QED BY <1>10, <3>1, EmptyStays DEF HelperReads, Vacating, Placing
  <2> QED BY <1>10, <2>1, <2>2 DEF HelperReads
<1>11. ASSUME NEW s \in Slots, HelperStores(s) \/ HelperRecords(s) \/ HelperForgets(s) PROVE Emptied'
  <2>1. CASE Fail(s)
    BY <1>8, <1>11, <2>1 DEF HelperStores, HelperRecords, HelperForgets
  <2>2. CASE ~Fail(s)
    BY <1>9, <1>11, <2>2 DEF HelperStores, HelperRecords, HelperForgets, CallSteps, Vacating, Placing
  <2> QED BY <2>1, <2>2
<1>12. ASSUME NEW s \in Slots, HelperRemoves(s) PROVE Emptied'
  <2>1. CASE Fail(s) /\ UNCHANGED file
    BY <1>8, <1>12, <2>1 DEF HelperRemoves
  <2>2. CASE file' = Unlinked(call[s].path) /\ Advance(s, "q_done")
    <3>1. /\ call'[s].step = "q_done" /\ call'[s].path = call[s].path
          /\ \A t \in Slots : t # s => call'[t] = call[t]
      BY <1>0, <2>2 DEF Advance, Call
    <3>2. call[s].path \in Paths /\ file'[call[s].path] = None /\ gui' = gui
      BY <1>0, <1>1, <1>12, <2>2 DEF HelperRemoves
    <3>3. \A p \in Paths : file[p] = None => file'[p] = None
      BY <1>0, <2>2
    <3>4. gui.step = "removed" => gui.path \in Paths
      BY DEF VInv, GuiOK
    <3> QED BY <1>1, <1>12, <3>1, <3>2, <3>3, <3>4 DEF HelperRemoves, Emptied, Vacating, Placing
  <2> QED BY <1>12, <2>1, <2>2 DEF HelperRemoves
<1>13. ASSUME NEW s \in Slots, QuarantineReported(s) PROVE Emptied'
  BY <1>8, <1>13 DEF QuarantineReported
<1>14. ASSUME NEW s \in Slots, RestoreReported(s) PROVE Emptied'
  BY <1>8, <1>14 DEF RestoreReported
<1>15. ASSUME NEW s \in Slots, HelperVerifies(s) PROVE Emptied'
  <2>1. CASE Fail(s)
    BY <1>8, <1>15, <2>1 DEF HelperVerifies
  <2>2. CASE ~Fail(s)
    <3>1. record[call[s].id].path = call[s].path /\ record[call[s].id] # None
      BY <1>15, <2>2 DEF HelperVerifies, VInv, SlotOK
    <3>2. /\ call'[s].step = "r_read" /\ call'[s].path = call[s].path
          /\ \A t \in Slots : t # s => call'[t] = call[t]
      BY <1>0, <1>15, <2>2, <3>1 DEF HelperVerifies, Call
    <3> QED BY <1>15, <3>2, EmptyStays DEF HelperVerifies, Vacating, Placing
  <2> QED BY <2>1, <2>2
<1>16. ASSUME NEW s \in Slots, HelperSeesNoFile(s) PROVE Emptied'
  <2>1. CASE Fail(s)
    BY <1>8, <1>16, <2>1 DEF HelperSeesNoFile
  <2>2. CASE Advance(s, "r_clear")
    BY <1>9, <1>16, <2>2 DEF HelperSeesNoFile, CallSteps, Vacating, Placing
  <2> QED BY <1>16, <2>1, <2>2 DEF HelperSeesNoFile
<1>17. ASSUME NEW s \in Slots, HelperPlaces(s) PROVE Emptied'
  <2>1. CASE Fail(s) /\ UNCHANGED file
    BY <1>8, <1>17, <2>1 DEF HelperPlaces
  <2>2. CASE Advance(s, "r_placed") /\ file' = [file EXCEPT ![call[s].path] = call[s].data]
    <3>1. /\ call'[s].step = "r_placed" /\ call'[s].path = call[s].path
          /\ \A t \in Slots : t # s => call'[t] = call[t]
      BY <1>0, <2>2 DEF Advance, Call
    <3>2. \A p \in Paths : p # call[s].path => file'[p] = file[p]
      BY <1>0, <2>2
    <3>3. gui' = gui /\ call[s].step = "r_clear" /\ call[s].path \in Rooted
      BY <1>1, <1>17 DEF HelperPlaces
    <3>4. gui.step = "removed" => gui.path \in Owned
      BY DEF VInv, GuiOK
    <3>5. \A t \in Slots : t # s /\ call[t].step \in Vacating => call[t].path # call[s].path
      <4>1. ASSUME NEW t \in Slots, t # s, call[t].step \in Vacating PROVE call[t].path # call[s].path
        BY <3>3, <4>1 DEF Alone, Emptied, Vacating, Placing, VInv, PairOK
      <4> QED BY <4>1
    <3> QED BY <1>1, <3>1, <3>2, <3>3, <3>4, <3>5 DEF Emptied, Vacating, Placing
  <2> QED BY <1>17, <2>1, <2>2 DEF HelperPlaces
<1>18. ASSUME NEW p \in Paths, NEW s \in Slots, AskQuarantine(p, s) PROVE Emptied'
  <2>1. /\ call'[s].step = "q_asked" /\ call'[s].path = p
        /\ \A t \in Slots : t # s => call'[t] = call[t]
    BY <1>0, <1>18 DEF AskQuarantine
  <2>2. UNCHANGED <<file, gui>> /\ file[p] # None
    BY <1>18 DEF AskQuarantine
  <2> QED BY <2>1, <2>2 DEF Emptied, Vacating, Placing
<1>19. ASSUME NEW i \in Ids, NEW s \in Slots, AskRestore(i, s) PROVE Emptied'
  <2>1. /\ call'[s].step = "r_asked" /\ call'[s].path = known[i].path
        /\ \A t \in Slots : t # s => call'[t] = call[t]
    BY <1>0, <1>19 DEF AskRestore
  <2>2. /\ UNCHANGED <<file, gui>> /\ file[known[i].path] = None
        /\ \A t \in Slots : call[t].path # known[i].path
    BY <1>19 DEF Alone, NoRace, AskRestore, Quiet
  <2> QED BY <2>1, <2>2 DEF Emptied, Vacating, Placing
<1>20. CASE Crash
  <2>1. /\ UNCHANGED file /\ gui'.step = "idle"
        /\ \A t \in Slots : call'[t].step = call[t].step /\ call'[t].path = call[t].path
    BY <1>0, <1>20 DEF Crash, Call
  <2> QED BY <2>1, EmptyStays
<1>21. CASE Restart
  BY <1>21, EmptyStays DEF Restart
<1>22. ASSUME NEW p \in Paths, Outsider(p) PROVE Emptied'
  <2>1. /\ UNCHANGED <<gui, call>> /\ gui.path # p /\ \A s \in Slots : call[s].path # p
    BY <1>22 DEF Alone, Undisturbed, Outsider, Quiet
  <2>2. \A q \in Paths : q # p => file'[q] = file[q]
    BY <1>0, <1>22 DEF Outsider
  <2>3. gui.step = "removed" => gui.path \in Paths
    BY DEF VInv, GuiOK
  <2> QED BY <1>1, <2>1, <2>2, <2>3 DEF Emptied, Vacating
<1>23. ASSUME NEW i \in Ids, Tamper(i) PROVE Emptied'
  BY <1>23, EmptyStays DEF Tamper
<1>24. CASE UNCHANGED vars
  BY <1>24, EmptyStays DEF vars
<1> QED
  BY <1>2, <1>3, <1>4, <1>5, <1>6, <1>7, <1>10, <1>11, <1>12, <1>13, <1>14, <1>15, <1>16, <1>17,
     <1>18, <1>19, <1>20, <1>21, <1>22, <1>23, <1>24
  DEF Next

\* When an entry is announced the file is no longer where it was found, whether
\* the application or the helper moved it, whatever was restored or quarantined
\* at the same path meanwhile, and whatever failed or died.
THEOREM AnnouncedFilesAreGone ==
  ASSUME Alone PROVE Spec => AnnouncedMeansGone
<1> DEFINE Announced == \A i \in Ids : meta[i] = None /\ meta'[i] # None =>
                          file'[meta'[i].path] # meta'[i].sha
<1>1. Init => VInv /\ Emptied
  BY InitInv DEF Init, Emptied, Vacating, Placing
<1>2. VInv /\ Emptied /\ [Next]_vars => (VInv /\ Emptied)'
  BY NextInv, NextEmptied
<1>3. ASSUME VInv, Emptied, [Next]_vars PROVE Announced
  <2>0. meta \in [Ids -> Entry \cup {None}]
    BY <1>3 DEF VInv, TypeOK, DiskTypes
  <2>1. CASE WriteSidecar
    <3>1. gui.data \in Files /\ file[gui.path] = None /\ file' = file
      BY <1>3, <2>1 DEF WriteSidecar, VInv, GuiOK, Emptied
    <3>2. \A i \in Ids : meta'[i] = meta[i] \/ meta'[i] = [path |-> gui.path, sha |-> gui.data]
      BY <2>0, <2>1 DEF WriteSidecar
    <3> QED BY <3>1, <3>2
  <2>2. ASSUME NEW s \in Slots, QuarantineReported(s) PROVE Announced
    <3>1. call[s].data \in Files /\ file[call[s].path] = None /\ file' = file
      BY <1>3, <2>2 DEF QuarantineReported, VInv, SlotOK, Emptied, Vacating
    <3>2. \A i \in Ids : meta'[i] = meta[i]
                         \/ meta'[i] = [path |-> call[s].path, sha |-> call[s].data]
      BY <2>0, <2>2 DEF QuarantineReported
    <3> QED BY <3>1, <3>2
  <2>3. CASE \A i \in Ids : meta'[i] = meta[i] \/ meta'[i] = None
    BY <2>3
  <2>4. \/ WriteSidecar \/ \E s \in Slots : QuarantineReported(s)
        \/ meta' = meta \/ meta' = [meta EXCEPT ![gui.id] = None]
    BY <1>3 DEF Next, vars, CopyToVault, RemoveOriginal, ForgetPayload, ForgetSidecar,
       PlaceRestored, CompareRestored, AskQuarantine, HelperReads, HelperStores, HelperRecords,
       HelperRemoves, AskRestore, HelperVerifies, HelperSeesNoFile, HelperPlaces, HelperForgets,
       RestoreReported, Delete, Tamper, Outsider, Crash, Restart
  <2> QED BY <2>0, <2>1, <2>2, <2>3, <2>4
<1>4. VInv /\ Emptied /\ [Next]_vars => [Announced]_vars
  BY <1>3
<1> QED BY <1>1, <1>2, <1>4, PTL DEF Spec, AnnouncedMeansGone

-----------------------------------------------------------------------------
(* Sidecars and payloads.                                                  *)

\* What fails is handled: the application does not die in the middle, and the
\* stores that have no way back (the sidecar, the helper's own) can be written.
Handled == {"crash", "meta_error", "helper_io"} \cap Faults = {}

\* The application never died, so somebody waits for every helper.
Attended == alive /\ \A s \in Slots : call[s].step # "free" => call[s].owned

\* An entry that is listed has its payload, unless it was tampered with or is
\* just being taken out; a payload is listed, unless its entry is still to be
\* written; and what is taken out loses its payload before its sidecar.
Leaving(i) == gui.id = i /\ gui.step \in {"leaving", "shredded", "left"}
Entering(i) ==
  \/ gui.id = i /\ gui.step \in {"copied", "removed"}
  \/ \E s \in Slots : call[s].id = i /\ call[s].step \in {"q_stored", "q_recorded", "q_done"}
Listed(i) ==
  /\ meta[i] # None => payload[i] \in Files \/ i \in tampered \/ Leaving(i)
  /\ payload[i] # None => meta[i] # None \/ Entering(i)
  /\ gui.step = "left" /\ gui.id = i => payload[i] = None

LInv == VInv /\ Attended /\ \A i \in Ids : Listed(i)

\* Every step keeps the helpers attended.
LEMMA NextAttended == ASSUME Handled, LInv, [Next]_vars PROVE Attended'
<1>0. call \in [Slots -> Call] /\ alive
  BY DEF LInv, VInv, TypeOK, CallTypes, Attended
<1>1. CASE UNCHANGED call
  <2>1. alive' = alive
    BY <1>0, <1>1 DEF Handled, Next, vars, CopyToVault, RemoveOriginal, WriteSidecar, ForgetPayload,
       ForgetSidecar, PlaceRestored, CompareRestored, AskQuarantine, HelperReads, HelperStores,
       HelperRecords, HelperRemoves, QuarantineReported, AskRestore, HelperVerifies,
       HelperSeesNoFile, HelperPlaces, HelperForgets, RestoreReported, Delete, Tamper, Outsider,
       Crash, Restart
  <2> QED BY <1>1, <2>1 DEF LInv, Attended
<1>2. ASSUME NEW s \in Slots, alive' = alive, call[s].step # "free",
             \A t \in Slots : t # s => call'[t] = call[t],
             call'[s] = Free \/ call'[s].owned = call[s].owned
      PROVE  Attended'
  BY <1>2 DEF LInv, Attended
<1>3. ASSUME NEW s \in Slots, alive' = alive, \A t \in Slots : t # s => call'[t] = call[t],
             call'[s].owned = TRUE
      PROVE  Attended'
  BY <1>3 DEF LInv, Attended
<1>4. ASSUME NEW s \in Slots,
             \/ HelperReads(s) \/ HelperStores(s) \/ HelperRecords(s) \/ HelperRemoves(s)
             \/ QuarantineReported(s) \/ HelperVerifies(s) \/ HelperSeesNoFile(s)
             \/ HelperPlaces(s) \/ HelperForgets(s) \/ RestoreReported(s)
      PROVE  Attended'
  <2>1. alive' = alive /\ call[s].step # "free"
    BY <1>4 DEF HelperReads, HelperStores, HelperRecords, HelperRemoves, QuarantineReported,
       HelperVerifies, HelperSeesNoFile, HelperPlaces, HelperForgets, RestoreReported
  <2>2. CASE Fail(s)
    <3>1. call'[s] = Free /\ \A t \in Slots : t # s => call'[t] = call[t]
      BY <1>0, <2>2 DEF Fail
    <3> QED BY <1>2, <2>1, <3>1
  <2>3. ASSUME NEW c \in Call, c.owned = call[s].owned, call' = [call EXCEPT ![s] = c] PROVE Attended'
    BY <1>0, <1>2, <2>1, <2>3
  <2>4. ASSUME NEW step \in CallSteps, Advance(s, step) PROVE Attended'
    <3>1. call' = [call EXCEPT ![s] = [call[s] EXCEPT !.step = step]]
      BY <1>0, <2>4 DEF Advance
    <3>2. [call[s] EXCEPT !.step = step] \in Call /\ [call[s] EXCEPT !.step = step].owned = call[s].owned
      BY <1>0 DEF Call
    <3> QED BY <2>3, <3>1, <3>2
  <2>5. CASE (HelperReads(s) \/ HelperVerifies(s)) /\ ~Fail(s)
    <3>1. call'[s].owned = call[s].owned /\ \A t \in Slots : t # s => call'[t] = call[t]
      BY <1>0, <2>5 DEF HelperReads, HelperVerifies, Call
    <3> QED BY <1>2, <2>1, <3>1
  <2>6. HelperReads(s) \/ HelperVerifies(s) \/ Fail(s) \/ \E step \in CallSteps : Advance(s, step)
    BY <1>4 DEF HelperStores, HelperRecords, HelperRemoves, QuarantineReported,
       HelperSeesNoFile, HelperPlaces, HelperForgets, RestoreReported, CallSteps
  <2> QED BY <2>2, <2>4, <2>5, <2>6
<1>5. ASSUME NEW s \in Slots,
             (\E p \in Paths : AskQuarantine(p, s)) \/ (\E i \in Ids : AskRestore(i, s))
      PROVE  Attended'
  <2>1. alive' = alive
    BY <1>5 DEF AskQuarantine, AskRestore
  <2>2. \E c : c.owned = TRUE /\ call' = [call EXCEPT ![s] = c]
    <3>1. ASSUME NEW p \in Paths, AskQuarantine(p, s) PROVE \E c : c.owned = TRUE /\ call' = [call EXCEPT ![s] = c]
      BY <3>1 DEF AskQuarantine
    <3>2. ASSUME NEW i \in Ids, AskRestore(i, s) PROVE \E c : c.owned = TRUE /\ call' = [call EXCEPT ![s] = c]
      BY <3>2 DEF AskRestore
    <3> QED BY <1>5, <3>1, <3>2
  <2>3. call'[s].owned = TRUE /\ \A t \in Slots : t # s => call'[t] = call[t]
    BY <1>0, <2>2
  <2> QED BY <1>3, <2>1, <2>3
<1>6. ~Crash
  BY DEF Handled, Crash
<1> QED
  BY <1>1, <1>4, <1>5, <1>6
  DEF Next, vars, CopyToVault, RemoveOriginal, WriteSidecar, ForgetPayload, ForgetSidecar,
      PlaceRestored, CompareRestored, Delete, Tamper, Outsider, Restart

\* Nothing that counts for an entry changes but what a step says.
LEMMA ListedStays ==
  ASSUME NEW i \in Ids, Listed(i), payload'[i] = payload[i], meta'[i] = meta[i],
         i \in tampered => i \in tampered', Leaving(i) => Leaving(i)',
         Entering(i) => Entering(i)', gui'.step = "left" => gui' = gui
  PROVE  Listed(i)'
BY DEF Listed

\* The UI thread's own steps.
LEMMA DirectListed ==
  ASSUME Handled, LInv,
         \/ \E p \in Paths : CopyToVault(p)
         \/ RemoveOriginal \/ WriteSidecar \/ CompareRestored \/ ForgetPayload \/ ForgetSidecar
         \/ \E i \in Ids, p \in Paths : PlaceRestored(i, p)
         \/ \E i \in Ids : Delete(i),
         NEW j \in Ids
  PROVE  Listed(j)'
<1>0. /\ payload \in [Ids -> Bytes \cup {None}] /\ meta \in [Ids -> Entry \cup {None}]
      /\ gui \in Operation /\ known \in [Ids -> Entry \cup {None}] /\ Listed(j)
  BY DEF LInv, VInv, TypeOK, DiskTypes, WorkTypes
<1>1. UNCHANGED <<call, tampered>>
  BY DEF CopyToVault, RemoveOriginal, WriteSidecar, CompareRestored, ForgetPayload, ForgetSidecar,
     PlaceRestored, Delete
<1>2. gui.step # "idle" => gui.id \in Ids
  BY InRange DEF LInv
<1>3. CASE (gui.step = "idle" \/ j # gui.id) /\ (gui'.step = "idle" \/ j # gui'.id)
  <2>1. payload'[j] = payload[j] /\ meta'[j] = meta[j]
    BY <1>0, <1>3 DEF CopyToVault, RemoveOriginal, WriteSidecar, CompareRestored, ForgetPayload,
       ForgetSidecar, PlaceRestored, Delete
  <2>2. (Entering(j) => Entering(j)') /\ ~Leaving(j)
    BY <1>1, <1>3 DEF Entering, Leaving
  <2> QED BY <1>0, <1>1, <1>3, <2>1, <2>2 DEF Listed
<1>4. ASSUME NEW p \in Paths, CopyToVault(p), gui'.step # "idle", gui'.id = j PROVE Listed(j)'
  <2>1. CASE gui' = gui
    BY <1>0, <1>1, <1>4, <2>1 DEF CopyToVault, Operation, Listed, Entering, Leaving, LInv, VInv, TypeOK, WorkTypes
  <2>2. CASE gui' = [step |-> "copied", id |-> used + 1, path |-> p, data |-> file[p]]
    <3>1. meta'[j] = None /\ gui'.step = "copied"
      BY <1>4, <2>2 DEF CopyToVault, LInv, VInv, IdOK, TypeOK, WorkTypes
    <3> QED BY <1>4, <3>1 DEF Listed, Entering
  <2> QED BY <1>4, <2>1, <2>2 DEF CopyToVault
<1>5. CASE RemoveOriginal /\ j = gui.id
  <2>1. meta'[j] = None
    BY <1>5 DEF RemoveOriginal, LInv, VInv, GuiOK
  <2>2. \/ gui'.id = j /\ gui'.step = "removed"
        \/ payload'[j] = None
    BY <1>0, <1>5 DEF RemoveOriginal, Operation
  <2> QED BY <1>0, <1>5, <2>1, <2>2 DEF RemoveOriginal, Listed, Entering, Operation
<1>6. CASE WriteSidecar /\ j = gui.id
  <2>0. gui.data \in Files /\ Keeps(j, gui.data) /\ j \in Ids
    BY <1>6 DEF WriteSidecar, LInv, VInv, GuiOK
  <2>1. meta'[j] # None /\ payload' = payload /\ gui'.step = "idle"
    <3>1. meta' = [meta EXCEPT ![gui.id] = [path |-> gui.path, sha |-> gui.data]]
      BY <1>6 DEF WriteSidecar, Handled
    <3>2. meta'[j] = [path |-> gui.path, sha |-> gui.data] /\ gui.path \in Paths
      BY <1>0, <1>6, <3>1 DEF WriteSidecar, LInv, VInv, GuiOK
    <3>3. [path |-> gui.path, sha |-> gui.data] \in Entry
      BY <2>0, <3>2 DEF Entry
    <3> QED BY <1>6, <3>2, <3>3 DEF WriteSidecar
  <2> QED BY <1>1, <2>0, <2>1 DEF Listed, Keeps
<1>7. ASSUME NEW i \in Ids, NEW p \in Paths, PlaceRestored(i, p), j = gui'.id PROVE Listed(j)'
  BY <1>0, <1>1, <1>7 DEF PlaceRestored, Listed, Entering, Leaving
<1>8. CASE CompareRestored /\ j = gui.id
  BY <1>0, <1>1, <1>8 DEF CompareRestored, Listed, Entering, Leaving, Operation
<1>9. CASE ForgetPayload /\ j = gui.id
  BY <1>0, <1>1, <1>9 DEF ForgetPayload, Listed, Leaving, Operation
<1>10. CASE ForgetSidecar /\ j = gui.id
  BY <1>0, <1>1, <1>10 DEF ForgetSidecar, Listed
<1>11. ASSUME NEW i \in Ids, Delete(i), j = gui'.id PROVE Listed(j)'
  <2>1. gui'.step = "shredded" /\ meta' = meta /\ (payload'[j] # None => payload[j] # None)
    BY <1>0, <1>11 DEF Delete
  <2> QED BY <1>0, <1>1, <1>11, <2>1 DEF Listed, Entering, Leaving, Delete
<1>12. CASE ~((gui.step = "idle" \/ j # gui.id) /\ (gui'.step = "idle" \/ j # gui'.id))
  <2>1. CASE gui.step = "idle"
    BY <1>4, <1>7, <1>11, <1>12, <2>1
    DEF RemoveOriginal, WriteSidecar, CompareRestored, ForgetPayload, ForgetSidecar
  <2>2. CASE gui.step # "idle"
    <3>1. gui'.step = "idle" \/ gui'.id = gui.id
      BY <1>0, <2>2 DEF RemoveOriginal, WriteSidecar, CompareRestored, ForgetPayload, ForgetSidecar,
         CopyToVault, PlaceRestored, Delete, Operation
    <3> QED BY <1>5, <1>6, <1>8, <1>9, <1>10, <1>12, <2>2, <3>1 DEF CopyToVault, PlaceRestored, Delete
  <2> QED BY <2>1, <2>2
<1> QED BY <1>3, <1>12
\* A helper that is not putting anything into the vault changes nothing for an
\* entry, wherever it goes on.
EnteringSteps == {"q_stored", "q_recorded", "q_done"}

LEMMA SlotElsewhere ==
  ASSUME NEW j \in Ids, Listed(j), NEW s \in Slots, UNCHANGED <<payload, meta, gui, tampered>>,
         call[s].step \notin EnteringSteps, \A t \in Slots : t # s => call'[t] = call[t]
  PROVE  Listed(j)'
<1>1. (Entering(j) => Entering(j)') /\ (Leaving(j) => Leaving(j)')
  BY DEF Entering, Leaving, EnteringSteps
<1> QED BY <1>1 DEF Listed

\* The helper's steps.
LEMMA HelperListed ==
  ASSUME Handled, LInv, NEW s \in Slots,
         \/ \E p \in Paths : AskQuarantine(p, s)
         \/ \E i \in Ids : AskRestore(i, s)
         \/ HelperReads(s) \/ HelperStores(s) \/ HelperRecords(s) \/ HelperRemoves(s)
         \/ QuarantineReported(s) \/ HelperVerifies(s) \/ HelperSeesNoFile(s)
         \/ HelperPlaces(s) \/ HelperForgets(s) \/ RestoreReported(s),
         NEW j \in Ids
  PROVE  Listed(j)'
<1>0. /\ payload \in [Ids -> Bytes \cup {None}] /\ meta \in [Ids -> Entry \cup {None}]
      /\ call \in [Slots -> Call] /\ Listed(j)
      /\ call[s].step # "free" => call[s].id \in Ids
  BY InRange DEF LInv, VInv, TypeOK, DiskTypes, CallTypes
<1>1. tampered' = tampered
  BY DEF AskQuarantine, AskRestore, HelperReads, HelperStores, HelperRecords, HelperRemoves,
     QuarantineReported, HelperVerifies, HelperSeesNoFile, HelperPlaces, HelperForgets, RestoreReported
<1>2. \A t \in Slots : t # s => call'[t] = call[t]
  BY <1>0 DEF AskQuarantine, AskRestore, HelperReads, HelperStores, HelperRecords, HelperRemoves,
     QuarantineReported, HelperVerifies, HelperSeesNoFile, HelperPlaces, HelperForgets,
     RestoreReported, Advance, Fail
<1>3. CASE (\E p \in Paths : AskQuarantine(p, s)) \/ (\E i \in Ids : AskRestore(i, s))
  <2>1. call[s].step \notin EnteringSteps /\ UNCHANGED <<payload, meta, gui>>
    BY <1>3 DEF AskQuarantine, AskRestore, EnteringSteps
  <2> QED BY <1>0, <1>1, <1>2, <2>1, SlotElsewhere
<1>4. CASE HelperReads(s) \/ HelperVerifies(s) \/ HelperSeesNoFile(s) \/ HelperPlaces(s) \/ HelperForgets(s)
  <2>1. call[s].step \notin EnteringSteps /\ UNCHANGED <<payload, meta, gui>>
    BY <1>4 DEF HelperReads, HelperVerifies, HelperSeesNoFile, HelperPlaces, HelperForgets, EnteringSteps
  <2> QED BY <1>0, <1>1, <1>2, <2>1, SlotElsewhere
<1>5. ASSUME NEW step \in EnteringSteps, Advance(s, step), UNCHANGED <<meta, gui>>,
             call[s].step \in EnteringSteps \cup {"q_read"}, j # call[s].id => payload'[j] = payload[j]
      PROVE  Listed(j)'
  <2>1. call'[s].step = step /\ call'[s].id = call[s].id
    BY <1>0, <1>5 DEF Advance, Call
  <2>2. CASE j = call[s].id
    <3>1. Entering(j)' /\ meta'[j] = None /\ ~(gui'.step = "left" /\ gui'.id = j)
      BY <1>5, <2>1, <2>2 DEF Entering, EnteringSteps, LInv, VInv, SlotOK
    <3> QED BY <3>1 DEF Listed
  <2>3. CASE j # call[s].id
    <3>1. (Entering(j) => Entering(j)') /\ (Leaving(j) => Leaving(j)')
      BY <1>2, <1>5, <2>3 DEF Entering, Leaving, EnteringSteps
    <3> QED BY <1>0, <1>1, <1>5, <2>3, <3>1 DEF Listed
  <2> QED BY <2>2, <2>3
<1>6. CASE HelperStores(s)
  <2>1. Advance(s, "q_stored") /\ payload' = [payload EXCEPT ![call[s].id] = call[s].data]
    BY <1>6 DEF HelperStores, Handled
  <2>2. j # call[s].id => payload'[j] = payload[j]
    BY <1>0, <2>1
  <2> QED BY <1>5, <1>6, <2>1, <2>2 DEF HelperStores, EnteringSteps
<1>7. CASE HelperRecords(s)
  <2>1. Advance(s, "q_recorded") /\ UNCHANGED <<payload, meta, gui>> /\ call[s].step = "q_stored"
    BY <1>7 DEF HelperRecords, Handled
  <2> QED BY <1>5, <2>1 DEF EnteringSteps
<1>8. ASSUME Fail(s), UNCHANGED gui, call[s].step \in EnteringSteps, j # call[s].id,
             payload'[j] = payload[j], meta'[j] = meta[j]
      PROVE  Listed(j)'
  <2>1. (Entering(j) => Entering(j)') /\ (Leaving(j) => Leaving(j)')
    BY <1>2, <1>8 DEF Entering, Leaving
  <2> QED BY <1>0, <1>1, <1>8, <2>1 DEF Listed
<1>9. CASE HelperRemoves(s)
  <2>1. CASE Advance(s, "q_done") /\ payload' = payload
    BY <1>5, <1>9, <2>1 DEF HelperRemoves, EnteringSteps
  <2>2. CASE Fail(s) /\ payload' = WithoutPayload(call[s].id)
    <3>1. CASE j = call[s].id
      <4>1. payload'[j] = None /\ meta'[j] = None
        BY <1>0, <1>9, <2>2, <3>1 DEF HelperRemoves, LInv, VInv, SlotOK
      <4> QED BY <4>1 DEF Listed
    <3>2. CASE j # call[s].id
      <4>1. payload'[j] = payload[j] /\ UNCHANGED <<meta, gui>> /\ call[s].step = "q_recorded"
        BY <1>0, <1>9, <2>2, <3>2 DEF HelperRemoves
      <4> QED BY <1>8, <2>2, <3>2, <4>1 DEF EnteringSteps
    <3> QED BY <3>1, <3>2
  <2> QED BY <1>9, <2>1, <2>2 DEF HelperRemoves
<1>10. CASE QuarantineReported(s)
  <2>1. call[s].owned /\ gui' = gui /\ payload' = payload /\ gui.step = "idle" /\ Fail(s)
    BY <1>10 DEF QuarantineReported, LInv, Attended
  <2>2. meta' = [meta EXCEPT ![call[s].id] = [path |-> call[s].path, sha |-> call[s].data]]
    BY <1>10, <2>1 DEF QuarantineReported, Handled
  <2>3. call[s].data \in Files /\ call[s].path \in Rooted /\ Keeps(call[s].id, call[s].data)
    BY <1>10 DEF QuarantineReported, LInv, VInv, SlotOK
  <2>4. CASE j = call[s].id
    <3>1. meta'[j] \in Entry
      BY <1>0, <2>2, <2>3, <2>4 DEF Entry
    <3>2. payload'[j] \in Files \/ j \in tampered'
      BY <1>1, <2>1, <2>3, <2>4 DEF Keeps
    <3> QED BY <2>1, <3>1, <3>2 DEF Listed
  <2>5. CASE j # call[s].id
    <3>1. meta'[j] = meta[j] /\ call[s].step = "q_done"
      BY <1>0, <1>10, <2>2, <2>5 DEF QuarantineReported
    <3> QED BY <1>8, <2>1, <2>5, <3>1 DEF EnteringSteps
  <2> QED BY <2>4, <2>5
<1>11. CASE RestoreReported(s)
  <2>1. /\ call[s].owned /\ gui.step = "idle" /\ gui'.step = "leaving"
        /\ UNCHANGED <<payload, meta>> /\ call[s].step = "r_done"
    BY <1>11 DEF RestoreReported, LInv, Attended
  <2>2. (Entering(j) => Entering(j)') /\ ~Leaving(j)
    BY <1>2, <2>1 DEF Entering, Leaving
  <2> QED BY <1>0, <1>1, <2>1, <2>2 DEF Listed
<1> QED BY <1>3, <1>4, <1>6, <1>7, <1>9, <1>10, <1>11

LEMMA NextListed ==
  ASSUME Handled, LInv, [Next]_vars, NEW j \in Ids PROVE Listed(j)'
<1>1. ASSUME NEW p \in Paths, Outsider(p) PROVE Listed(j)'
  BY <1>1 DEF Outsider, LInv, Listed, Entering, Leaving
<1>2. ASSUME NEW i \in Ids, Tamper(i) PROVE Listed(j)'
  <2>1. /\ payload \in [Ids -> Bytes \cup {None}] /\ seen \in SUBSET Files
    BY DEF LInv, VInv, TypeOK, DiskTypes, SeenTypes
  <2>2. UNCHANGED <<meta, gui, call>> /\ tampered' = tampered \cup {i} /\ payload[i] \in Files
    BY <1>2 DEF Tamper
  <2>3. j # i => payload'[j] = payload[j]
    BY <1>2, <2>1 DEF Tamper
  <2> QED BY <2>1, <2>2, <2>3 DEF LInv, Listed, Entering, Leaving
<1>3. ~Crash /\ ~Restart
  BY DEF Handled, Crash, Restart, LInv, Attended
<1>4. CASE UNCHANGED vars
  BY <1>4 DEF vars, LInv, Listed, Entering, Leaving
<1> QED BY <1>1, <1>2, <1>3, <1>4, DirectListed, HelperListed DEF Next

\* What the page lists can be restored, and every payload is listed once nobody is
\* working on it, for every order of the user's operations and the helpers' and
\* every write of another program, with every failure the code rolls back and every
\* payload damaged in the vault.  (A
\* death in the middle, and a sidecar or record that cannot be written, are what
\* the code does not roll back.)
THEOREM SidecarsMatch ==
  ASSUME Handled PROVE Spec => []SidecarsMatchPayloads
<1>1. Init => LInv
  <2>1. Init => Attended /\ \A i \in Ids : Listed(i)
    BY DEF Init, Attended, Listed
  <2> QED BY <2>1, InitInv DEF LInv
<1>2. LInv /\ [Next]_vars => LInv'
  <2>1. ASSUME LInv, [Next]_vars PROVE LInv'
    <3>1. VInv'
      BY <2>1, NextInv DEF LInv, Handled
    <3> QED BY <2>1, <3>1, NextAttended, NextListed DEF LInv
  <2> QED BY <2>1
<1>3. LInv => SidecarsMatchPayloads
  <2>1. ASSUME LInv, NEW i \in Ids
        PROVE  /\ meta[i] # None => payload[i] = meta[i].sha \/ i \in tampered \/ Leaving(i)
               /\ payload[i] # None => meta[i] # None \/ Entering(i)
    BY <2>1 DEF LInv, VInv, IdOK, Listed
  <2> QED BY <2>1 DEF SidecarsMatchPayloads, Leaving, Entering
<1> QED BY <1>1, <1>2, <1>3, PTL DEF Spec
=============================================================================
