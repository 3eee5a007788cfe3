-------------------------- MODULE QuarantineVault --------------------------
(***************************************************************************)
(* The quarantine vault (core/quarantine.py) with the root helper          *)
(* (packaging/clamguard-helper) as a second, concurrent process that moves *)
(* the files the user may not touch.  The vault is two stores with no      *)
(* transaction around them: payloads and their JSON sidecars; the helper   *)
(* keeps a third, its own records.  Every system call that changes one of  *)
(* them is a step, and the program may die between any two.                *)
(*                                                                         *)
(* A file's bytes are one value; "Torn" stands for bytes that are no       *)
(* file's: a partial write, an overwritten or a damaged payload.  The      *)
(* SHA-256 in a sidecar or a record is the value it was computed from.     *)
(* The XOR is left out: it is undone exactly.                              *)
(*                                                                         *)
(* The UI thread does one direct operation at a time and nothing else in   *)
(* between; helper calls run beside it and beside each other.  The user    *)
(* may act on an entry whose row is out of date: the buttons hold the      *)
(* entry, not its row.                                                     *)
(***************************************************************************)
EXTENDS Naturals

CONSTANTS Owned,       \* paths in directories the user can write to
          Rooted,      \* paths only root can write to
          Files,       \* what files contain
          MaxEntries,  \* bound: entry ids ever made
          Slots,       \* bound: helper calls at one time
          Faults,      \* which of FaultKinds may happen
          None, Torn   \* no file; bytes that are no file's

FaultKinds == {"io",          \* a copy, unlink or rename fails and is handled
               "meta_error",  \* the sidecar cannot be written
               "helper_io",   \* the helper cannot finish a payload or a record
               "crash",       \* the application dies at any step
               "tamper",      \* a payload is damaged in the vault
               "outsider",    \* another program writes a file at the worst time
               "race"}        \* two restores to one path are under way at once

Paths == Owned \cup Rooted
Ids == 1..MaxEntries

ASSUME VaultBounds == /\ MaxEntries \in Nat
                      /\ Faults \subseteq FaultKinds
                      /\ Owned \cap Rooted = {}
                      /\ None # Torn /\ None \notin Files /\ Torn \notin Files

Bytes == Files \cup {Torn}
Entry == [path : Paths, sha : Files]

ASSUME NoneIsNoEntry == None \notin Entry

VARIABLES
  file,       \* the file system outside the vault
  payload,    \* vault/<id>.quar
  meta,       \* the sidecar of each id
  record,     \* the helper's root-owned record of each id
  gui,        \* the UI thread: which step of which operation it is at
  call,       \* the helper processes
  alive,      \* the application runs
  used,       \* ids made so far
  known,      \* what QuarantineEntry objects the UI may hold, by id
  seen,       \* observation: the contents that have existed
  tampered,   \* observation: the ids whose payload was changed behind the vault
  given_up    \* observation: deleted by the user or replaced by their program

vars == <<file, payload, meta, record, gui, call, alive, used, known, seen, tampered, given_up>>
disk == <<file, payload, meta, record>>

GuiSteps == {"idle", "copied", "removed", "placed", "leaving", "left", "shredded"}
CallSteps == {"free", "q_asked", "q_read", "q_stored", "q_recorded", "q_done",
              "r_asked", "r_read", "r_clear", "r_placed", "r_done"}

Idle == [step |-> "idle", id |-> 0, path |-> None, data |-> None]
Free == [step |-> "free", id |-> 0, path |-> None, data |-> None, owned |-> FALSE]

Operation == [step : GuiSteps, id : 0..MaxEntries, path : Paths \cup {None},
              data : Bytes \cup {None}]
Call == [step : CallSteps, id : 0..MaxEntries, path : Paths \cup {None},
         data : Files \cup {None}, owned : BOOLEAN]

DiskTypes ==
  /\ file \in [Paths -> Bytes \cup {None}]
  /\ payload \in [Ids -> Bytes \cup {None}]
  /\ meta \in [Ids -> Entry \cup {None}]
  /\ record \in [Ids -> Entry \cup {None}]
WorkTypes ==
  /\ gui \in Operation
  /\ alive \in BOOLEAN
  /\ used \in 0..MaxEntries
  /\ known \in [Ids -> Entry \cup {None}]
CallTypes == call \in [Slots -> Call]
SeenTypes == seen \in SUBSET Files /\ tampered \in SUBSET Ids /\ given_up \in SUBSET Files

\* Every variable has its type.
TypeOK == DiskTypes /\ WorkTypes /\ CallTypes /\ SeenTypes

Init ==
  /\ \E f \in [Paths -> Files \cup {None}] :
        /\ \A p, q \in Paths : f[p] = f[q] /\ f[p] # None => p = q
        /\ file = f /\ seen = {f[p] : p \in Paths} \ {None}
  /\ payload = [i \in Ids |-> None]
  /\ meta = [i \in Ids |-> None]
  /\ record = [i \in Ids |-> None]
  /\ gui = Idle
  /\ call = [s \in Slots |-> Free]
  /\ alive = TRUE /\ used = 0
  /\ known = [i \in Ids |-> None]
  /\ tampered = {} /\ given_up = {}

\* No step of ClamGuard is under way on this path.
Quiet(p) == gui.path # p /\ \A s \in Slots : call[s].path # p

\* The UI thread is between two operations.
Ready == alive /\ gui.step = "idle"

\* The operators below that are called "...Mutated" are the wrong turns the
\* properties are tried against; nothing uses them.

\* new_entry_id never returns an id twice.
NewIdMutated == 1
NewId == used + 1

\* A payload taken out of the vault.
WithoutPayloadMutated(i) == payload
WithoutPayload(i) == [payload EXCEPT ![i] = None]

WithoutSidecar(i) == [meta EXCEPT ![i] = None]

\* What quarantine leaves at the path; unlinked, or still there when unlink fails.
UnlinkedMutated(p) == file
Unlinked(p) == [file EXCEPT ![p] = None]

\* Nothing is in the way of a restore.
Vacant(p) == file[p] = None

\* The payload is what its record says.
MatchesMutated(i, r) == payload[i] # None
Matches(i, r) == payload[i] = r.sha

-----------------------------------------------------------------------------
(* Quarantine.quarantine of a file in a directory the user can write to:   *)
(* _quarantine_directly.                                                   *)

\* neutralise_file: the payload is a copy.  A failure removes the payload.
CopyToVault(p) ==
  /\ Ready /\ p \in Owned /\ file[p] \in Files /\ used < MaxEntries
  /\ used' = NewId
  /\ \/ /\ payload' = [payload EXCEPT ![NewId] = file[p]]
        /\ gui' = [step |-> "copied", id |-> NewId, path |-> p, data |-> file[p]]
     \/ /\ "io" \in Faults
        /\ UNCHANGED <<payload, gui>>
  /\ UNCHANGED <<file, meta, record, call, alive, known, seen, tampered, given_up>>

\* path.unlink().  When it fails the payload is taken back.
RemoveOriginal ==
  /\ alive /\ gui.step = "copied"
  /\ \/ /\ file[gui.path] # None
        /\ file' = Unlinked(gui.path)
        /\ gui' = [gui EXCEPT !.step = "removed"]
        /\ UNCHANGED payload
     \/ /\ file[gui.path] = None \/ "io" \in Faults
        /\ payload' = WithoutPayload(gui.id)
        /\ gui' = Idle
        /\ UNCHANGED file
  /\ UNCHANGED <<meta, record, call, alive, used, known, seen, tampered, given_up>>

\* _write_metadata, then the entry is announced.  An OSError here is not
\* caught: the operation ends with the file moved and no sidecar.
WriteSidecar ==
  /\ alive /\ gui.step = "removed"
  /\ \/ LET e == [path |-> gui.path, sha |-> gui.data] IN
        /\ meta' = [meta EXCEPT ![gui.id] = e]
        /\ known' = [known EXCEPT ![gui.id] = e]
     \/ "meta_error" \in Faults /\ UNCHANGED <<meta, known>>
  /\ gui' = Idle
  /\ UNCHANGED <<file, payload, record, call, alive, used, seen, tampered, given_up>>

-----------------------------------------------------------------------------
(* A file only root can move: _quarantine_via_helper and verb_quarantine.  *)

AskQuarantine(p, s) ==
  /\ Ready /\ p \in Rooted /\ file[p] # None /\ used < MaxEntries
  /\ call[s] = Free
  /\ used' = NewId
  /\ call' = [call EXCEPT ![s] = [step |-> "q_asked", id |-> NewId, path |-> p,
                                  data |-> None, owned |-> TRUE]]
  /\ UNCHANGED <<disk, gui, alive, known, seen, tampered, given_up>>

Advance(s, step) == call' = [call EXCEPT ![s].step = step]
Fail(s) == call' = [call EXCEPT ![s] = Free]

\* The file is read, found unchanged while it was read, and ClamAV flags it;
\* or the password is refused, or any of these checks fails.
HelperReads(s) ==
  /\ call[s].step = "q_asked"
  /\ \/ /\ file[call[s].path] \in Files
        /\ call' = [call EXCEPT ![s].step = "q_read", ![s].data = file[call[s].path]]
     \/ Fail(s)
  /\ UNCHANGED <<disk, gui, alive, used, known, seen, tampered, given_up>>

\* O_EXCL payload.  A write that fails leaves what was written behind.
HelperStores(s) ==
  /\ call[s].step = "q_read"
  /\ \/ /\ payload' = [payload EXCEPT ![call[s].id] = call[s].data]
        /\ Advance(s, "q_stored")
     \/ /\ "helper_io" \in Faults
        /\ \E b \in {None, Torn} : payload' = [payload EXCEPT ![call[s].id] = b]
        /\ Fail(s)
  /\ UNCHANGED <<file, meta, record, gui, alive, used, known, seen, tampered, given_up>>

\* write_record.  A failure exits the helper with the payload in the vault.
HelperRecords(s) ==
  /\ call[s].step = "q_stored"
  /\ \/ /\ record' = [record EXCEPT ![call[s].id] = [path |-> call[s].path, sha |-> call[s].data]]
        /\ Advance(s, "q_recorded")
     \/ "helper_io" \in Faults /\ Fail(s) /\ UNCHANGED record
  /\ UNCHANGED <<file, payload, meta, gui, alive, used, known, seen, tampered, given_up>>

\* The name must still mean the file that was read; else payload and record
\* are rolled back.  The stat and the unlink are two adjacent system calls of
\* the same process and are one step here.
HelperRemoves(s) ==
  /\ call[s].step = "q_recorded"
  /\ \/ /\ file[call[s].path] = call[s].data
        /\ file' = Unlinked(call[s].path)
        /\ Advance(s, "q_done")
        /\ UNCHANGED <<payload, record>>
     \/ /\ file[call[s].path] # call[s].data \/ "io" \in Faults
        /\ payload' = WithoutPayload(call[s].id)
        /\ record' = [record EXCEPT ![call[s].id] = None]
        /\ Fail(s)
        /\ UNCHANGED file
  /\ UNCHANGED <<meta, gui, alive, used, known, seen, tampered, given_up>>

\* HelperCall.succeeded: only now does the application write the sidecar.
\* With the application gone nobody does.
QuarantineReported(s) ==
  /\ call[s].step = "q_done"
  /\ IF ~call[s].owned THEN UNCHANGED <<meta, known>>
     ELSE /\ Ready
          /\ \/ LET e == [path |-> call[s].path, sha |-> call[s].data] IN
                /\ meta' = [meta EXCEPT ![call[s].id] = e]
                /\ known' = [known EXCEPT ![call[s].id] = e]
             \/ "meta_error" \in Faults /\ UNCHANGED <<meta, known>>
  /\ Fail(s)
  /\ UNCHANGED <<file, payload, record, gui, alive, used, seen, tampered, given_up>>

-----------------------------------------------------------------------------
(* Quarantine.restore, directly, to the original place or elsewhere.       *)

\* The payload must be there and the target must not.  The target is written
\* before its checksum is known; a write error leaves what was written.
PlaceRestored(i, p) ==
  /\ Ready /\ known[i] # None /\ payload[i] # None
  /\ p \in Owned /\ Vacant(p)
  /\ \/ /\ file' = [file EXCEPT ![p] = payload[i]]
        /\ gui' = [step |-> "placed", id |-> i, path |-> p, data |-> payload[i]]
     \/ /\ "io" \in Faults
        /\ file' = [file EXCEPT ![p] = Torn]
        /\ UNCHANGED gui
  /\ UNCHANGED <<payload, meta, record, call, alive, used, known, seen, tampered, given_up>>

\* The digest against the sidecar's: a mismatch takes the target away again.
CompareRestored ==
  /\ alive /\ gui.step = "placed"
  /\ IF gui.data = known[gui.id].sha
     THEN gui' = [gui EXCEPT !.step = "leaving"] /\ UNCHANGED file
     ELSE gui' = Idle /\ file' = Unlinked(gui.path)
  /\ UNCHANGED <<payload, meta, record, call, alive, used, known, seen, tampered, given_up>>

\* _forget: first the payload goes, then the sidecar.
ForgetPayload ==
  /\ alive /\ gui.step \in {"leaving", "shredded"}
  /\ payload' = WithoutPayload(gui.id)
  /\ gui' = [gui EXCEPT !.step = "left"]
  /\ UNCHANGED <<file, meta, record, call, alive, used, known, seen, tampered, given_up>>

ForgetSidecar ==
  /\ alive /\ gui.step = "left"
  /\ meta' = WithoutSidecar(gui.id)
  /\ gui' = Idle
  /\ UNCHANGED <<file, payload, record, call, alive, used, known, seen, tampered, given_up>>

-----------------------------------------------------------------------------
(* Restoring a root-owned file: verb_restore.                              *)

AskRestore(i, s) ==
  /\ Ready /\ known[i] # None /\ payload[i] # None
  /\ known[i].path \in Rooted /\ Vacant(known[i].path)
  /\ call[s] = Free
  /\ "race" \in Faults \/ Quiet(known[i].path)
  /\ call' = [call EXCEPT ![s] = [step |-> "r_asked", id |-> i, path |-> known[i].path,
                                  data |-> None, owned |-> TRUE]]
  /\ UNCHANGED <<disk, gui, alive, used, known, seen, tampered, given_up>>

\* Its own record decides, and the payload must match it before anything is
\* written; or the password is refused.
HelperVerifies(s) ==
  /\ call[s].step = "r_asked"
  /\ \/ LET r == record[call[s].id] IN
        /\ r # None /\ Matches(call[s].id, r)
        /\ call' = [call EXCEPT ![s].step = "r_read", ![s].data = payload[call[s].id], ![s].path = r.path]
     \/ Fail(s)
  /\ UNCHANGED <<disk, gui, alive, used, known, seen, tampered, given_up>>

HelperSeesNoFile(s) ==
  /\ call[s].step = "r_read"
  /\ IF Vacant(call[s].path) THEN Advance(s, "r_clear") ELSE Fail(s)
  /\ UNCHANGED <<disk, gui, alive, used, known, seen, tampered, given_up>>

\* A temporary file renamed into place: all of it or, on an error, nothing.
HelperPlaces(s) ==
  /\ call[s].step = "r_clear"
  /\ \/ /\ file' = [file EXCEPT ![call[s].path] = call[s].data]
        /\ Advance(s, "r_placed")
     \/ "io" \in Faults /\ Fail(s) /\ UNCHANGED file
  /\ UNCHANGED <<payload, meta, record, gui, alive, used, known, seen, tampered, given_up>>

HelperForgets(s) ==
  /\ call[s].step = "r_placed"
  /\ record' = [record EXCEPT ![call[s].id] = None]
  /\ Advance(s, "r_done")
  /\ UNCHANGED <<file, payload, meta, gui, alive, used, known, seen, tampered, given_up>>

RestoreReported(s) ==
  /\ call[s].step = "r_done"
  /\ IF call[s].owned
     THEN Ready /\ gui' = [step |-> "leaving", id |-> call[s].id,
                           path |-> call[s].path, data |-> call[s].data]
     ELSE UNCHANGED gui
  /\ Fail(s)
  /\ UNCHANGED <<disk, alive, used, known, seen, tampered, given_up>>

-----------------------------------------------------------------------------
(* Quarantine.delete (delete_all is one delete after another).             *)

\* The payload is overwritten in place before _forget.  An entry whose
\* payload is already gone goes straight to _forget.
Delete(i) ==
  /\ Ready /\ known[i] # None
  /\ payload' = [payload EXCEPT ![i] = IF @ = None THEN None ELSE Torn]
  /\ given_up' = given_up \cup ({payload[i]} \cap Files)
  /\ gui' = [step |-> "shredded", id |-> i, path |-> None, data |-> None]
  /\ UNCHANGED <<file, meta, record, call, alive, used, known, seen, tampered>>

-----------------------------------------------------------------------------
(* The world.                                                              *)

\* The process dies.  Helpers go on without it.
Crash ==
  /\ "crash" \in Faults /\ alive
  /\ alive' = FALSE
  /\ gui' = Idle
  /\ call' = [s \in Slots |-> [call[s] EXCEPT !.owned = FALSE]]
  /\ known' = [i \in Ids |-> None]
  /\ UNCHANGED <<disk, used, seen, tampered, given_up>>

\* A new process lists the sidecars it can read.
Restart ==
  /\ ~alive /\ alive' = TRUE
  /\ known' = meta
  /\ UNCHANGED <<disk, gui, call, used, seen, tampered, given_up>>

\* Some program writes a new file, over an old one or where there was none.
Outsider(p) ==
  /\ Quiet(p) \/ "outsider" \in Faults
  /\ \E c \in Files \ seen :
       /\ file' = [file EXCEPT ![p] = c]
       /\ seen' = seen \cup {c}
  /\ given_up' = given_up \cup ({file[p]} \cap Files)
  /\ UNCHANGED <<payload, meta, record, gui, call, alive, used, known, tampered>>

\* The vault is the user's: a payload may be damaged or exchanged for another
\* file's bytes.
Tamper(i) ==
  /\ "tamper" \in Faults /\ payload[i] \in Files
  /\ \E b \in (seen \cup {Torn}) \ {payload[i]} : payload' = [payload EXCEPT ![i] = b]
  /\ given_up' = given_up \cup {payload[i]}
  /\ tampered' = tampered \cup {i}
  /\ UNCHANGED <<file, meta, record, gui, call, alive, used, known, seen>>

Next ==
  \/ \E p \in Paths : CopyToVault(p) \/ Outsider(p)
                      \/ (\E s \in Slots : AskQuarantine(p, s))
                      \/ (\E i \in Ids : PlaceRestored(i, p))
  \/ RemoveOriginal \/ WriteSidecar
  \/ CompareRestored \/ ForgetPayload \/ ForgetSidecar
  \/ \E s \in Slots : \/ HelperReads(s) \/ HelperStores(s) \/ HelperRecords(s)
                      \/ HelperRemoves(s) \/ QuarantineReported(s)
                      \/ HelperVerifies(s) \/ HelperSeesNoFile(s)
                      \/ HelperPlaces(s) \/ HelperForgets(s) \/ RestoreReported(s)
                      \/ (\E i \in Ids : AskRestore(i, s))
  \/ \E i \in Ids : Delete(i) \/ Tamper(i)
  \/ Crash \/ Restart

Spec == Init /\ [][Next]_vars

-----------------------------------------------------------------------------
(* Properties.                                                             *)

Held(c) == \E i \in Ids : payload[i] = c
Live(c) == \E p \in Paths : file[p] = c

\* No bytes are lost: what has existed is on disk or in the vault, until the
\* user deletes it or another program replaces it.  (The order of copy, unlink,
\* rename and rollback in both processes, whatever fails or dies.)
ContentSurvives == \A c \in seen \ given_up : Held(c) \/ Live(c)

\* What the Quarantine page lists can be restored: the payload is there and is
\* what the sidecar says, unless it was tampered with or is just being taken out.
\* And every payload has its sidecar once nobody is working on it.  (quarantine.py's
\* docstring: "Every payload has a sidecar JSON file".)
SidecarsMatchPayloads ==
  \A i \in Ids :
     /\ meta[i] # None =>
          (payload[i] = meta[i].sha \/ i \in tampered
             \/ (gui.id = i /\ gui.step \in {"leaving", "shredded", "left"}))
     /\ payload[i] # None =>
          (meta[i] # None \/ gui.id = i \/ (\E s \in Slots : call[s].id = i))

\* When an entry is announced the file is no longer where it was found.
AnnouncedMeansGone ==
  [][\A i \in Ids : meta[i] = None /\ meta'[i] # None =>
        file'[meta'[i].path] # meta'[i].sha]_vars

\* Root writes only what it took from that very path and has verified: neither
\* the user's sidecar nor a payload damaged or exchanged in the vault decides
\* what appears where only root can write.
RootWritesItsRecord ==
  [][\A p \in Rooted : file[p] # file'[p] /\ file'[p] # None /\ seen = seen' =>
        \E i \in Ids : record[i] = [path |-> p, sha |-> file'[p]]]_vars
=============================================================================
