------------------------------ MODULE FileIngest ------------------------------
(***************************************************************************)
(* How Hunt follows a log file.  HuntIndexer.index (core/hunt/indexer.py)  *)
(* starts a pool thread; Store.ingest (core/hunt/store.py) looks at the    *)
(* file, compares it with what the sources table remembers, and reads the  *)
(* lines after the offset into the events table and its text index; the    *)
(* retention limits come last.  Connections are in autocommit mode, so     *)
(* every statement but those between BEGIN and COMMIT is a transaction of  *)
(* its own, and commit() does nothing.  The program that writes the log    *)
(* appends to it and rotates it, and the user forgets the source or clears *)
(* the index, at any moment.                                               *)
(*                                                                         *)
(* One plain file.  Its content is known by the generation it belongs to,  *)
(* its position is counted in complete lines, and a line that is still     *)
(* being written is a half.  Every line is an event.                       *)
(***************************************************************************)
EXTENDS Naturals, FiniteSetsExt

CONSTANTS MaxGen,    \* bound: how often the log begins anew, plus one
          MaxLines,  \* bound: complete lines in one generation
          Head,      \* HEAD_BYTES, in lines
          MaxKept,   \* Retention.max_events, 0 for no limit
          Hazards    \* which of HazardKinds may happen

HazardKinds == {"crash_saving",  \* the process dies between COMMIT and the offset
                "crash_forget",  \* the process dies inside a removal of the user's
                "crash_text",    \* ... or of the index's own, between its statements
                "busy_removal"}  \* the user forgets or clears while the index runs

ASSUME IngestConstants ==
  /\ MaxGen \in Nat \ {0} /\ MaxLines \in Nat \ {0} /\ Head \in Nat \ {0}
  /\ MaxKept \in Nat /\ Hazards \subseteq HazardKinds

Gens == 1..MaxGen
Sizes == 0..MaxLines
Lines == Gens \X (1..MaxLines)
Stored == [id : Nat \ {0}, line : Lines]

\* What _head_hash tells apart: which content it is of, and how much of it.
Blank == <<0, 0>>   \* of no bytes at all
NoHash == <<0, 1>>  \* the empty string of a file that could not be read
Hashes == (Gens \X (1..Head)) \cup {Blank, NoHash}


VARIABLES
  file,      \* the log: its generation, inode, lines, and whether a half follows
  row,       \* its row of the sources table: {} or {its record}
  events,    \* the events table
  hidden,    \* the events the text index does not know (what else it knows is left out)
  ui,        \* the UI thread: "idle", inside a removal, or "gone"
  busy,      \* HuntIndexer._busy
  cancel,    \* HuntIndexer._cancel
  worker,    \* where the pool thread is
  info,      \* what stat() said
  from,      \* the offset it reads from
  got,       \* the generation it read and how far
  excess,    \* how many rows retention removes
  unsaved,   \* observation: lines committed by an ingest whose offset was lost
  purged,    \* observation: lines that retention removed
  slipped    \* observation: a truncation went unseen between two looks at the file

logVars == <<file>>
storeVars == <<row, events, hidden>>
appVars == <<ui, busy, cancel>>
readVars == <<info, from, got>>
seenVars == <<unsaved, purged, slipped>>
vars == <<logVars, storeVars, appVars, worker, readVars, excess, seenVars>>

Files == [gen : Gens, inode : Gens, lines : Sizes, half : BOOLEAN]
Rows == [inode : Gens, head : Hashes, offset : Sizes, count : Nat]
AtWork == {"stat", "look", "wipe_text", "wipe_rows", "reset", "read",
           "commit", "save", "purge_text", "purge_rows", "recount"}

\* Every variable has its type.
TypeOK ==
  /\ file \in Files /\ info \in Files
  /\ row \in SUBSET Rows /\ Cardinality(row) <= 1
  /\ events \in SUBSET Stored /\ hidden \in SUBSET events
  /\ ui \in {"idle", "forget_rows", "forget_source", "clear_text", "clear_sources", "gone"}
  /\ busy \in BOOLEAN /\ cancel \in BOOLEAN
  /\ worker \in AtWork \cup {"none", "done", "failed"}
  /\ from \in Sizes /\ got \in [gen : Gens, to : Sizes] /\ excess \in Nat
  /\ unsaved \in SUBSET Lines /\ purged \in SUBSET Lines /\ slipped \in BOOLEAN

\* A file nobody has written to; also what the locals of no ingest hold.
NewFile == [gen |-> 1, inode |-> 1, lines |-> 0, half |-> FALSE]
NothingRead == [gen |-> 1, to |-> 0]

Init ==
  /\ file = NewFile /\ info = NewFile
  /\ row = {} /\ events = {} /\ hidden = {}
  /\ ui = "idle" /\ busy = FALSE /\ cancel = FALSE /\ worker = "none"
  /\ from = 0 /\ got = NothingRead /\ excess = 0
  /\ unsaved = {} /\ purged = {} /\ slipped = FALSE

\* ingest returns, and its locals are gone.
Returned == info' = NewFile /\ from' = 0 /\ got' = NothingRead

\* The operators below that are called "...Mutated" are the wrong turns the
\* properties are tried against; nothing uses them.

-----------------------------------------------------------------------------
(* The program that writes the log, and whatever rotates it.               *)

Append ==
  /\ \/ /\ file.lines < MaxLines
        /\ file' = [file EXCEPT !.lines = @ + 1, !.half = FALSE]
     \/ /\ file.lines < MaxLines /\ ~file.half
        /\ file' = [file EXCEPT !.half = TRUE]
  /\ UNCHANGED <<storeVars, appVars, worker, readVars, excess, seenVars>>

\* A new file under the name, or the old one truncated and written over.
Rotate ==
  /\ file.gen < MaxGen
  /\ \E inode \in {file.inode, file.gen + 1} :
       file' = [gen |-> file.gen + 1, inode |-> inode, lines |-> 0, half |-> FALSE]
  /\ UNCHANGED <<storeVars, appVars, worker, readVars, excess, seenVars>>

-----------------------------------------------------------------------------
(* Store.ingest: what changed.                                             *)

\* _fingerprint: the window is what was consumed, HEAD_BYTES at most.
Hash(consumed) ==
  LET window == IF consumed = 0 THEN Head ELSE Min({Head, consumed})
      k == Min({window, file.lines})
  IN IF k = 0 THEN Blank ELSE <<file.gen, k>>

Index ==
  /\ ui = "idle" /\ ~busy /\ busy' = TRUE /\ cancel' = FALSE /\ worker' = "stat"
  /\ UNCHANGED <<logVars, storeVars, ui, readVars, excess, seenVars>>

\* Store.index asks whether to stop, then ingest calls stat(), which may fail.
Stat ==
  /\ worker = "stat"
  /\ \/ ~cancel /\ worker' = "look" /\ info' = file
     \/ worker' = "purge_text" /\ info' = info
  /\ UNCHANGED <<logVars, storeVars, appVars, from, got, excess, seenVars>>

Smaller(size, offset) == size.lines < offset
UpToDate(r) == r.offset > 0 /\ info.lines <= r.offset /\ ~info.half /\ r.count > 0

\* The branches of ingest up to _upsert_source: unchanged, appended, rotated or
\* new; the file may also have become unreadable to _detect.
Rotated(r) ==
  r.offset > 0 /\ (r.inode # info.inode \/ r.head # Hash(r.offset) \/ Smaller(info, r.offset))

Look ==
  /\ worker = "look"
  /\ \/ worker' = "purge_text" /\ Returned /\ row' = row
     \/ /\ row = {} /\ worker' = "read" /\ UNCHANGED readVars
        /\ row' = {[inode |-> info.inode, head |-> Hash(0), offset |-> 0, count |-> 0]}
     \/ \E r \in row :
          /\ row' = row
          /\ \/ Rotated(r) /\ worker' = "wipe_text" /\ UNCHANGED readVars
             \/ /\ ~Rotated(r) /\ UpToDate(r) /\ worker' = "purge_text" /\ Returned
             \/ /\ ~Rotated(r) /\ ~UpToDate(r) /\ worker' = "read" /\ from' = r.offset
                /\ UNCHANGED <<info, got>>
  /\ UNCHANGED <<logVars, events, hidden, appVars, excess, seenVars>>

-----------------------------------------------------------------------------
(* _forget_events is two statements: the text index lets go of the rows    *)
(* that are there, and then the rows that are there go.                    *)

Unindex(victims) == hidden' = hidden \cup victims /\ UNCHANGED events
Drop(victims) == events' = events \ victims /\ hidden' = hidden \ victims

WipeText ==
  /\ worker = "wipe_text" /\ worker' = "wipe_rows" /\ Unindex(events)
  /\ UNCHANGED <<logVars, row, appVars, readVars, excess, seenVars>>

WipeRows ==
  /\ worker = "wipe_rows" /\ worker' = "reset" /\ Drop(events)
  /\ UNCHANGED <<logVars, row, appVars, readVars, excess, seenVars>>

\* The offset and the count of the row begin anew.
Reset ==
  /\ worker = "reset" /\ worker' = "read"
  /\ row' = {[r EXCEPT !.offset = 0, !.count = 0] : r \in row}
  /\ UNCHANGED <<logVars, events, hidden, appVars, readVars, excess, seenVars>>

-----------------------------------------------------------------------------
(* _read_into, and the row after it.                                       *)

\* The bytes from the offset to the last end of line; a read error is reported
\* and the index goes on.  Past the end of a shorter file there is nothing.
Read ==
  /\ worker = "read"
  /\ \/ worker' = "purge_text" /\ Returned /\ slipped' = slipped
     \/ /\ worker' = "commit" /\ UNCHANGED <<info, from>>
        /\ got' = [gen |-> file.gen, to |-> IF file.lines > from THEN file.lines ELSE from]
        /\ slipped' = (slipped \/ (from > 0 /\ file.gen # info.gen /\ file.inode = info.inode))
  /\ UNCHANGED <<logVars, storeVars, appVars, excess, unsaved, purged>>

NextId == IF events = {} THEN 1 ELSE 1 + Max({e.id : e \in events})
NewRows == {[id |-> NextId + n - 1, line |-> <<got.gen, from + n>>] : n \in 1..(got.to - from)}
NewLines == {<<got.gen, from + n>> : n \in 1..(got.to - from)}

\* BEGIN to COMMIT: events and text together, or an error, which ends the
\* index; a source that has gone meanwhile is one, for the foreign key.
CommitMutated ==
  /\ worker = "commit" /\ worker' = "save"
  /\ \/ row # {} /\ events' = events \cup NewRows
     \/ events' = events
  /\ UNCHANGED <<logVars, row, hidden, appVars, readVars, excess, seenVars>>
Commit ==
  /\ worker = "commit"
  /\ \/ /\ got.to > from => row # {}
        /\ worker' = "save" /\ events' = events \cup NewRows /\ hidden' = hidden
        /\ UNCHANGED readVars
     \/ worker' = "failed" /\ Returned /\ UNCHANGED <<events, hidden>>
  /\ UNCHANGED <<logVars, row, appVars, excess, seenVars>>

\* The second fingerprint, of whatever has the name now, if anything has; and
\* the row's new offset, count and identity.
Save ==
  /\ worker = "save" /\ worker' = "purge_text" /\ Returned
  /\ \E head \in {Hash(got.to), NoHash} :
       row' = {[inode |-> info.inode, head |-> head, offset |-> got.to,
                count |-> r.count + (got.to - from)] : r \in row}
  /\ slipped' = (slipped \/ (got.gen # file.gen /\ file.inode = info.inode))
  /\ UNCHANGED <<logVars, events, hidden, appVars, excess, unsaved, purged>>

-----------------------------------------------------------------------------
(* apply_retention, after the last file.                                   *)

\* The rows beyond the limit, the least recently indexed first.
Excess == IF MaxKept = 0 THEN 0
          ELSE IF Cardinality(events) <= MaxKept THEN 0 ELSE Cardinality(events) - MaxKept
Oldest(n) == {e \in events : Cardinality({f \in events : f.id < e.id}) < n}

PurgeText ==
  /\ worker = "purge_text" /\ Unindex(Oldest(Excess)) /\ excess' = Excess
  /\ worker' = IF Excess = 0 THEN "done" ELSE "purge_rows"
  /\ UNCHANGED <<logVars, row, appVars, readVars, seenVars>>

\* The same number of rows, whichever are the oldest now.
PurgeRowsMutated ==
  /\ worker = "purge_rows" /\ worker' = "recount" /\ Drop(Oldest(excess - 1))
  /\ purged' = purged \cup {e.line : e \in Oldest(excess - 1)}
  /\ UNCHANGED <<logVars, row, appVars, readVars, excess, unsaved, slipped>>
PurgeRows ==
  /\ worker = "purge_rows" /\ worker' = "recount" /\ Drop(Oldest(excess))
  /\ purged' = purged \cup {e.line : e \in Oldest(excess)}
  /\ UNCHANGED <<logVars, row, appVars, readVars, excess, unsaved, slipped>>

Recount ==
  /\ worker = "recount" /\ worker' = "done" /\ excess' = 0
  /\ row' = {[r EXCEPT !.count = Cardinality(events)] : r \in row}
  /\ UNCHANGED <<logVars, events, hidden, appVars, readVars, seenVars>>

\* _index_done or _on_error, on the UI thread.
DeliveredMutated ==
  /\ worker = "done" /\ ui = "idle" /\ worker' = "none" /\ busy' = FALSE
  /\ UNCHANGED <<logVars, storeVars, ui, cancel, readVars, excess, seenVars>>
Delivered ==
  /\ worker \in {"done", "failed"} /\ ui = "idle" /\ worker' = "none" /\ busy' = FALSE
  /\ UNCHANGED <<logVars, storeVars, ui, cancel, readVars, excess, seenVars>>

-----------------------------------------------------------------------------
(* What the user removes: Store.forget and Store.clear, statement by       *)
(* statement.  Deleting a source takes the events it still has with it.    *)

MayRemove == ui = "idle" /\ (busy => "busy_removal" \in Hazards)

ForgetText ==
  /\ MayRemove /\ row # {} /\ ui' = "forget_rows" /\ Unindex(events)
  /\ UNCHANGED <<logVars, row, busy, cancel, worker, readVars, excess, seenVars>>

ForgetRows ==
  /\ ui = "forget_rows" /\ ui' = "forget_source" /\ Drop(events)
  /\ UNCHANGED <<logVars, row, busy, cancel, worker, readVars, excess, seenVars>>

DropSource ==
  /\ ui \in {"forget_source", "clear_sources"} /\ ui' = "idle"
  /\ row' = {} /\ Drop(events) /\ unsaved' = {} /\ purged' = {} /\ slipped' = FALSE
  /\ UNCHANGED <<logVars, busy, cancel, worker, readVars, excess>>

\* _clear_index asks only when there is something to forget.
ClearRows ==
  /\ MayRemove /\ events # {} /\ ui' = "clear_text" /\ Drop(events)
  /\ UNCHANGED <<logVars, row, busy, cancel, worker, readVars, excess, seenVars>>

\* INSERT ... VALUES('rebuild').
ClearText ==
  /\ ui = "clear_text" /\ ui' = "clear_sources" /\ hidden' = {}
  /\ UNCHANGED <<logVars, row, events, busy, cancel, worker, readVars, excess, seenVars>>

-----------------------------------------------------------------------------
(* The end of the process, and the next one.                               *)

Quit ==
  /\ ui = "idle" /\ ui' = "gone" /\ cancel' = TRUE
  /\ UNCHANGED <<logVars, storeVars, busy, worker, readVars, excess, seenVars>>

\* Bound: a line's offset is lost once.
Crash ==
  /\ ui \notin {"idle", "gone"} => "crash_forget" \in Hazards
  /\ worker \in {"wipe_rows", "purge_rows"} => "crash_text" \in Hazards
  /\ \/ worker # "save" /\ unsaved' = unsaved
     \/ /\ worker = "save" /\ "crash_saving" \in Hazards
        /\ NewLines \cap unsaved = {} /\ unsaved' = unsaved \cup NewLines
  /\ ui' = "gone" /\ worker' = "none" /\ Returned /\ excess' = 0
  /\ UNCHANGED <<logVars, storeVars, busy, cancel, purged, slipped>>

\* The process outlives its window until the pool is empty.
Restart ==
  /\ ui = "gone" /\ worker \notin AtWork
  /\ ui' = "idle" /\ busy' = FALSE /\ cancel' = FALSE /\ worker' = "none"
  /\ UNCHANGED <<logVars, storeVars, readVars, excess, seenVars>>

Work == \/ Stat \/ Look \/ WipeText \/ WipeRows \/ Reset \/ Read \/ Commit \/ Save
        \/ PurgeText \/ PurgeRows \/ Recount

Removal == ForgetRows \/ ClearText \/ DropSource

Next == \/ Append \/ Rotate \/ Index \/ Work \/ Delivered
        \/ ForgetText \/ ClearRows \/ Removal \/ Quit \/ Crash \/ Restart

Spec == Init /\ [][Next]_vars

\* The pool thread and the event loop get to run.
FairSpec == Spec /\ WF_vars(Work) /\ WF_vars(Delivered) /\ WF_vars(Removal)

-----------------------------------------------------------------------------
(* Properties.                                                             *)

\* The file is the one the row tells of, as far as ingest can see.
Recognised(r) ==
  r.inode = file.inode /\ r.head = Hash(r.offset) /\ ~Smaller(file, r.offset)

Quiet == worker = "none" /\ ui = "idle"

\* What the next index would pass over is in the index once, or was purged: no
\* rotation, race, read error, cancelled index, removal or crash leaves an offset
\* behind lines that were never read.  The exception is a log that is truncated
\* and refilled between two looks of one ingest at it; a line is an event twice only
\* if an ingest committed it and died before its offset was.
PrefixIsStored ==
  /\ Quiet /\ ~slipped =>
       \A r \in row : Recognised(r) =>
         \A n \in 1..r.offset : <<file.gen, n>> \in purged \cup {e.line : e \in events}
  /\ \A e, f \in events : e.line = f.line /\ e.line \notin unsaved => e = f


\* Whatever is stored can be found by its text ("keeping the text index in step"):
\* no removal lets go of the text of an event that stays, also when the user
\* removes what the index is adding to.
StoredIsSearchable == Quiet => hidden = {}

\* An index ends for the page, whatever becomes of it: busy is not for ever.
IndexEnds == busy ~> ~busy \/ ui = "gone"
=============================================================================
