---------------------------- MODULE JournalIndex ----------------------------
(***************************************************************************)
(* How Hunt reads the systemd journal: HuntIndexer.index_journal           *)
(* (core/hunt/indexer.py) takes the saved cursor on the UI thread; a pool  *)
(* thread runs journalctl (core/hunt/journal.py), then stores the entries  *)
(* in one transaction and the new cursor in another (core/hunt/store.py).  *)
(* The page can forget the journal, or clear the index, meanwhile, and     *)
(* neither asks whether the indexer is busy.                               *)
(*                                                                         *)
(* Entries are numbered in journal order and a cursor is the number of an  *)
(* entry, 0 for none.  An entry that journal._entry cannot make sense of   *)
(* is skipped: it is never stored and its cursor never read.  All entries  *)
(* are of one systemd unit, so there is one source row; no entry is older  *)
(* than the configured window or removed by the retention limits of an     *)
(* index of files.                                                         *)
(***************************************************************************)
EXTENDS Naturals

CONSTANTS MaxEntries,  \* bound: entries journald writes
          Limit,       \* JournalOptions.max_entries
          Hazards      \* which of HazardKinds may happen

HazardKinds == {"crash_saving",  \* the process dies between COMMIT and the cursor
                "crash_forget",  \* the process dies inside forget_journal
                "cursor_error",  \* the cursor, or the counts before it, cannot be written
                "forget_busy",   \* the user forgets or clears while a read is under way
                "clear",         \* the user clears an index that has a cursor
                "unparseable"}   \* an entry cannot be made sense of

ASSUME JournalConstants ==
  /\ MaxEntries \in Nat \ {0} /\ Limit \in Nat \ {0}
  /\ Hazards \subseteq HazardKinds

Entries == 1..MaxEntries
Working == {"reading", "looking", "storing", "saving"}

VARIABLES
  written,  \* entries journald has written
  first,    \* the oldest entry it still keeps
  odd,      \* the entries that cannot be made sense of
  copies,   \* rows of the events table per entry
  source,   \* the unit has its row in the sources table
  cursor,   \* journal_state.cursor
  ui,       \* the UI thread: "idle", inside forget_journal, or "gone"
  busy,     \* HuntIndexer._busy
  cancel,   \* HuntIndexer._cancel
  worker,   \* where the pool thread is
  asked,    \* the cursor index_journal gave it
  got,      \* JournalRead.entries
  to,       \* JournalRead.cursor
  known,    \* the unit was among _journal_units
  stale,    \* JournalRead.stale_cursor
  outcome,  \* "ok"; "short": truncated or cancelled; "error"
  had,      \* observation: written, when journalctl ran
  capped,   \* observation: journalctl stopped at the limit, and no one was told
  unsaved   \* observation: the entries stored by a read whose cursor was not

journalVars == <<written, first, odd>>
storeVars == <<copies, source, cursor>>
appVars == <<ui, busy, cancel>>
readVars == <<asked, got, to, known, stale, outcome, had, capped>>
vars == <<journalVars, storeVars, appVars, worker, readVars, unsaved>>

\* Every variable has its type, and no position is beyond the journal's end.
TypeOK ==
  /\ written \in 0..MaxEntries /\ first \in 1..(written + 1)
  /\ odd \in SUBSET Entries
  /\ copies \in [Entries -> Nat] /\ source \in BOOLEAN /\ cursor \in 0..written
  /\ ui \in {"idle", "forgetting", "gone"} /\ busy \in BOOLEAN /\ cancel \in BOOLEAN
  /\ worker \in Working \cup {"none", "done", "failed"}
  /\ asked \in 0..written /\ got \in SUBSET Entries /\ to \in 0..written
  /\ known \in BOOLEAN /\ stale \in BOOLEAN
  /\ outcome \in {"ok", "short", "error"} /\ had \in 0..written
  /\ capped \in BOOLEAN /\ unsaved \in SUBSET Entries

None == [e \in Entries |-> 0]

Init ==
  /\ written = 0 /\ first = 1 /\ odd = {} /\ copies = None /\ source = FALSE /\ cursor = 0
  /\ ui = "idle" /\ busy = FALSE /\ cancel = FALSE /\ worker = "none"
  /\ asked = 0 /\ got = {} /\ to = 0 /\ known = FALSE
  /\ stale = FALSE /\ outcome = "ok" /\ had = 0 /\ capped = FALSE /\ unsaved = {}

\* The operators below that are called "...Mutated" are the wrong turns the
\* properties are tried against; nothing uses them.

-----------------------------------------------------------------------------
(* journald.                                                               *)

Log ==
  /\ written < MaxEntries /\ written' = written + 1
  /\ odd' = odd \/ ("unparseable" \in Hazards /\ odd' = odd \cup {written'})
  /\ UNCHANGED <<first, storeVars, appVars, worker, readVars, unsaved>>

\* Rotation or a vacuum.
Vacuum ==
  /\ first' \in (first + 1)..(written + 1)
  /\ UNCHANGED <<written, odd, storeVars, appVars, worker, readVars, unsaved>>

-----------------------------------------------------------------------------
(* A read, from the request to its result.                                 *)

IndexJournal ==
  /\ ui = "idle" /\ ~busy /\ busy' = TRUE /\ cancel' = FALSE
  /\ worker' = "reading" /\ asked' = cursor
  /\ UNCHANGED <<journalVars, storeVars, ui, got, to, known, stale, outcome, had, capped, unsaved>>

\* build_arguments: after the cursor, or from the start of the window ...
FromMutated == IF asked = 0 THEN first ELSE asked
FromNewest ==
  LET start == IF asked = 0 THEN first ELSE asked + 1
  IN IF start + Limit <= written THEN written - Limit + 1 ELSE start
From == IF asked = 0 THEN first ELSE asked + 1

\* ... the oldest Limit entries (--no-tail --lines), whatever they are.
UpTo == IF From + Limit <= written THEN From + Limit - 1 ELSE written
AtLimit(last) == last + 1 = From + Limit
Parsed(last) == (From..last) \ odd

\* Cancelled before the last entry; or truncated at the limit, for which only
\* the entries that were made sense of are counted.
OutcomeMutated(last) == IF last < UpTo THEN "short" ELSE "ok"
Outcome(last) ==
  IF last < UpTo \/ (AtLimit(last) /\ Parsed(last) = From..last) THEN "short" ELSE "ok"

\* The cursor of the last entry that was made sense of, if there is one.
IsCursorOf(c, es) == IF es = {} THEN c = 0 ELSE c \in es /\ \A e \in es : e <= c

\* journal.read with _finish: a failure, a cursor journalctl rejects, or
\* entries, fewer of them if the reader was told to stop.
Read ==
  /\ worker = "reading" /\ had' = written
  /\ \/ /\ worker' = "done" /\ outcome' = "error"
        /\ got' = {} /\ to' = 0 /\ stale' = FALSE /\ capped' = FALSE
     \/ /\ asked # 0 /\ asked < first
        /\ worker' = "looking" /\ outcome' = "ok"
        /\ got' = {} /\ to' = 0 /\ stale' = TRUE /\ capped' = FALSE
     \/ /\ asked = 0 \/ asked >= first
        /\ \E last \in (From - 1)..UpTo :
             /\ last < UpTo => cancel
             /\ got' = Parsed(last)
             /\ \E c \in {0} \cup got' : IsCursorOf(c, got') /\ to' = c
             /\ outcome' = Outcome(last)
             /\ capped' = (AtLimit(last) /\ Parsed(last) # From..last)
        /\ worker' = "looking" /\ stale' = FALSE
  /\ UNCHANGED <<journalVars, storeVars, appVars, asked, known, unsaved>>

\* ingest_journal, before BEGIN: which units have a source row.
LookUp ==
  /\ worker = "looking" /\ worker' = "storing" /\ known' = source
  /\ UNCHANGED <<journalVars, storeVars, appVars, asked, got, to, stale, outcome, had, capped,
                 unsaved>>

\* BEGIN to COMMIT.  Any error rolls back; a row that was known and has gone
\* since is one, for the foreign key.
Store ==
  /\ worker = "storing"
  /\ \/ /\ got # {} => (known => source)
        /\ worker' = "saving" /\ source' = (source \/ got # {})
        /\ copies' = [e \in Entries |-> IF e \in got THEN copies[e] + 1 ELSE copies[e]]
     \/ worker' = "failed" /\ UNCHANGED <<source, copies>>
  /\ UNCHANGED <<journalVars, cursor, appVars, readVars, unsaved>>

\* Bound: the cursor is lost once for an entry.
CursorLost == got \cap unsaved = {} /\ unsaved' = unsaved \cup got

\* After COMMIT: the counts, and the cursor unless the read left none.
SaveCursor ==
  /\ worker = "saving"
  /\ \/ worker' = "done" /\ cursor' = (IF to = 0 THEN cursor ELSE to) /\ unsaved' = unsaved
     \/ "cursor_error" \in Hazards /\ worker' = "failed" /\ cursor' = cursor /\ CursorLost
  /\ UNCHANGED <<journalVars, copies, source, appVars, readVars>>

\* _journal_done.
Delivered ==
  /\ worker = "done" /\ ui = "idle" /\ worker' = "none" /\ busy' = FALSE
  /\ UNCHANGED <<journalVars, storeVars, ui, cancel, readVars, unsaved>>

\* _on_error.
FailedMutated ==
  /\ worker = "failed" /\ ui = "idle" /\ worker' = "none" /\ busy' = busy
  /\ UNCHANGED <<journalVars, storeVars, ui, cancel, readVars, unsaved>>
Failed ==
  /\ worker = "failed" /\ ui = "idle" /\ worker' = "none" /\ busy' = FALSE
  /\ UNCHANGED <<journalVars, storeVars, ui, cancel, readVars, unsaved>>

-----------------------------------------------------------------------------
(* What the user removes.                                                  *)

MayRemove == ui = "idle" /\ (busy => "forget_busy" \in Hazards)

\* forget_journal: the events and the source rows, if there are any ...
ForgetSources ==
  /\ MayRemove /\ ui' = "forgetting"
  /\ copies' = (IF source THEN None ELSE copies) /\ source' = FALSE
  /\ unsaved' = (IF source THEN {} ELSE unsaved)
  /\ UNCHANGED <<journalVars, cursor, busy, cancel, worker, readVars>>

\* ... and then the cursor.
ForgetState ==
  /\ ui = "forgetting" /\ ui' = "idle" /\ cursor' = 0
  /\ UNCHANGED <<journalVars, copies, source, busy, cancel, worker, readVars, unsaved>>

\* _clear_index and Store.clear: every event and source; the cursor stays.
Clear ==
  /\ MayRemove /\ (cursor = 0 \/ "clear" \in Hazards)
  /\ copies' = None /\ source' = FALSE /\ unsaved' = {}
  /\ UNCHANGED <<journalVars, cursor, appVars, worker, readVars>>

-----------------------------------------------------------------------------
(* The end of the process, and the next one.                               *)

\* shutdown: the read is told to stop, and whatever it has is still stored.
Quit ==
  /\ ui = "idle" /\ ui' = "gone" /\ cancel' = TRUE
  /\ UNCHANGED <<journalVars, storeVars, busy, worker, readVars, unsaved>>

Crash ==
  /\ ui = "forgetting" => "crash_forget" \in Hazards
  /\ \/ worker # "saving" /\ unsaved' = unsaved
     \/ worker = "saving" /\ "crash_saving" \in Hazards /\ CursorLost
  /\ ui' = "gone" /\ worker' = "none"
  /\ UNCHANGED <<journalVars, storeVars, busy, cancel, readVars>>

\* The process outlives its window until the pool is empty.
Restart ==
  /\ ui = "gone" /\ worker \notin Working
  /\ ui' = "idle" /\ busy' = FALSE /\ cancel' = FALSE /\ worker' = "none"
  /\ UNCHANGED <<journalVars, storeVars, readVars, unsaved>>

Work == Read \/ LookUp \/ Store \/ SaveCursor

Next == \/ Log \/ Vacuum \/ IndexJournal \/ Work \/ Delivered \/ Failed
        \/ ForgetSources \/ ForgetState \/ Clear \/ Quit \/ Crash \/ Restart

Spec == Init /\ [][Next]_vars

\* The pool thread and the event loop get to run; journalctl does not follow.
FairSpec == Spec /\ WF_vars(Work) /\ WF_vars(Delivered \/ Failed) /\ WF_vars(ForgetState)

-----------------------------------------------------------------------------
(* Properties.                                                             *)

\* Whatever is before the cursor and could be made sense of is in the index, as long
\* as the journal keeps it: nothing is passed over, neither by the limit, a cancelled read, a failed
\* transaction, a lost cursor nor the end of the process.  (build_arguments: "a capped read plus
\* the cursor it leaves behind resumes exactly where it stopped".)
PassedIsStored ==
  ui = "idle" => \A e \in Entries \ odd : first <= e /\ e <= cursor => copies[e] > 0

\* No entry is in the index twice, unless a read stored it and then lost its
\* cursor: nothing else makes the next read begin too early.
StoredOnce == \A e \in Entries : e \notin unsaved => copies[e] <= 1

\* A read that is reported as neither cut short nor failed has everything the
\* journal had when it ran and that could be made sense of; unless journalctl
\* stopped at the limit and one of its lines was skipped, which hides that it did.
OkReadIsComplete ==
  worker = "done" /\ outcome = "ok" /\ ~stale /\ ~capped =>
     \A e \in Entries \ odd : first <= e /\ e <= had => copies[e] > 0

\* A read ends for the page, whatever becomes of it: busy is not for ever.
ReadEnds == busy ~> ~busy \/ ui = "gone"
=============================================================================
