--------------------------- MODULE IntegrityChecks --------------------------
(***************************************************************************)
(* core/boot/baseline.py and checks/integrity.py: a snapshot of the boot   *)
(* chain, what changed since, and what the journal complained about.       *)
(* A machine's files are a function from paths to files; NoFile is a path  *)
(* with nothing there.                                                     *)
(***************************************************************************)
EXTENDS BootFindings

CONSTANTS Paths,        \* watched files
          KernelPaths, InitramfsPaths,   \* by their names, under /boot
          NoFile

Unhashed == "unhashed"

(* When, in minutes, a file was written; kinds of change that are serious. *)
SeriousKinds == {"added", "content", "permissions", "owner"}

BootPaths == KernelPaths \cup InitramfsPaths

File(content, size, mode, mtime, uid, readable) ==
    [content |-> content, size |-> size, mode |-> mode, mtime |-> mtime,
     uid |-> uid, readable |-> readable]

(* A file nobody but root may read is recorded without its hash.           *)
RecordOne(f) ==
    [size |-> f.size, mode |-> f.mode, mtime |-> f.mtime, uid |-> f.uid,
     sha256 |-> IF f.readable THEN f.content ELSE Unhashed]

Record(fs) ==
    [q \in {r \in DOMAIN fs : fs[r] # NoFile} |-> RecordOne(fs[q])]

Hashed(e) == e.sha256 # Unhashed
Change(path, kind, when) == [path |-> path, kind |-> kind, when |-> when]

(* A touched file whose hash is the same has not changed.                  *)
CompareEntry(path, was, now) ==
    LET kinds ==
          (IF Hashed(was) /\ Hashed(now)
           THEN IF was.sha256 # now.sha256 THEN {"content"} ELSE {}
           ELSE IF was.size # now.size THEN {"content"}
           ELSE IF was.mtime # now.mtime THEN {"timestamp"} ELSE {})
          \cup (IF was.mode # now.mode THEN {"permissions"} ELSE {})
          \cup (IF was.uid # now.uid THEN {"owner"} ELSE {})
    IN  {Change(path, k, now.mtime) : k \in kinds}

Compare(was, now) ==
    (UNION {CompareEntry(q, was[q], now[q]) : q \in DOMAIN was \cap DOMAIN now})
    \cup {Change(q, "added", now[q].mtime) : q \in DOMAIN now \ DOMAIN was}
    \cup {Change(q, "removed", was[q].mtime) : q \in DOMAIN was \ DOMAIN now}

UnhashedPaths(was, now) ==
    {q \in DOMAIN was \cap DOMAIN now : ~Hashed(was[q]) \/ ~Hashed(now[q])}

(* Two files under /boot, a kernel and an initramfs, within 15 minutes:    *)
(* changes outside /boot have no say.                                      *)
LooksLikeAKernelUpdate(changes) ==
    LET touched == {c \in changes : c.path \in BootPaths}
    IN  /\ \A c, d \in touched : c.when - d.when <= 15
        /\ \E c \in touched : c.path \in KernelPaths
        /\ \E c \in touched : c.path \in InitramfsPaths

IntegrityFacts ==
    [baselineTaken |-> <<FALSE, {TRUE}>>,
     journalErrors |-> <<-1, {0, 15, 30, 60, 300}>>]

(* h.was and h.now are the two states of the watched files.  What could    *)
(* only be compared by size and date is named beside a change, never       *)
(* beside "unchanged".                                                     *)
BaselineDrift(h, p) ==
    LET was == Record(h.was)
        now == Record(h.now)
        changes == Compare(was, now)
        policy == IF LooksLikeAKernelUpdate(changes)
                  THEN p.sev.baseline_drift_expected ELSE p.sev.baseline_drift
        mild == {c \in changes : c.kind \in SeriousKinds} = {}
    IN  IF ~h.baselineTaken THEN Yield(Found("integrity.baseline.none", INFO))
        ELSE IF changes = {}
             THEN Yield(Passed("integrity.baseline.unchanged"))
        ELSE Yield(Found("integrity.baseline.changed",
                         IF mild /\ policy > LOW THEN LOW ELSE policy)
                   \cup FoundIf(UnhashedPaths(was, now) # {},
                                "integrity.baseline.unhashed", INFO))

JournalErrors(h, p) ==
    IF h.journalErrors = -1 THEN Skip
    ELSE IF h.journalErrors <= p.limit.journal_error_budget
         THEN Yield(Passed("integrity.journal.quiet"))
    ELSE Yield(Found("integrity.journal.noisy", p.sev.journal_errors))

=============================================================================
