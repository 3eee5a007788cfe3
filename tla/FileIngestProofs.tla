--------------------------- MODULE FileIngestProofs ---------------------------
(***************************************************************************)
(* Proofs about following one file into the index, for any contents, any   *)
(* number of rewrites and any size of a batch.                             *)
(* - LineInv: what the position recorded for a file is past is stored, as  *)
(*   long as forgetting a file is not cut short.  A pass reads the file,   *)
(*   its length and its first line at different moments while the file is  *)
(*   rewritten under it, so the invariant says of each of the values it    *)
(*   carries which contents of the file it is about.                       *)
(* - TextInv: the text of each stored event can be searched, as long as    *)
(*   besides that no deletion is cut short.                                *)
(***************************************************************************)
EXTENDS FileIngest, FiniteSetTheorems, TLAPS
-----------------------------------------------------------------------------
(* What a line that was read leaves behind.                                *)

\* The types the proofs need; that the numbers of events are distinct is no part.
Typed ==
  /\ file \in Files /\ info \in Files
  /\ row \in SUBSET Rows /\ \A r, q \in row : r = q
  /\ IsFiniteSet(events) /\ \A e \in events : e.line \in Lines
  /\ from \in Sizes /\ got \in [gen : Gens, to : Sizes]
  /\ slipped \in BOOLEAN
  /\ worker \notin {"read", "commit", "save"} => from = 0

\* An index that runs has the manager busy.
OneIndex == worker \in AtWork => busy

\* Nothing is stored without a row, nor between the wiping and the new offset.
NoneLeft == row = {} \/ worker = "reset" => events = {}

\* A log goes on: what was learnt of it is of its past.
Past ==
  /\ file.inode <= file.gen /\ got.gen <= file.gen
  /\ info.gen <= file.gen /\ info.inode <= file.inode
  /\ info.gen = file.gen => info.inode = file.inode /\ info.lines <= file.lines
  /\ \A r \in row : r.inode <= file.inode /\ r.head[1] <= file.gen

\* The row tells of the file there is.
Named(r) == r.inode = file.inode /\ r.head = <<file.gen, Min({Head, r.offset})>>
Kept(gen, to) == \A n \in 1..to : <<gen, n>> \in purged \cup {e.line : e \in events}
Unremoved == ui \notin {"forget_source", "clear_text", "clear_sources"}

\* Between two steps of an ingest: such a row is never wiped, and its lines are kept ...
RowFits ==
  ~slipped => \A r \in row : r.offset > 0 /\ Named(r) =>
    /\ worker \notin {"wipe_text", "wipe_rows", "reset"}
    /\ r.offset <= file.lines
    /\ Unremoved => Kept(file.gen, r.offset)
\* ... what stat() said is not older than the row ...
StatFits ==
  worker = "look" => \A r \in row :
    /\ r.inode <= info.inode /\ r.head[1] <= info.gen
    /\ ~slipped /\ r.offset > 0 /\ r.inode = info.inode
         /\ r.head = <<info.gen, Min({Head, r.offset})>> => r.offset <= info.lines
\* ... the offset is the row's, and of this file unless it has changed since ...
FromFits ==
  worker = "read" => \A r \in row :
    /\ r.offset = from
    /\ from > 0 => from <= info.lines /\ (info.gen = file.gen => Named(r))
\* ... and what was read continues what was kept, unless the row will be of another
\* file.
GotFits ==
  worker \in {"commit", "save"} =>
    /\ from <= got.to /\ \A r \in row : r.offset = from
    /\ ~slipped /\ row # {} /\ info.inode = file.inode =>
         /\ got.gen = file.gen => got.to <= file.lines
         /\ Unremoved => Kept(got.gen, IF worker = "save" THEN got.to ELSE from)

\* Only a line whose offset was lost, or is about to be saved, is beyond the offset.
Beyond ==
  \A r \in row, e \in events :
    \/ e.line[2] <= r.offset \/ e.line \in unsaved
    \/ worker = "save" /\ e.line \in NewLines
Once == \A e, f \in events : e.line = f.line /\ e.line \notin unsaved => e = f

LineInv == /\ Typed /\ NoneLeft /\ Past /\ RowFits /\ StatFits /\ FromFits /\ GotFits
           /\ Beyond /\ Once

\* What the text index let go of goes, or is about to.
TextInv ==
  /\ hidden \subseteq events
  /\ ui # "forget_rows" =>
       \/ hidden = {} \/ worker = "wipe_rows"
       \/ worker = "purge_rows" /\ hidden \subseteq Oldest(excess)
USE IngestConstants DEF Gens, Sizes
-----------------------------------------------------------------------------
(* The hash of a file's beginning.                                         *)

LEMMA MinOfTwo ==
  ASSUME NEW a \in Nat, NEW b \in Nat
  PROVE  Min({a, b}) = IF a <= b THEN a ELSE b
<1>1. PICK m : m = (IF a <= b THEN a ELSE b)
  OBVIOUS
<1>2. m \in {a, b} /\ \A y \in {a, b} : m <= y
  BY <1>1
<1>3. \A x \in {a, b} : (\A y \in {a, b} : x <= y) => x = m
  BY <1>1, <1>2
<1>4. Min({a, b}) \in {a, b} /\ \A y \in {a, b} : Min({a, b}) <= y
  BY <1>2 DEF Min
<1> QED BY <1>1, <1>3, <1>4

\* The hash of a file that is as long as what was consumed names its generation.
LEMMA HashNames ==
  ASSUME file \in Files, NEW consumed \in Nat, consumed > 0, consumed <= file.lines
  PROVE  Hash(consumed) = <<file.gen, Min({Head, consumed})>>
<1> DEFINE window == IF consumed = 0 THEN Head ELSE Min({Head, consumed})
           k == Min({window, file.lines})
<1>0. file.lines \in Nat /\ Head \in Nat /\ Head > 0
  BY DEF Files, IngestConstants
<1>1. window = Min({Head, consumed})
  OBVIOUS
<1>2. window \in Nat /\ window > 0 /\ window <= consumed
  BY <1>0, <1>1, MinOfTwo
<1> HIDE DEF window
<1>3. k = window
  BY <1>0, <1>2, MinOfTwo
<1>4. Hash(consumed) = IF k = 0 THEN Blank ELSE <<file.gen, k>>
  BY DEF Hash, k, window
<1> QED BY <1>1, <1>2, <1>3, <1>4

\* No hash is of a generation to come.
LEMMA HashTyped ==
  ASSUME file \in Files, NEW consumed \in Nat
  PROVE  Hash(consumed) \in Hashes /\ Hash(consumed)[1] <= file.gen
<1> DEFINE window == IF consumed = 0 THEN Head ELSE Min({Head, consumed})
           k == Min({window, file.lines})
<1>0. /\ file.lines \in Nat /\ Head \in Nat /\ Head > 0
      /\ file.gen \in 1..MaxGen /\ MaxGen \in Nat
  BY DEF Files, IngestConstants
<1>1. window \in 0..Head
  BY <1>0, MinOfTwo
<1> HIDE DEF window
<1>2. k \in 0..Head
  BY <1>0, <1>1, MinOfTwo
<1>3. Hash(consumed) = IF k = 0 THEN Blank ELSE <<file.gen, k>>
  BY DEF Hash, k, window
<1> HIDE DEF k
<1>4. CASE k = 0
  BY <1>0, <1>3, <1>4 DEF Blank, Hashes
<1>5. CASE k # 0
  BY <1>0, <1>2, <1>3, <1>5 DEF Hashes
<1> QED BY <1>4, <1>5

-----------------------------------------------------------------------------
(* Steps that read and write nothing.                                      *)

LEMMA LineStarts == Init => LineInv
<1> SUFFICES ASSUME Init PROVE LineInv
  OBVIOUS
<1> USE DEF Init
<1>1. NewFile \in Files /\ NothingRead \in [gen : Gens, to : Sizes]
  BY DEF NewFile, NothingRead, Files, IngestConstants
<1>2. Typed /\ NoneLeft
  <2>1. 0 \in Sizes /\ row \in SUBSET Rows /\ NoneLeft
    BY DEF IngestConstants, NoneLeft
  <2> QED BY <1>1, <2>1, FS_EmptySet DEF Typed
<1>3. Past
  BY DEF Past, NewFile, NothingRead
<1> QED BY <1>2, <1>3 DEF LineInv, RowFits, StatFits, FromFits, GotFits, Beyond, Once

LEMMA LineFrame ==
  ASSUME LineInv, UNCHANGED <<file, row, events, info, from, got, unsaved, purged, slipped>>,
         \/ worker' = worker
         \/ /\ worker' \in {"stat", "purge_text", "purge_rows", "done", "none"}
            /\ worker \notin {"read", "commit", "save"}
         \/ worker = "wipe_text" /\ worker' = "wipe_rows",
         Unremoved' => Unremoved
  PROVE  LineInv'
<1> USE DEF LineInv
<1>1. Typed' /\ NoneLeft' /\ Past' /\ Once'
  BY DEF Typed, NoneLeft, Past, Once
<1>2. RowFits'
  BY DEF RowFits, Named, Kept
<1>3. StatFits' /\ FromFits'
  BY DEF StatFits, FromFits, Named
<1>4. GotFits'
  BY DEF GotFits, Kept
<1>5. Beyond'
  BY DEF Beyond, NewLines
<1> QED BY <1>1, <1>2, <1>3, <1>4, <1>5

-----------------------------------------------------------------------------
(* The log.                                                                *)

LEMMA AppendKeeps == ASSUME LineInv, Append PROVE LineInv'
<1>0. /\ UNCHANGED <<row, events, info, from, got, unsaved, purged, slipped, worker, ui>>
      /\ file' \in Files /\ file'.gen = file.gen /\ file'.inode = file.inode
      /\ file.lines \in Nat /\ file'.lines \in Nat /\ file.lines <= file'.lines
  <2>1. /\ file.gen \in Gens /\ file.inode \in Gens /\ file.lines \in 0..MaxLines /\ MaxLines \in Nat
        /\ file \in Files
    BY DEF LineInv, Typed, Files, IngestConstants
  <2>2. \/ file.lines < MaxLines /\ file' = [file EXCEPT !.lines = @ + 1, !.half = FALSE]
        \/ file' = [file EXCEPT !.half = TRUE]
    BY DEF Append
  <2>3. /\ file' \in Files /\ file'.gen = file.gen /\ file'.inode = file.inode
        /\ file'.lines \in Nat /\ file.lines <= file'.lines
    <3>1. CASE file.lines < MaxLines /\ file' = [file EXCEPT !.lines = @ + 1, !.half = FALSE]
      <4>1. file' = [gen |-> file.gen, inode |-> file.inode, lines |-> file.lines + 1, half |-> FALSE]
        BY <2>1, <3>1 DEF Files
      <4>2. file.lines + 1 \in 0..MaxLines /\ file.lines <= file.lines + 1
        BY <2>1, <3>1
      <4> QED BY <2>1, <4>1, <4>2 DEF Files
    <3>2. CASE file' = [file EXCEPT !.half = TRUE]
      <4>1. file' = [gen |-> file.gen, inode |-> file.inode, lines |-> file.lines, half |-> TRUE]
        BY <2>1, <3>2 DEF Files
      <4>2. file.lines <= file.lines
        BY <2>1
      <4> QED BY <2>1, <4>1, <4>2 DEF Files
    <3> QED BY <2>2, <3>1, <3>2
  <2> QED BY <2>1, <2>3 DEF Append, storeVars, appVars, readVars, seenVars
<1> USE DEF LineInv
<1>1. Typed' /\ NoneLeft' /\ Once'
  BY <1>0 DEF Typed, NoneLeft, Once
<1>2. Past'
  BY <1>0 DEF Past, Typed, Files
<1>3. \A r \in row : Named(r)' <=> Named(r)
  BY <1>0 DEF Named
<1>4. RowFits'
  BY <1>0, <1>3 DEF RowFits, Kept, Unremoved, Typed, Rows
<1>5. StatFits' /\ FromFits'
  BY <1>0, <1>3 DEF StatFits, FromFits
<1>6. GotFits'
  BY <1>0 DEF GotFits, Kept, Unremoved, Typed
<1>7. Beyond'
  BY <1>0 DEF Beyond, NewLines
<1> QED BY <1>1, <1>2, <1>4, <1>5, <1>6, <1>7

\* What was learnt of the log before it begins anew is not taken for the new one.
LEMMA RotateKeeps == ASSUME LineInv, Rotate PROVE LineInv'
<1>0. /\ UNCHANGED <<row, events, info, from, got, unsaved, purged, slipped, worker, ui>>
      /\ file' \in Files /\ file'.gen = file.gen + 1
      /\ file'.inode \in {file.inode, file.gen + 1}
      /\ file.gen \in Nat /\ file.inode \in Nat /\ info.gen \in Nat /\ info.inode \in Nat
      /\ got.gen \in Nat /\ \A r \in row : r.inode \in Nat /\ r.head[1] \in Nat
  <2>1. PICK inode \in {file.inode, file.gen + 1} :
          file' = [gen |-> file.gen + 1, inode |-> inode, lines |-> 0, half |-> FALSE]
    BY DEF Rotate
  <2>2. file.gen \in 1..MaxGen /\ file.inode \in 1..MaxGen /\ MaxGen \in Nat /\ file.gen < MaxGen
    BY DEF LineInv, Typed, Files, Rotate, IngestConstants
  <2>3. file' \in Files
    BY <2>1, <2>2 DEF Files, IngestConstants
  <2>4. \A r \in row : r.inode \in Nat /\ r.head[1] \in Nat
    BY DEF LineInv, Typed, Rows, Hashes, Blank, NoHash
  <2> QED BY <2>1, <2>2, <2>3, <2>4 DEF Rotate, LineInv, Typed, Files, storeVars, appVars, readVars, seenVars
<1> USE DEF LineInv
<1>1. Typed' /\ NoneLeft' /\ Once'
  BY <1>0 DEF Typed, NoneLeft, Once
<1>2. Past'
  BY <1>0 DEF Past
<1>3. \A r \in row : ~Named(r)'
  BY <1>0 DEF Named, Past
<1>4. info.gen < file'.gen /\ (info.inode = file'.inode => info.inode = file.inode) /\ got.gen < file'.gen
  BY <1>0 DEF Past
<1>5. RowFits' /\ StatFits' /\ FromFits'
  BY <1>0, <1>3, <1>4 DEF RowFits, StatFits, FromFits
<1>6. GotFits'
  BY <1>0, <1>4 DEF GotFits, Kept, Unremoved
<1>7. Beyond'
  BY <1>0 DEF Beyond, NewLines
<1> QED BY <1>1, <1>2, <1>5, <1>6, <1>7
-----------------------------------------------------------------------------
(* Store.ingest.                                                           *)

\* What the locals of no ingest hold is of the past of any log.
LEMMA NoLocals ==
  ASSUME Typed, Past, Returned, UNCHANGED file
  PROVE  /\ info' \in Files /\ from' = 0 /\ from' \in Sizes /\ got' \in [gen : Gens, to : Sizes]
         /\ got'.gen <= file'.gen /\ info'.gen <= file'.gen /\ info'.inode <= file'.inode
         /\ info'.gen = file'.gen => info'.inode = file'.inode /\ info'.lines <= file'.lines
<1>1. /\ info' = [gen |-> 1, inode |-> 1, lines |-> 0, half |-> FALSE]
      /\ from' = 0 /\ got' = [gen |-> 1, to |-> 0]
  BY DEF Returned, NewFile, NothingRead
<1>2. /\ file.gen \in 1..MaxGen /\ file.inode \in 1..MaxGen /\ file.lines \in Nat
      /\ file.inode <= file.gen /\ MaxGen \in Nat /\ MaxGen > 0 /\ MaxLines \in Nat
  BY DEF Typed, Past, Files, IngestConstants
<1> QED BY <1>1, <1>2 DEF Files

\* Steps that end an ingest and leave what it has to what follows.
LEMMA ReturnKeeps ==
  ASSUME LineInv, Returned, UNCHANGED <<file, row, events, purged>>,
         worker' \in {"purge_text", "failed", "none"},
         slipped' = slipped,
         \/ UNCHANGED unsaved /\ worker # "save"
         \/ worker = "save" /\ unsaved' = unsaved \cup NewLines,
         Unremoved' => Unremoved
  PROVE  LineInv'
<1> USE DEF LineInv
<1>1. /\ info' \in Files /\ from' = 0 /\ from' \in Sizes /\ got' \in [gen : Gens, to : Sizes]
      /\ got'.gen <= file'.gen /\ info'.gen <= file'.gen /\ info'.inode <= file'.inode
      /\ info'.gen = file'.gen => info'.inode = file'.inode /\ info'.lines <= file'.lines
  BY NoLocals
<1>2. Typed' /\ NoneLeft' /\ Past'
  BY <1>1 DEF Typed, NoneLeft, Past
<1>3. RowFits'
  BY DEF RowFits, Named, Kept
<1>4. StatFits' /\ FromFits' /\ GotFits'
  BY DEF StatFits, FromFits, GotFits
<1>5. Beyond' /\ Once'
  BY DEF Beyond, Once
<1> QED BY <1>2, <1>3, <1>4, <1>5

LEMMA StatKeeps == ASSUME LineInv, Stat PROVE LineInv'
<1>0. UNCHANGED <<file, row, events, from, got, unsaved, purged, slipped, ui>> /\ worker = "stat"
  BY DEF Stat, logVars, storeVars, appVars, seenVars
<1>1. CASE worker' = "look" /\ info' = file
  <2> USE DEF LineInv
  <2>1. /\ file.gen \in Nat /\ file.inode \in Nat /\ file.lines \in Nat
        /\ file.gen <= file.gen /\ file.inode <= file.inode /\ file.lines <= file.lines
    BY DEF Typed, Files
  <2>2. Typed' /\ NoneLeft' /\ Past'
    BY <1>0, <1>1, <2>1 DEF Typed, NoneLeft, Past
  <2>3. RowFits' /\ FromFits' /\ GotFits'
    BY <1>0, <1>1 DEF RowFits, FromFits, GotFits, Named, Kept, Unremoved
  <2>4. StatFits'
    BY <1>0, <1>1 DEF StatFits, RowFits, Named, Past
  <2>5. Beyond' /\ Once'
    BY <1>0, <1>1 DEF Beyond, Once
  <2> QED BY <2>2, <2>3, <2>4, <2>5
<1>2. CASE worker' = "purge_text" /\ info' = info
  BY <1>0, <1>2, LineFrame DEF Unremoved
<1> QED BY <1>1, <1>2 DEF Stat

\* A row that is found to be of another file is not of the file there is now either.
LEMMA RotatedIsOther ==
  ASSUME LineInv, worker = "look", ~slipped, NEW r \in row, Rotated(r)
  PROVE  ~Named(r)
<1> SUFFICES ASSUME Named(r) PROVE FALSE
  OBVIOUS
<1> USE DEF LineInv
<1>1. /\ r.inode \in Nat /\ r.head[1] \in Nat /\ r.offset \in Nat
      /\ info.gen \in Nat /\ info.inode \in Nat /\ info.lines \in Nat
      /\ file.gen \in Nat /\ file.inode \in Nat /\ file.lines \in Nat
  BY DEF Typed, Rows, Files, Hashes, Blank, NoHash
<1>2. r.offset > 0 /\ r.inode = file.inode /\ r.head = <<file.gen, Min({Head, r.offset})>>
  BY <1>1 DEF Rotated, Named
<1>3. info.gen = file.gen /\ info.inode = file.inode
  BY <1>1, <1>2 DEF StatFits, Past
<1>4. r.offset <= info.lines /\ r.offset <= file.lines
  BY <1>2, <1>3 DEF StatFits, RowFits
<1>5. r.head = Hash(r.offset)
  BY <1>1, <1>2, <1>4, HashNames DEF Typed
<1> QED BY <1>1, <1>2, <1>3, <1>4, <1>5 DEF Rotated, Smaller

LEMMA LookKeeps == ASSUME LineInv, Look PROVE LineInv'
<1>0. UNCHANGED <<file, events, unsaved, purged, slipped, ui>> /\ worker = "look" /\ from = 0
  BY DEF Look, logVars, appVars, seenVars, LineInv, Typed
<1>1. CASE worker' = "purge_text" /\ Returned /\ row' = row
  BY <1>0, <1>1, ReturnKeeps DEF Unremoved
<1>2. CASE /\ row = {} /\ worker' = "read" /\ UNCHANGED readVars
           /\ row' = {[inode |-> info.inode, head |-> Hash(0), offset |-> 0, count |-> 0]}
  <2> USE DEF LineInv
  <2>1. events = {} /\ UNCHANGED <<info, from, got>>
    BY <1>2 DEF NoneLeft, readVars
  <2>2. Hash(0) \in Hashes /\ Hash(0)[1] <= file.gen
    BY HashTyped DEF Typed
  <2>3. PICK r : r = [inode |-> info.inode, head |-> Hash(0), offset |-> 0, count |-> 0]
    OBVIOUS
  <2>4. r \in Rows /\ row' = {r} /\ r.offset = 0 /\ r.inode = info.inode /\ r.head[1] <= file.gen
    BY <1>2, <2>2, <2>3 DEF Typed, Rows, Files, IngestConstants
  <2>5. Typed' /\ NoneLeft' /\ Past'
    BY <1>0, <1>2, <2>1, <2>4 DEF Typed, NoneLeft, Past
  <2>6. RowFits' /\ StatFits' /\ FromFits' /\ GotFits'
    BY <1>0, <1>2, <2>1, <2>4 DEF RowFits, StatFits, FromFits, GotFits
  <2>7. Beyond' /\ Once'
    BY <1>0, <2>1 DEF Beyond, Once
  <2> QED BY <2>5, <2>6, <2>7
<1>3. ASSUME NEW r \in row, row' = row, Rotated(r), worker' = "wipe_text", UNCHANGED readVars
      PROVE  LineInv'
  <2> USE DEF LineInv
  <2>1. UNCHANGED <<info, from, got>> /\ row = {r}
    BY <1>3 DEF readVars, Typed
  <2>2. Typed' /\ NoneLeft' /\ Past'
    BY <1>0, <1>3, <2>1 DEF Typed, NoneLeft, Past
  <2>3. RowFits'
    <3>1. ~slipped => ~Named(r)
      BY <1>0, <1>3, RotatedIsOther
    <3> QED BY <1>0, <1>3, <2>1, <3>1 DEF RowFits, Named
  <2>4. StatFits' /\ FromFits' /\ GotFits' /\ Beyond' /\ Once'
    BY <1>0, <1>3 DEF StatFits, FromFits, GotFits, Beyond, Once
  <2> QED BY <2>2, <2>3, <2>4
<1>4. ASSUME NEW r \in row, row' = row, ~Rotated(r), UpToDate(r), worker' = "purge_text", Returned
      PROVE  LineInv'
  BY <1>0, <1>4, ReturnKeeps DEF Unremoved
<1>5. ASSUME NEW r \in row, row' = row, ~Rotated(r), worker' = "read", from' = r.offset,
             UNCHANGED <<info, got>>
      PROVE  LineInv'
  <2> USE DEF LineInv
  <2>1. row = {r} /\ r.offset \in Sizes /\ r.offset \in Nat
    BY <1>5 DEF Typed, Rows, IngestConstants
  <2>2. Typed' /\ NoneLeft' /\ Past'
    BY <1>0, <1>5, <2>1 DEF Typed, NoneLeft, Past
  <2>3. RowFits'
    BY <1>0, <1>5 DEF RowFits, Named, Kept, Unremoved
  <2>4. FromFits'
    <3>1. ASSUME r.offset > 0 PROVE r.offset <= info.lines /\ (info.gen = file.gen => Named(r))
      <4>1. r.inode = info.inode /\ r.head = Hash(r.offset) /\ r.offset <= info.lines
        BY <1>5, <2>1, <3>1 DEF Rotated, Smaller, Typed, Files
      <4>2. ASSUME info.gen = file.gen PROVE Named(r)
        <5>1. info.inode = file.inode /\ r.offset <= file.lines
          BY <2>1, <4>1, <4>2 DEF Past, Typed, Files
        <5>2. Hash(r.offset) = <<file.gen, Min({Head, r.offset})>>
          BY <2>1, <3>1, <5>1, HashNames DEF Typed
        <5> QED BY <4>1, <5>1, <5>2 DEF Named
      <4> QED BY <4>1, <4>2
    <3>2. Named(r)' <=> Named(r)
      BY <1>0 DEF Named
    <3> QED BY <1>0, <1>5, <2>1, <3>1, <3>2 DEF FromFits
  <2>5. StatFits' /\ GotFits' /\ Beyond' /\ Once'
    BY <1>0, <1>5 DEF StatFits, GotFits, Beyond, Once
  <2> QED BY <2>2, <2>3, <2>4, <2>5
<1> QED BY <1>1, <1>2, <1>3, <1>4, <1>5 DEF Look

LEMMA WipeKeeps == ASSUME LineInv, WipeText \/ WipeRows \/ Reset PROVE LineInv'
<1> USE DEF LineInv
<1>1. CASE WipeText
  BY <1>1, LineFrame DEF WipeText, Unindex, Unremoved, logVars, appVars, readVars, seenVars
<1>2. CASE WipeRows
  <2>0. /\ UNCHANGED <<file, row, info, from, got, unsaved, purged, slipped, ui>>
        /\ events' = {} /\ worker = "wipe_rows" /\ worker' = "reset"
    BY <1>2 DEF WipeRows, Drop, logVars, appVars, readVars, seenVars
  <2>1. Typed' /\ NoneLeft' /\ Past'
    BY <2>0, FS_EmptySet DEF Typed, NoneLeft, Past
  <2>2. RowFits' /\ StatFits' /\ FromFits' /\ GotFits'
    BY <2>0 DEF RowFits, StatFits, FromFits, GotFits, Named
  <2>3. Beyond' /\ Once'
    BY <2>0 DEF Beyond, Once
  <2> QED BY <2>1, <2>2, <2>3
<1>3. CASE Reset
  <2>0. /\ UNCHANGED <<file, events, info, from, got, unsaved, purged, slipped, ui>>
        /\ events = {} /\ worker = "reset" /\ worker' = "read" /\ from = 0
        /\ row' = {[r EXCEPT !.offset = 0, !.count = 0] : r \in row}
    BY <1>3 DEF Reset, NoneLeft, Typed, logVars, appVars, readVars, seenVars
  <2>1. ASSUME NEW r \in row
        PROVE  LET q == [r EXCEPT !.offset = 0, !.count = 0] IN
                 q \in Rows /\ q.offset = 0 /\ q.inode = r.inode /\ q.head = r.head
    <3>1. r \in Rows
      BY DEF Typed
    <3>2. [r EXCEPT !.offset = 0, !.count = 0]
            = [inode |-> r.inode, head |-> r.head, offset |-> 0, count |-> 0]
      <4>1. PICK s : s = [r EXCEPT !.offset = 0]
        OBVIOUS
      <4>2. s = [inode |-> r.inode, head |-> r.head, offset |-> 0, count |-> r.count]
        BY <3>1, <4>1 DEF Rows
      <4>3. [s EXCEPT !.count = 0] = [inode |-> r.inode, head |-> r.head, offset |-> 0, count |-> 0]
        BY <4>2
      <4>4. [r EXCEPT !.offset = 0, !.count = 0] = [s EXCEPT !.count = 0]
        BY <4>1
      <4> QED BY <4>3, <4>4
    <3> QED BY <3>1, <3>2 DEF Rows, IngestConstants
  <2>2. \A q \in row' : q \in Rows /\ q.offset = 0 /\ \E r \in row : q.inode = r.inode /\ q.head = r.head
    BY <2>0, <2>1
  <2>3. Typed'
    <3>1. \A q, s \in row' : q = s
      BY <2>0 DEF Typed
    <3> QED BY <2>0, <2>2, <3>1 DEF Typed
  <2>4. NoneLeft' /\ Past'
    BY <2>0, <2>2 DEF NoneLeft, Past
  <2>5. RowFits'
    <3>1. \A q \in row' : ~(q.offset > 0)
      BY <2>2
    <3> QED BY <3>1 DEF RowFits
  <2>6. FromFits'
    <3>1. from' = 0
      BY <1>3 DEF Reset, readVars, Typed
    <3>2. \A q \in row' : q.offset = from' /\ ~(from' > 0)
      BY <2>2, <3>1
    <3> QED BY <3>2 DEF FromFits
  <2>7. StatFits' /\ GotFits'
    BY <2>0 DEF StatFits, GotFits
  <2>8. Beyond' /\ Once'
    BY <2>0 DEF Beyond, Once
  <2> QED BY <2>3, <2>4, <2>5, <2>6, <2>7, <2>8
<1> QED BY <1>1, <1>2, <1>3

LEMMA ReadKeeps == ASSUME LineInv, Read PROVE LineInv'
<1>0. UNCHANGED <<file, row, events, unsaved, purged, ui>> /\ worker = "read"
  BY DEF Read, logVars, storeVars, appVars
<1>1. CASE worker' = "purge_text" /\ Returned /\ slipped' = slipped
  BY <1>0, <1>1, ReturnKeeps DEF Unremoved
<1>2. CASE /\ worker' = "commit" /\ UNCHANGED <<info, from>>
           /\ got' = [gen |-> file.gen, to |-> IF file.lines > from THEN file.lines ELSE from]
           /\ slipped' = (slipped \/ (from > 0 /\ file.gen # info.gen /\ file.inode = info.inode))
  <2> USE DEF LineInv
  <2>0. /\ file.lines \in Nat /\ file.lines \in Sizes /\ from \in Nat /\ from \in Sizes
        /\ file.gen \in Gens /\ file.gen \in Nat /\ info.lines \in Nat
    BY DEF Typed, Files, IngestConstants
  <2>1. /\ got'.gen = file.gen /\ got'.to \in Sizes /\ got'.to \in Nat /\ from <= got'.to
        /\ got'.to <= file.lines \/ got'.to = from
        /\ got' \in [gen : Gens, to : Sizes]
    BY <1>2, <2>0
  <2>2. Typed' /\ NoneLeft'
    <3>1. slipped' \in BOOLEAN
      BY <1>2 DEF Typed
    <3> QED BY <1>0, <1>2, <2>1, <3>1 DEF Typed, NoneLeft
  <2>3. Past'
    <3>1. file.gen <= file.gen
      BY <2>0
    <3> QED BY <1>0, <1>2, <2>1, <3>1 DEF Past
  <2>4. slipped => slipped'
    BY <1>2
  <2>5. RowFits'
    BY <1>0, <1>2, <2>4 DEF RowFits, Named, Kept, Unremoved
  <2>6. GotFits'
    <3>1. \A r \in row : r.offset = from
      BY <1>0 DEF FromFits
    <3>2. ASSUME ~slipped', row # {}, info.inode = file.inode
          PROVE  got'.to <= file.lines /\ (Unremoved => Kept(file.gen, from))
      <4>1. CASE from = 0
        <5>1. Kept(file.gen, 0)
          BY DEF Kept
        <5> QED BY <2>0, <2>1, <4>1, <5>1
      <4>2. CASE from > 0
        <5>1. file.gen = info.gen
          BY <1>2, <3>2, <4>2
        <5>2. PICK r \in row : r.offset = from /\ from <= info.lines /\ Named(r)
          BY <1>0, <3>1, <3>2, <4>2, <5>1 DEF FromFits
        <5>3. from <= file.lines /\ (Unremoved => Kept(file.gen, from))
          BY <2>4, <3>2, <4>2, <5>2 DEF RowFits
        <5> QED BY <2>0, <2>1, <5>3
      <4> QED BY <2>0, <4>1, <4>2
    <3>3. \A gen, to : Kept(gen, to)' <=> Kept(gen, to)
      BY <1>0 DEF Kept
    <3>4. Kept(file.gen, from) => Kept(got.gen, from)'
      BY <1>0, <1>2, <2>1 DEF Kept
    <3> QED BY <1>0, <1>2, <2>1, <3>1, <3>2, <3>4 DEF GotFits, Unremoved
  <2>7. StatFits' /\ FromFits'
    BY <1>2 DEF StatFits, FromFits
  <2>8. Beyond' /\ Once'
    BY <1>0 DEF Beyond, Once
  <2> QED BY <2>2, <2>3, <2>5, <2>6, <2>7, <2>8
<1> QED BY <1>1, <1>2 DEF Read

\* The lines that are read and committed.
LEMMA RowsAdded ==
  ASSUME Typed, from <= got.to
  PROVE  /\ \A e \in NewRows : e.line \in Lines /\ e.line \in NewLines /\ e.line[2] > from /\ e.line[2] <= got.to
         /\ \A e, f \in NewRows : e.line = f.line => e = f
         /\ \A n \in (from + 1)..got.to : <<got.gen, n>> \in {e.line : e \in NewRows}
<1>0. from \in Nat /\ got.to \in Nat /\ got.to <= MaxLines /\ got.gen \in Gens /\ MaxLines \in Nat
  BY DEF Typed, IngestConstants
<1>1. \A e \in NewRows : \E n \in 1..(got.to - from) :
        e = [id |-> NextId + n - 1, line |-> <<got.gen, from + n>>]
  BY DEF NewRows
<1>2. ASSUME NEW e \in NewRows
      PROVE  e.line \in Lines /\ e.line \in NewLines /\ e.line[2] > from /\ e.line[2] <= got.to
  <2>1. PICK n \in 1..(got.to - from) : e = [id |-> NextId + n - 1, line |-> <<got.gen, from + n>>]
    BY <1>1
  <2>2. e.line = <<got.gen, from + n>>
    BY <2>1
  <2>3. from + n \in 1..MaxLines /\ from + n > from /\ from + n <= got.to
    BY <1>0, <2>1
  <2> QED BY <1>0, <2>1, <2>2, <2>3 DEF Lines, NewLines
<1>3. ASSUME NEW e \in NewRows, NEW f \in NewRows, e.line = f.line PROVE e = f
  <2>1. PICK n \in 1..(got.to - from) : e = [id |-> NextId + n - 1, line |-> <<got.gen, from + n>>]
    BY <1>1
  <2>2. PICK m \in 1..(got.to - from) : f = [id |-> NextId + m - 1, line |-> <<got.gen, from + m>>]
    BY <1>1
  <2>3. from + n = from + m
    BY <1>3, <2>1, <2>2
  <2>4. n = m
    BY <1>0, <2>1, <2>2, <2>3
  <2> QED BY <2>1, <2>2, <2>4
<1>4. ASSUME NEW n \in (from + 1)..got.to PROVE <<got.gen, n>> \in {e.line : e \in NewRows}
  <2>1. PICK k : k = n - from
    OBVIOUS
  <2>2. k \in 1..(got.to - from) /\ from + k = n
    BY <1>0, <1>4, <2>1
  <2>3. PICK e : e = [id |-> NextId + k - 1, line |-> <<got.gen, from + k>>]
    OBVIOUS
  <2>4. e \in NewRows /\ e.line = <<got.gen, n>>
    BY <2>2, <2>3 DEF NewRows
  <2> QED BY <2>4
<1> QED BY <1>2, <1>3, <1>4

LEMMA RowsFinite == Typed => IsFiniteSet(NewRows)
<1> SUFFICES ASSUME Typed PROVE IsFiniteSet(NewRows)
  OBVIOUS
<1> DEFINE f == [n \in 1..(got.to - from) |-> [id |-> NextId + n - 1, line |-> <<got.gen, from + n>>]]
<1>1. got.to - from \in Int
  BY DEF Typed, IngestConstants
<1>2. IsFiniteSet(1..(got.to - from))
  BY <1>1, FS_Interval
<1>3. f \in Surjection(1..(got.to - from), NewRows)
  BY DEF NewRows, Surjection
<1> QED BY <1>2, <1>3, FS_Surjection

LEMMA CommitKeeps == ASSUME LineInv, Commit PROVE LineInv'
<1>0. UNCHANGED <<file, row, unsaved, purged, slipped, ui>> /\ worker = "commit"
  BY DEF Commit, logVars, appVars, seenVars
<1>1. CASE worker' = "failed" /\ Returned /\ UNCHANGED <<events, hidden>>
  BY <1>0, <1>1, ReturnKeeps DEF Unremoved
<1>2. CASE /\ got.to > from => row # {}
           /\ worker' = "save" /\ events' = events \cup NewRows /\ UNCHANGED readVars
  <2> USE DEF LineInv
  <2>0. UNCHANGED <<info, from, got>> /\ from <= got.to /\ \A r \in row : r.offset = from
    BY <1>0, <1>2 DEF readVars, GotFits
  <2>1. /\ \A e \in NewRows : e.line \in Lines /\ e.line \in NewLines /\ e.line[2] > from /\ e.line[2] <= got.to
        /\ \A e, f \in NewRows : e.line = f.line => e = f
        /\ \A n \in (from + 1)..got.to : <<got.gen, n>> \in {e.line : e \in NewRows}
    BY <2>0, RowsAdded
  <2>2. Typed'
    <3>1. IsFiniteSet(events')
      BY <1>2, RowsFinite, FS_Union DEF Typed
    <3> QED BY <1>0, <1>2, <2>0, <2>1, <3>1 DEF Typed
  <2>3. from \in Nat /\ got.to \in Nat
    BY DEF Typed, IngestConstants
  <2>4. row = {} => NewRows = {}
    <3>1. row = {} => got.to - from = 0
      BY <1>2, <2>0, <2>3
    <3>2. row = {} => 1..(got.to - from) = {}
      BY <3>1
    <3> QED BY <3>2 DEF NewRows
  <2>5. NoneLeft' /\ Past'
    BY <1>0, <1>2, <2>0, <2>4 DEF NoneLeft, Past
  <2>6. RowFits'
    BY <1>0, <1>2 DEF RowFits, Named, Kept, Unremoved
  <2>7. GotFits'
    <3>1. ASSUME Kept(got.gen, from) PROVE Kept(got.gen, got.to)'
      <4>1. ASSUME NEW n \in 1..got.to PROVE <<got.gen, n>> \in purged \cup {e.line : e \in events'}
        <5>1. CASE n <= from
          <6>1. n \in 1..from
            BY <2>3, <4>1, <5>1
          <6> QED BY <1>2, <3>1, <6>1 DEF Kept
        <5>2. CASE n > from
          <6>1. n \in (from + 1)..got.to
            BY <2>3, <4>1, <5>2
          <6> QED BY <1>2, <2>1, <6>1
        <5> QED BY <2>3, <4>1, <5>1, <5>2
      <4> QED BY <1>0, <2>0, <4>1 DEF Kept
    <3> QED BY <1>0, <1>2, <2>0, <3>1 DEF GotFits, Unremoved
  <2>8. StatFits' /\ FromFits'
    BY <1>2 DEF StatFits, FromFits
  <2>9. Beyond'
    <3>1. NewLines' = NewLines
      BY <2>0 DEF NewLines
    <3> QED BY <1>0, <1>2, <2>1, <3>1 DEF Beyond
  <2>10. Once'
    <3>1. ASSUME NEW e \in events, NEW f \in NewRows, e.line = f.line PROVE e.line \in unsaved
      <4>1. PICK r \in row : r.offset = from
        BY <2>0, <2>4, <3>1
      <4>2. ~(e.line[2] <= r.offset)
        <5>1. f.line[2] > from /\ f.line \in Lines
          BY <2>1
        <5>2. f.line[2] \in Nat
          BY <5>1 DEF Lines
        <5> QED BY <2>3, <3>1, <4>1, <5>1, <5>2
      <4> QED BY <1>0, <4>1, <4>2 DEF Beyond
    <3> QED BY <1>0, <1>2, <2>1, <3>1 DEF Once
  <2> QED BY <2>2, <2>5, <2>6, <2>7, <2>8, <2>9, <2>10
<1> QED BY <1>1, <1>2 DEF Commit

LEMMA SaveKeeps == ASSUME LineInv, Save PROVE LineInv'
<1> USE DEF LineInv
<1>0. UNCHANGED <<file, events, unsaved, purged, ui>> /\ worker = "save" /\ worker' = "purge_text" /\ Returned
  BY DEF Save, logVars, appVars
<1>1. PICK head \in {Hash(got.to), NoHash} :
        row' = {[inode |-> info.inode, head |-> head, offset |-> got.to,
                 count |-> r.count + (got.to - from)] : r \in row}
  BY DEF Save
<1>2. /\ got.to \in Nat /\ from \in Nat /\ from <= got.to /\ got.to \in Sizes
      /\ got.gen \in Nat /\ file.gen \in Nat /\ file.gen > 0
      /\ \A r \in row : r.offset = from /\ r.count \in Nat
  BY <1>0 DEF GotFits, Typed, Rows, Files, IngestConstants
<1>3. head \in Hashes /\ head[1] <= file.gen
  <2>1. NoHash \in Hashes /\ NoHash[1] <= file.gen
    BY <1>2 DEF NoHash, Hashes
  <2> QED BY <1>2, <2>1, HashTyped DEF Typed
<1>4. /\ \A q \in row' : /\ q \in Rows /\ q.offset = got.to /\ q.inode = info.inode /\ q.head = head
                         /\ row # {}
      /\ \A q, s \in row' : q = s
      /\ row' = {} => row = {}
  <2>1. ASSUME NEW q \in row'
        PROVE  /\ q \in Rows /\ q.offset = got.to /\ q.inode = info.inode /\ q.head = head
               /\ row # {}
    <3>1. PICK r \in row : q = [inode |-> info.inode, head |-> head, offset |-> got.to,
                                count |-> r.count + (got.to - from)]
      BY <1>1
    <3>2. r.count + (got.to - from) \in Nat /\ info.inode \in Gens
      BY <1>2 DEF Typed, Files
    <3> QED BY <1>2, <1>3, <3>1, <3>2 DEF Rows
  <2>2. \A q, s \in row' : q = s
    BY <1>1 DEF Typed
  <2> QED BY <1>1, <2>1, <2>2
<1>5. slipped' \in BOOLEAN /\ (~slipped' => ~slipped /\ (got.gen = file.gen \/ file.inode # info.inode))
  BY DEF Save, Typed
<1>6. Typed' /\ NoneLeft' /\ Past'
  <2>1. /\ info' \in Files /\ from' = 0 /\ from' \in Sizes /\ got' \in [gen : Gens, to : Sizes]
        /\ got'.gen <= file'.gen /\ info'.gen <= file'.gen /\ info'.inode <= file'.inode
        /\ info'.gen = file'.gen => info'.inode = file'.inode /\ info'.lines <= file'.lines
    BY <1>0, NoLocals
  <2>2. row' \in SUBSET Rows /\ \A q \in row' : q.inode <= file.inode /\ q.head[1] <= file.gen
    BY <1>3, <1>4 DEF Past
  <2> QED BY <1>0, <1>4, <1>5, <2>1, <2>2 DEF Typed, NoneLeft, Past
<1>7. RowFits'
  <2>1. ASSUME NEW q \in row', ~slipped', Named(q)'
        PROVE  q.offset <= file.lines /\ (Unremoved => Kept(file.gen, q.offset)')
    <3>1. info.inode = file.inode /\ got.gen = file.gen /\ row # {} /\ q.offset = got.to /\ ~slipped
      BY <1>0, <1>4, <1>5, <2>1 DEF Named
    <3>2. got.to <= file.lines /\ (Unremoved => Kept(got.gen, got.to))
      BY <1>0, <3>1 DEF GotFits
    <3> QED BY <1>0, <3>1, <3>2 DEF Kept
  <2> QED BY <1>0, <2>1 DEF RowFits, Unremoved, Kept
<1>8. StatFits' /\ FromFits' /\ GotFits'
  BY <1>0 DEF StatFits, FromFits, GotFits
<1>9. Beyond'
  <2>1. ASSUME NEW q \in row', NEW e \in events PROVE e.line[2] <= q.offset \/ e.line \in unsaved
    <3>1. PICK r \in row : r.offset = from
      BY <1>2, <1>4
    <3>2. e.line[2] \in Nat
      BY DEF Typed, Lines
    <3>3. CASE e.line[2] <= r.offset
      BY <1>2, <1>4, <3>1, <3>2, <3>3
    <3>4. CASE e.line \in NewLines
      <4>1. PICK n \in 1..(got.to - from) : e.line = <<got.gen, from + n>>
        BY <3>4 DEF NewLines
      <4>2. from + n <= got.to /\ e.line[2] = from + n
        BY <1>2, <4>1
      <4> QED BY <1>4, <4>2
    <3> QED BY <3>1, <3>3, <3>4 DEF Beyond
  <2> QED BY <1>0, <2>1 DEF Beyond
<1>10. Once'
  BY <1>0 DEF Once
<1> QED BY <1>6, <1>7, <1>8, <1>9, <1>10

-----------------------------------------------------------------------------
(* Retention, removals and the end of the process.                         *)

LEMMA PurgeKeeps == ASSUME LineInv, PurgeText \/ PurgeRows \/ Recount PROVE LineInv'
<1> USE DEF LineInv
<1>1. CASE PurgeText
  <2>1. /\ UNCHANGED <<file, row, events, info, from, got, unsaved, purged, slipped, ui>>
        /\ worker = "purge_text" /\ worker' \in {"done", "purge_rows"}
    BY <1>1 DEF PurgeText, Unindex, logVars, appVars, readVars, seenVars
  <2> QED BY <2>1, LineFrame DEF Unremoved
<1>2. CASE PurgeRows
  <2>0. /\ UNCHANGED <<file, row, info, from, got, unsaved, slipped, ui>>
        /\ events' = events \ Oldest(excess) /\ purged' = purged \cup {e.line : e \in Oldest(excess)}
        /\ worker = "purge_rows" /\ worker' = "recount"
    BY <1>2 DEF PurgeRows, Drop, logVars, appVars, readVars
  <2>1. Typed' /\ NoneLeft' /\ Past'
    <3>1. IsFiniteSet(events')
      BY <2>0, FS_Difference DEF Typed
    <3> QED BY <2>0, <3>1 DEF Typed, NoneLeft, Past
  <2>2. purged \cup {e.line : e \in events} \subseteq purged' \cup {e.line : e \in events'}
    BY <2>0
  <2>3. RowFits'
    BY <2>0, <2>2 DEF RowFits, Named, Kept, Unremoved
  <2>4. StatFits' /\ FromFits' /\ GotFits'
    BY <2>0 DEF StatFits, FromFits, GotFits
  <2>5. Beyond' /\ Once'
    BY <2>0 DEF Beyond, Once
  <2> QED BY <2>1, <2>3, <2>4, <2>5
<1>3. CASE Recount
  <2>0. /\ UNCHANGED <<file, events, info, from, got, unsaved, purged, slipped, ui>>
        /\ worker = "recount" /\ worker' = "done"
        /\ row' = {[r EXCEPT !.count = Cardinality(events)] : r \in row}
        /\ IsFiniteSet(events)
    BY <1>3 DEF Recount, Typed, logVars, appVars, readVars, seenVars
  <2>1. ASSUME NEW r \in row
        PROVE  LET q == [r EXCEPT !.count = Cardinality(events)] IN
                 q \in Rows /\ q.offset = r.offset /\ q.inode = r.inode /\ q.head = r.head
    <3>1. r \in Rows /\ Cardinality(events) \in Nat
      BY <2>0, FS_CardinalityType DEF Typed
    <3> QED BY <3>1 DEF Rows
  <2>2. \A q \in row' : q \in Rows /\ \E r \in row : q.offset = r.offset /\ q.inode = r.inode /\ q.head = r.head
    BY <2>0, <2>1
  <2>3. Typed'
    <3>1. \A q, s \in row' : q = s
      BY <2>0 DEF Typed
    <3> QED BY <2>0, <2>2, <3>1 DEF Typed
  <2>4. NoneLeft' /\ Past'
    BY <2>0, <2>2 DEF NoneLeft, Past
  <2>5. RowFits'
    <3>1. ASSUME NEW q \in row', ~slipped, q.offset > 0, Named(q)'
          PROVE  q.offset <= file.lines /\ (Unremoved => Kept(file.gen, q.offset))
      <4>1. PICK r \in row : q.offset = r.offset /\ q.inode = r.inode /\ q.head = r.head
        BY <2>2
      <4>2. Named(r)
        BY <2>0, <3>1, <4>1 DEF Named
      <4> QED BY <3>1, <4>1, <4>2 DEF RowFits
    <3> QED BY <2>0, <3>1 DEF RowFits, Unremoved, Kept
  <2>6. StatFits' /\ FromFits' /\ GotFits'
    BY <2>0 DEF StatFits, FromFits, GotFits
  <2>7. Beyond' /\ Once'
    BY <2>0, <2>2 DEF Beyond, Once
  <2> QED BY <2>3, <2>4, <2>5, <2>6, <2>7
<1> QED BY <1>1, <1>2, <1>3

\* A removal of the user's that has begun lets go of everything.
LEMMA RemovalKeeps ==
  ASSUME LineInv, ForgetText \/ ForgetRows \/ DropSource \/ ClearRows \/ ClearText
  PROVE  LineInv'
<1> USE DEF LineInv
<1>1. CASE ForgetText \/ ClearText
  <2>1. UNCHANGED <<file, row, events, info, from, got, unsaved, purged, slipped, worker>>
    BY <1>1 DEF ForgetText, ClearText, Unindex, logVars, readVars, seenVars
  <2>2. Unremoved' => Unremoved
    BY <1>1 DEF ForgetText, ClearText, MayRemove, Unremoved
  <2> QED BY <2>1, <2>2, LineFrame
<1>2. CASE ForgetRows \/ ClearRows
  <2>0. /\ UNCHANGED <<file, row, info, from, got, unsaved, purged, slipped, worker>>
        /\ events' = {} /\ ~Unremoved'
    BY <1>2 DEF ForgetRows, ClearRows, Drop, Unremoved, logVars, readVars, seenVars
  <2>1. Typed' /\ NoneLeft' /\ Past'
    BY <2>0, FS_EmptySet DEF Typed, NoneLeft, Past
  <2>2. RowFits' /\ StatFits' /\ FromFits' /\ GotFits'
    BY <2>0 DEF RowFits, StatFits, FromFits, GotFits, Named
  <2>3. Beyond' /\ Once'
    BY <2>0 DEF Beyond, Once
  <2> QED BY <2>1, <2>2, <2>3
<1>3. CASE DropSource
  <2>0. /\ UNCHANGED <<file, info, from, got, worker>>
        /\ events' = {} /\ row' = {} /\ slipped' = FALSE
    BY <1>3 DEF DropSource, Drop, logVars, readVars
  <2>1. Typed' /\ NoneLeft' /\ Past'
    BY <2>0, FS_EmptySet DEF Typed, NoneLeft, Past
  <2>2. RowFits' /\ StatFits' /\ FromFits' /\ GotFits'
    BY <2>0 DEF RowFits, StatFits, FromFits, GotFits
  <2>3. Beyond' /\ Once'
    BY <2>0 DEF Beyond, Once
  <2> QED BY <2>1, <2>2, <2>3
<1> QED BY <1>1, <1>2, <1>3

\* A removal is not interrupted by the death of the process.
RemovalsEnd == "crash_forget" \notin Hazards

LEMMA CrashKeeps == ASSUME LineInv, RemovalsEnd, Crash PROVE LineInv'
<1>1. /\ Returned /\ UNCHANGED <<file, row, events, purged, slipped>> /\ worker' = "none"
      /\ (UNCHANGED unsaved /\ worker # "save") \/ (worker = "save" /\ unsaved' = unsaved \cup NewLines)
  BY DEF Crash, logVars, storeVars
<1>2. Unremoved
  BY DEF Crash, RemovalsEnd, Unremoved
<1> QED BY <1>1, <1>2, ReturnKeeps

LEMMA OneIndexSteps == OneIndex /\ [Next]_vars => OneIndex'
<1> SUFFICES ASSUME OneIndex, [Next]_vars PROVE OneIndex'
  OBVIOUS
<1> USE DEF OneIndex, AtWork, appVars
<1>1. CASE Work
  BY <1>1 DEF Work, Stat, Look, WipeText, WipeRows, Reset, Read, Commit, Save, PurgeText, PurgeRows, Recount
<1>2. CASE Append \/ Rotate \/ Index \/ Delivered \/ Quit \/ Crash \/ Restart \/ UNCHANGED vars
  BY <1>2 DEF Append, Rotate, Index, Delivered, Quit, Crash, Restart, vars
<1>3. CASE ForgetText \/ ClearRows \/ Removal
  BY <1>3 DEF ForgetText, ClearRows, Removal, ForgetRows, ClearText, DropSource
<1> QED BY <1>1, <1>2, <1>3 DEF Next

LEMMA LineSteps == ASSUME LineInv, OneIndex, RemovalsEnd, [Next]_vars PROVE LineInv'
<1>1. CASE Append \/ Rotate
  BY <1>1, AppendKeeps, RotateKeeps
<1>2. CASE Work
  BY <1>2, StatKeeps, LookKeeps, WipeKeeps, ReadKeeps, CommitKeeps, SaveKeeps, PurgeKeeps DEF Work
<1>3. CASE Index \/ Delivered \/ Quit \/ Restart \/ UNCHANGED vars
  <2>1. UNCHANGED <<file, row, events, info, from, got, unsaved, purged, slipped>>
    BY <1>3 DEF Index, Delivered, Quit, Restart, vars, logVars, storeVars, readVars, seenVars
  <2>2. worker' = worker \/ (worker' \in {"stat", "none"} /\ worker \notin AtWork)
    BY <1>3 DEF Index, Delivered, Quit, Restart, OneIndex, AtWork, vars
  <2>3. Unremoved' => Unremoved
    BY <1>3 DEF Index, Delivered, Quit, Restart, Unremoved, vars, appVars
  <2> QED BY <2>1, <2>2, <2>3, LineFrame DEF AtWork
<1>4. CASE ForgetText \/ ClearRows \/ Removal
  BY <1>4, RemovalKeeps DEF Removal
<1>5. CASE Crash
  BY <1>5, CrashKeeps
<1> QED BY <1>1, <1>2, <1>3, <1>4, <1>5 DEF Next

\* What the next index would pass over is in the index once, or was purged
\* (Store.ingest, _fingerprint, _upsert_source, apply_retention): for logs of any
\* length that are rotated at any moment, under read errors, crashes between any two
\* statements of an index, and removals by the user while it runs; but not if the
\* process dies inside such a removal.
THEOREM PassedOverIsStored == ASSUME RemovalsEnd PROVE Spec => []PrefixIsStored
<1>1. Init => OneIndex /\ LineInv
  BY LineStarts DEF Init, OneIndex, AtWork
<1>2. OneIndex /\ LineInv /\ [Next]_vars => OneIndex' /\ LineInv'
  BY OneIndexSteps, LineSteps
<1>3. LineInv => PrefixIsStored
  <2> SUFFICES ASSUME LineInv PROVE PrefixIsStored
    OBVIOUS
  <2>1. ASSUME Quiet, ~slipped, NEW r \in row, Recognised(r), NEW n \in 1..r.offset
        PROVE  <<file.gen, n>> \in purged \cup {e.line : e \in events}
    <3>1. r.offset \in Nat /\ r.offset > 0 /\ file.lines \in Nat /\ file \in Files
      BY <2>1 DEF LineInv, Typed, Rows, Files, IngestConstants
    <3>2. r.offset <= file.lines
      BY <2>1, <3>1 DEF Recognised, Smaller
    <3>3. Named(r)
      BY <2>1, <3>1, <3>2, HashNames DEF Recognised, Named
    <3>4. Kept(file.gen, r.offset)
      BY <2>1, <3>1, <3>3 DEF LineInv, RowFits, Quiet, Unremoved
    <3> QED BY <2>1, <3>4 DEF Kept
  <2>2. \A e, f \in events : e.line = f.line /\ e.line \notin unsaved => e = f
    BY DEF LineInv, Once
  <2> QED BY <2>1, <2>2 DEF PrefixIsStored
<1> QED BY <1>1, <1>2, <1>3, PTL DEF Spec

-----------------------------------------------------------------------------
(* The text index.                                                         *)

LEMMA NoneIsOldest == ASSUME IsFiniteSet(events) PROVE Oldest(0) = {}
<1>1. ASSUME NEW e \in events PROVE ~(Cardinality({f \in events : f.id < e.id}) < 0)
  <2>1. IsFiniteSet({f \in events : f.id < e.id})
    BY FS_Subset
  <2> QED BY <2>1, FS_CardinalityType
<1> QED BY <1>1 DEF Oldest

\* Nor does the index die between the two statements of a removal of its own.
DeletionsEnd == RemovalsEnd /\ "crash_text" \notin Hazards

LEMMA TextSteps ==
  ASSUME TextInv, OneIndex, IsFiniteSet(events), DeletionsEnd, [Next]_vars
  PROVE  TextInv'
<1> USE DEF TextInv
<1>1. CASE Append \/ Rotate \/ UNCHANGED vars
  BY <1>1 DEF Append, Rotate, vars, storeVars, appVars, Oldest
<1>2. CASE Index \/ Delivered \/ Quit \/ Restart
  <2>1. UNCHANGED <<events, hidden, excess>>
    BY <1>2 DEF Index, Delivered, Quit, Restart, storeVars
  <2>2. ui' # "forget_rows" => ui # "forget_rows"
    BY <1>2 DEF Index, Delivered, Quit, Restart
  <2>3. worker' = worker \/ worker \notin {"wipe_rows", "purge_rows"}
    BY <1>2 DEF Index, Delivered, Quit, Restart, OneIndex, AtWork
  <2> QED BY <2>1, <2>2, <2>3 DEF Oldest
<1>3. CASE Stat \/ Look \/ Reset \/ Read \/ Save \/ Recount
  <2>1. UNCHANGED <<events, hidden, ui>> /\ worker \notin {"wipe_rows", "purge_rows"}
    BY <1>3 DEF Stat, Look, Reset, Read, Save, Recount, storeVars, appVars
  <2> QED BY <2>1
<1>4. CASE WipeText
  BY <1>4 DEF WipeText, Unindex, appVars
<1>5. CASE WipeRows
  BY <1>5 DEF WipeRows, Drop, appVars
<1>6. CASE Commit
  BY <1>6 DEF Commit, appVars
<1>7. CASE PurgeText
  <2>1. /\ worker = "purge_text" /\ hidden' = hidden \cup Oldest(Excess) /\ UNCHANGED <<events, ui>>
        /\ excess' = Excess /\ worker' = IF Excess = 0 THEN "done" ELSE "purge_rows"
    BY <1>7 DEF PurgeText, Unindex, appVars
  <2>2. Oldest(Excess) \subseteq events /\ Oldest(excess)' = Oldest(Excess)
    BY <2>1 DEF Oldest
  <2>3. Excess = 0 => Oldest(Excess) = {}
    BY NoneIsOldest
  <2> QED BY <2>1, <2>2, <2>3
<1>8. CASE PurgeRows
  BY <1>8 DEF PurgeRows, Drop, appVars
<1>9. CASE ForgetText
  BY <1>9 DEF ForgetText, Unindex
<1>10. CASE ForgetRows \/ ClearRows \/ DropSource
  BY <1>10 DEF ForgetRows, ClearRows, DropSource, Drop
<1>11. CASE ClearText
  BY <1>11 DEF ClearText
<1>12. CASE Crash
  <2>1. ui \in {"idle", "gone"} /\ worker \notin {"wipe_rows", "purge_rows"} /\ UNCHANGED <<events, hidden>>
    BY <1>12 DEF Crash, DeletionsEnd, RemovalsEnd, storeVars
  <2> QED BY <2>1
<1> QED BY <1>1, <1>2, <1>3, <1>4, <1>5, <1>6, <1>7, <1>8, <1>9, <1>10, <1>11, <1>12
        DEF Next, Work, Removal

\* Whatever is stored can be found by its text (_forget_events, forget, clear,
\* apply_retention): no event stays whose text a removal has let go of, also when the
\* user removes what the index is adding to or purging, unless the process dies
\* between the two statements of a removal.
THEOREM StoredTextIsIndexed == ASSUME DeletionsEnd PROVE Spec => []StoredIsSearchable
<1>1. Init => OneIndex /\ LineInv /\ TextInv
  BY LineStarts DEF Init, OneIndex, AtWork, TextInv
<1>2. OneIndex /\ LineInv /\ TextInv /\ [Next]_vars => OneIndex' /\ LineInv' /\ TextInv'
  BY OneIndexSteps, LineSteps, TextSteps DEF DeletionsEnd, LineInv, Typed
<1>3. TextInv => StoredIsSearchable
  BY DEF TextInv, StoredIsSearchable, Quiet
<1> QED BY <1>1, <1>2, <1>3, PTL DEF Spec
====
