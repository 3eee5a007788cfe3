------------------------- MODULE ConfigApplyProofs -------------------------
(***************************************************************************)
(* Proofs about ConfigApply for any options, units and number of applies.  *)
(* The calls an apply has under way and the times it was reported are one   *)
(* together, but for the calls that report twice, however several applies  *)
(* interleave (FinishedOnceHolds).  What an apply replaces is what its     *)
(* confirmation showed, or one of the writes it could not know of is named *)
(* (FileChangesAsShown).  One apply at a time is restarted completely      *)
(* before it is reported as saved (SavedIsRestarted) and in order          *)
(* (InOrder).                                                              *)
(* The second part is about the text of the file, for any text, option,    *)
(* value and machine: an edit changes its option and nothing else          *)
(* (EveryEditIsLocal), a remedy of the on-access diagnosis ends what it is *)
(* offered for (EveryRemedyHeals), and the badge of a service says what    *)
(* its diagnosis says (BadgeIsDiagnosis).                                  *)
(***************************************************************************)
EXTENDS ClamdConf, FiniteSetTheorems, SequenceTheorems, TLAPS

\* A process reports its end once.
Clean == "error_twice" \notin Hazards
\* One apply at a time.
Serial == "overlap" \notin Hazards

\* How far one apply's chain of restarts has come.  Until a call has failed the
\* calls are one, and what was not restarted yet is being or will be.
Chain(j) ==
  LET p == job[j].page IN
  /\ InFlight(j) => j <= jobs /\ j # dialog
  /\ InFlight(j) \/ j > jobs \/ j = dialog => j \notin saved
  /\ j \in saved => Units \subseteq since[j]
  /\ call[j][Write] # "none" =>
        /\ pending[p] = ToRestart(j) /\ failures[p] = FALSE
        /\ \A t \in Restarts : call[j][t] = "none"
  /\ \A t \in Restarts : call[j][t] # "none" =>
        /\ t \notin pending[p] /\ t \in ToRestart(j) /\ pending[p] \subseteq ToRestart(j)
        /\ t[2] = "onaccess" => \A u \in pending[p] : u[2] # "daemon"
        /\ failures[p] = FALSE =>
              /\ \A r \in Units : <<j, r>> \in pending[p] \/ r = t[2] \/ r \in since[j]
              /\ \A u \in Restarts : u # t => call[j][u] = "none"
              /\ call[j][t] # "errored"
              /\ call[j][t] = "done" => t[2] \in since[j]

\* At most one apply is under way, and none behind an open confirmation.
OneFlight == /\ \A i, j \in Jobs : InFlight(i) /\ InFlight(j) => i = j
             /\ dialog # 0 => \A j \in Jobs : ~InFlight(j)

SInv == TypeOK /\ OneFlight /\ \A j \in Jobs : Chain(j)

-----------------------------------------------------------------------------
LEMMA KindsAre ==
  /\ Write \in Kinds /\ Write \notin Restarts
  /\ \A k \in Kinds : k = Write \/ k \in Restarts
  /\ \A t \in Restarts : t \in Kinds /\ t[1] \in Jobs /\ t[2] \in Units /\ t = <<t[1], t[2]>>
  /\ \A j \in Jobs : \A t \in ToRestart(j) : t \in Restarts /\ t[1] = j
  /\ \A j \in Jobs, r \in Units : <<j, r>> \in ToRestart(j) /\ <<j, r>>[2] = r
<1>1. 0 \notin Jobs
  BY ApplyConstants DEF Jobs
<1> QED  BY <1>1 DEF Kinds, Restarts, Write, ToRestart

LEMMA FirstIs ==
  ASSUME NEW ts, ts # {}
  PROVE  First(ts) \in ts /\ (First(ts)[2] = "onaccess" => \A u \in ts : u[2] # "daemon")
<1>1. CASE \E t \in ts : t[2] = "daemon"
  <2>1. First(ts) = CHOOSE t \in ts : t[2] = "daemon"
    BY <1>1 DEF First
  <2>2. First(ts) \in ts /\ First(ts)[2] = "daemon"
    BY <1>1, <2>1, Zenon
  <2> QED  BY <2>2
<1>2. CASE ~ \E t \in ts : t[2] = "daemon"
  <2>1. First(ts) = CHOOSE t \in ts : TRUE
    BY <1>2 DEF First
  <2>2. First(ts) \in ts
    BY <2>1, Zenon
  <2> QED  BY <1>2, <2>2
<1> QED  BY <1>1, <1>2

USE ApplyConstants DEF Jobs, Roles, Stages, AllPages, Texts, InFlight, reportVars, readVars

\* What handling a report leaves of the calls: either finished was emitted, or the
\* next restart is under way.  stage is what is left of the call reported.
Ended(j, k, stage, failed) ==
  /\ pending[job[j].page] = {} /\ pending' = pending
  /\ \A l \in Kinds : call'[j][l] = IF l = k THEN stage ELSE call[j][l]
  /\ Finish(j, TRUE, ~failed)
WentOn(j, k, stage) ==
  LET p == job[j].page IN
  \E t \in pending[p] :
     /\ t = First(pending[p]) /\ t \in Restarts
     /\ pending' = [pending EXCEPT ![p] = pending[p] \ {t}]
     /\ \A l \in Kinds : call'[j][l] = IF l = t THEN "asked"
                                      ELSE IF l = k THEN stage ELSE call[j][l]
     /\ UNCHANGED <<page, news, finished, saved>>

LEMMA Handled ==
  ASSUME TypeOK, NEW j \in Jobs, NEW k \in Kinds, NEW failed \in BOOLEAN,
         NEW stage \in Stages, RestartNext(j, Left(j, k, stage), failed)
  PROVE  /\ job[j].page \in AllPages
         /\ failures' = [failures EXCEPT ![job[j].page] = failed]
         /\ \A i \in Jobs : i # j => call'[i] = call[i]
         /\ Ended(j, k, stage, failed) \/ WentOn(j, k, stage)
         /\ call' \in [Jobs -> [Kinds -> Stages]]
<1> DEFINE p == job[j].page
<1>1. p \in AllPages
  BY DEF TypeOK, Job
<1>2. CASE pending[p] = {}
  <2>1. /\ failures' = [failures EXCEPT ![p] = failed]
        /\ pending' = pending /\ Finish(j, TRUE, ~failed)
        /\ call' = [call EXCEPT ![j][k] = stage]
    BY <1>2 DEF RestartNext, Left
  <2>2. /\ call' \in [Jobs -> [Kinds -> Stages]]
        /\ \A i \in Jobs : i # j => call'[i] = call[i]
        /\ \A l \in Kinds : call'[j][l] = IF l = k THEN stage ELSE call[j][l]
    BY <2>1 DEF TypeOK
  <2>3. Ended(j, k, stage, failed)
    BY <1>2, <2>1, <2>2 DEF Ended
  <2> QED  BY <1>1, <2>1, <2>2, <2>3
<1>3. CASE pending[p] # {}
  <2>1. First(pending[p]) \in pending[p] /\ pending[p] \subseteq Restarts
    BY <1>1, <1>3, FirstIs DEF TypeOK
  <2>2. PICK t \in pending[p] : t = First(pending[p]) /\ t \in Restarts /\ t \in Kinds
    BY <2>1, KindsAre
  <2>3. call' = [[call EXCEPT ![j][k] = stage] EXCEPT ![j][t] = "asked"]
    BY <1>3, <2>2 DEF RestartNext, Left
  <2>4. /\ call' \in [Jobs -> [Kinds -> Stages]]
        /\ \A i \in Jobs : i # j => call'[i] = call[i]
        /\ \A l \in Kinds : call'[j][l] = IF l = t THEN "asked"
                                         ELSE IF l = k THEN stage ELSE call[j][l]
    BY <2>2, <2>3 DEF TypeOK
  <2>5. /\ failures' = [failures EXCEPT ![p] = failed]
        /\ pending' = [pending EXCEPT ![p] = pending[p] \ {t}]
        /\ UNCHANGED <<page, news, finished, saved>>
    BY <1>3, <2>2 DEF RestartNext
  <2>6. WentOn(j, k, stage)
    BY <2>2, <2>4, <2>5 DEF WentOn
  <2> QED  BY <1>1, <2>4, <2>5, <2>6
<1> QED  BY <1>2, <1>3

LEMMA PageTypes ==
  ASSUME TypeOK, LoadFile PROVE page' \in ConfFile /\ news' \in SUBSET Jobs
<1>1. disk \in SUBSET Options /\ {} \in SUBSET Options
  BY DEF TypeOK
<1>2. Loaded(disk) \in ConfFile /\ Unreadable \in ConfFile
  BY <1>1 DEF Loaded, Unreadable, ConfFile
<1>3. (page' = Loaded(disk) \/ page' = Unreadable) /\ news' = {}
  BY DEF LoadFile
<1> QED  BY <1>2, <1>3

LEMMA FinishTypes ==
  ASSUME TypeOK, NEW j \in Jobs, NEW ok \in BOOLEAN, NEW clean \in BOOLEAN, Finish(j, ok, clean)
  PROVE  /\ page' \in ConfFile /\ news' \in SUBSET Jobs
         /\ saved' \in SUBSET Jobs /\ finished' \in [Jobs -> Nat]
         /\ finished'[j] = finished[j] + 1
         /\ \A i \in Jobs : i # j => finished'[i] = finished[i]
         /\ saved' = IF ok /\ clean THEN saved \cup {j} ELSE saved
<1>1. page' \in ConfFile /\ news' \in SUBSET Jobs
  BY PageTypes DEF Finish, TypeOK
<1>2. finished' = [finished EXCEPT ![j] = finished[j] + 1]
  BY DEF Finish
<1>3. finished' \in [Jobs -> Nat] /\ finished'[j] = finished[j] + 1
      /\ \A i \in Jobs : i # j => finished'[i] = finished[i]
  BY <1>2 DEF TypeOK
<1>4. saved' = IF ok /\ clean THEN saved \cup {j} ELSE saved
  BY DEF Finish
<1> QED  BY <1>1, <1>3, <1>4 DEF TypeOK

\* A user's step keeps every type.
LEMMA UserTypes == ASSUME TypeOK, User PROVE TypeOK'
<1>1. ASSUME NEW o \in Options, Edit(o) PROVE TypeOK'
  <2>1. page.text \in Texts
    BY DEF TypeOK, ConfFile
  <2>2. PICK text \in Texts : page' = [page EXCEPT !.text = text]
    <3>1. (IF o \in page.text THEN page.text \ {o} ELSE page.text \cup {o}) \in Texts
      BY <2>1
    <3> QED  BY <1>1, <3>1 DEF Edit
  <2>3. page' \in ConfFile
    BY <2>2 DEF TypeOK, ConfFile
  <2> QED  BY <1>1, <2>3 DEF Edit, TypeOK
<1>2. CASE Reload
  <2>1. page' \in ConfFile /\ news' \in SUBSET Jobs
    BY <1>2, PageTypes DEF Reload
  <2>2. UNCHANGED <<disk, dialog, jobs, job, call, pending, failures, finished, twice, saved,
                    since, unseen, beside>>
    BY <1>2 DEF Reload
  <2> QED  BY <2>1, <2>2 DEF TypeOK
<1>3. ASSUME NEW p \in AllPages, NEW read \in BOOLEAN, NEW base \in Texts, NEW text \in Texts,
             NEW later \in SUBSET Jobs, Ask(p, read, base, text, later)
      PROVE  TypeOK'
  <2>1. jobs + 1 \in Jobs /\ jobs \in Nat /\ jobs' = jobs + 1 /\ dialog' = jobs + 1
    BY <1>3 DEF Ask, TypeOK
  <2>2. [page |-> p, read |-> read, base |-> base, text |-> text] \in Job
    BY DEF Job
  <2>3. job' \in [Jobs -> Job]
    BY <1>3, <2>1, <2>2 DEF Ask, TypeOK
  <2>4. unseen' \in [Jobs -> SUBSET Jobs] /\ beside' \in [Jobs -> SUBSET Jobs]
    BY <1>3, <2>1 DEF Ask, TypeOK
  <2>5. UNCHANGED <<disk, page, call, pending, failures, finished, twice, saved, since, news>>
    BY <1>3 DEF Ask
  <2> QED  BY <2>1, <2>3, <2>4, <2>5 DEF TypeOK
<1>4. CASE Agree
  <2>1. dialog \in Jobs /\ job[dialog].page \in AllPages
    BY <1>4 DEF Agree, TypeOK, Job
  <2>2. ToRestart(dialog) \in SUBSET Restarts /\ Write \in Kinds
    BY <2>1, KindsAre
  <2> QED  BY <1>4, <2>1, <2>2 DEF Agree, TypeOK
<1>5. CASE Decline
  <2>1. dialog \in Jobs
    BY <1>5 DEF Decline, TypeOK
  <2> QED  BY <1>5, <2>1 DEF Decline, TypeOK
<1>6. CASE Save
  <2>1. page.readable \in BOOLEAN /\ page.base \in Texts /\ page.text \in Texts
    BY DEF TypeOK, ConfFile
  <2>2. news \in SUBSET Jobs
    BY DEF TypeOK
  <2> QED  BY <1>3, <1>6, <2>1, <2>2 DEF Save
<1>7. ASSUME NEW o \in Options, ApplyRemedy(o) PROVE TypeOK'
  <2>1. disk \in SUBSET Options /\ {} \in SUBSET Jobs /\ "protection" \in AllPages
    BY DEF TypeOK
  <2>2. PICK text \in SUBSET Options : Ask("protection", TRUE, disk, text, {})
    BY <1>7, <2>1 DEF ApplyRemedy
  <2> QED  BY <1>3, <2>1, <2>2
<1> QED  BY <1>1, <1>2, <1>4, <1>5, <1>6, <1>7 DEF User

LEMMA RootTypes == ASSUME TypeOK, NEW j \in Jobs, Root(j) PROVE TypeOK'
<1>1. CASE HelperWrites(j)
  <2>1. /\ disk' \in Texts /\ news' \in SUBSET Jobs
        /\ unseen' \in [Jobs -> SUBSET Jobs] /\ since' \in [Jobs -> SUBSET Roles]
    BY <1>1 DEF HelperWrites, TypeOK, Job
  <2>2. call' \in [Jobs -> [Kinds -> Stages]]
    BY <1>1, KindsAre DEF HelperWrites, TypeOK
  <2> QED  BY <1>1, <2>1, <2>2 DEF HelperWrites, TypeOK
<1>2. ASSUME NEW t \in Restarts, ServiceRestarts(j, t) PROVE TypeOK'
  <2>1. t \in Kinds /\ t[2] \in Roles
    BY KindsAre
  <2>2. since' \in [Jobs -> SUBSET Roles]
    BY <1>2, <2>1 DEF ServiceRestarts, TypeOK
  <2>3. call' \in [Jobs -> [Kinds -> Stages]]
    BY <1>2, <2>1 DEF ServiceRestarts, TypeOK
  <2> QED  BY <1>2, <2>2, <2>3 DEF ServiceRestarts, TypeOK
<1>3. ASSUME NEW k \in Kinds, CallRefused(j, k) PROVE TypeOK'
  BY <1>3 DEF CallRefused, TypeOK
<1> QED  BY <1>1, <1>2, <1>3 DEF Root

LEMMA NextTypes ==
  ASSUME TypeOK, NEW j \in Jobs, NEW k \in Kinds, NEW stage \in Stages, NEW failed \in BOOLEAN,
         RestartNext(j, Left(j, k, stage), failed), Reporting, twice' \in [Jobs -> Nat]
  PROVE  TypeOK'
<1>1. /\ job[j].page \in AllPages
      /\ failures' = [failures EXCEPT ![job[j].page] = failed]
      /\ call' \in [Jobs -> [Kinds -> Stages]]
  BY Handled
<1>2. CASE Ended(j, k, stage, failed)
  <2>1. pending' = pending /\ Finish(j, TRUE, ~failed)
    BY <1>2 DEF Ended
  <2>2. /\ page' \in ConfFile /\ news' \in SUBSET Jobs
        /\ saved' \in SUBSET Jobs /\ finished' \in [Jobs -> Nat]
    BY <2>1, FinishTypes
  <2> QED  BY <1>1, <2>1, <2>2 DEF Reporting, TypeOK
<1>3. CASE WentOn(j, k, stage)
  <2>1. PICK t \in pending[job[j].page] :
              /\ pending' = [pending EXCEPT ![job[j].page] = pending[job[j].page] \ {t}]
              /\ UNCHANGED <<page, news, finished, saved>>
    BY <1>3 DEF WentOn
  <2> QED  BY <1>1, <2>1 DEF Reporting, TypeOK
<1> QED  BY <1>2, <1>3, Handled

LEMMA EndTypes ==
  ASSUME TypeOK, NEW j \in Jobs, NEW stage \in Stages, Finish(j, FALSE, FALSE),
         call' = Left(j, Write, stage), UNCHANGED <<pending, failures>>, Reporting,
         twice' \in [Jobs -> Nat]
  PROVE  TypeOK'
<1>1. /\ page' \in ConfFile /\ news' \in SUBSET Jobs
      /\ saved' \in SUBSET Jobs /\ finished' \in [Jobs -> Nat]
  BY FinishTypes
<1>2. call' \in [Jobs -> [Kinds -> Stages]]
  BY KindsAre DEF Left, TypeOK
<1> QED  BY <1>1, <1>2 DEF Reporting, TypeOK

LEMMA InitTypes == Init => TypeOK
BY DEF Init, TypeOK, ConfFile, Job, NoCalls

LEMMA StepTypes == ASSUME TypeOK, [Next]_vars PROVE TypeOK'
<1>1. ASSUME NEW j \in Jobs, NEW k \in Kinds, Succeeded(j, k) PROVE TypeOK'
  <2>1. failures[job[j].page] \in BOOLEAN /\ twice \in [Jobs -> Nat]
    BY DEF TypeOK, Job
  <2> QED  BY <1>1, <2>1, NextTypes DEF Succeeded
<1>2. ASSUME NEW j \in Jobs, NEW k \in Kinds, NEW stage \in Stages, GiveUp(j, k, stage),
             twice' \in [Jobs -> Nat]
      PROVE  TypeOK'
  BY <1>2, NextTypes, EndTypes DEF GiveUp
<1>3. ASSUME NEW j \in Jobs, NEW k \in Kinds, Failed(j, k) \/ Errored(j, k) PROVE TypeOK'
  <2>1. CASE Failed(j, k)
    <3>1. twice' \in [Jobs -> Nat] /\ GiveUp(j, k, "none")
      BY <2>1 DEF Failed, TypeOK
    <3> QED  BY <1>2, <3>1
  <2>2. CASE Errored(j, k)
    <3>1. GiveUp(j, k, "errored") /\ twice' = [twice EXCEPT ![j] = twice[j] + 1]
      BY <2>2 DEF Errored
    <3>2. twice' \in [Jobs -> Nat]
      BY <3>1 DEF TypeOK
    <3> QED  BY <1>2, <3>1, <3>2
  <2> QED  BY <1>3, <2>1, <2>2
<1>4. CASE UNCHANGED vars
  BY <1>4 DEF vars, TypeOK
<1> QED  BY <1>1, <1>3, <1>4, UserTypes, RootTypes DEF Next, Report

\* Every variable has its type.
THEOREM ApplyTypes == Spec => []TypeOK
<1>1. TypeOK /\ [Next]_vars => TypeOK'
  BY StepTypes
<1> QED  BY InitTypes, <1>1, PTL DEF Spec

-----------------------------------------------------------------------------
(* Every apply is reported once.                                           *)

\* The calls under way, of what call holds for one apply.
CallsIn(f) == {k \in Kinds : f[k] # "none"}

\* A call that is reported either ends its apply or is replaced by the next one; only
\* a call that reports twice does so and stays.  An apply that has not been agreed
\* to yet has no call and no report.
OneReport(j) ==
  /\ Cardinality(CallsIn(call[j])) + finished[j] <= 1 + twice[j]
  /\ j > jobs \/ j = dialog => CallsIn(call[j]) = {} /\ finished[j] = 0
FInv == TypeOK /\ \A j \in Jobs : OneReport(j)

LEMMA CallsFinite ==
  ASSUME NEW f PROVE IsFiniteSet(CallsIn(f)) /\ Cardinality(CallsIn(f)) \in Nat
<1>1. IsFiniteSet(Jobs)
  BY FS_Interval DEF Jobs
<1>2. IsFiniteSet(Units)
  <2>1. IsFiniteSet({"daemon"})
    BY FS_Singleton
  <2>2. IsFiniteSet({"daemon"} \cup {"onaccess"})
    BY <2>1, FS_AddElement
  <2>3. Units \subseteq {"daemon"} \cup {"onaccess"}
    OBVIOUS
  <2> QED  BY <2>2, <2>3, FS_Subset
<1>3. IsFiniteSet(Restarts)
  BY <1>1, <1>2, FS_Product DEF Restarts
<1>4. IsFiniteSet(Kinds)
  BY <1>3, FS_AddElement DEF Kinds
<1> QED  BY <1>4, FS_Subset, FS_CardinalityType DEF CallsIn

\* One call less.
LEMMA CallsLess ==
  ASSUME NEW f, NEW g, NEW k \in CallsIn(f), CallsIn(g) \subseteq CallsIn(f) \ {k}
  PROVE  Cardinality(CallsIn(g)) + 1 <= Cardinality(CallsIn(f))
<1>1. IsFiniteSet(CallsIn(f)) /\ Cardinality(CallsIn(f)) \in Nat /\ Cardinality(CallsIn(g)) \in Nat
  BY CallsFinite
<1>2. /\ IsFiniteSet(CallsIn(f) \ {k})
      /\ Cardinality(CallsIn(f) \ {k}) = Cardinality(CallsIn(f)) - 1
  BY <1>1, FS_RemoveElement
<1>3. Cardinality(CallsIn(g)) <= Cardinality(CallsIn(f) \ {k})
  BY <1>2, FS_Subset
<1> QED  BY <1>1, <1>2, <1>3

\* One replaced by another; one more.
LEMMA CallsCount ==
  ASSUME NEW f, NEW g, NEW k, NEW t
  PROVE  /\ k \in CallsIn(f) /\ CallsIn(g) \subseteq (CallsIn(f) \ {k}) \cup {t} =>
              Cardinality(CallsIn(g)) <= Cardinality(CallsIn(f))
         /\ CallsIn(g) \subseteq CallsIn(f) \cup {t} =>
              Cardinality(CallsIn(g)) <= Cardinality(CallsIn(f)) + 1
<1> DEFINE A == CallsIn(f)  B == CallsIn(g)
<1>1. IsFiniteSet(A) /\ Cardinality(A) \in Nat /\ Cardinality(B) \in Nat
  BY CallsFinite
<1> HIDE DEF A, B
<1>2. /\ IsFiniteSet(A \ {k}) /\ Cardinality(A \ {k}) \in Nat
      /\ k \in A => Cardinality(A \ {k}) = Cardinality(A) - 1
  BY <1>1, FS_RemoveElement, FS_CardinalityType
<1>3. /\ IsFiniteSet((A \ {k}) \cup {t}) /\ Cardinality((A \ {k}) \cup {t}) \in Nat
      /\ Cardinality((A \ {k}) \cup {t}) <= Cardinality(A \ {k}) + 1
  <2> DEFINE C == A \ {k}
  <2>1. IsFiniteSet(C) /\ Cardinality(C) \in Nat
    BY <1>2
  <2> HIDE DEF C
  <2>2. /\ IsFiniteSet(C \cup {t})
        /\ Cardinality(C \cup {t}) = IF t \in C THEN Cardinality(C) ELSE Cardinality(C) + 1
    BY <2>1, FS_AddElement
  <2>3. IsFiniteSet(C \cup {t}) /\ Cardinality(C \cup {t}) \in Nat
        /\ Cardinality(C \cup {t}) <= Cardinality(C) + 1
    BY <2>1, <2>2
  <2> QED  BY <2>3 DEF C
<1>4. /\ IsFiniteSet(A \cup {t}) /\ Cardinality(A \cup {t}) \in Nat
      /\ Cardinality(A \cup {t}) <= Cardinality(A) + 1
  <2>1. /\ IsFiniteSet(A \cup {t})
        /\ Cardinality(A \cup {t}) = IF t \in A THEN Cardinality(A) ELSE Cardinality(A) + 1
    BY <1>1, FS_AddElement
  <2> QED  BY <1>1, <2>1
<1>5. /\ B \subseteq (A \ {k}) \cup {t} => Cardinality(B) <= Cardinality((A \ {k}) \cup {t})
      /\ B \subseteq A \cup {t} => Cardinality(B) <= Cardinality(A \cup {t})
  BY <1>2, <1>3, <1>4, FS_Subset
<1>6. /\ k \in A /\ B \subseteq (A \ {k}) \cup {t} => Cardinality(B) <= Cardinality(A)
      /\ B \subseteq A \cup {t} => Cardinality(B) <= Cardinality(A) + 1
  BY <1>1, <1>2, <1>3, <1>4, <1>5
<1> QED  BY <1>6 DEF A, B

\* What one apply does with its calls leaves the others as they are.
LEMMA OneReportKept ==
  ASSUME FInv, NEW j \in Jobs, CallsIn(call[j]) # {}, UNCHANGED <<dialog, jobs>>,
         \A i \in Jobs : i # j => /\ call'[i] = call[i]
                                  /\ finished'[i] = finished[i] /\ twice'[i] = twice[i],
         finished'[j] \in Nat, twice'[j] \in Nat,
         Cardinality(CallsIn(call'[j])) + finished'[j] + twice[j] <=
           Cardinality(CallsIn(call[j])) + finished[j] + twice'[j]
  PROVE  \A i \in Jobs : OneReport(i)'
<1>1. OneReport(j) /\ ~(j > jobs) /\ j # dialog /\ finished[j] \in Nat /\ twice[j] \in Nat
  BY DEF FInv, OneReport, TypeOK
<1>2. Cardinality(CallsIn(call[j])) \in Nat /\ Cardinality(CallsIn(call'[j])) \in Nat
  BY CallsFinite
<1>3. Cardinality(CallsIn(call'[j])) + finished'[j] <= 1 + twice'[j]
  BY <1>1, <1>2 DEF OneReport
<1>4. OneReport(j)'
  BY <1>1, <1>3 DEF OneReport
<1>5. ASSUME NEW i \in Jobs, i # j PROVE OneReport(i)'
  BY <1>5 DEF FInv, OneReport
<1> QED  BY <1>4, <1>5

\* A user's step begins no call but the write it agrees to.
LEMMA UserReports == ASSUME FInv, User PROVE \A i \in Jobs : OneReport(i)'
<1>1. ASSUME UNCHANGED <<dialog, jobs, call, finished, twice>> PROVE \A i \in Jobs : OneReport(i)'
  BY <1>1 DEF FInv, OneReport
<1>2. ASSUME NEW p, NEW read, NEW base, NEW text, NEW later, Ask(p, read, base, text, later)
      PROVE  \A i \in Jobs : OneReport(i)'
  <2>1. /\ jobs \in Nat /\ jobs' = jobs + 1 /\ dialog' = jobs + 1 /\ dialog = 0
        /\ UNCHANGED <<call, finished, twice>>
    BY <1>2 DEF Ask, FInv, TypeOK
  <2>2. ASSUME NEW i \in Jobs PROVE OneReport(i)'
    <3>1. i > jobs' \/ i = dialog' => i > jobs
      BY <2>1
    <3> QED  BY <2>1, <3>1 DEF FInv, OneReport
  <2> QED  BY <2>2
<1>3. CASE Agree
  <2>1. PICK d \in Jobs : d = dialog /\ d <= jobs /\ dialog' = 0
    BY <1>3 DEF Agree, FInv, TypeOK
  <2>2. /\ \A i \in Jobs : i # d => call'[i] = call[i]
        /\ \A l \in Kinds : call'[d][l] = IF l = Write THEN "asked" ELSE call[d][l]
    BY <1>3, <2>1, KindsAre DEF Agree, FInv, TypeOK
  <2>3. UNCHANGED <<jobs, finished, twice>> /\ jobs \in Nat
    BY <1>3 DEF Agree, FInv, TypeOK
  <2>4. OneReport(d)'
    <3>1. CallsIn(call[d]) = {} /\ finished[d] = 0 /\ twice[d] \in Nat
      BY <2>1 DEF FInv, OneReport, TypeOK
    <3>2. CallsIn(call'[d]) = {Write}
      BY <2>2, <3>1, KindsAre DEF CallsIn
    <3>3. Cardinality({Write}) = 1
      BY FS_Singleton
    <3>4. Cardinality(CallsIn(call'[d])) + finished'[d] <= 1 + twice'[d]
      BY <2>3, <3>1, <3>2, <3>3
    <3>5. ~(d > jobs') /\ d # dialog'
      BY <2>1, <2>3
    <3> QED  BY <3>4, <3>5 DEF OneReport
  <2>5. ASSUME NEW i \in Jobs, i # d PROVE OneReport(i)'
    <3>1. i > jobs' \/ i = dialog' => i > jobs
      BY <2>1, <2>3
    <3>2. OneReport(i) /\ call'[i] = call[i]
      BY <2>2, <2>5 DEF FInv
    <3> QED  BY <2>3, <3>1, <3>2 DEF OneReport
  <2> QED  BY <2>4, <2>5
<1>4. CASE Decline
  <2>1. PICK d \in Jobs : d = dialog /\ d <= jobs /\ dialog' = 0
    BY <1>4 DEF Decline, FInv, TypeOK
  <2>2. UNCHANGED <<jobs, call, twice>> /\ jobs \in Nat
    BY <1>4 DEF Decline, FInv, TypeOK
  <2>3. CallsIn(call[d]) = {} /\ finished[d] = 0 /\ twice[d] \in Nat
    BY <2>1 DEF FInv, OneReport, TypeOK
  <2>4. finished'[d] = 1 /\ \A i \in Jobs : i # d => finished'[i] = finished[i]
    BY <1>4, <2>1, <2>3 DEF Decline, FInv, TypeOK
  <2>5. OneReport(d)'
    <3>1. Cardinality(CallsIn(call'[d])) = 0
      BY <2>2, <2>3, FS_EmptySet
    <3>2. ~(d > jobs') /\ d # dialog'
      BY <2>1, <2>2
    <3>3. Cardinality(CallsIn(call'[d])) + finished'[d] <= 1 + twice'[d]
      BY <2>2, <2>3, <2>4, <3>1
    <3> QED  BY <3>2, <3>3 DEF OneReport
  <2>6. ASSUME NEW i \in Jobs, i # d PROVE OneReport(i)'
    <3>1. i > jobs' \/ i = dialog' => i > jobs
      BY <2>1, <2>2
    <3>2. OneReport(i) /\ finished'[i] = finished[i]
      BY <2>4, <2>6 DEF FInv
    <3> QED  BY <2>2, <3>1, <3>2 DEF OneReport
  <2> QED  BY <2>5, <2>6
<1>5. CASE \E o \in Options : Edit(o)
  BY <1>1, <1>5 DEF Edit
<1>6. CASE Reload
  BY <1>1, <1>6 DEF Reload
<1>7. CASE Save
  BY <1>2, <1>7 DEF Save
<1>8. CASE \E o \in Options : ApplyRemedy(o)
  BY <1>2, <1>8 DEF ApplyRemedy
<1> QED  BY <1>3, <1>4, <1>5, <1>6, <1>7, <1>8 DEF User

\* A call that ends is still under way.
LEMMA RootReports == ASSUME FInv, NEW j \in Jobs, Root(j) PROVE \A i \in Jobs : OneReport(i)'
<1>1. ASSUME NEW k \in Kinds, NEW stage \in {"done", "refused"}, call[j][k] = "asked",
             call' = [call EXCEPT ![j][k] = stage], UNCHANGED <<dialog, jobs, finished, twice>>
      PROVE  \A i \in Jobs : OneReport(i)'
  <2>1. /\ \A i \in Jobs : i # j => call'[i] = call[i]
        /\ \A l \in Kinds : call'[j][l] = IF l = k THEN stage ELSE call[j][l]
    BY <1>1 DEF FInv, TypeOK
  <2>2. CallsIn(call'[j]) = CallsIn(call[j])
    BY <1>1, <2>1 DEF CallsIn
  <2>3. ASSUME NEW i \in Jobs PROVE CallsIn(call'[i]) = CallsIn(call[i])
    BY <2>1, <2>2
  <2> QED  BY <1>1, <2>3 DEF FInv, OneReport
<1>2. CASE HelperWrites(j)
  BY <1>2, <1>1, KindsAre DEF HelperWrites
<1>3. ASSUME NEW t \in Restarts, ServiceRestarts(j, t) PROVE \A i \in Jobs : OneReport(i)'
  BY <1>3, <1>1, KindsAre DEF ServiceRestarts
<1>4. ASSUME NEW k \in Kinds, CallRefused(j, k) PROVE \A i \in Jobs : OneReport(i)'
  BY <1>4, <1>1 DEF CallRefused
<1> QED  BY <1>2, <1>3, <1>4 DEF Root

\* A call that is reported is followed by the next one or by the end.
LEMMA NextReports ==
  ASSUME FInv, NEW j \in Jobs, NEW k \in Kinds, call[j][k] # "none", NEW failed \in BOOLEAN,
         NEW stage \in {"none", "errored"}, NEW more \in {0, 1}, stage = "none" \/ more = 1,
         RestartNext(j, Left(j, k, stage), failed), UNCHANGED <<dialog, jobs>>,
         twice' = [twice EXCEPT ![j] = twice[j] + more]
  PROVE  \A i \in Jobs : OneReport(i)'
<1> DEFINE f == call[j]  g == call'[j]
<1>0. TypeOK /\ stage \in Stages
  BY DEF FInv
<1>1. /\ \A i \in Jobs : i # j => call'[i] = call[i]
      /\ Ended(j, k, stage, failed) \/ WentOn(j, k, stage)
  <2>1. RestartNext(j, Left(j, k, stage), failed)
    OBVIOUS
  <2> QED  BY ONLY <1>0, <2>1, Handled, j \in Jobs, k \in Kinds, failed \in BOOLEAN
<1>2. k \in CallsIn(f)
  BY DEF CallsIn
<1>3. Cardinality(CallsIn(f)) \in Nat /\ Cardinality(CallsIn(g)) \in Nat
  BY CallsFinite
<1>4. /\ twice[j] \in Nat /\ twice'[j] = twice[j] + more
      /\ \A i \in Jobs : i # j => twice'[i] = twice[i]
  BY <1>0 DEF TypeOK
<1>5. finished[j] \in Nat
  BY <1>0 DEF TypeOK
<1>6. CASE Ended(j, k, stage, failed)
  <2>1. /\ Finish(j, TRUE, ~failed)
        /\ \A l \in Kinds : g[l] = IF l = k THEN stage ELSE f[l]
    BY <1>6 DEF Ended
  <2>2. /\ finished'[j] = finished[j] + 1
        /\ \A i \in Jobs : i # j => finished'[i] = finished[i]
    BY <1>0, <2>1, FinishTypes
  <2>3. stage = "none" => CallsIn(g) \subseteq CallsIn(f) \ {k}
    BY <2>1 DEF CallsIn
  <2>4. CallsIn(g) \subseteq (CallsIn(f) \ {k}) \cup {k}
    BY <1>2, <2>1 DEF CallsIn
  <2>5. Cardinality(CallsIn(g)) + 1 <= Cardinality(CallsIn(f)) + more
    <3>1. CASE stage = "none"
      <4>1. Cardinality(CallsIn(g)) + 1 <= Cardinality(CallsIn(f))
        BY <1>2, <2>3, <3>1, CallsLess
      <4> QED  BY <1>3, <4>1
    <3>2. CASE more = 1
      <4>1. Cardinality(CallsIn(g)) <= Cardinality(CallsIn(f))
        BY <1>2, <2>4, CallsCount
      <4> QED  BY <1>3, <3>2, <4>1
    <3> QED  BY <3>1, <3>2
  <2>6. /\ Cardinality(CallsIn(g)) + finished'[j] + twice[j] <=
             Cardinality(CallsIn(f)) + finished[j] + twice'[j]
        /\ finished'[j] \in Nat /\ twice'[j] \in Nat
    BY <1>3, <1>4, <1>5, <2>2, <2>5
  <2> QED  BY <1>1, <1>2, <1>4, <2>2, <2>6, OneReportKept
<1>7. CASE WentOn(j, k, stage)
  <2>1. PICK t \in pending[job[j].page] :
              /\ \A l \in Kinds : g[l] = IF l = t THEN "asked" ELSE IF l = k THEN stage ELSE f[l]
              /\ UNCHANGED finished
    BY <1>7 DEF WentOn
  <2>2. stage = "none" => CallsIn(g) \subseteq (CallsIn(f) \ {k}) \cup {t}
    BY <2>1 DEF CallsIn
  <2>3. CallsIn(g) \subseteq CallsIn(f) \cup {t}
    BY <1>2, <2>1 DEF CallsIn
  <2>4. Cardinality(CallsIn(g)) <= Cardinality(CallsIn(f)) + more
    <3>1. CASE stage = "none"
      <4>1. Cardinality(CallsIn(g)) <= Cardinality(CallsIn(f))
        BY <1>2, <2>2, <3>1, CallsCount
      <4> QED  BY <1>3, <4>1
    <3>2. CASE more = 1
      BY <2>3, <3>2, CallsCount
    <3> QED  BY <3>1, <3>2
  <2>5. /\ Cardinality(CallsIn(g)) + finished'[j] + twice[j] <=
             Cardinality(CallsIn(f)) + finished[j] + twice'[j]
        /\ finished'[j] \in Nat /\ twice'[j] \in Nat
    BY <1>3, <1>4, <1>5, <2>1, <2>4
  <2> QED  BY <1>1, <1>2, <1>4, <2>1, <2>5, OneReportKept
<1> QED  BY <1>1, <1>6, <1>7

\* A write that fails is the end of its apply.
LEMMA EndReports ==
  ASSUME FInv, NEW j \in Jobs, call[j][Write] # "none", Finish(j, FALSE, FALSE),
         NEW stage \in {"none", "errored"}, NEW more \in {0, 1}, stage = "none" \/ more = 1,
         call' = Left(j, Write, stage), UNCHANGED <<dialog, jobs>>,
         twice' = [twice EXCEPT ![j] = twice[j] + more]
  PROVE  \A i \in Jobs : OneReport(i)'
<1> DEFINE f == call[j]  g == call'[j]
<1>1. /\ \A i \in Jobs : i # j => call'[i] = call[i]
      /\ \A l \in Kinds : g[l] = IF l = Write THEN stage ELSE f[l]
  BY DEF FInv, TypeOK, Left
<1>2. /\ finished'[j] = finished[j] + 1 /\ finished[j] \in Nat
      /\ \A i \in Jobs : i # j => finished'[i] = finished[i]
  BY FinishTypes DEF FInv, TypeOK
<1>3. /\ twice[j] \in Nat /\ twice'[j] = twice[j] + more
      /\ \A i \in Jobs : i # j => twice'[i] = twice[i]
  BY DEF FInv, TypeOK
<1>4. Write \in CallsIn(f)
  BY KindsAre DEF CallsIn
<1>5. Cardinality(CallsIn(f)) \in Nat /\ Cardinality(CallsIn(g)) \in Nat
  BY CallsFinite
<1>6. Cardinality(CallsIn(g)) + 1 <= Cardinality(CallsIn(f)) + more
  <2>1. CASE stage = "none"
    <3>1. CallsIn(g) \subseteq CallsIn(f) \ {Write}
      BY <1>1, <2>1 DEF CallsIn
    <3> QED  BY <1>4, <1>5, <2>1, <3>1, CallsLess
  <2>2. CASE more = 1
    <3>1. CallsIn(g) \subseteq (CallsIn(f) \ {Write}) \cup {Write}
      BY <1>1, <1>4 DEF CallsIn
    <3>2. Cardinality(CallsIn(g)) <= Cardinality(CallsIn(f))
      BY <1>4, <3>1, CallsCount
    <3> QED  BY <1>5, <2>2, <3>2
  <2> QED  BY <2>1, <2>2
<1>7. /\ Cardinality(CallsIn(g)) + finished'[j] + twice[j] <=
           Cardinality(CallsIn(f)) + finished[j] + twice'[j]
      /\ finished'[j] \in Nat /\ twice'[j] \in Nat
  BY <1>2, <1>3, <1>5, <1>6
<1> QED  BY <1>1, <1>2, <1>3, <1>4, <1>7, OneReportKept

LEMMA InitFInv == Init => FInv
<1> SUFFICES ASSUME Init PROVE FInv
  OBVIOUS
<1>1. ASSUME NEW j \in Jobs PROVE OneReport(j)
  <2>1. CallsIn(call[j]) = {} /\ finished[j] = 0 /\ twice[j] = 0
    BY DEF Init, NoCalls, CallsIn
  <2>2. Cardinality({}) = 0
    BY FS_EmptySet
  <2> QED  BY <2>1, <2>2 DEF OneReport
<1> QED  BY <1>1, InitTypes DEF FInv

LEMMA StepFInv == ASSUME FInv, [Next]_vars PROVE FInv'
<1>1. ASSUME NEW j \in Jobs, NEW k \in Kinds, Succeeded(j, k) PROVE \A i \in Jobs : OneReport(i)'
  <2>1. failures[job[j].page] \in BOOLEAN /\ twice' = [twice EXCEPT ![j] = twice[j] + 0]
    BY <1>1 DEF Succeeded, FInv, TypeOK, Job
  <2> QED  BY <1>1, <2>1, NextReports DEF Succeeded, Reporting
<1>2. ASSUME NEW j \in Jobs, NEW k \in Kinds, NEW stage \in {"none", "errored"}, NEW more \in {0, 1},
             stage = "none" \/ more = 1, call[j][k] # "none", GiveUp(j, k, stage),
             twice' = [twice EXCEPT ![j] = twice[j] + more]
      PROVE  \A i \in Jobs : OneReport(i)'
  BY <1>2, NextReports, EndReports DEF GiveUp, Reporting
<1>3. ASSUME NEW j \in Jobs, NEW k \in Kinds, Failed(j, k) PROVE \A i \in Jobs : OneReport(i)'
  <2>1. twice' = [twice EXCEPT ![j] = twice[j] + 0]
    BY <1>3 DEF Failed, FInv, TypeOK
  <2> QED  BY <1>2, <1>3, <2>1 DEF Failed
<1>4. ASSUME NEW j \in Jobs, NEW k \in Kinds, Errored(j, k) PROVE \A i \in Jobs : OneReport(i)'
  BY <1>2, <1>4 DEF Errored
<1>5. ASSUME UNCHANGED vars PROVE \A i \in Jobs : OneReport(i)'
  BY <1>5 DEF vars, FInv, OneReport
<1> QED  BY <1>1, <1>3, <1>4, <1>5, UserReports, RootReports, StepTypes DEF FInv, Next, Report

\* However many applies overlap, whatever their pages: each is reported once, and
\* once more at most for each of its processes that reports twice.
THEOREM FinishedOnceHolds == Spec => []FinishedOnce
<1>1. FInv => FinishedOnce
  <2> SUFFICES ASSUME FInv, NEW j \in Jobs PROVE finished[j] <= 1 + twice[j]
    BY DEF FinishedOnce
  <2>1. OneReport(j) /\ finished[j] \in Nat /\ twice[j] \in Nat
    BY DEF FInv, TypeOK
  <2>2. Cardinality(CallsIn(call[j])) \in Nat
    BY CallsFinite
  <2> QED  BY <2>1, <2>2 DEF OneReport
<1>2. FInv /\ [Next]_vars => FInv'
  BY StepFInv
<1> QED  BY InitFInv, <1>1, <1>2, PTL DEF Spec

-----------------------------------------------------------------------------
(* One apply at a time.                                                    *)

\* An apply that is not under way keeps what it has reached.
LEMMA IdleChain ==
  ASSUME NEW i \in Jobs, Chain(i), ~InFlight(i), call'[i] = call[i],
         i \in saved' => i \in saved, since[i] \subseteq since'[i],
         i > jobs' \/ i = dialog' => i > jobs \/ i = dialog
  PROVE  Chain(i)'
BY KindsAre DEF Chain

LEMMA UserSInv == ASSUME Serial, SInv, User PROVE OneFlight' /\ \A j \in Jobs : Chain(j)'
<1>1. ASSUME UNCHANGED <<dialog, jobs, job, call, pending, failures, saved, since>>
      PROVE  OneFlight' /\ \A j \in Jobs : Chain(j)'
  BY <1>1 DEF SInv, OneFlight, Chain
<1>2. ASSUME NEW p \in AllPages, NEW read, NEW base, NEW text, NEW later,
             Ask(p, read, base, text, later)
      PROVE  OneFlight' /\ \A j \in Jobs : Chain(j)'
  <2>1. \A j \in Jobs : ~InFlight(j)
    BY <1>2 DEF Ask, AtRest, Serial
  <2>2. UNCHANGED <<call, saved, since>> /\ jobs' = jobs + 1 /\ dialog' = jobs + 1 /\ jobs \in Nat
    BY <1>2 DEF Ask, SInv, TypeOK
  <2>3. ASSUME NEW i \in Jobs PROVE Chain(i)'
    BY <2>1, <2>2, IdleChain DEF SInv
  <2> QED  BY <2>1, <2>2, <2>3 DEF OneFlight
<1>3. CASE Agree
  <2>1. PICK d \in Jobs : d = dialog /\ d <= jobs /\ dialog' = 0 /\ \A j \in Jobs : ~InFlight(j)
    BY <1>3 DEF Agree, SInv, OneFlight, TypeOK
  <2>2. /\ \A i \in Jobs : i # d => call'[i] = call[i]
        /\ \A l \in Kinds : call'[d][l] = IF l = Write THEN "asked" ELSE call[d][l]
    BY <1>3, <2>1, KindsAre DEF Agree, SInv, TypeOK
  <2>3. job[d].page \in AllPages
    BY <2>1 DEF SInv, TypeOK, Job
  <2>4. pending'[job[d].page] = ToRestart(d) /\ failures'[job[d].page] = FALSE
    BY <1>3, <2>1, <2>3 DEF Agree, SInv, TypeOK
  <2>5. UNCHANGED <<jobs, job, saved, since>> /\ jobs \in Nat
    BY <1>3 DEF Agree, SInv, TypeOK
  <2>6. ASSUME NEW i \in Jobs, i # d PROVE Chain(i)'
    BY <2>1, <2>2, <2>5, <2>6, IdleChain DEF SInv
  <2>7. Chain(d)'
    <3>1. d \notin saved
      BY <2>1 DEF SInv, Chain
    <3>2. \A t \in Restarts : call'[d][t] = "none"
      BY <2>1, <2>2, KindsAre
    <3>3. d <= jobs' /\ d # dialog'
      BY <2>1, <2>5
    <3> QED  BY <2>4, <2>5, <3>1, <3>2, <3>3 DEF Chain
  <2>8. OneFlight'
    BY <2>1, <2>2 DEF OneFlight
  <2> QED  BY <2>6, <2>7, <2>8
<1>4. CASE Decline
  <2>1. dialog \in Jobs /\ dialog' = 0 /\ \A j \in Jobs : ~InFlight(j)
    BY <1>4 DEF Decline, SInv, OneFlight, TypeOK
  <2>2. UNCHANGED <<jobs, call, saved, since>>
    BY <1>4 DEF Decline
  <2>3. ASSUME NEW i \in Jobs PROVE Chain(i)'
    BY <2>1, <2>2, IdleChain DEF SInv
  <2> QED  BY <2>1, <2>2, <2>3 DEF OneFlight
<1>5. CASE \E o \in Options : Edit(o)
  BY <1>1, <1>5 DEF Edit
<1>6. CASE Reload
  BY <1>1, <1>6 DEF Reload
<1>7. CASE Save
  BY <1>2, <1>7 DEF Save
<1>8. CASE \E o \in Options : ApplyRemedy(o)
  BY <1>2, <1>8 DEF ApplyRemedy
<1> QED  BY <1>3, <1>4, <1>5, <1>6, <1>7, <1>8 DEF User

LEMMA RootSInv ==
  ASSUME SInv, NEW j \in Jobs, Root(j) PROVE OneFlight' /\ \A i \in Jobs : Chain(i)'
<1>1. ASSUME NEW k \in Kinds, NEW stage \in {"done", "refused"}, call[j][k] = "asked",
             call' = [call EXCEPT ![j][k] = stage],
             \A i \in Jobs : i # j => since[i] \subseteq since'[i],
             k \in Restarts => since[j] \subseteq since'[j],
             k \in Restarts /\ stage = "done" => k[2] \in since'[j],
             UNCHANGED <<dialog, jobs, job, pending, failures, saved>>
      PROVE  OneFlight' /\ \A i \in Jobs : Chain(i)'
  <2>1. /\ \A i \in Jobs : i # j => call'[i] = call[i]
        /\ \A l \in Kinds : call'[j][l] = IF l = k THEN stage ELSE call[j][l]
    BY <1>1 DEF SInv, TypeOK
  <2>2. InFlight(j) /\ dialog = 0 /\ \A i \in Jobs : i # j => ~InFlight(i)
    BY <1>1 DEF SInv, OneFlight
  <2>3. OneFlight'
    BY <1>1, <2>1, <2>2 DEF OneFlight
  <2>4. ASSUME NEW i \in Jobs, i # j PROVE Chain(i)'
    BY <1>1, <2>1, <2>2, <2>4, IdleChain DEF SInv
  <2>5. Chain(j)'
    <3>1. j \notin saved /\ Chain(j)
      BY <2>2 DEF SInv, Chain
    <3>2. CASE k = Write
      BY <1>1, <2>1, <3>1, <3>2, KindsAre DEF Chain
    <3>3. CASE k \in Restarts
      BY <1>1, <2>1, <3>1, <3>3, KindsAre DEF Chain
    <3> QED  BY <3>2, <3>3, KindsAre
  <2> QED  BY <2>3, <2>4, <2>5
<1>2. CASE HelperWrites(j)
  <2>1. \A i \in Jobs : i # j => since[i] \subseteq since'[i]
    BY <1>2 DEF HelperWrites, SInv, TypeOK
  <2> QED  BY <1>2, <1>1, <2>1, KindsAre DEF HelperWrites
<1>3. ASSUME NEW t \in Restarts, ServiceRestarts(j, t)
      PROVE  OneFlight' /\ \A i \in Jobs : Chain(i)'
  BY <1>3, <1>1, KindsAre DEF ServiceRestarts
<1>4. ASSUME NEW k \in Kinds, CallRefused(j, k) PROVE OneFlight' /\ \A i \in Jobs : Chain(i)'
  BY <1>4, <1>1 DEF CallRefused
<1> QED  BY <1>2, <1>3, <1>4 DEF Root

\* A report that is not the last of its call is one of failure.
LEMMA NextSInv ==
  ASSUME SInv, NEW j \in Jobs, NEW k \in Kinds, call[j][k] # "none", NEW failed \in BOOLEAN,
         NEW stage \in {"none", "errored"}, stage = "errored" => failed /\ k # Write,
         failed = FALSE => call[j][k] = "done" /\ failures[job[j].page] = FALSE,
         RestartNext(j, Left(j, k, stage), failed), Reporting
  PROVE  OneFlight' /\ \A i \in Jobs : Chain(i)'
<1> DEFINE p == job[j].page
<1>0. TypeOK /\ stage \in Stages /\ UNCHANGED <<dialog, jobs, job, since>>
  BY DEF SInv, Reporting
<1>1. /\ p \in AllPages
      /\ failures' = [failures EXCEPT ![p] = failed]
      /\ \A i \in Jobs : i # j => call'[i] = call[i]
      /\ Ended(j, k, stage, failed) \/ WentOn(j, k, stage)
  BY <1>0, Handled
<1>2. dialog = 0 /\ \A i \in Jobs : i # j => ~InFlight(i)
  BY DEF SInv, OneFlight
<1>3. Chain(j) /\ j \notin saved /\ j <= jobs /\ j # dialog
  BY DEF SInv, Chain
<1>4. failed = FALSE => \A l \in Kinds : l # k => call[j][l] = "none"
  <2>1. CASE k = Write
    BY <1>3, <2>1, KindsAre DEF Chain
  <2>2. CASE k \in Restarts
    BY <1>3, <2>2, KindsAre DEF Chain
  <2> QED  BY <2>1, <2>2, KindsAre
<1>5. k \in Restarts => call[j][Write] = "none"
  BY <1>3, KindsAre DEF Chain
<1>6. pending[p] \subseteq ToRestart(j)
  BY <1>3, KindsAre DEF Chain
<1>7. failures'[p] = failed
  BY <1>0, <1>1 DEF TypeOK
<1>8. OneFlight'
  BY <1>0, <1>1, <1>2 DEF OneFlight
<1>9. CASE Ended(j, k, stage, failed)
  <2>1. /\ pending[p] = {} /\ pending' = pending
        /\ \A l \in Kinds : call'[j][l] = IF l = k THEN stage ELSE call[j][l]
        /\ saved' = IF ~failed THEN saved \cup {j} ELSE saved
    BY <1>9 DEF Ended, Finish
  <2>2. ASSUME NEW i \in Jobs, i # j PROVE Chain(i)'
    BY <1>0, <1>1, <1>2, <2>1, <2>2, IdleChain DEF SInv
  <2>3. Chain(j)'
    <3>1. CASE failed
      <4>1. j \notin saved' /\ call'[j][Write] = "none"
        BY <1>3, <1>5, <2>1, <3>1, KindsAre
      <4>2. \A t \in Restarts : call'[j][t] # "none" => call[j][t] # "none"
        BY <2>1, KindsAre
      <4>3. \A t \in Restarts : call'[j][t] # "none" => t \in ToRestart(j)
        BY <1>3, <4>2 DEF Chain
      <4> QED  BY <1>0, <1>3, <1>7, <2>1, <3>1, <4>1, <4>3 DEF Chain
    <3>2. CASE ~failed
      <4>1. \A l \in Kinds : call'[j][l] = "none"
        BY <1>4, <2>1, <3>2
      <4>2. Units \subseteq since[j]
        <5>1. CASE k = Write
          <6>1. ToRestart(j) = {}
            BY <1>3, <2>1, <5>1 DEF Chain
          <6> QED  BY <6>1, KindsAre
        <5>2. CASE k \in Restarts
          BY <1>3, <2>1, <3>2, <5>2, KindsAre DEF Chain
        <5> QED  BY <5>1, <5>2, KindsAre
      <4>3. ~(j > jobs' \/ j = dialog')
        BY <1>0, <1>3 DEF TypeOK
      <4>4. ~InFlight(j)' /\ since' = since
        BY <1>0, <4>1
      <4> QED  BY <4>1, <4>2, <4>3, <4>4, KindsAre DEF Chain
    <3> QED  BY <3>1, <3>2
  <2> QED  BY <1>8, <2>2, <2>3
<1>10. CASE WentOn(j, k, stage)
  <2>1. PICK t \in pending[p] :
              /\ t = First(pending[p]) /\ t \in Restarts
              /\ pending' = [pending EXCEPT ![p] = pending[p] \ {t}]
              /\ \A l \in Kinds : call'[j][l] = IF l = t THEN "asked"
                                               ELSE IF l = k THEN stage ELSE call[j][l]
              /\ UNCHANGED saved
    BY <1>10 DEF WentOn
  <2>2. ASSUME NEW i \in Jobs, i # j PROVE Chain(i)'
    BY <1>0, <1>1, <1>2, <2>1, <2>2, IdleChain DEF SInv
  <2>3. /\ t \in ToRestart(j) /\ pending'[p] = pending[p] \ {t}
        /\ t[2] = "onaccess" => \A u \in pending[p] : u[2] # "daemon"
    BY <1>0, <1>1, <1>6, <2>1, FirstIs DEF TypeOK
  <2>4. Chain(j)'
    <3>1. j \notin saved' /\ call'[j][Write] = "none" /\ call'[j][t] = "asked"
      BY <1>3, <1>5, <2>1, KindsAre
    <3>2. ASSUME NEW s \in Restarts, call'[j][s] # "none"
          PROVE  /\ s \notin pending'[p] /\ s \in ToRestart(j)
                 /\ s[2] = "onaccess" => \A u \in pending'[p] : u[2] # "daemon"
      <4>1. CASE s = t
        BY <2>3, <4>1
      <4>2. CASE s # t
        <5>1. call[j][s] # "none"
          BY <2>1, <3>2, <4>2, KindsAre
        <5> QED  BY <1>3, <2>3, <5>1 DEF Chain
      <4> QED  BY <4>1, <4>2
    <3>3. failed = FALSE => \A r \in Units : <<j, r>> \in pending[p] \/ r \in since[j]
      <4>1. CASE k = Write
        BY <1>3, <4>1, KindsAre DEF Chain
      <4>2. CASE k \in Restarts
        BY <1>3, <4>2, KindsAre DEF Chain
      <4> QED  BY <4>1, <4>2, KindsAre
    <3>4. failed = FALSE => \A s \in Restarts : s # t => call'[j][s] = "none"
      BY <1>4, <2>1, KindsAre
    <3>5. failed = FALSE => \A r \in Units : <<j, r>> \in pending'[p] \/ r = t[2] \/ r \in since[j]
      BY <2>3, <3>3, KindsAre
    <3>6. ASSUME failed = FALSE, NEW s \in Restarts, call'[j][s] # "none"
          PROVE  /\ \A r \in Units : <<j, r>> \in pending'[p] \/ r = s[2] \/ r \in since[j]
                 /\ \A u \in Restarts : u # s => call'[j][u] = "none"
                 /\ call'[j][s] = "asked"
      <4>1. s = t
        BY <3>4, <3>6
      <4> QED  BY <3>1, <3>4, <3>5, <3>6, <4>1
    <3>7. pending'[p] \subseteq ToRestart(j)
      BY <1>6, <2>3
    <3> QED  BY <1>0, <1>3, <1>7, <3>1, <3>2, <3>6, <3>7 DEF Chain
  <2> QED  BY <1>8, <2>2, <2>4
<1> QED  BY <1>1, <1>9, <1>10

LEMMA EndSInv ==
  ASSUME SInv, NEW j \in Jobs, call[j][Write] # "none", Finish(j, FALSE, FALSE),
         NEW stage \in {"none", "errored"}, call' = Left(j, Write, stage),
         UNCHANGED <<pending, failures>>, Reporting
  PROVE  OneFlight' /\ \A i \in Jobs : Chain(i)'
<1>1. /\ \A i \in Jobs : i # j => call'[i] = call[i]
      /\ \A l \in Kinds : call'[j][l] = IF l = Write THEN stage ELSE call[j][l]
  BY KindsAre DEF SInv, TypeOK, Left
<1>2. dialog = 0 /\ \A i \in Jobs : i # j => ~InFlight(i)
  BY KindsAre DEF SInv, OneFlight
<1>3. saved' = saved /\ UNCHANGED <<dialog, jobs, job, since>>
  BY DEF Finish, Reporting
<1>4. OneFlight'
  BY <1>1, <1>2, <1>3 DEF OneFlight
<1>5. ASSUME NEW i \in Jobs, i # j PROVE Chain(i)'
  BY <1>1, <1>2, <1>3, <1>5, IdleChain DEF SInv
<1>6. Chain(j)'
  <2>1. Chain(j) /\ InFlight(j)
    BY KindsAre DEF SInv
  <2>2. \A l \in Restarts : call'[j][l] = call[j][l]
    BY <1>1, KindsAre
  <2> QED  BY <1>3, <2>1, <2>2, KindsAre DEF Chain
<1> QED  BY <1>4, <1>5, <1>6

LEMMA InitSInv == Init => SInv
<1> SUFFICES ASSUME Init PROVE SInv
  OBVIOUS
<1>1. \A j \in Jobs : \A k \in Kinds : call[j][k] = "none"
  BY DEF Init, NoCalls
<1> QED  BY <1>1, InitTypes, KindsAre DEF Init, SInv, OneFlight, Chain

LEMMA StepSInv == ASSUME Serial, SInv, [Next]_vars PROVE SInv'
<1>1. ASSUME NEW j \in Jobs, NEW k \in Kinds, Succeeded(j, k)
      PROVE  OneFlight' /\ \A i \in Jobs : Chain(i)'
  <2>1. failures[job[j].page] \in BOOLEAN
    BY DEF SInv, TypeOK, Job
  <2> QED  BY <1>1, <2>1, NextSInv DEF Succeeded
<1>2. ASSUME NEW j \in Jobs, NEW k \in Kinds, NEW stage \in {"none", "errored"},
             call[j][k] # "none", GiveUp(j, k, stage)
      PROVE  OneFlight' /\ \A i \in Jobs : Chain(i)'
  BY <1>2, NextSInv, EndSInv DEF GiveUp
<1>3. ASSUME NEW j \in Jobs, NEW k \in Kinds, Failed(j, k) \/ Errored(j, k)
      PROVE  OneFlight' /\ \A i \in Jobs : Chain(i)'
  BY <1>2, <1>3 DEF Failed, Errored
<1>4. ASSUME UNCHANGED vars PROVE OneFlight' /\ \A i \in Jobs : Chain(i)'
  BY <1>4 DEF vars, SInv, OneFlight, Chain
<1> QED  BY <1>1, <1>3, <1>4, UserSInv, RootSInv, StepTypes DEF SInv, Next, Report

\* One apply at a time: what is reported as saved runs in every service.
THEOREM SavedIsRestarted ==
  ASSUME Serial PROVE Spec => []SavedMeansRestarted
<1>1. SInv => SavedMeansRestarted
  BY DEF SInv, TypeOK, Chain, SavedMeansRestarted
<1>2. SInv /\ [Next]_vars => SInv'
  BY StepSInv
<1> QED  BY InitSInv, <1>1, <1>2, PTL DEF Spec

\* No process is heard of twice.
HeardOnce == FInv /\ \A j \in Jobs : twice[j] = 0

LEMMA InitHeardOnce == Init => HeardOnce
BY InitFInv DEF Init, HeardOnce

LEMMA StepHeardOnce == ASSUME Clean, HeardOnce, [Next]_vars PROVE HeardOnce'
<1>1. twice' = twice
  BY DEF Clean, Next, User, Root, Report, Edit, Reload, Save, ApplyRemedy, Ask, Agree, Decline,
         HelperWrites, ServiceRestarts, CallRefused, Succeeded, Failed, Errored, vars
<1> QED  BY <1>1, StepFInv DEF HeardOnce

\* One apply at a time, each process heard of once: the services restart one by
\* one, the daemon first.
THEOREM InOrder ==
  ASSUME Serial, Clean PROVE Spec => []RestartsInOrder
<1>1. SInv /\ HeardOnce => RestartsInOrder
  <2> SUFFICES ASSUME SInv, HeardOnce, NEW i \in Jobs, NEW j \in Jobs,
                      NEW t \in Restarts, NEW u \in Restarts
               PROVE  /\ call[i][t] # "none" /\ call[j][u] # "none" => i = j /\ t = u
                      /\ call[i][t] # "none" /\ t[2] = "onaccess" =>
                           \A d \in pending[job[i].page] : d[2] # "daemon"
    BY DEF RestartsInOrder
  <2>1. call[i][t] # "none" /\ call[j][u] # "none" => i = j
    BY KindsAre DEF SInv, OneFlight
  <2>2. ASSUME call[i][t] # "none", call[i][u] # "none" PROVE t = u
    <3> DEFINE C == CallsIn(call[i])
    <3>1. t \in C /\ u \in C
      BY <2>2, KindsAre DEF CallsIn
    <3>2. IsFiniteSet(C) /\ Cardinality(C) \in Nat
      BY CallsFinite
    <3>3. Cardinality(C) <= 1
      BY <3>2 DEF HeardOnce, FInv, OneReport, TypeOK
    <3> HIDE DEF C
    <3>4. Cardinality(C \ {t}) = Cardinality(C) - 1 /\ IsFiniteSet(C \ {t})
      BY <3>1, <3>2, FS_RemoveElement
    <3>5. Cardinality(C \ {t}) \in Nat
      BY <3>4, FS_CardinalityType
    <3>6. C \ {t} = {}
      BY <3>2, <3>3, <3>4, <3>5, FS_EmptySet
    <3> QED  BY <3>1, <3>6
  <2>3. call[i][t] # "none" /\ t[2] = "onaccess" => \A d \in pending[job[i].page] : d[2] # "daemon"
    BY DEF SInv, Chain
  <2> QED  BY <2>1, <2>2, <2>3
<1>2. SInv /\ [Next]_vars => SInv'
  BY StepSInv
<1>3. HeardOnce /\ [Next]_vars => HeardOnce'
  BY StepHeardOnce
<1> QED  BY InitSInv, InitHeardOnce, <1>1, <1>2, <1>3, PTL DEF Spec

-----------------------------------------------------------------------------
(* The file changes as shown.                                              *)

\* The apply is confirmed, or its text is on its way to the helper.
Waiting(j) == j = dialog \/ call[j][Write] = "asked"

\* An apply has no call before it is agreed to, and only one that is waiting or under
\* way is the newest of all.
Begun ==
  /\ dialog # 0 => dialog = jobs
  /\ \A j \in Jobs : j > jobs \/ j = dialog => ~InFlight(j)
  /\ \A j \in Jobs : \A i \in unseen[j] : i <= jobs
\* What the page has read is the file, but for the writes since; an apply of the page
\* itself is among those only until its end, which reloads the page.
PageReads == page.readable /\ news = {} => page.base = disk
Writers ==
  \A i \in news : /\ i <= jobs /\ i # dialog /\ call[i][Write] \in {"done", "none"}
                  /\ job[i].page = "configuration" => InFlight(i)
\* What an apply that waits does not know of.
BesideAre == \A i, j \in Jobs : Waiting(j) /\ i < j /\ InFlight(i) => i \in beside[j]
ShownIsDisk ==
  \A j \in Jobs : Waiting(j) => job[j].base = disk \/ unseen[j] # {} \/ ~job[j].read
UnseenAre ==
  \A j \in Jobs : Waiting(j) =>
    \A i \in unseen[j] : job[i].page # job[j].page \/ i > j \/ i \in beside[j]

ApplyKnows == Begun /\ BesideAre /\ ShownIsDisk /\ UnseenAre
WInv == TypeOK /\ ApplyKnows /\ PageReads /\ Writers

\* Reading the file brings the page up to date.
LEMMA PageIsRead == ASSUME LoadFile, UNCHANGED disk PROVE PageReads' /\ Writers'
BY DEF LoadFile, Loaded, Unreadable, PageReads, Writers

\* A step that leaves the file and ends calls, or goes on from one to the next.
LEMMA FewerCalls ==
  ASSUME WInv, UNCHANGED <<disk, dialog, jobs, job, unseen, beside>>,
         \A i \in Jobs : InFlight(i)' => InFlight(i),
         \A i \in Jobs : call'[i][Write] = "asked" => call[i][Write] = "asked"
  PROVE  ApplyKnows'
<1>1. \A i \in Jobs : Waiting(i)' => Waiting(i)
  BY DEF Waiting
<1> HIDE DEF InFlight
<1>2. Begun'
  BY DEF WInv, ApplyKnows, Begun
<1>3. BesideAre'
  BY <1>1 DEF WInv, ApplyKnows, BesideAre
<1>4. ShownIsDisk' /\ UnseenAre'
  BY <1>1 DEF WInv, ApplyKnows, ShownIsDisk, UnseenAre
<1> QED  BY <1>2, <1>3, <1>4 DEF ApplyKnows

\* A new apply knows of what its page knows of.
LEMMA AskWInv ==
  ASSUME WInv, NEW p \in AllPages, NEW read \in BOOLEAN, NEW base \in Texts, NEW text \in Texts,
         NEW later \in SUBSET Jobs, Ask(p, read, base, text, later),
         base = disk \/ later # {} \/ ~read,
         \A i \in later : i <= jobs /\ (job[i].page = p => InFlight(i))
  PROVE  ApplyKnows' /\ PageReads' /\ Writers'
<1>1. PICK d \in Jobs : d = jobs + 1 /\ jobs \in Nat
  BY DEF Ask, WInv, TypeOK
<1>2. /\ dialog = 0 /\ jobs' = d /\ dialog' = d
      /\ UNCHANGED <<disk, page, call, news>>
  BY <1>1 DEF Ask
<1>3. /\ job'[d] = [page |-> p, read |-> read, base |-> base, text |-> text]
      /\ unseen'[d] = later /\ beside'[d] = {i \in Jobs : InFlight(i)}
  BY <1>1 DEF Ask, WInv, TypeOK
<1>4. \A i \in Jobs : i # d => job'[i] = job[i] /\ unseen'[i] = unseen[i] /\ beside'[i] = beside[i]
  BY <1>1 DEF Ask, WInv, TypeOK
<1>5. \A i \in Jobs : i <= jobs => i # d
  BY <1>1
<1>6. /\ \A i \in Jobs : InFlight(i)' <=> InFlight(i)
      /\ \A i \in Jobs : InFlight(i) => i <= jobs
  BY <1>1, <1>2 DEF WInv, ApplyKnows, Begun
<1>7. \A i \in Jobs : i # d => (Waiting(i)' => Waiting(i) /\ i <= jobs)
  BY <1>1, <1>2, KindsAre DEF Waiting, WInv, ApplyKnows, Begun
<1> HIDE DEF InFlight
<1>8. Begun'
  <2>1. dialog' # 0 => dialog' = jobs'
    BY <1>2
  <2>2. \A j \in Jobs : j > jobs' \/ j = dialog' => ~InFlight(j)'
    BY <1>1, <1>2, <1>6
  <2>3. ASSUME NEW j \in Jobs, NEW i \in unseen'[j] PROVE i <= jobs'
    <3>1. i <= jobs /\ i \in Nat
      <4>1. CASE j = d
        <5>1. i \in later /\ i \in Jobs
          BY <1>3, <2>3, <4>1
        <5> QED  BY <5>1
      <4>2. CASE j # d
        <5>1. i \in unseen[j] /\ unseen[j] \subseteq Jobs
          BY <1>4, <2>3, <4>2 DEF WInv, TypeOK
        <5> QED  BY <5>1 DEF WInv, ApplyKnows, Begun
      <4> QED  BY <4>1, <4>2
    <3> QED  BY <1>1, <1>2, <3>1
  <2> QED  BY <2>1, <2>2, <2>3 DEF Begun
<1>9. BesideAre'
  <2>1. ASSUME NEW i \in Jobs, NEW j \in Jobs, Waiting(j)', i < j, InFlight(i)'
        PROVE  i \in beside'[j]
    <3>1. CASE j = d
      BY <1>3, <1>6, <2>1, <3>1
    <3>2. CASE j # d
      BY <1>4, <1>6, <1>7, <2>1, <3>2 DEF WInv, ApplyKnows, BesideAre
    <3> QED  BY <3>1, <3>2
  <2> QED  BY <2>1 DEF BesideAre
<1>10. ShownIsDisk'
  <2>1. ASSUME NEW j \in Jobs, Waiting(j)'
        PROVE  job'[j].base = disk' \/ unseen'[j] # {} \/ ~job'[j].read
    <3>1. CASE j = d
      BY <1>2, <1>3, <3>1
    <3>2. CASE j # d
      BY <1>2, <1>4, <1>7, <2>1, <3>2 DEF WInv, ApplyKnows, ShownIsDisk
    <3> QED  BY <3>1, <3>2
  <2> QED  BY <2>1 DEF ShownIsDisk
<1>11. UnseenAre'
  <2>1. ASSUME NEW j \in Jobs, Waiting(j)', NEW i \in unseen'[j]
        PROVE  job'[i].page # job'[j].page \/ i > j \/ i \in beside'[j]
    <3>1. CASE j = d
      <4>1. i \in later /\ i \in Jobs /\ job'[i] = job[i]
        BY <1>3, <1>4, <1>5, <2>1, <3>1
      <4>2. job[i].page = p => i \in beside'[d]
        BY <1>3, <4>1
      <4> QED  BY <1>3, <3>1, <4>1, <4>2
    <3>2. CASE j # d
      <4>1. i \in unseen[j] /\ i \in Jobs /\ Waiting(j)
        BY <1>4, <1>7, <2>1, <3>2 DEF WInv, TypeOK
      <4>2. i <= jobs /\ job'[i] = job[i]
        BY <1>4, <1>5, <4>1 DEF WInv, ApplyKnows, Begun
      <4> QED  BY <1>4, <3>2, <4>1, <4>2 DEF WInv, ApplyKnows, UnseenAre
    <3> QED  BY <3>1, <3>2
  <2> QED  BY <2>1 DEF UnseenAre
<1>12. PageReads'
  BY <1>2 DEF WInv, PageReads
<1>13. Writers'
  <2>1. ASSUME NEW i \in news
        PROVE  /\ i <= jobs' /\ i # dialog' /\ call'[i][Write] \in {"done", "none"}
               /\ job'[i].page = "configuration" => InFlight(i)'
    <3>1. i \in Jobs /\ i <= jobs
      BY DEF WInv, TypeOK, Writers
    <3>2. i # d /\ job'[i] = job[i] /\ i <= d
      BY <1>1, <1>4, <1>5, <3>1
    <3> QED  BY <1>2, <1>6, <3>1, <3>2 DEF WInv, Writers
  <2> QED  BY <1>2, <2>1 DEF Writers
<1> QED  BY <1>8, <1>9, <1>10, <1>11, <1>12, <1>13 DEF ApplyKnows

LEMMA UserWInv == ASSUME WInv, User PROVE ApplyKnows' /\ PageReads' /\ Writers'
<1>1. ASSUME NEW o \in Options, Edit(o) PROVE ApplyKnows' /\ PageReads' /\ Writers'
  <2>1. /\ page'.base = page.base /\ page'.readable = page.readable
        /\ UNCHANGED <<disk, dialog, jobs, job, call, unseen, beside, news>>
    BY <1>1 DEF Edit, WInv, TypeOK, ConfFile
  <2>2. PageReads' /\ Writers'
    BY <2>1 DEF WInv, PageReads, Writers
  <2> QED  BY <2>1, <2>2, FewerCalls
<1>2. CASE Reload
  <2>1. LoadFile /\ UNCHANGED <<disk, dialog, jobs, job, call, unseen, beside>>
    BY <1>2 DEF Reload
  <2> QED  BY <2>1, PageIsRead, FewerCalls
<1>3. CASE Save
  <2>1. page.readable \in BOOLEAN /\ page.base \in Texts /\ page.text \in Texts
        /\ news \in SUBSET Jobs
    BY DEF WInv, TypeOK, ConfFile
  <2>2. page.base = disk \/ news # {} \/ ~page.readable
    BY DEF WInv, PageReads
  <2>3. \A i \in news : i <= jobs /\ (job[i].page = "configuration" => InFlight(i))
    BY DEF WInv, Writers
  <2> QED  BY <1>3, <2>1, <2>2, <2>3, AskWInv DEF Save
<1>4. ASSUME NEW o \in Options, ApplyRemedy(o) PROVE ApplyKnows' /\ PageReads' /\ Writers'
  <2>1. disk \in SUBSET Options /\ {} \in SUBSET Jobs /\ "protection" \in AllPages
    BY DEF WInv, TypeOK
  <2>2. PICK text \in SUBSET Options : Ask("protection", TRUE, disk, text, {})
    BY <1>4, <2>1 DEF ApplyRemedy
  <2> QED  BY <2>1, <2>2, AskWInv
<1>5. CASE Agree
  <2>1. PICK d \in Jobs : d = dialog /\ d = jobs /\ dialog' = 0
    BY <1>5 DEF Agree, WInv, TypeOK, ApplyKnows, Begun
  <2>2. UNCHANGED <<disk, page, jobs, job, unseen, beside, news>> /\ jobs \in Nat
    BY <1>5 DEF Agree, WInv, TypeOK
  <2>3. /\ \A i \in Jobs : i # d => call'[i] = call[i]
        /\ \A l \in Kinds : call'[d][l] = IF l = Write THEN "asked" ELSE call[d][l]
    BY <1>5, <2>1, KindsAre DEF Agree, WInv, TypeOK
  <2>4. \A i \in Jobs : Waiting(i)' <=> Waiting(i)
    <3>1. Waiting(d) /\ Waiting(d)'
      BY <2>1, <2>3, KindsAre DEF Waiting
    <3>2. \A i \in Jobs : i # d => i # dialog /\ i # dialog'
      BY <2>1
    <3>3. \A i \in Jobs : i # d => (Waiting(i)' <=> Waiting(i))
      BY <2>3, <3>2 DEF Waiting
    <3> QED  BY <3>1, <3>3
  <2>5. \A i \in Jobs : i # d => (InFlight(i)' <=> InFlight(i))
    BY <2>3
  <2>6. \A i \in Jobs : Waiting(i) => i <= jobs
    BY <2>1, <2>2, KindsAre DEF Waiting, WInv, ApplyKnows, Begun
  <2> HIDE DEF InFlight
  <2>7. Begun'
    <3>1. ASSUME NEW j \in Jobs, j > jobs' \/ j = dialog' PROVE ~InFlight(j)'
      BY <2>1, <2>2, <2>5, <3>1 DEF WInv, ApplyKnows, Begun
    <3> QED  BY <2>1, <2>2, <3>1 DEF WInv, ApplyKnows, Begun
  <2>8. BesideAre'
    <3>1. ASSUME NEW i \in Jobs, NEW j \in Jobs, Waiting(j)', i < j, InFlight(i)'
          PROVE  i \in beside'[j]
      <4>1. Waiting(j) /\ j <= d /\ i # d
        BY <2>1, <2>4, <2>6, <3>1
      <4> QED  BY <2>2, <2>5, <3>1, <4>1 DEF WInv, ApplyKnows, BesideAre
    <3> QED  BY <3>1 DEF BesideAre
  <2>9. ShownIsDisk' /\ UnseenAre'
    BY <2>2, <2>4 DEF WInv, ApplyKnows, ShownIsDisk, UnseenAre
  <2>10. PageReads'
    BY <2>2 DEF WInv, PageReads
  <2>11. Writers'
    <3>1. ASSUME NEW i \in news
          PROVE  /\ i <= jobs' /\ i # dialog' /\ call'[i][Write] \in {"done", "none"}
                 /\ job'[i].page = "configuration" => InFlight(i)'
      <4>1. i \in Jobs /\ i # d
        BY <2>1 DEF WInv, TypeOK, Writers
      <4> QED  BY <2>1, <2>2, <2>3, <2>5, <4>1 DEF WInv, Writers
    <3> QED  BY <2>2, <3>1 DEF Writers
  <2> QED  BY <2>7, <2>8, <2>9, <2>10, <2>11 DEF ApplyKnows
<1>6. CASE Decline
  <2>1. PICK d \in Jobs : d = dialog /\ dialog' = 0
    BY <1>6 DEF Decline, WInv, TypeOK
  <2>2. UNCHANGED <<disk, page, jobs, job, call, unseen, beside, news>>
    BY <1>6 DEF Decline
  <2>3. \A i \in Jobs : Waiting(i)' => Waiting(i)
    BY <2>1, <2>2 DEF Waiting
  <2>4. Begun' /\ BesideAre' /\ ShownIsDisk' /\ UnseenAre'
    BY <2>1, <2>2, <2>3 DEF WInv, ApplyKnows, Begun, BesideAre, ShownIsDisk, UnseenAre
  <2>5. PageReads' /\ Writers'
    <3>1. \A i \in news : i # 0
      BY DEF WInv, TypeOK
    <3> QED  BY <2>1, <2>2, <3>1 DEF WInv, PageReads, Writers
  <2> QED  BY <2>4, <2>5 DEF ApplyKnows
<1> QED  BY <1>1, <1>2, <1>3, <1>4, <1>5, <1>6 DEF User

LEMMA RootWInv == ASSUME WInv, NEW j \in Jobs, Root(j) PROVE ApplyKnows' /\ PageReads' /\ Writers'
<1>1. ASSUME NEW k \in Kinds, NEW stage \in {"done", "refused"}, call[j][k] = "asked",
             call' = [call EXCEPT ![j][k] = stage],
             UNCHANGED <<disk, page, dialog, jobs, job, readVars>>
      PROVE  ApplyKnows' /\ PageReads' /\ Writers'
  <2>1. /\ \A i \in Jobs : i # j => call'[i] = call[i]
        /\ \A l \in Kinds : call'[j][l] = IF l = k THEN stage ELSE call[j][l]
    BY <1>1 DEF WInv, TypeOK
  <2>2. \A i \in Jobs : InFlight(i)' <=> InFlight(i)
    BY <1>1, <2>1
  <2>3. \A i \in Jobs : call'[i][Write] = "asked" => call[i][Write] = "asked"
    BY <2>1, KindsAre
  <2> HIDE DEF InFlight
  <2>4. ApplyKnows'
    BY <1>1, <2>2, <2>3, FewerCalls
  <2>5. Writers'
    <3>1. ASSUME NEW i \in news
          PROVE  /\ i <= jobs' /\ i # dialog' /\ call'[i][Write] \in {"done", "none"}
                 /\ job'[i].page = "configuration" => InFlight(i)'
      <4>1. i \in Jobs /\ call'[i][Write] = call[i][Write]
        <5>1. CASE i = j /\ k = Write
          BY <1>1, <5>1 DEF WInv, Writers
        <5>2. CASE i # j \/ k # Write
          BY <2>1, <5>2, KindsAre DEF WInv, TypeOK
        <5> QED  BY <5>1, <5>2
      <4> QED  BY <1>1, <2>2, <4>1 DEF WInv, Writers
    <3> QED  BY <1>1, <3>1 DEF Writers
  <2>6. PageReads'
    BY <1>1 DEF WInv, PageReads
  <2> QED  BY <2>4, <2>5, <2>6
<1>2. CASE HelperWrites(j)
  <2>1. /\ call[j][Write] = "asked" /\ news' = news \cup {j}
        /\ \A i \in Jobs : unseen'[i] = unseen[i] \cup ({j} \ {i})
        /\ UNCHANGED <<page, dialog, jobs, job, beside>>
    BY <1>2 DEF HelperWrites
  <2>2. /\ \A i \in Jobs : i # j => call'[i] = call[i]
        /\ \A l \in Kinds : call'[j][l] = IF l = Write THEN "done" ELSE call[j][l]
    BY <1>2, KindsAre DEF HelperWrites, WInv, TypeOK
  <2>3. /\ \A i \in Jobs : InFlight(i)' <=> InFlight(i)
        /\ InFlight(j) /\ j <= jobs /\ j # dialog
    <3>1. InFlight(j) /\ InFlight(j)'
      BY <2>1, <2>2, KindsAre
    <3>2. \A i \in Jobs : InFlight(i)' <=> InFlight(i)
      BY <2>2, <3>1
    <3>3. ~(j > jobs) /\ j # dialog /\ jobs \in Nat
      BY <3>1 DEF WInv, ApplyKnows, Begun, TypeOK
    <3> QED  BY <3>1, <3>2, <3>3
  <2>4. \A i \in Jobs : Waiting(i)' => Waiting(i) /\ i # j
    BY <2>1, <2>2, <2>3, KindsAre DEF Waiting
  <2> HIDE DEF InFlight
  <2>5. Begun'
    BY <2>1, <2>3 DEF WInv, ApplyKnows, Begun
  <2>6. BesideAre'
    BY <2>1, <2>3, <2>4 DEF WInv, ApplyKnows, BesideAre
  <2>7. ShownIsDisk'
    <3>1. ASSUME NEW i \in Jobs, Waiting(i)' PROVE unseen'[i] # {}
      BY <2>1, <2>4, <3>1
    <3> QED  BY <3>1 DEF ShownIsDisk
  <2>8. UnseenAre'
    <3>1. ASSUME NEW i \in Jobs, Waiting(i)', NEW l \in unseen'[i]
          PROVE  job'[l].page # job'[i].page \/ l > i \/ l \in beside'[i]
      <4>1. CASE l \in unseen[i]
        BY <2>1, <2>4, <3>1, <4>1 DEF WInv, ApplyKnows, UnseenAre
      <4>2. CASE l = j /\ i # j
        <5>1. j > i \/ j < i
          BY <4>2 DEF Jobs
        <5> QED  BY <2>1, <2>3, <2>4, <3>1, <4>2, <5>1 DEF WInv, ApplyKnows, BesideAre
      <4> QED  BY <2>1, <2>4, <3>1, <4>1, <4>2
    <3> QED  BY <3>1 DEF UnseenAre
  <2>9. PageReads'
    BY <2>1 DEF PageReads
  <2>10. Writers'
    <3>1. ASSUME NEW i \in news'
          PROVE  /\ i <= jobs' /\ i # dialog' /\ call'[i][Write] \in {"done", "none"}
                 /\ job'[i].page = "configuration" => InFlight(i)'
      <4>1. CASE i = j
        BY <2>1, <2>2, <2>3, <4>1, KindsAre
      <4>2. CASE i \in news /\ i # j
        BY <2>1, <2>2, <2>3, <4>2 DEF WInv, Writers, TypeOK
      <4> QED  BY <2>1, <3>1, <4>1, <4>2
    <3> QED  BY <3>1 DEF Writers
  <2> QED  BY <2>5, <2>6, <2>7, <2>8, <2>9, <2>10 DEF ApplyKnows
<1>3. ASSUME NEW t \in Restarts, ServiceRestarts(j, t) PROVE ApplyKnows' /\ PageReads' /\ Writers'
  BY <1>3, <1>1, KindsAre DEF ServiceRestarts
<1>4. ASSUME NEW k \in Kinds, CallRefused(j, k) PROVE ApplyKnows' /\ PageReads' /\ Writers'
  BY <1>4, <1>1 DEF CallRefused
<1> QED  BY <1>2, <1>3, <1>4 DEF Root

\* The end of an apply of the page reloads it; until then the apply is under way.
LEMMA NextWInv ==
  ASSUME WInv, NEW j \in Jobs, NEW k \in Kinds, call[j][k] # "none", NEW failed \in BOOLEAN,
         NEW stage \in {"none", "errored"}, stage = "errored" => k # Write,
         RestartNext(j, Left(j, k, stage), failed), Reporting
  PROVE  ApplyKnows' /\ PageReads' /\ Writers'
<1>0. TypeOK /\ stage \in Stages /\ UNCHANGED <<disk, dialog, jobs, job, unseen, beside>>
  BY DEF WInv, Reporting
<1>1. /\ \A i \in Jobs : i # j => call'[i] = call[i]
      /\ Ended(j, k, stage, failed) \/ WentOn(j, k, stage)
  BY <1>0, Handled
<1>2. CASE Ended(j, k, stage, failed)
  <2>1. /\ Finish(j, TRUE, ~failed)
        /\ \A l \in Kinds : call'[j][l] = IF l = k THEN stage ELSE call[j][l]
    BY <1>2 DEF Ended
  <2>2. \A i \in Jobs : InFlight(i)' => InFlight(i)
    BY <1>1, <2>1
  <2>3. \A i \in Jobs : call'[i][Write] = "asked" => call[i][Write] = "asked"
    BY <1>1, <2>1, KindsAre
  <2>4. ApplyKnows'
    BY <1>0, <2>2, <2>3, FewerCalls
  <2>5. CASE job[j].page = "configuration"
    BY <1>0, <2>1, <2>4, <2>5, PageIsRead DEF Finish
  <2>6. CASE job[j].page # "configuration"
    <3>1. UNCHANGED <<page, news>>
      BY <2>1, <2>6 DEF Finish
    <3>2. ASSUME NEW i \in news
          PROVE  /\ i <= jobs /\ i # dialog /\ call'[i][Write] \in {"done", "none"}
                 /\ job[i].page = "configuration" => InFlight(i)'
      <4>1. CASE i = j
        BY <2>1, <2>6, <4>1, KindsAre DEF WInv, Writers
      <4>2. CASE i # j
        BY <1>1, <4>2 DEF WInv, Writers, TypeOK
      <4> QED  BY <4>1, <4>2
    <3> QED  BY <1>0, <2>4, <3>1, <3>2 DEF WInv, PageReads, Writers
  <2> QED  BY <2>5, <2>6
<1>3. CASE WentOn(j, k, stage)
  <2>1. PICK t \in Restarts :
              /\ \A l \in Kinds : call'[j][l] = IF l = t THEN "asked"
                                               ELSE IF l = k THEN stage ELSE call[j][l]
              /\ UNCHANGED <<page, news>>
    BY <1>3 DEF WentOn
  <2>2. InFlight(j) /\ InFlight(j)'
    BY <2>1, KindsAre
  <2>3. \A i \in Jobs : InFlight(i)' <=> InFlight(i)
    BY <1>1, <2>2
  <2>4. \A i \in Jobs : call'[i][Write] = "asked" => call[i][Write] = "asked"
    BY <1>1, <2>1, KindsAre
  <2> HIDE DEF InFlight
  <2>5. ApplyKnows'
    BY <1>0, <2>3, <2>4, FewerCalls
  <2>6. ASSUME NEW i \in news
        PROVE  /\ i <= jobs /\ i # dialog /\ call'[i][Write] \in {"done", "none"}
               /\ job[i].page = "configuration" => InFlight(i)'
    <3>1. i \in Jobs /\ call'[i][Write] \in {"done", "none"}
      <4>1. CASE i = j
        BY <2>1, <4>1, KindsAre DEF WInv, Writers
      <4>2. CASE i # j
        BY <1>1, <4>2 DEF WInv, Writers, TypeOK
      <4> QED  BY <4>1, <4>2
    <3> QED  BY <2>3, <3>1 DEF WInv, Writers
  <2> QED  BY <1>0, <2>1, <2>5, <2>6 DEF WInv, PageReads, Writers
<1> QED  BY <1>1, <1>2, <1>3

\* A write that failed is not among those the page has not read.
LEMMA EndWInv ==
  ASSUME WInv, NEW j \in Jobs, call[j][Write] \in {"asked", "refused", "errored"},
         Finish(j, FALSE, FALSE), NEW stage \in {"none", "errored"},
         call' = Left(j, Write, stage), Reporting
  PROVE  ApplyKnows' /\ PageReads' /\ Writers'
<1>0. UNCHANGED <<disk, dialog, jobs, job, unseen, beside, page, news>>
  BY DEF Finish, Reporting
<1>1. /\ \A i \in Jobs : i # j => call'[i] = call[i]
      /\ \A l \in Kinds : call'[j][l] = IF l = Write THEN stage ELSE call[j][l]
  BY KindsAre DEF WInv, TypeOK, Left
<1>2. \A i \in Jobs : InFlight(i)' => InFlight(i)
  BY <1>1, KindsAre
<1>3. \A i \in Jobs : call'[i][Write] = "asked" => call[i][Write] = "asked"
  BY <1>1, KindsAre
<1>4. ApplyKnows'
  BY <1>0, <1>2, <1>3, FewerCalls
<1>5. j \notin news
  BY DEF WInv, Writers
<1>6. ASSUME NEW i \in news
      PROVE  /\ i <= jobs /\ i # dialog /\ call'[i][Write] \in {"done", "none"}
             /\ job[i].page = "configuration" => InFlight(i)'
  <2>1. i \in Jobs /\ i # j
    BY <1>5, <1>6 DEF WInv, TypeOK
  <2>2. call'[i] = call[i]
    BY <1>1, <2>1
  <2> QED  BY <1>6, <2>2 DEF WInv, Writers
<1> QED  BY <1>0, <1>4, <1>6 DEF WInv, PageReads, Writers

LEMMA InitWInv == Init => WInv
<1> SUFFICES ASSUME Init PROVE WInv
  OBVIOUS
<1>1. \A j \in Jobs : \A k \in Kinds : call[j][k] = "none"
  BY DEF Init, NoCalls
<1>2. \A j \in Jobs : ~InFlight(j) /\ ~Waiting(j) /\ unseen[j] = {}
  BY <1>1, KindsAre DEF Init, Waiting
<1> HIDE DEF InFlight
<1>3. ApplyKnows
  BY <1>2 DEF Init, ApplyKnows, Begun, BesideAre, ShownIsDisk, UnseenAre
<1> QED  BY <1>3, InitTypes DEF Init, WInv, PageReads, Writers

LEMMA StepWInv == ASSUME WInv, [Next]_vars PROVE WInv'
<1>1. ASSUME NEW j \in Jobs, NEW k \in Kinds, Succeeded(j, k)
      PROVE  ApplyKnows' /\ PageReads' /\ Writers'
  <2>1. failures[job[j].page] \in BOOLEAN
    BY DEF WInv, TypeOK, Job
  <2> QED  BY <1>1, <2>1, NextWInv DEF Succeeded
<1>2. ASSUME NEW j \in Jobs, NEW k \in Kinds, NEW stage \in {"none", "errored"},
             call[j][k] \in {"asked", "refused", "errored"}, GiveUp(j, k, stage)
      PROVE  ApplyKnows' /\ PageReads' /\ Writers'
  <2>1. CASE k = Write
    BY <1>2, <2>1, EndWInv DEF GiveUp
  <2>2. CASE k # Write
    BY <1>2, <2>2, NextWInv DEF GiveUp
  <2> QED  BY <2>1, <2>2
<1>3. ASSUME NEW j \in Jobs, NEW k \in Kinds, Failed(j, k) \/ Errored(j, k)
      PROVE  ApplyKnows' /\ PageReads' /\ Writers'
  BY <1>2, <1>3 DEF Failed, Errored
<1>4. ASSUME UNCHANGED vars PROVE ApplyKnows' /\ PageReads' /\ Writers'
  BY <1>4, FewerCalls DEF vars, WInv, PageReads, Writers
<1> QED  BY <1>1, <1>3, <1>4, UserWInv, RootWInv, StepTypes DEF WInv, Next, Report

\* However many applies of both pages overlap, and whether or not the file could be
\* read: an apply replaces what its confirmation showed, or its page could not read the
\* file, or what it replaces was written by the other page, by a later apply or by one
\* that was under way beside it.
THEOREM FileChangesAsShown == Spec => ChangedAsShown
<1> DEFINE AsShown == \A j \in Jobs :
              call[j][Write] = "asked" /\ call'[j][Write] = "done" =>
                \/ job[j].base = disk
                \/ ~job[j].read
                \/ \E i \in unseen[j] : job[i].page # job[j].page \/ i > j \/ i \in beside[j]
<1>1. WInv => AsShown
  <2> SUFFICES ASSUME WInv, NEW j \in Jobs, call[j][Write] = "asked"
               PROVE  \/ job[j].base = disk
                      \/ ~job[j].read
                      \/ \E i \in unseen[j] : job[i].page # job[j].page \/ i > j \/ i \in beside[j]
    OBVIOUS
  <2> QED  BY DEF WInv, ApplyKnows, ShownIsDisk, UnseenAre, Waiting
<1>2. WInv /\ [Next]_vars => WInv'
  BY StepWInv
<1>3. WInv => [AsShown]_vars
  BY <1>1
<1> QED  BY InitWInv, <1>2, <1>3, PTL DEF Spec, ChangedAsShown

-----------------------------------------------------------------------------
(* The text of clamd.conf: what an edit of one option and what a remedy     *)
(* change.  Files are sequences of lines, and an edit is followed by the    *)
(* positions of the lines it keeps.                                        *)
HIDE ApplyConstants DEF Jobs, Roles, Stages, AllPages, Texts, InFlight, reportVars, readVars
Positions(S) == IsFiniteSet(S) /\ S \subseteq Int

\* The place of a position among some positions.
Rank(S, i) == Cardinality({j \in S : j <= i})

\* Positions matched with positions in order.
InOrderOnto(h, S, T) ==
  /\ h \in [S -> T]
  /\ \A i, j \in S : i < j => h[i] < h[j]
  /\ \A k \in T : \E i \in S : h[i] = k

\* Every position has a place of its own, in order, and no place is left out.
LEMMA Ranks ==
  ASSUME NEW S, Positions(S)
  PROVE  /\ IsFiniteSet(S) /\ Cardinality(S) \in Nat
         /\ \A i \in S : Rank(S, i) \in 1 .. Cardinality(S)
         /\ \A i, j \in S : i < j => Rank(S, i) < Rank(S, j)
         /\ \A m \in 1 .. Cardinality(S) : \E i \in S : Rank(S, i) = m
<1>1. IsFiniteSet(S) /\ Cardinality(S) \in Nat
  <2> QED BY FS_CardinalityType DEF Positions
<1>2. \A i \in S : Rank(S, i) \in 1 .. Cardinality(S)
  <2> SUFFICES ASSUME NEW i \in S PROVE Rank(S, i) \in 1 .. Cardinality(S) OBVIOUS
  <2> DEFINE U == {j \in S : j <= i}
  <2>1. IsFiniteSet(U) /\ Cardinality(U) <= Cardinality(S) BY <1>1, FS_Subset
  <2>2. Cardinality(U) \in Nat BY <2>1, FS_CardinalityType
  <2>3. U # {} BY DEF Positions
  <2>4. Cardinality(U) # 0 BY <2>1, <2>3, FS_EmptySet
  <2> QED BY <1>1, <2>1, <2>2, <2>4 DEF Rank
<1>3. \A i, j \in S : i < j => Rank(S, i) < Rank(S, j)
  <2> SUFFICES ASSUME NEW i \in S, NEW j \in S, i < j PROVE Rank(S, i) < Rank(S, j) OBVIOUS
  <2> DEFINE U == {k \in S : k <= i}
             V == {k \in S : k <= j}
  <2>1. IsFiniteSet(V) BY <1>1, FS_Subset
  <2>0. \A k \in S : k \in Int BY DEF Positions
  <2>2. U \in SUBSET V /\ j \in V /\ j \notin U
    <3>1. ASSUME NEW k \in U PROVE k \in V BY <2>0
    <3>2. j \in V /\ j \notin U BY <2>0
    <3> QED BY <3>1, <3>2
  <2>3. Cardinality(U) <= Cardinality(V) /\ Cardinality(U) # Cardinality(V)
    <3> HIDE DEF U, V
    <3> QED BY <2>1, <2>2, FS_Subset
  <2>4. Cardinality(U) \in Nat /\ Cardinality(V) \in Nat
    <3> HIDE DEF U, V
    <3> QED BY <2>1, <2>2, FS_Subset, FS_CardinalityType
  <2> QED BY <2>3, <2>4 DEF Rank
<1>4. \A m \in 1 .. Cardinality(S) : \E i \in S : Rank(S, i) = m
  <2> DEFINE C == 1 .. Cardinality(S)
             f == [i \in S |-> Rank(S, i)]
  <2>1. f \in [S -> C] BY <1>2
  <2>2. \A i, j \in S : i # j => Rank(S, i) # Rank(S, j)
    <3> SUFFICES ASSUME NEW i \in S, NEW j \in S, i # j PROVE Rank(S, i) # Rank(S, j) OBVIOUS
    <3>1. i \in Int /\ j \in Int /\ (i < j \/ j < i) BY DEF Positions
    <3>2. Rank(S, i) \in Int /\ Rank(S, j) \in Int BY <1>2
    <3> QED BY <1>3, <3>1, <3>2
  <2>3. f \in Injection(S, C) BY <2>1, <2>2 DEF Injection, IsInjective
  <2>4. IsFiniteSet(C) /\ Cardinality(C) = Cardinality(S) BY <1>1, FS_Interval
  <2>5. f \in Surjection(S, C)
    <3> HIDE DEF C, f
    <3> QED BY <2>3, <2>4, FS_Injection
  <2> QED BY <2>5 DEF Surjection
<1> QED BY <1>1, <1>2, <1>3, <1>4

\* Nth finds the position at a place.
LEMMA NthFinds ==
  ASSUME NEW S, Positions(S), NEW m \in 1 .. Cardinality(S)
  PROVE  Nth(S, m) \in S /\ Rank(S, Nth(S, m)) = m
<1>1. \E i \in S : Rank(S, i) = m BY Ranks
<1> QED BY <1>1 DEF Nth, Rank

\* The position found at a position's place is that position.
LEMMA NthOfRank ==
  ASSUME NEW S, Positions(S), NEW i \in S
  PROVE  Nth(S, Rank(S, i)) = i
<1>1. Rank(S, i) \in 1 .. Cardinality(S) BY Ranks
<1>2. Nth(S, Rank(S, i)) \in S /\ Rank(S, Nth(S, Rank(S, i))) = Rank(S, i) BY <1>1, NthFinds
<1>3. \A a, b \in S : a < b => Rank(S, a) < Rank(S, b) BY Ranks
<1>4. \A a \in S : a \in Int BY DEF Positions
<1> DEFINE x == Nth(S, Rank(S, i))
<1>5. x \in S /\ Rank(S, x) = Rank(S, i) /\ Rank(S, i) \in Int BY <1>1, <1>2
<1>6. ~(x < i) /\ ~(i < x)
  <2> HIDE DEF x
  <2> QED BY <1>3, <1>5
<1>7. x \in Int /\ i \in Int BY <1>4, <1>5
<1> QED BY <1>6, <1>7

\* What lists some positions in order finds them at their places.
LEMMA Enumerated ==
  ASSUME NEW S, Positions(S), NEW c \in Nat, NEW e, InOrderOnto(e, 1 .. c, S)
  PROVE  /\ Cardinality(S) = c
         /\ \A m \in 1 .. c : Nth(S, m) = e[m]
<1> /\ e \in [1 .. c -> S]
    /\ \A i, j \in 1 .. c : i < j => e[i] < e[j]
    /\ \A i \in S : \E m \in 1 .. c : e[m] = i
  BY DEF InOrderOnto
<1>0. \A m \in 1 .. c : e[m] \in S /\ e[m] \in Int
  <2>1. \A i \in S : i \in Int BY DEF Positions
  <2> QED BY <2>1
<1>1. \A i, j \in 1 .. c : i # j => e[i] # e[j]
  <2> SUFFICES ASSUME NEW i \in 1 .. c, NEW j \in 1 .. c, i # j PROVE e[i] # e[j] OBVIOUS
  <2>1. i < j \/ j < i OBVIOUS
  <2>2. e[i] \in Int /\ e[j] \in Int BY <1>0
  <2> QED BY <2>1, <2>2
<1>2. ASSUME NEW m \in 0 .. c PROVE Cardinality({e[k] : k \in 1 .. m}) = m
  <2> DEFINE U == {e[k] : k \in 1 .. m}
             f == [k \in 1 .. m |-> e[k]]
  <2>1. f \in Bijection(1 .. m, U) BY <1>1 DEF Bijection, Injection, Surjection, IsInjective
  <2>2. ExistsBijection(1 .. m, U) BY <2>1 DEF ExistsBijection
  <2>3. IsFiniteSet(1 .. m) /\ Cardinality(1 .. m) = m BY FS_Interval
  <2>4. Cardinality(U) = m
    <3> HIDE DEF U
    <3> QED BY <2>2, <2>3, FS_Bijection
  <2> QED BY <2>4
<1>3. S = {e[k] : k \in 1 .. c} OBVIOUS
<1>4. Cardinality(S) = c
  <2>1. c \in 0 .. c OBVIOUS
  <2> QED BY <1>2, <1>3, <2>1
<1>5. ASSUME NEW m \in 1 .. c PROVE Nth(S, m) = e[m]
  <2>1. {j \in S : j <= e[m]} = {e[k] : k \in 1 .. m}
    <3>1. ASSUME NEW j \in S, j <= e[m] PROVE \E k \in 1 .. m : e[k] = j
      <4>1. PICK k \in 1 .. c : e[k] = j OBVIOUS
      <4>2. ~(m < k)
        <5> SUFFICES ASSUME m < k PROVE FALSE OBVIOUS
        <5>1. e[m] < e[k] OBVIOUS
        <5>2. e[m] \in Int /\ e[k] \in Int BY <1>0
        <5> QED BY <5>1, <5>2, <4>1, <3>1
      <4> QED BY <4>1, <4>2
    <3>2. ASSUME NEW k \in 1 .. m PROVE e[k] \in S /\ e[k] <= e[m]
      <4>1. k = m \/ k < m OBVIOUS
      <4>2. e[k] \in Int /\ e[m] \in Int /\ e[k] \in S BY <1>0
      <4> QED BY <4>1, <4>2
    <3> QED BY <3>1, <3>2
  <2>2. Rank(S, e[m]) = m BY <1>2, <2>1 DEF Rank
  <2>3. Nth(S, m) \in S /\ Rank(S, Nth(S, m)) = m BY <1>4, NthFinds
  <2>4. Nth(S, m) \in Int /\ e[m] \in Int /\ e[m] \in S BY <1>0, <2>3
  <2>5. \A i, j \in S : i < j => Rank(S, i) < Rank(S, j) BY Ranks
  <2>6. ~(Nth(S, m) < e[m]) /\ ~(e[m] < Nth(S, m)) BY <2>2, <2>3, <2>4, <2>5
  <2> QED BY <2>4, <2>6
<1> QED BY <1>4, <1>5

\* What is kept are the lines at the positions, in their order.
LEMMA KeptIs ==
  ASSUME NEW S, Positions(S), NEW c \in Nat, NEW e, InOrderOnto(e, 1 .. c, S),
         NEW s
  PROVE  Kept(s, S) = [m \in 1 .. c |-> s[e[m]]]
<1>1. Cardinality(S) = c /\ \A m \in 1 .. c : Nth(S, m) = e[m] BY Enumerated
<1> QED BY <1>1 DEF Kept

\* Positions matched in order have the same places.
LEMMA Matched ==
  ASSUME NEW S, Positions(S), NEW T, Positions(T),
         NEW h, InOrderOnto(h, S, T)
  PROVE  /\ Cardinality(T) = Cardinality(S)
         /\ \A m \in 1 .. Cardinality(S) : Nth(S, m) \in S /\ Nth(T, m) = h[Nth(S, m)]
<1> DEFINE c == Cardinality(S)
           e == [m \in 1 .. c |-> h[Nth(S, m)]]
<1>1. c \in Nat BY Ranks
<1>2. \A m \in 1 .. c : Nth(S, m) \in S /\ Rank(S, Nth(S, m)) = m BY NthFinds
<1>3. e \in [1 .. c -> T] BY <1>2 DEF InOrderOnto
<1>4. \A i, j \in 1 .. c : i < j => e[i] < e[j]
  <2> SUFFICES ASSUME NEW i \in 1 .. c, NEW j \in 1 .. c, i < j PROVE e[i] < e[j] OBVIOUS
  <2>1. Nth(S, i) \in S /\ Nth(S, j) \in S /\ Rank(S, Nth(S, i)) = i /\ Rank(S, Nth(S, j)) = j BY <1>2
  <2>2. \A a, b \in S : a < b => Rank(S, a) < Rank(S, b) BY Ranks
  <2>3. \A a \in S : a \in Int BY DEF Positions
  <2> DEFINE x == Nth(S, i)
             y == Nth(S, j)
  <2>4. x \in S /\ y \in S /\ x \in Int /\ y \in Int /\ Rank(S, x) = i /\ Rank(S, y) = j BY <2>1, <2>3
  <2>5. x < y
    <3> HIDE DEF x, y
    <3>1. ~(y < x) BY <2>2, <2>4
    <3>2. x # y BY <2>4
    <3> QED BY <2>4, <3>1, <3>2
  <2>6. h[x] < h[y]
    <3> HIDE DEF x, y
    <3> QED BY <2>4, <2>5 DEF InOrderOnto
  <2> QED BY <2>6
<1>5. \A k \in T : \E m \in 1 .. c : e[m] = k
  <2> SUFFICES ASSUME NEW k \in T PROVE \E m \in 1 .. c : e[m] = k OBVIOUS
  <2>1. PICK i \in S : h[i] = k BY DEF InOrderOnto
  <2>2. Rank(S, i) \in 1 .. c BY Ranks
  <2>3. Nth(S, Rank(S, i)) = i BY NthOfRank
  <2> QED BY <2>1, <2>2, <2>3
<1>6. Cardinality(T) = c /\ \A m \in 1 .. c : Nth(T, m) = e[m]
  <2>1. InOrderOnto(e, 1 .. c, T) BY <1>3, <1>4, <1>5 DEF InOrderOnto
  <2> HIDE DEF c, e
  <2> QED BY <1>1, <2>1, Enumerated
<1> QED BY <1>2, <1>6

\* With the same lines at them they keep the same lines.
SameLines(s, S, t, T, h) == InOrderOnto(h, S, T) /\ \A i \in S : s[i] = t[h[i]]

\* Positions matched in order that hold the same lines keep the same.
LEMMA KeptSame ==
  ASSUME NEW S, Positions(S), NEW T, Positions(T),
         NEW s, NEW t, NEW h, SameLines(s, S, t, T, h)
  PROVE  Kept(s, S) = Kept(t, T)
<1> InOrderOnto(h, S, T) /\ \A i \in S : s[i] = t[h[i]] BY DEF SameLines
<1>1. /\ Cardinality(T) = Cardinality(S)
      /\ \A m \in 1 .. Cardinality(S) : Nth(S, m) \in S /\ Nth(T, m) = h[Nth(S, m)]
  BY Matched
<1> QED BY <1>1 DEF Kept

\* The lines kept, one at a time.
LEMMA KeptLines ==
  ASSUME NEW S, Positions(S), NEW L, NEW s, \A i \in S : s[i] \in L
  PROVE  /\ Kept(s, S) \in Seq(L) /\ Len(Kept(s, S)) = Cardinality(S)
         /\ DOMAIN Kept(s, S) = 1 .. Cardinality(S)
         /\ \A m \in 1 .. Cardinality(S) : Nth(S, m) \in S /\ Kept(s, S)[m] = s[Nth(S, m)]
         /\ \A i \in S : Rank(S, i) \in 1 .. Cardinality(S) /\ Kept(s, S)[Rank(S, i)] = s[i]
         /\ \A i \in S : Nth(S, Rank(S, i)) = i
<1>1. Cardinality(S) \in Nat /\ \A i \in S : Rank(S, i) \in 1 .. Cardinality(S) BY Ranks
<1>2. \A m \in 1 .. Cardinality(S) : Nth(S, m) \in S /\ Rank(S, Nth(S, m)) = m BY NthFinds
<1>3. \A i \in S : Nth(S, Rank(S, i)) = i BY NthOfRank
<1>4. Kept(s, S) \in [1 .. Cardinality(S) -> L] BY <1>2 DEF Kept
<1>5. Kept(s, S) \in Seq(L) /\ Len(Kept(s, S)) = Cardinality(S) BY <1>1, <1>4, IsASeq, LenProperties
<1> QED BY <1>1, <1>2, <1>3, <1>4, <1>5 DEF Kept

-----------------------------------------------------------------------------
\* A line that is read back as it is.
SoundLines == {ParseLine(raw) : raw \in RawLines}

\* A line read back from its own text is itself, and names an option if it is one.
LEMMA SoundLine ==
  ASSUME NEW l \in SoundLines
  PROVE  /\ l.raw \in RawLines /\ ParseLine(l.raw) = l
         /\ IsOption(l) => l.key \in Names
         /\ l.active => IsOption(l)
<1>1. PICK raw \in RawLines : l = ParseLine(raw) BY DEF SoundLines
<1>2. l.raw = raw BY <1>1 DEF ParseLine, ConfLine
<1>3. IsOption(l) => l.key \in Names BY <1>1 DEF ParseLine, ConfLine, IsOption
<1>4. l.active => IsOption(l) BY <1>1, NamesAreWords DEF ParseLine, ConfLine, IsOption
<1> QED BY <1>1, <1>2, <1>3, <1>4

\* A sequence of one.
LEMMA Singleton ==
  ASSUME NEW L, NEW x \in L
  PROVE  <<x>> \in Seq(L) /\ Len(<<x>>) = 1 /\ <<x>>[1] = x
OBVIOUS

\* A line written for an option is active and sets that option to that value.
LEMMA OptionLineIs ==
  ASSUME NEW k \in Names, NEW v \in Seq(Words)
  PROVE  /\ OptionLine(k, v) \in SoundLines
         /\ IsOption(OptionLine(k, v)) /\ OptionLine(k, v).active
         /\ OptionLine(k, v).key = k /\ OptionLine(k, v).value = v
         /\ OptionLine(k, v).raw.words # <<>> /\ OptionLine(k, v).raw.hash = FALSE
<1> DEFINE words == <<k>> \o v
           raw == Written(FALSE, FALSE, words)
<1>1. k \in Words /\ k # "" BY NamesAreWords
<1>2. words \in Seq(Words) /\ words # <<>> /\ Head(words) = k /\ Tail(words) = v
  <2>1. <<k>> \in Seq(Words) /\ Len(<<k>>) = 1 /\ <<k>>[1] = k BY <1>1, Singleton
  <2>2. /\ words \in Seq(Words) /\ Len(words) = 1 + Len(v)
        /\ \A i \in 1 .. Len(words) : words[i] = IF i <= 1 THEN <<k>>[i] ELSE v[i - 1]
    BY <2>1, ConcatProperties
  <2>3. Len(v) \in Nat BY LenProperties
  <2>4. words # <<>> BY <2>2, <2>3
  <2>5. words[1] = k BY <2>1, <2>2, <2>3
  <2>6. Head(words) = k BY <2>2, <2>4, <2>5, HeadTailProperties
  <2>7. Tail(words) = v
    <3>1. /\ Tail(words) \in Seq(Words) /\ Len(Tail(words)) = Len(words) - 1
          /\ \A i \in 1 .. Len(Tail(words)) : Tail(words)[i] = words[i + 1]
      BY <2>2, <2>4, HeadTailProperties
    <3>2. Len(Tail(words)) = Len(v) BY <3>1, <2>2, <2>3
    <3>3. ASSUME NEW i \in 1 .. Len(v) PROVE Tail(words)[i] = v[i] BY <2>2, <2>3, <3>1, <3>2
    <3> QED BY <3>1, <3>2, <3>3, SeqEqual
  <2> QED BY <2>2, <2>4, <2>6, <2>7
<1>3. raw \in RawLines
  <2> HIDE DEF words
  <2> QED BY <1>2 DEF RawLines, Written
<1>4. ParseLine(raw) = OptionLine(k, v)
  <2>1. ParseLine(raw) = ConfLine(raw, k, v, TRUE)
    <3> HIDE DEF words
    <3> QED BY <1>2 DEF ParseLine, Written
  <2> QED BY <2>1 DEF OptionLine
<1>5. OptionLine(k, v) \in SoundLines
  <2> HIDE DEF raw
  <2> QED BY <1>3, <1>4 DEF SoundLines
<1>6. OptionLine(k, v) = ConfLine(raw, k, v, TRUE) BY DEF OptionLine
<1>7. raw.words # <<>> /\ raw.hash = FALSE
  <2> HIDE DEF words
  <2> QED BY <1>2 DEF Written
<1>8. ConfLine(raw, k, v, TRUE).raw = raw
  <2> HIDE DEF raw
  <2> QED BY DEF ConfLine
<1>9. /\ IsOption(OptionLine(k, v)) /\ OptionLine(k, v).active
      /\ OptionLine(k, v).key = k /\ OptionLine(k, v).value = v
  <2> HIDE DEF raw
  <2>1. ConfLine(raw, k, v, TRUE).key = k /\ ConfLine(raw, k, v, TRUE).value = v
    BY DEF ConfLine
  <2>2. ConfLine(raw, k, v, TRUE).active BY DEF ConfLine
  <2> QED BY <1>1, <1>6, <2>1, <2>2 DEF IsOption
<1> HIDE DEF raw
<1> QED BY <1>5, <1>6, <1>7, <1>8, <1>9

\* The empty line and the header of what is appended set no option.
LEMMA Fillers ==
  /\ ParseLine(EmptyLine) \in SoundLines /\ ~IsOption(ParseLine(EmptyLine))
  /\ ParseLine(EmptyLine).raw = EmptyLine
  /\ ParseLine(HeaderLine) \in SoundLines /\ ~IsOption(ParseLine(HeaderLine))
  /\ ParseLine(HeaderLine).raw = HeaderLine
<1>1. EmptyLine \in RawLines BY DEF EmptyLine, Written, RawLines
<1>2. HeaderLine \in RawLines
  <2> DEFINE words == <<"---", "added", "by", "ClamGuard", "---">>
  <2>0. "---" \in Words /\ "added" \in Words /\ "by" \in Words /\ "ClamGuard" \in Words BY WordsWritten
  <2>1. ASSUME NEW W, NEW a \in W, NEW b \in W, NEW c \in W, NEW d \in W
        PROVE  <<a, b, c, d, a>> \in Seq(W)
    <3>1. <<a, b, c, d, a>> = <<a, b>> \o <<c, d, a>> OBVIOUS
    <3> QED OBVIOUS
  <2>2. words \in Seq(Words) BY <2>0, <2>1
  <2> HIDE DEF words
  <2>3. Written(TRUE, TRUE, words) \in RawLines BY <2>2 DEF Written, RawLines
  <2> QED BY <2>3 DEF HeaderLine, words
<1>3. EmptyLine.words = <<>> BY DEF EmptyLine, Written
<1>4. HeaderLine.hash /\ HeaderLine.gap BY DEF HeaderLine, Written
<1>5. ParseLine(EmptyLine) = ConfLine(EmptyLine, "", <<>>, FALSE) BY <1>3 DEF ParseLine
<1>6. ParseLine(HeaderLine) = ConfLine(HeaderLine, "", <<>>, FALSE) BY <1>4 DEF ParseLine
<1>7. ParseLine(EmptyLine) \in SoundLines /\ ParseLine(HeaderLine) \in SoundLines BY <1>1, <1>2 DEF SoundLines
<1>8. \A raw : ConfLine(raw, "", <<>>, FALSE).raw = raw /\ ~IsOption(ConfLine(raw, "", <<>>, FALSE))
  BY DEF ConfLine, IsOption
<1> QED BY <1>5, <1>6, <1>7, <1>8

\* What an edit of the option may touch: its lines, and the lines that part the
\* appended options from the rest.
Own(l, key) == (IsOption(l) /\ Lower[l.key] = Lower[key]) \/ l.raw \in {EmptyLine, HeaderLine}

\* Of any lines that are not, the files have the same ones in the same order.
At(s, L) == {i \in DOMAIN s : s[i] \in L}
SameBut(s, t, key) == \A L : (\A l \in L : ~Own(l, key)) => Kept(s, At(s, L)) = Kept(t, At(t, L))

\* Any positions of a file can be counted.
LEMMA FilePositions ==
  ASSUME NEW L, NEW s \in Seq(L), NEW U \in SUBSET DOMAIN s
  PROVE  Positions(U)
<1>1. DOMAIN s = 1 .. Len(s) /\ Len(s) \in Nat BY LenProperties
<1>2. IsFiniteSet(1 .. Len(s)) BY <1>1, FS_Interval
<1>3. IsFiniteSet(U) BY <1>1, <1>2, FS_Subset
<1> QED BY <1>1, <1>3 DEF Positions

\* Files whose lines match, but for the option's own, are the same but for it.
LEMMA SameButMatched ==
  ASSUME NEW s \in Seq(SoundLines), NEW t \in Seq(SoundLines), NEW key,
         NEW S \in SUBSET DOMAIN s, NEW T \in SUBSET DOMAIN t, NEW h, SameLines(s, S, t, T, h),
         \A i \in DOMAIN s \ S : Own(s[i], key), \A i \in DOMAIN t \ T : Own(t[i], key)
  PROVE  SameBut(s, t, key)
<1> SUFFICES ASSUME NEW L, \A l \in L : ~Own(l, key) PROVE Kept(s, At(s, L)) = Kept(t, At(t, L))
  BY DEF SameBut
<1> DEFINE U == At(s, L)
           V == At(t, L)
           g == [i \in U |-> h[i]]
<1>2. U \subseteq S /\ V \subseteq T BY DEF At
<1>3. Positions(U) /\ Positions(V) BY FilePositions DEF At
<1>4. g \in [U -> V] BY <1>2 DEF SameLines, InOrderOnto, At
<1>5. \A i, j \in U : i < j => g[i] < g[j] BY <1>2 DEF SameLines, InOrderOnto
<1>6. \A k \in V : \E i \in U : g[i] = k BY <1>2 DEF SameLines, InOrderOnto, At
<1>7. \A i \in U : s[i] = t[g[i]] BY <1>2 DEF SameLines
<1>8. SameLines(s, U, t, V, g) BY <1>4, <1>5, <1>6, <1>7 DEF SameLines, InOrderOnto
<1>9. Kept(s, U) = Kept(t, V)
  <2> HIDE DEF U, V, g
  <2> QED BY <1>3, <1>8, KeptSame
<1> QED BY <1>9

\* Edits of one option, one after the other, are one edit of it.
LEMMA SameButThrough ==
  ASSUME NEW s, NEW t, NEW u, NEW key, SameBut(s, t, key), SameBut(t, u, key)
  PROVE  SameBut(s, u, key)
BY DEF SameBut

-----------------------------------------------------------------------------
\* The least and the greatest of some positions.
LEMMA MinIs ==
  ASSUME NEW S, Positions(S), S # {}
  PROVE  Min(S) \in S /\ \A i \in S : Min(S) <= i
<1>1. Cardinality(S) \in Nat /\ Cardinality(S) # 0 BY Ranks, FS_EmptySet DEF Positions
<1>2. 1 \in 1 .. Cardinality(S) BY <1>1
<1>3. PICK i \in S : Rank(S, i) = 1 BY <1>2, Ranks
<1>4. \A j \in S : Rank(S, j) \in 1 .. Cardinality(S) /\ (j < i => Rank(S, j) < Rank(S, i)) BY Ranks
<1>5. \A j \in S : j \in Int BY DEF Positions
<1>6. \A j \in S : i <= j BY <1>3, <1>4, <1>5
<1> QED BY <1>6 DEF Min

\* The least of one position.
LEMMA MinOne ==
  ASSUME NEW p \in Int
  PROVE  Min({p}) = p
<1>1. Positions({p}) BY FS_Singleton DEF Positions
<1>2. Min({p}) \in {p} BY <1>1, MinIs
<1> QED BY <1>2

\* The greatest of some positions is one of them.
LEMMA MaxIs ==
  ASSUME NEW S, Positions(S), S # {}
  PROVE  Max(S) \in S /\ \A i \in S : i <= Max(S)
<1>1. Cardinality(S) \in Nat /\ Cardinality(S) # 0 BY Ranks, FS_EmptySet DEF Positions
<1>2. Cardinality(S) \in 1 .. Cardinality(S) BY <1>1
<1>3. PICK i \in S : Rank(S, i) = Cardinality(S) BY <1>2, Ranks
<1>4. \A j \in S : Rank(S, j) \in 1 .. Cardinality(S) /\ (i < j => Rank(S, i) < Rank(S, j)) BY Ranks
<1>5. \A j \in S : j \in Int BY DEF Positions
<1>6. \A j \in S : j <= i BY <1>1, <1>3, <1>4, <1>5
<1> QED BY <1>6 DEF Max

\* A file and what is taken from it.
LEMMA FileIs ==
  ASSUME NEW s \in Seq(SoundLines)
  PROVE  /\ Len(s) \in Nat /\ DOMAIN s = 1 .. Len(s) /\ Positions(DOMAIN s)
         /\ \A i \in DOMAIN s : s[i] \in SoundLines
<1>1. DOMAIN s \in SUBSET DOMAIN s OBVIOUS
<1> QED BY <1>1, FilePositions, LenProperties

\* Lines taken away leave the others, in their order, at their places.
LEMMA WithoutIs ==
  ASSUME NEW s \in Seq(SoundLines), NEW D \in SUBSET DOMAIN s
  PROVE  LET t == Without(s, D)
             S == DOMAIN s \ D
         IN  /\ t \in Seq(SoundLines) /\ Positions(S) /\ DOMAIN t = 1 .. Cardinality(S)
             /\ \A m \in DOMAIN t : Nth(S, m) \in S /\ Rank(S, Nth(S, m)) = m /\ t[m] = s[Nth(S, m)]
             /\ \A i \in S : Rank(S, i) \in DOMAIN t /\ t[Rank(S, i)] = s[i]
             /\ \A a \in S : (\A i \in D : a < i) => \A i \in 1 .. a : Rank(S, i) = i /\ i \in S
<1> DEFINE S == DOMAIN s \ D
<1>1. Positions(S) BY FilePositions
<1>2. \A i \in S : s[i] \in SoundLines BY FileIs
<1>3. /\ Kept(s, S) \in Seq(SoundLines) /\ DOMAIN Kept(s, S) = 1 .. Cardinality(S)
      /\ \A m \in 1 .. Cardinality(S) : Nth(S, m) \in S /\ Kept(s, S)[m] = s[Nth(S, m)]
      /\ \A i \in S : Rank(S, i) \in 1 .. Cardinality(S) /\ Kept(s, S)[Rank(S, i)] = s[i]
  <2> HIDE DEF S
  <2> QED BY <1>1, <1>2, KeptLines
<1>4. \A m \in 1 .. Cardinality(S) : Rank(S, Nth(S, m)) = m
  <2> HIDE DEF S
  <2> QED BY <1>1, NthFinds
<1>5. ASSUME NEW a \in S, \A i \in D : a < i, NEW i \in 1 .. a PROVE Rank(S, i) = i /\ i \in S
  <2>1. DOMAIN s = 1 .. Len(s) /\ Len(s) \in Nat BY FileIs
  <2>2. \A j \in 1 .. a : j \in S BY <1>5, <2>1
  <2>3. {j \in S : j <= i} = 1 .. i BY <2>1, <2>2
  <2>4. Cardinality(1 .. i) = i BY FS_Interval
  <2> QED BY <2>2, <2>3, <2>4 DEF Rank
<1> QED BY <1>1, <1>3, <1>4, <1>5 DEF Without

\* Taking nothing away.
LEMMA WithoutNothing ==
  ASSUME NEW s \in Seq(SoundLines)
  PROVE  Without(s, {}) = s
<1> DEFINE n == Len(s)
           e == [i \in 1 .. n |-> i]
<1>1. n \in Nat /\ DOMAIN s = 1 .. n BY FileIs
<1>2. InOrderOnto(e, 1 .. n, DOMAIN s) BY <1>1 DEF InOrderOnto
<1>3. Positions(DOMAIN s) BY FileIs
<1>4. Kept(s, DOMAIN s) = [m \in 1 .. n |-> s[e[m]]]
  <2> HIDE DEF n, e
  <2> QED BY <1>1, <1>2, <1>3, KeptIs
<1>5. [m \in 1 .. n |-> s[e[m]]] = s BY <1>1
<1>6. DOMAIN s \ {} = DOMAIN s OBVIOUS
<1> QED BY <1>4, <1>5, <1>6 DEF Without

\* Taking lines of the option away leaves the rest of the file.
LEMMA WithoutKeeps ==
  ASSUME NEW s \in Seq(SoundLines), NEW D \in SUBSET DOMAIN s, NEW key, \A i \in D : Own(s[i], key)
  PROVE  SameBut(s, Without(s, D), key)
<1> DEFINE t == Without(s, D)
           S == DOMAIN s \ D
           T == DOMAIN t
           h == [i \in S |-> Rank(S, i)]
<1>1. /\ t \in Seq(SoundLines) /\ Positions(S) /\ DOMAIN t = 1 .. Cardinality(S)
      /\ \A m \in DOMAIN t : Nth(S, m) \in S /\ Rank(S, Nth(S, m)) = m
      /\ \A i \in S : Rank(S, i) \in DOMAIN t /\ t[Rank(S, i)] = s[i]
  BY WithoutIs
<1>2. \A i, j \in S : i < j => Rank(S, i) < Rank(S, j)
  <2> HIDE DEF S
  <2> QED BY <1>1, Ranks
<1>3. InOrderOnto(h, S, T) BY <1>1, <1>2 DEF InOrderOnto
<1>4. SameLines(s, S, t, T, h) BY <1>1, <1>3 DEF SameLines
<1>5. \A i \in DOMAIN s \ S : Own(s[i], key) OBVIOUS
<1>6. \A i \in DOMAIN t \ T : Own(t[i], key) OBVIOUS
<1>7. S \in SUBSET DOMAIN s /\ T \in SUBSET DOMAIN t OBVIOUS
<1> HIDE DEF S, T, h, t
<1>8. SameBut(s, t, key) BY <1>1, <1>4, <1>5, <1>6, <1>7, SameButMatched
<1> QED BY <1>8 DEF t

-----------------------------------------------------------------------------
\* Lines in place of one.
LEMMA SpliceIs ==
  ASSUME NEW s \in Seq(SoundLines), NEW p \in DOMAIN s, NEW new \in Seq(SoundLines)
  PROVE  LET t == Splice(s, p, new)
         IN  /\ t \in Seq(SoundLines) /\ Len(t) = Len(s) - 1 + Len(new)
             /\ \A i \in 1 .. p - 1 : t[i] = s[i]
             /\ \A i \in 1 .. Len(new) : t[p + i - 1] = new[i]
             /\ \A i \in p + 1 .. Len(s) : t[i + Len(new) - 1] = s[i]
<1> DEFINE a == SubSeq(s, 1, p - 1)
           b == SubSeq(s, p + 1, Len(s))
<1>1. /\ Len(s) \in Nat /\ DOMAIN s = 1 .. Len(s) /\ p \in Int /\ 1 <= p /\ p <= Len(s)
      /\ \A i \in 1 .. Len(s) : s[i] \in SoundLines
      /\ Len(new) \in Nat
  BY FileIs
<1>2. /\ a \in Seq(SoundLines) /\ Len(a) = p - 1 /\ \A i \in 1 .. p - 1 : a[i] = s[i]
  <2>1. 1 \in Int /\ p - 1 \in Int /\ \A i \in 1 .. p - 1 : s[i] \in SoundLines BY <1>1
  <2>2. /\ a \in Seq(SoundLines) /\ Len(a) = IF 1 <= p - 1 THEN p - 1 - 1 + 1 ELSE 0
        /\ \A i \in 1 .. p - 1 - 1 + 1 : a[i] = s[1 + i - 1]
    BY <2>1, SubSeqProperties
  <2> HIDE DEF a
  <2> QED BY <1>1, <2>2
<1>3. /\ b \in Seq(SoundLines) /\ Len(b) = Len(s) - p /\ \A i \in 1 .. Len(s) - p : b[i] = s[p + i]
  <2>1. p + 1 \in Int /\ Len(s) \in Int /\ \A i \in p + 1 .. Len(s) : s[i] \in SoundLines BY <1>1
  <2>2. /\ b \in Seq(SoundLines) /\ Len(b) = IF p + 1 <= Len(s) THEN Len(s) - (p + 1) + 1 ELSE 0
        /\ \A i \in 1 .. Len(s) - (p + 1) + 1 : b[i] = s[(p + 1) + i - 1]
    BY <2>1, SubSeqProperties
  <2> HIDE DEF b
  <2>3. Len(b) = Len(s) - p BY <1>1, <2>2
  <2>4. ASSUME NEW i \in 1 .. Len(s) - p PROVE b[i] = s[p + i]
    <3>1. i \in 1 .. Len(s) - (p + 1) + 1 /\ (p + 1) + i - 1 = p + i BY <1>1
    <3>2. b[i] = s[(p + 1) + i - 1] BY <2>2, <3>1
    <3> QED BY <3>1, <3>2
  <2> QED BY <2>2, <2>3, <2>4
<1> HIDE DEF a, b
<1>4. /\ a \o new \in Seq(SoundLines) /\ Len(a \o new) = p - 1 + Len(new)
      /\ \A i \in 1 .. p - 1 + Len(new) : (a \o new)[i] = IF i <= p - 1 THEN a[i] ELSE new[i - (p - 1)]
  BY <1>2, ConcatProperties
<1> DEFINE c == a \o new
           t == c \o b
<1>5. /\ t \in Seq(SoundLines) /\ Len(t) = p - 1 + Len(new) + (Len(s) - p)
      /\ \A i \in 1 .. p - 1 + Len(new) + (Len(s) - p) :
            t[i] = IF i <= p - 1 + Len(new) THEN c[i] ELSE b[i - (p - 1 + Len(new))]
  <2>1. c \in Seq(SoundLines) /\ Len(c) = p - 1 + Len(new) BY <1>4
  <2> HIDE DEF c
  <2>2. /\ c \o b \in Seq(SoundLines) /\ Len(c \o b) = Len(c) + Len(b)
        /\ \A i \in 1 .. Len(c) + Len(b) : (c \o b)[i] = IF i <= Len(c) THEN c[i] ELSE b[i - Len(c)]
    BY <1>3, <2>1, ConcatProperties
  <2> QED BY <1>3, <2>1, <2>2
<1>6. t = Splice(s, p, new) BY DEF Splice, a, b
<1> HIDE DEF t
<1>7. Len(t) = Len(s) - 1 + Len(new) BY <1>1, <1>5
<1>8. ASSUME NEW i \in 1 .. p - 1 PROVE t[i] = s[i] BY <1>1, <1>2, <1>4, <1>5
<1>9. ASSUME NEW i \in 1 .. Len(new) PROVE t[p + i - 1] = new[i]
  <2>1. p + i - 1 \in 1 .. p - 1 + Len(new) /\ ~(p + i - 1 <= p - 1) /\ (p + i - 1) - (p - 1) = i BY <1>1
  <2>2. p + i - 1 \in 1 .. p - 1 + Len(new) + (Len(s) - p) BY <1>1
  <2> HIDE DEF c
  <2>3. t[p + i - 1] = c[p + i - 1] BY <1>1, <1>5, <2>1, <2>2
  <2> QED BY <1>4, <2>1, <2>3 DEF c
<1>10. ASSUME NEW i \in p + 1 .. Len(s) PROVE t[i + Len(new) - 1] = s[i]
  <2>1. /\ i + Len(new) - 1 \in 1 .. p - 1 + Len(new) + (Len(s) - p)
        /\ ~(i + Len(new) - 1 <= p - 1 + Len(new))
        /\ (i + Len(new) - 1) - (p - 1 + Len(new)) = i - p
        /\ i - p \in 1 .. Len(s) - p /\ p + (i - p) = i
    BY <1>1
  <2> HIDE DEF c
  <2>2. t[i + Len(new) - 1] = b[i - p] BY <1>5, <2>1
  <2> QED BY <1>3, <2>1, <2>2
<1> QED BY <1>5, <1>6, <1>7, <1>8, <1>9, <1>10

\* Putting lines of the option in place of one of its lines leaves the rest.
LEMMA SpliceKeeps ==
  ASSUME NEW s \in Seq(SoundLines), NEW p \in DOMAIN s, NEW new \in Seq(SoundLines), NEW key,
         Own(s[p], key), \A i \in 1 .. Len(new) : Own(new[i], key)
  PROVE  SameBut(s, Splice(s, p, new), key)
<1> DEFINE t == Splice(s, p, new)
           n == Len(new)
           S == DOMAIN s \ {p}
           T == DOMAIN t \ (p .. p + n - 1)
           h == [i \in S |-> IF i < p THEN i ELSE i + n - 1]
<1>1. /\ Len(s) \in Nat /\ DOMAIN s = 1 .. Len(s) /\ p \in Int /\ 1 <= p /\ p <= Len(s) /\ n \in Nat
  BY FileIs
<1>2. /\ t \in Seq(SoundLines) /\ Len(t) = Len(s) - 1 + n
      /\ \A i \in 1 .. p - 1 : t[i] = s[i]
      /\ \A i \in 1 .. n : t[p + i - 1] = new[i]
      /\ \A i \in p + 1 .. Len(s) : t[i + n - 1] = s[i]
  BY SpliceIs
<1> HIDE DEF t, n
<1>3. DOMAIN t = 1 .. Len(s) - 1 + n BY <1>2, FileIs
<1>4. h \in [S -> T] BY <1>1, <1>3
<1>5. \A i, j \in S : i < j => h[i] < h[j] BY <1>1
<1>6. ASSUME NEW k \in T PROVE \E i \in S : h[i] = k
  <2>1. CASE k < p
    <3>1. k \in S /\ h[k] = k BY <1>1, <1>3, <2>1
    <3> QED BY <3>1
  <2>2. CASE ~(k < p)
    <3>1. k - n + 1 \in S /\ h[k - n + 1] = k BY <1>1, <1>3, <2>2
    <3> QED BY <3>1
  <2> QED BY <2>1, <2>2
<1>7. \A i \in S : s[i] = t[h[i]] BY <1>1, <1>2
<1>8. SameLines(s, S, t, T, h) BY <1>4, <1>5, <1>6, <1>7 DEF SameLines, InOrderOnto
<1>9. \A i \in DOMAIN s \ S : Own(s[i], key) OBVIOUS
<1>10. ASSUME NEW k \in DOMAIN t \ T PROVE Own(t[k], key)
  <2>1. k - p + 1 \in 1 .. n /\ p + (k - p + 1) - 1 = k BY <1>1, <1>3
  <2>2. t[k] = new[k - p + 1] BY <1>2, <2>1
  <2> QED BY <2>1, <2>2 DEF n
<1>11. S \in SUBSET DOMAIN s /\ T \in SUBSET DOMAIN t OBVIOUS
<1> HIDE DEF S, T, h
<1>12. SameBut(s, t, key) BY <1>2, <1>8, <1>9, <1>10, <1>11, SameButMatched
<1> QED BY <1>12 DEF t

\* One line rewritten.
LEMMA RewriteIs ==
  ASSUME NEW s \in Seq(SoundLines), NEW p \in DOMAIN s, IsOption(s[p]), NEW v \in Seq(Words)
  PROVE  LET line == OptionLine(s[p].key, v)
         IN  /\ line \in SoundLines /\ s[p].key \in Names
             /\ Rewrite(s, p, v) = [s EXCEPT ![p] = line]
             /\ Rewrite(s, p, v) = Splice(s, p, <<line>>)
             /\ Rewrite(s, p, v) \in Seq(SoundLines) /\ Len(Rewrite(s, p, v)) = Len(s)
             /\ \A i \in DOMAIN s : Rewrite(s, p, v)[i] = IF i = p THEN line ELSE s[i]
<1> DEFINE line == OptionLine(s[p].key, v)
           t == [s EXCEPT ![p] = line]
           u == Splice(s, p, <<line>>)
<1>1. s[p].key \in Names /\ DOMAIN s = 1 .. Len(s) /\ Len(s) \in Nat BY FileIs, SoundLine
<1>2. line \in SoundLines BY <1>1, OptionLineIs
<1>3. Rewrite(s, p, v) = t BY DEF Rewrite
<1> HIDE DEF line
<1>4. /\ t \in Seq(SoundLines) /\ Len(t) = Len(s)
      /\ \A i \in 1 .. Len(s) : t[i] = IF i = p THEN line ELSE s[i]
  BY <1>1, <1>2, ExceptSeq
<1>5. <<line>> \in Seq(SoundLines) /\ Len(<<line>>) = 1 /\ <<line>>[1] = line BY <1>2, Singleton
<1>6. /\ u \in Seq(SoundLines) /\ Len(u) = Len(s) - 1 + 1
      /\ \A i \in 1 .. p - 1 : u[i] = s[i]
      /\ \A i \in 1 .. 1 : u[p + i - 1] = <<line>>[i]
      /\ \A i \in p + 1 .. Len(s) : u[i + 1 - 1] = s[i]
  BY <1>5, SpliceIs
<1> HIDE DEF t, u
<1>7. p \in Int /\ 1 <= p /\ p <= Len(s) BY <1>1
<1>8. u[p] = line
  <2>1. 1 \in 1 .. 1 /\ p + 1 - 1 = p BY <1>7
  <2> QED BY <1>5, <1>6, <2>1
<1>9. \A i \in 1 .. Len(s) : u[i] = t[i]
  <2> SUFFICES ASSUME NEW i \in 1 .. Len(s) PROVE u[i] = t[i] OBVIOUS
  <2>1. CASE i = p BY <1>4, <1>8, <2>1
  <2>2. CASE i < p BY <1>4, <1>6, <1>7, <2>2
  <2>3. CASE i > p
    <3>1. i \in p + 1 .. Len(s) /\ i + 1 - 1 = i BY <1>1, <1>7, <2>3
    <3> QED BY <1>4, <1>6, <1>7, <2>3, <3>1
  <2> QED BY <1>7, <2>1, <2>2, <2>3
<1>10. u = t BY <1>1, <1>4, <1>6, <1>9, SeqEqual
<1> QED BY <1>1, <1>2, <1>3, <1>4, <1>10 DEF line, t, u

-----------------------------------------------------------------------------
\* The lines that are an option's are these values', one after the other.
IsActive(l, key) == IsOption(l) /\ Lower[l.key] = Lower[key] /\ l.active
LineOf(l, key, v) == l.key \in Names /\ Lower[l.key] = Lower[key] /\ l = OptionLine(l.key, v)
NowAt(t, key, values, a) ==
  /\ a \in Nat \ {0} /\ a + Len(values) - 1 <= Len(t)
  /\ Active(t, key) = a .. a + Len(values) - 1
  /\ \A i \in 1 .. Len(values) : LineOf(t[a + i - 1], key, values[i])
Now(t, key, values) ==
  t \in Seq(SoundLines) /\ values \in Seq(Seq(Words)) /\ \E a \in Nat \ {0} : NowAt(t, key, values, a)

\* The active lines of an option are positions of the file.
LEMMA ActiveIs ==
  ASSUME NEW s \in Seq(SoundLines), NEW key
  PROVE  /\ Active(s, key) = {i \in DOMAIN s : IsActive(s[i], key)}
         /\ Active(s, key) \subseteq DOMAIN s /\ Positions(Active(s, key))
<1>1. Active(s, key) = {i \in DOMAIN s : IsActive(s[i], key)} BY DEF Active, Find, IsActive
<1> QED BY <1>1, FilePositions

\* A line that sets the option is the option's own.
LEMMA LineOfIs ==
  ASSUME NEW l, NEW key, NEW v \in Seq(Words), LineOf(l, key, v)
  PROVE  l \in SoundLines /\ IsActive(l, key) /\ Own(l, key) /\ l.value = v /\ IsOption(l)
<1> DEFINE k == l.key
<1>1. k \in Names /\ Lower[k] = Lower[key] /\ l = OptionLine(k, v) BY DEF LineOf
<1> HIDE DEF k
<1>2. /\ OptionLine(k, v) \in SoundLines
      /\ IsOption(OptionLine(k, v)) /\ OptionLine(k, v).active
      /\ OptionLine(k, v).key = k /\ OptionLine(k, v).value = v
  BY <1>1, OptionLineIs
<1> QED BY <1>1, <1>2 DEF IsActive, Own

\* A line written for the option, in whatever letters, sets it.
LEMMA OptionLineOf ==
  ASSUME NEW k \in Names, NEW key, Lower[k] = Lower[key], NEW v \in Seq(Words)
  PROVE  LineOf(OptionLine(k, v), key, v)
<1>1. OptionLine(k, v).key = k BY OptionLineIs
<1> QED BY <1>1 DEF LineOf

\* Positions below lines put in place of one, counted back to where they were.
LEMMA Shift ==
  ASSUME NEW l \in Int, NEW p \in Int, NEW n \in Int, NEW i \in Int, 1 <= p
  PROVE  /\ i > p + n - 1 /\ i <= l - 1 + n => i - n + 1 \in p + 1 .. l /\ i - n + 1 \in 1 .. l /\ i - n + 1 # p
         /\ (i - n + 1) + n - 1 = i
         /\ i \in p .. p + n - 1 => i - p + 1 \in 1 .. n
         /\ p + (i - p + 1) - 1 = i
OBVIOUS

\* Lines in place of the only one.
LEMMA SpliceNow ==
  ASSUME NEW s \in Seq(SoundLines), NEW key, NEW p \in Find(s, key), Active(s, key) \subseteq {p},
         NEW new \in Seq(SoundLines), NEW values \in Seq(Seq(Words)), Len(new) = Len(values),
         \A i \in 1 .. Len(values) : LineOf(new[i], key, values[i])
  PROVE  LET t == Splice(s, p, new)
         IN  Now(t, key, values) /\ NowAt(t, key, values, p) /\ SameBut(s, t, key)
<1> DEFINE t == Splice(s, p, new)
           n == Len(values)
<1>1. /\ Len(s) \in Nat /\ DOMAIN s = 1 .. Len(s) /\ p \in DOMAIN s /\ p \in Int /\ 1 <= p /\ p <= Len(s)
      /\ n \in Nat /\ Own(s[p], key)
  BY FileIs, LenProperties DEF Find, Own
<1>0. n = Len(new) /\ n = Len(values) OBVIOUS
<1>2. /\ t \in Seq(SoundLines) /\ Len(t) = Len(s) - 1 + n
      /\ \A i \in 1 .. p - 1 : t[i] = s[i]
      /\ \A i \in 1 .. n : t[p + i - 1] = new[i]
      /\ \A i \in p + 1 .. Len(s) : t[i + n - 1] = s[i]
  <2>1. /\ t \in Seq(SoundLines) /\ Len(t) = Len(s) - 1 + Len(new)
        /\ \A i \in 1 .. p - 1 : t[i] = s[i]
        /\ \A i \in 1 .. Len(new) : t[p + i - 1] = new[i]
        /\ \A i \in p + 1 .. Len(s) : t[i + Len(new) - 1] = s[i]
    BY <1>1, SpliceIs
  <2> HIDE DEF t
  <2> QED BY <2>1
<1>3. \A i \in 1 .. n : values[i] \in Seq(Words) BY LenProperties
<1>4. \A i \in 1 .. n : IsActive(new[i], key) /\ Own(new[i], key) BY <1>3, LineOfIs
<1>5. SameBut(s, t, key) BY <1>1, <1>4, SpliceKeeps
<1> HIDE DEF t, n
<1>6. DOMAIN t = 1 .. Len(s) - 1 + n BY <1>2, FileIs
<1>7. \A i \in DOMAIN s : i # p => ~IsActive(s[i], key) BY ActiveIs
<1>8. ASSUME NEW i \in DOMAIN t PROVE IsActive(t[i], key) <=> i \in p .. p + n - 1
  <2>0. i \in Int /\ 1 <= i /\ i <= Len(s) - 1 + n BY <1>6
  <2>1. CASE i < p BY <1>1, <1>2, <1>7, <2>0, <2>1
  <2>2. CASE i \in p .. p + n - 1
    <3>1. i - p + 1 \in 1 .. n /\ p + (i - p + 1) - 1 = i BY <1>1, <2>2
    <3> QED BY <1>2, <1>4, <2>2, <3>1
  <2>3. CASE i > p + n - 1
    <3>0. Len(s) \in Int /\ n \in Int /\ p \in Int /\ 1 <= p /\ i > p + n - 1 /\ i <= Len(s) - 1 + n
      BY <1>1, <2>0, <2>3
    <3>1. i - n + 1 \in p + 1 .. Len(s) /\ i - n + 1 \in 1 .. Len(s) /\ i - n + 1 # p /\ (i - n + 1) + n - 1 = i
      BY <2>0, <3>0, Shift
    <3>2. i - n + 1 \in DOMAIN s /\ i - n + 1 # p BY <1>1, <3>1
    <3>3. ~IsActive(t[i], key) BY <1>2, <1>7, <3>1, <3>2
    <3> QED BY <2>3, <3>3, <1>1
  <2> QED BY <1>1, <2>0, <2>1, <2>2, <2>3
<1>9. Active(t, key) = p .. p + n - 1
  <2>1. Active(t, key) = {i \in DOMAIN t : IsActive(t[i], key)} BY <1>2, ActiveIs
  <2>2. p .. p + n - 1 \subseteq DOMAIN t BY <1>1, <1>6
  <2> QED BY <1>8, <2>1, <2>2
<1>10. NowAt(t, key, values, p) BY <1>0, <1>1, <1>2, <1>9 DEF NowAt
<1>11. Now(t, key, values)
  <2>1. p \in Nat \ {0} BY <1>1
  <2> QED BY <1>2, <1>10, <2>1 DEF Now
<1> QED BY <1>5, <1>10, <1>11 DEF t

\* Taking lines of the option away.
LEMMA WithoutActive ==
  ASSUME NEW s \in Seq(SoundLines), NEW key, NEW D \in SUBSET Active(s, key)
  PROVE  LET t == Without(s, D)
             S == DOMAIN s \ D
         IN  /\ t \in Seq(SoundLines) /\ SameBut(s, t, key)
             /\ Active(t, key) = {Rank(S, i) : i \in Active(s, key) \ D}
<1> DEFINE t == Without(s, D)
           S == DOMAIN s \ D
<1>1. Active(s, key) = {i \in DOMAIN s : IsActive(s[i], key)} BY ActiveIs
<1>2. D \in SUBSET DOMAIN s /\ \A i \in D : Own(s[i], key) BY <1>1 DEF IsActive, Own
<1>3. SameBut(s, t, key) BY <1>2, WithoutKeeps
<1>4. /\ t \in Seq(SoundLines)
      /\ \A m \in DOMAIN t : Nth(S, m) \in S /\ Rank(S, Nth(S, m)) = m /\ t[m] = s[Nth(S, m)]
      /\ \A i \in S : Rank(S, i) \in DOMAIN t /\ t[Rank(S, i)] = s[i]
  BY <1>2, WithoutIs
<1> HIDE DEF t, S
<1>5. Active(t, key) = {i \in DOMAIN t : IsActive(t[i], key)} BY <1>4, ActiveIs
<1>6. ASSUME NEW m \in Active(t, key) PROVE m \in {Rank(S, i) : i \in Active(s, key) \ D}
  <2>1. Nth(S, m) \in S /\ Rank(S, Nth(S, m)) = m /\ IsActive(s[Nth(S, m)], key) BY <1>4, <1>5
  <2>2. Nth(S, m) \in Active(s, key) \ D BY <1>1, <2>1 DEF S
  <2> QED BY <2>1, <2>2
<1>7. ASSUME NEW i \in Active(s, key) \ D PROVE Rank(S, i) \in Active(t, key)
  <2>1. i \in S BY <1>1 DEF S
  <2> QED BY <1>1, <1>4, <1>5, <2>1
<1>8. Active(t, key) = {Rank(S, i) : i \in Active(s, key) \ D} BY <1>6, <1>7
<1> QED BY <1>3, <1>4, <1>8 DEF t, S

\* All but the first.
LEMMA WithoutRest ==
  ASSUME NEW s \in Seq(SoundLines), NEW key, Active(s, key) # {}
  PROVE  LET p == Min(Active(s, key))
             t == Without(s, Active(s, key) \ {p})
         IN  /\ p \in Active(s, key) /\ p \in Find(t, key) /\ t[p] = s[p]
             /\ Active(t, key) = {p} /\ t \in Seq(SoundLines) /\ SameBut(s, t, key)
<1> DEFINE A == Active(s, key)
           p == Min(A)
           D == A \ {p}
           t == Without(s, D)
           S == DOMAIN s \ D
<1>1. Positions(A) /\ A \subseteq DOMAIN s BY ActiveIs
<1>2. p \in A /\ \A i \in A : p <= i
  <2>1. A # {} OBVIOUS
  <2> HIDE DEF A
  <2> QED BY <1>1, <2>1, MinIs
<1>3. /\ t \in Seq(SoundLines) /\ SameBut(s, t, key)
      /\ Active(t, key) = {Rank(S, i) : i \in A \ D}
  <2>1. D \in SUBSET Active(s, key) OBVIOUS
  <2> HIDE DEF D
  <2> QED BY <2>1, WithoutActive
<1>4. p \in S /\ \A i \in D : p < i
  <2>1. \A i \in A : i \in Int BY <1>1 DEF Positions
  <2> HIDE DEF A
  <2> QED BY <1>1, <1>2, <2>1
<1>5. p \in Int /\ 1 <= p
  <2> HIDE DEF p, A
  <2> QED BY <1>1, <1>2, FileIs
<1>6. Rank(S, p) = p /\ t[Rank(S, p)] = s[p] /\ Rank(S, p) \in DOMAIN t
  <2>1. D \in SUBSET DOMAIN s BY <1>1
  <2> HIDE DEF p, D
  <2>2. p \in 1 .. p BY <1>5
  <2>3. \A i \in 1 .. p : Rank(S, i) = i /\ i \in S BY <1>4, <2>1, WithoutIs
  <2>4. \A i \in S : Rank(S, i) \in DOMAIN t /\ t[Rank(S, i)] = s[i] BY <2>1, WithoutIs
  <2> HIDE DEF S, t
  <2> QED BY <2>2, <2>3, <2>4
<1>7. A \ D = {p} BY <1>2
<1>8. Active(t, key) = {p} BY <1>3, <1>6, <1>7
<1>9. p \in Find(t, key) BY <1>8 DEF Active
<1> HIDE DEF t, S
<1> QED BY <1>2, <1>3, <1>6, <1>8, <1>9 DEF t

-----------------------------------------------------------------------------
\* A file that goes on: the same lines, and then lines that part or are the option's.
GoesOn(s, t, n, key) ==
  /\ t \in Seq(SoundLines) /\ n \in 0 .. Len(s) /\ n <= Len(t)
  /\ \A i \in 1 .. n : t[i] = s[i]
  /\ \A i \in n + 1 .. Len(s) : Own(s[i], key)
  /\ \A i \in n + 1 .. Len(t) : Own(t[i], key)

\* A file that only goes on with the option's lines and fillers is the same but for it.
LEMMA GoesOnKeeps ==
  ASSUME NEW s \in Seq(SoundLines), NEW t, NEW n, NEW key, GoesOn(s, t, n, key)
  PROVE  SameBut(s, t, key)
<1> DEFINE S == 1 .. n
           h == [i \in S |-> i]
<1>1. /\ t \in Seq(SoundLines) /\ Len(s) \in Nat /\ DOMAIN s = 1 .. Len(s) /\ n \in Nat /\ n <= Len(s)
      /\ Len(t) \in Nat /\ DOMAIN t = 1 .. Len(t) /\ n <= Len(t)
  BY FileIs DEF GoesOn
<1>2. S \in SUBSET DOMAIN s /\ S \in SUBSET DOMAIN t BY <1>1
<1>3. SameLines(s, S, t, S, h) BY DEF SameLines, InOrderOnto, GoesOn
<1>4. ASSUME NEW i \in DOMAIN s \ S PROVE Own(s[i], key)
  <2>1. i \in n + 1 .. Len(s) BY <1>1
  <2> QED BY <2>1 DEF GoesOn
<1>5. ASSUME NEW i \in DOMAIN t \ S PROVE Own(t[i], key)
  <2>1. i \in n + 1 .. Len(t) BY <1>1
  <2> QED BY <2>1 DEF GoesOn
<1> HIDE DEF S, h
<1> QED BY <1>1, <1>2, <1>3, <1>4, <1>5, SameButMatched

\* What an appended option is put below.
LEMMA BodyIs ==
  ASSUME NEW s \in Seq(SoundLines)
  PROVE  LET last == Max({0} \cup {i \in DOMAIN s : ~IsBlank(s[i])})
             body == SubSeq(s, 1, last)
         IN  /\ last \in 0 .. Len(s) /\ \A i \in last + 1 .. Len(s) : IsBlank(s[i])
             /\ body \in Seq(SoundLines) /\ Len(body) = last /\ \A i \in 1 .. last : body[i] = s[i]
<1> DEFINE I == {i \in DOMAIN s : ~IsBlank(s[i])}
           last == Max({0} \cup I)
           body == SubSeq(s, 1, last)
<1>1. Len(s) \in Nat /\ DOMAIN s = 1 .. Len(s) /\ \A i \in 1 .. Len(s) : s[i] \in SoundLines BY FileIs
<1>2. IsFiniteSet({0} \cup I)
  <2>1. IsFiniteSet(I)
    <3>1. I \in SUBSET DOMAIN s OBVIOUS
    <3> HIDE DEF I
    <3> QED BY <3>1, FilePositions DEF Positions
  <2> HIDE DEF I
  <2> QED BY <2>1, FS_Singleton, FS_Union
<1>3. Positions({0} \cup I) BY <1>1, <1>2 DEF Positions
<1>4. last \in {0} \cup I /\ \A i \in {0} \cup I : i <= last
  <2>1. {0} \cup I # {} OBVIOUS
  <2> HIDE DEF I
  <2> QED BY <1>3, <2>1, MaxIs
<1> HIDE DEF last
<1>5. last \in 0 .. Len(s) BY <1>1, <1>4
<1>6. \A i \in last + 1 .. Len(s) : IsBlank(s[i]) BY <1>1, <1>4, <1>5
<1>7. body \in Seq(SoundLines) /\ Len(body) = last /\ \A i \in 1 .. last : body[i] = s[i]
  <2>1. 1 \in Int /\ last \in Int /\ \A i \in 1 .. last : s[i] \in SoundLines BY <1>1, <1>5
  <2>2. /\ body \in Seq(SoundLines) /\ Len(body) = IF 1 <= last THEN last - 1 + 1 ELSE 0
        /\ \A i \in 1 .. last - 1 + 1 : body[i] = s[1 + i - 1]
    BY <2>1, SubSeqProperties
  <2> HIDE DEF body
  <2> QED BY <1>5, <2>2
<1> QED BY <1>5, <1>6, <1>7 DEF last

\* Appending sets an option that was not set, and leaves the rest.
LEMMA AppendIs ==
  ASSUME NEW s \in Seq(SoundLines), NEW key, Active(s, key) = {},
         NEW v \in Seq(Words), NEW l, LineOf(l, key, v)
  PROVE  LET t == AppendLine(s, l)
         IN  Now(t, key, <<v>>) /\ SameBut(s, t, key)
<1> DEFINE last == Max({0} \cup {i \in DOMAIN s : ~IsBlank(s[i])})
           body == SubSeq(s, 1, last)
           blank == ParseLine(EmptyLine)
           header == IF \E i \in DOMAIN body : body[i].raw = HeaderLine THEN <<>>
                     ELSE <<blank, ParseLine(HeaderLine)>>
           t == body \o header \o <<l, blank>>
<1>1. /\ last \in 0 .. Len(s) /\ \A i \in last + 1 .. Len(s) : IsBlank(s[i])
      /\ body \in Seq(SoundLines) /\ Len(body) = last /\ \A i \in 1 .. last : body[i] = s[i]
  BY BodyIs
<1>2. l \in SoundLines /\ IsActive(l, key) /\ Own(l, key) BY LineOfIs
<1>3. blank \in SoundLines /\ Own(blank, key) /\ ~IsActive(blank, key) BY Fillers DEF Own, IsActive
<1>4. /\ header \in Seq(SoundLines)
      /\ \A i \in 1 .. Len(header) : Own(header[i], key) /\ ~IsActive(header[i], key)
  <2>1. ParseLine(HeaderLine) \in SoundLines /\ Own(ParseLine(HeaderLine), key) /\ ~IsActive(ParseLine(HeaderLine), key)
    BY Fillers DEF Own, IsActive
  <2> DEFINE two == <<blank, ParseLine(HeaderLine)>>
  <2>2. two \in Seq(SoundLines) /\ \A i \in 1 .. Len(two) : Own(two[i], key) /\ ~IsActive(two[i], key)
    <3> HIDE DEF blank
    <3>1. ASSUME NEW L, NEW a \in L, NEW b \in L
          PROVE  <<a, b>> \in Seq(L) /\ Len(<<a, b>>) = 2 /\ <<a, b>>[1] = a /\ <<a, b>>[2] = b
      OBVIOUS
    <3>2. two \in Seq(SoundLines) /\ Len(two) = 2 /\ two[1] = blank /\ two[2] = ParseLine(HeaderLine)
      BY <1>3, <2>1, <3>1
    <3> HIDE DEF two
    <3> QED BY <1>3, <2>1, <3>2
  <2>3. <<>> \in Seq(SoundLines) /\ Len(<<>>) = 0 OBVIOUS
  <2>4. header = <<>> \/ header = two OBVIOUS
  <2>5. CASE header = two
    <3> HIDE DEF header, two
    <3> QED BY <2>2, <2>5
  <2>6. CASE header = <<>>
    <3> HIDE DEF header, two
    <3> QED BY <2>3, <2>6
  <2> HIDE DEF header, two
  <2> QED BY <2>4, <2>5, <2>6
<1> DEFINE m == Len(header)
           tail == <<l, blank>>
           front == body \o header
<1> HIDE DEF last, body, blank, header
<1>5. tail \in Seq(SoundLines) /\ Len(tail) = 2 /\ tail[1] = l /\ tail[2] = blank
  <2>1. ASSUME NEW L, NEW a \in L, NEW b \in L
        PROVE  <<a, b>> \in Seq(L) /\ Len(<<a, b>>) = 2 /\ <<a, b>>[1] = a /\ <<a, b>>[2] = b
    OBVIOUS
  <2> QED BY <1>2, <1>3, <2>1
<1>6. /\ m \in Nat /\ last \in Nat
      /\ front \in Seq(SoundLines) /\ Len(front) = last + m
      /\ \A i \in 1 .. last + m : front[i] = IF i <= last THEN body[i] ELSE header[i - last]
  <2>1. m \in Nat BY <1>4, LenProperties
  <2>2. last \in Nat BY <1>1, FileIs
  <2>3. /\ front \in Seq(SoundLines) /\ Len(front) = Len(body) + Len(header)
        /\ \A i \in 1 .. Len(body) + Len(header) : front[i] = IF i <= Len(body) THEN body[i] ELSE header[i - Len(body)]
    BY <1>1, <1>4, ConcatProperties
  <2> HIDE DEF front
  <2> QED BY <1>1, <2>1, <2>2, <2>3
<1> HIDE DEF tail, front
<1>7. /\ t \in Seq(SoundLines) /\ Len(t) = last + m + 2
      /\ \A i \in 1 .. last + m + 2 : t[i] = IF i <= last + m THEN front[i] ELSE tail[i - (last + m)]
  <2>1. t = front \o tail BY DEF front, tail
  <2>2. /\ front \o tail \in Seq(SoundLines) /\ Len(front \o tail) = Len(front) + Len(tail)
        /\ \A i \in 1 .. Len(front) + Len(tail) :
             (front \o tail)[i] = IF i <= Len(front) THEN front[i] ELSE tail[i - Len(front)]
    BY <1>5, <1>6, ConcatProperties
  <2> HIDE DEF t
  <2> QED BY <1>5, <1>6, <2>1, <2>2
<1>8. t = AppendLine(s, l) BY DEF AppendLine, tail, front, header, body, last, blank
<1> HIDE DEF t, m
<1>9. DOMAIN t = 1 .. last + m + 2 /\ Len(s) \in Nat /\ DOMAIN s = 1 .. Len(s) /\ last <= Len(s) BY <1>1, <1>7, FileIs
<1>10. \A i \in 1 .. last : t[i] = s[i] BY <1>1, <1>6, <1>7
<1>11. ASSUME NEW i \in last + 1 .. last + m PROVE Own(t[i], key) /\ ~IsActive(t[i], key)
  <2>1. i - last \in 1 .. m /\ ~(i <= last) /\ i <= last + m /\ i \in 1 .. last + m /\ i \in 1 .. last + m + 2
    BY <1>6
  <2> QED BY <1>4, <1>6, <1>7, <2>1 DEF m
<1>12. t[last + m + 1] = l /\ t[last + m + 2] = blank BY <1>5, <1>6, <1>7
<1> DEFINE q == last + m + 1
<1>22. q \in Int /\ q - 1 = last + m /\ q + 1 = last + m + 2 /\ last \in Int /\ last <= q - 1 /\ 0 <= last
  BY <1>6
<1>23. t[q] = l /\ t[q + 1] = blank BY <1>12, <1>22
<1>24. \A i \in last + 1 .. q - 1 : Own(t[i], key) /\ ~IsActive(t[i], key) BY <1>11, <1>22
<1>25. DOMAIN t = 1 .. q + 1 BY <1>9, <1>22
<1>13. \A i \in last + 1 .. last + m + 2 : Own(t[i], key)
  <2> HIDE DEF q
  <2>1. \A i \in last + 1 .. q + 1 : i \in last + 1 .. q - 1 \/ i = q \/ i = q + 1 BY <1>22
  <2> QED BY <1>2, <1>3, <1>22, <1>23, <1>24, <2>1
<1>14. GoesOn(s, t, last, key)
  <2>1. \A i \in last + 1 .. Len(s) : Own(s[i], key) BY <1>1 DEF IsBlank, Own
  <2> QED BY <1>1, <1>6, <1>7, <1>9, <1>10, <1>13, <2>1 DEF GoesOn
<1>15. SameBut(s, t, key) BY <1>14, GoesOnKeeps
<1>16. \A i \in DOMAIN s : ~IsActive(s[i], key) BY ActiveIs
<1>17. ASSUME NEW i \in DOMAIN t PROVE IsActive(t[i], key) <=> i = q
  <2> HIDE DEF q
  <2>1. CASE i \in 1 .. last
    <3>1. i \in DOMAIN s /\ i # q /\ t[i] = s[i] BY <1>9, <1>10, <1>22, <2>1
    <3> QED BY <1>16, <3>1
  <2>2. CASE i \in last + 1 .. q - 1
    <3>1. i # q BY <1>22, <2>2
    <3> QED BY <1>24, <2>2, <3>1
  <2>3. CASE i = q BY <1>2, <1>23, <2>3
  <2>4. CASE i = q + 1
    <3>1. i # q BY <1>22, <2>4
    <3> QED BY <1>3, <1>23, <2>4, <3>1
  <2> QED BY <1>22, <1>25, <2>1, <2>2, <2>3, <2>4
<1>18. Active(t, key) = q .. q
  <2>1. Active(t, key) = {i \in DOMAIN t : IsActive(t[i], key)} BY <1>7, ActiveIs
  <2>2. q \in DOMAIN t /\ q \in Int BY <1>6, <1>9
  <2> HIDE DEF q
  <2> QED BY <1>17, <2>1, <2>2 DEF q
<1>19. <<v>> \in Seq(Seq(Words)) /\ Len(<<v>>) = 1 /\ <<v>>[1] = v BY Singleton
<1>20. NowAt(t, key, <<v>>, q)
  <2>1. q \in Nat \ {0} /\ q <= Len(t) /\ q + 1 - 1 = q /\ t[q] = l BY <1>6, <1>7, <1>12
  <2> HIDE DEF q
  <2> QED BY <1>18, <1>19, <2>1 DEF NowAt
<1>21. Now(t, key, <<v>>)
  <2>1. q \in Nat \ {0} BY <1>6
  <2> HIDE DEF q
  <2> QED BY <1>7, <1>19, <1>20, <2>1 DEF Now
<1> QED BY <1>8, <1>15, <1>21

-----------------------------------------------------------------------------
\* Written and loaded, a file is as it was, or has an empty line more.
LEMMA ReadIs ==
  ASSUME NEW t \in Seq(SoundLines)
  PROVE  LET u == Parse(ToText(t)).lines
             blank == ParseLine(EmptyLine)
         IN  u \in Seq(SoundLines) /\ (u = t \/ u = Append(t, blank))
<1> DEFINE raws == [i \in DOMAIN t |-> t[i].raw]
           blank == ParseLine(EmptyLine)
           text == ToText(t)
           u == [i \in DOMAIN text |-> ParseLine(text[i])]
<1>1. Len(t) \in Nat /\ DOMAIN t = 1 .. Len(t) /\ \A i \in DOMAIN t : t[i] \in SoundLines BY FileIs
<1>2. \A i \in DOMAIN t : ParseLine(t[i].raw) = t[i] /\ t[i].raw \in RawLines BY <1>1, SoundLine
<1>3. raws \in Seq(RawLines) /\ Len(raws) = Len(t)
  <2>1. raws \in [1 .. Len(t) -> RawLines] BY <1>1, <1>2
  <2> HIDE DEF raws
  <2> QED BY <1>1, <2>1, IsASeq, LenProperties
<1>4. Parse(text).lines = u
  <2> HIDE DEF text
  <2> QED BY DEF Parse
<1>5. blank \in SoundLines BY Fillers
<1>6. EmptyLine \in RawLines BY DEF EmptyLine, Written, RawLines
<1>7. \A i \in DOMAIN raws : ParseLine(raws[i]) = t[i] BY <1>2
<1>8. DOMAIN raws = 1 .. Len(t) BY <1>1
<1>9. text = raws \/ text = Append(raws, EmptyLine)
  <2>1. CASE raws = <<>> \/ raws = <<EmptyLine>>
    <3>1. text = <<EmptyLine>>
      <4> HIDE DEF raws
      <4>1. text = IF raws = <<>> \/ raws = <<EmptyLine>> THEN <<EmptyLine>>
                   ELSE IF raws[Len(raws)] = EmptyLine THEN raws ELSE Append(raws, EmptyLine)
        BY DEF ToText, raws
      <4> QED BY <2>1, <4>1
    <3>2. Append(<<>>, EmptyLine) = <<EmptyLine>>
      <4> HIDE DEF raws, text
      <4>1. \A x : Append(<<>>, x) = <<x>> OBVIOUS
      <4> QED BY <4>1
    <3> HIDE DEF raws, text
    <3> QED BY <2>1, <3>1, <3>2
  <2>2. CASE ~(raws = <<>> \/ raws = <<EmptyLine>>)
    <3>1. text = IF raws[Len(raws)] = EmptyLine THEN raws ELSE Append(raws, EmptyLine) BY <2>2 DEF ToText
    <3> HIDE DEF raws, text
    <3> QED BY <3>1
  <2> QED BY <2>1, <2>2
<1> HIDE DEF raws, text
<1>10. ASSUME text = raws PROVE u = t
  <2>1. u = t BY <1>1, <1>7, <1>8, <1>10
  <2> QED BY <2>1
<1>11. ASSUME text = Append(raws, EmptyLine) PROVE u = Append(t, blank)
  <2> DEFINE w == Append(t, blank)
  <2>0. Len(t) \in Nat BY <1>1
  <2>1. /\ text \in Seq(RawLines) /\ Len(text) = Len(t) + 1
        /\ \A i \in 1 .. Len(t) : text[i] = raws[i]
        /\ text[Len(t) + 1] = EmptyLine
    BY <1>3, <1>6, <1>11, AppendProperties
  <2>2. DOMAIN text = 1 .. Len(t) + 1 BY <2>1, LenProperties
  <2>3. /\ w \in Seq(SoundLines) /\ Len(w) = Len(t) + 1
        /\ \A i \in 1 .. Len(t) : w[i] = t[i]
        /\ w[Len(t) + 1] = blank
    <3> HIDE DEF blank
    <3> QED BY <1>5, AppendProperties
  <2>4. DOMAIN w = 1 .. Len(t) + 1 BY <2>3, FileIs
  <2>5. \A i \in 1 .. Len(t) + 1 : ParseLine(text[i]) = w[i]
    <3> HIDE DEF w
    <3>1. \A i \in 1 .. Len(t) + 1 : i \in 1 .. Len(t) \/ i = Len(t) + 1 BY <2>0
    <3> QED BY <1>7, <1>8, <2>1, <2>3, <3>1
  <2>6. w = [i \in DOMAIN w |-> w[i]]
    <3>1. \E n \in Nat : w \in [1 .. n -> SoundLines]
      <4> HIDE DEF w
      <4> QED BY <2>3, LenProperties
    <3> HIDE DEF w
    <3> QED BY <3>1
  <2>7. u = w
    <3> HIDE DEF w
    <3> QED BY <2>2, <2>4, <2>5, <2>6
  <2> QED BY <2>3, <2>7
<1>12. u \in Seq(SoundLines) /\ (u = t \/ u = Append(t, blank))
  <2>1. CASE u = t BY <2>1
  <2>2. CASE u = Append(t, blank)
    <3> HIDE DEF u, blank
    <3> QED BY <1>5, <2>2, AppendProperties
  <2> HIDE DEF u, blank
  <2> QED BY <1>9, <1>10, <1>11, <2>1, <2>2
<1> HIDE DEF u, blank
<1> QED BY <1>4, <1>12 DEF blank, text

\* Written and loaded, a file is the same but for an option's lines.
LEMMA ReadKeeps ==
  ASSUME NEW t \in Seq(SoundLines), NEW key
  PROVE  SameBut(t, Parse(ToText(t)).lines, key)
<1> DEFINE u == Parse(ToText(t)).lines
           blank == ParseLine(EmptyLine)
<1>1. u \in Seq(SoundLines) /\ (u = t \/ u = Append(t, blank)) BY ReadIs
<1> HIDE DEF u
<1>2. Len(t) \in Nat /\ DOMAIN t = 1 .. Len(t) BY FileIs
<1>3. blank \in SoundLines /\ Own(blank, key) BY Fillers DEF Own
<1>4. GoesOn(t, u, Len(t), key)
  <2>1. CASE u = t BY <1>1, <1>2, <2>1 DEF GoesOn
  <2>2. CASE u = Append(t, blank)
    <3> HIDE DEF blank
    <3>1. /\ Len(u) = Len(t) + 1 /\ \A i \in 1 .. Len(t) : u[i] = t[i]
          /\ u[Len(t) + 1] = blank
      BY <1>3, <2>2, AppendProperties
    <3>2. \A i \in Len(t) + 1 .. Len(u) : i = Len(t) + 1 BY <1>2, <3>1
    <3> QED BY <1>1, <1>2, <1>3, <3>1, <3>2 DEF GoesOn
  <2> QED BY <1>1, <2>1, <2>2
<1>5. SameBut(t, u, key) BY <1>4, GoesOnKeeps
<1> QED BY <1>5 DEF u

\* And is read alike.
LEMMA ReadActive ==
  ASSUME NEW t \in Seq(SoundLines), NEW key
  PROVE  LET u == Parse(ToText(t)).lines
         IN  Active(u, key) = Active(t, key) /\ Len(t) <= Len(u) /\ \A i \in DOMAIN t : i \in DOMAIN u /\ u[i] = t[i]
<1> DEFINE u == Parse(ToText(t)).lines
           blank == ParseLine(EmptyLine)
<1>1. u \in Seq(SoundLines) /\ (u = t \/ u = Append(t, blank)) BY ReadIs
<1>2. Len(t) \in Nat /\ DOMAIN t = 1 .. Len(t) BY FileIs
<1> HIDE DEF u
<1>3. blank \in SoundLines /\ ~IsActive(blank, key) BY Fillers DEF IsActive
<1>4. CASE u = t BY <1>2, <1>4 DEF u
<1>5. CASE u = Append(t, blank)
  <2> HIDE DEF blank
  <2>1. /\ Len(u) = Len(t) + 1 /\ \A i \in 1 .. Len(t) : u[i] = t[i]
        /\ u[Len(t) + 1] = blank
    BY <1>3, <1>5, AppendProperties
  <2>2. DOMAIN u = 1 .. Len(t) + 1 BY <1>1, <2>1, FileIs
  <2>3. Active(u, key) = {i \in DOMAIN u : IsActive(u[i], key)} BY <1>1, ActiveIs
  <2>4. Active(t, key) = {i \in DOMAIN t : IsActive(t[i], key)} BY ActiveIs
  <2>5. Active(u, key) = Active(t, key)
    <3>1. \A i \in 1 .. Len(t) + 1 : i \in 1 .. Len(t) \/ i = Len(t) + 1 BY <1>2
    <3>2. \A i \in 1 .. Len(t) : i \in 1 .. Len(t) + 1 BY <1>2
    <3> QED BY <1>2, <1>3, <2>1, <2>2, <2>3, <2>4, <3>1, <3>2
  <2> QED BY <1>2, <2>1, <2>2, <2>5 DEF u
<1> QED BY <1>1, <1>4, <1>5

\* Written and loaded, an option is set as it was.
LEMMA ReadNow ==
  ASSUME NEW t, NEW key, NEW values, Now(t, key, values)
  PROVE  Now(Parse(ToText(t)).lines, key, values)
<1> DEFINE u == Parse(ToText(t)).lines
<1>1. t \in Seq(SoundLines) /\ values \in Seq(Seq(Words)) BY DEF Now
<1>2. PICK a \in Nat \ {0} : NowAt(t, key, values, a) BY DEF Now
<1>3. Active(u, key) = Active(t, key) /\ Len(t) <= Len(u) /\ \A i \in DOMAIN t : i \in DOMAIN u /\ u[i] = t[i]
  BY <1>1, ReadActive
<1>4. u \in Seq(SoundLines) BY <1>1, ReadIs
<1> HIDE DEF u
<1>5. Len(t) \in Nat /\ DOMAIN t = 1 .. Len(t) /\ Len(u) \in Nat /\ Len(values) \in Nat BY <1>1, <1>4, FileIs, LenProperties
<1>6. \A i \in 1 .. Len(values) : a + i - 1 \in DOMAIN t BY <1>2, <1>5 DEF NowAt
<1>7. NowAt(u, key, values, a)
  <2>1. a + Len(values) - 1 <= Len(u) BY <1>2, <1>3, <1>5 DEF NowAt
  <2>2. Active(u, key) = a .. a + Len(values) - 1 BY <1>2, <1>3 DEF NowAt
  <2>3. \A i \in 1 .. Len(values) : u[a + i - 1] = t[a + i - 1] BY <1>3, <1>6
  <2>4. \A i \in 1 .. Len(values) : LineOf(t[a + i - 1], key, values[i]) BY <1>2 DEF NowAt
  <2> QED BY <2>1, <2>2, <2>3, <2>4 DEF NowAt
<1> QED BY <1>1, <1>4, <1>7 DEF Now, u

\* What is read of an option.
LEMMA NowReads ==
  ASSUME NEW t, NEW key, NEW values, Now(t, key, values)
  PROVE  /\ GetAll(t, key) = values
         /\ Has(t, key) <=> values # <<>>
         /\ \A default : Get(t, key, default) = IF values = <<>> THEN default ELSE values[1]
         /\ Cardinality(Active(t, key)) = Len(values)
<1> DEFINE n == Len(values)
           A == Active(t, key)
<1>1. t \in Seq(SoundLines) /\ values \in Seq(Seq(Words)) BY DEF Now
<1>2. PICK a \in Nat \ {0} : NowAt(t, key, values, a) BY DEF Now
<1>3. n \in Nat /\ DOMAIN values = 1 .. n /\ \A i \in 1 .. n : values[i] \in Seq(Words) BY <1>1, LenProperties
<1> DEFINE e == [m \in 1 .. n |-> a + m - 1]
<1>4. A = a .. a + n - 1 BY <1>2 DEF NowAt
<1>5. Positions(A) BY <1>1, ActiveIs
<1>6. InOrderOnto(e, 1 .. n, A)
  <2> HIDE DEF A, n
  <2>1. e \in [1 .. n -> A] BY <1>3, <1>4
  <2>2. \A i, j \in 1 .. n : i < j => e[i] < e[j] BY <1>3
  <2>3. ASSUME NEW k \in A PROVE \E m \in 1 .. n : e[m] = k
    <3>1. k - a + 1 \in 1 .. n /\ e[k - a + 1] = k BY <1>3, <1>4
    <3> QED BY <3>1
  <2> QED BY <2>1, <2>2, <2>3 DEF InOrderOnto
<1>7. Kept(t, A) = [m \in 1 .. n |-> t[e[m]]] /\ Cardinality(A) = n
  <2> HIDE DEF A, n, e
  <2> QED BY <1>3, <1>5, <1>6, KeptIs, Enumerated
<1>8. ASSUME NEW m \in 1 .. n PROVE t[a + m - 1].value = values[m]
  <2>1. LineOf(t[a + m - 1], key, values[m]) BY <1>2 DEF NowAt
  <2> QED BY <1>3, <2>1, LineOfIs
<1>9. GetAll(t, key) = values
  <2> DEFINE named == Kept(t, A)
  <2>1. DOMAIN named = 1 .. n BY <1>7
  <2>2. ASSUME NEW m \in 1 .. n PROVE named[m].value = values[m]
    <3>1. named[m] = t[a + m - 1] BY <1>7
    <3> QED BY <1>8, <3>1
  <2>3. GetAll(t, key) = [i \in DOMAIN named |-> named[i].value] BY DEF GetAll
  <2> HIDE DEF named
  <2> QED BY <1>1, <1>3, <2>1, <2>2, <2>3
<1>10. values = <<>> <=> n = 0 BY <1>1, EmptySeq
<1>11. Has(t, key) <=> values # <<>>
  <2>1. A # {} <=> n # 0
    <3>1. n # 0 => a \in a .. a + n - 1 BY <1>3
    <3>2. \A i \in a .. a + n - 1 : n # 0 BY <1>3
    <3> HIDE DEF A, n
    <3> QED BY <1>4, <3>1, <3>2
  <2> QED BY <1>10, <2>1 DEF Has
<1>12. ASSUME NEW default PROVE Get(t, key, default) = IF values = <<>> THEN default ELSE values[1]
  <2>1. CASE values = <<>> BY <1>11, <2>1 DEF Get
  <2>2. CASE values # <<>>
    <3>1. 1 \in 1 .. n BY <1>3, <1>10, <2>2
    <3>2. Min(A) = a
      <4>1. a \in A /\ \A i \in A : a <= i BY <1>3, <1>4, <3>1
      <4>2. Min(A) \in A /\ \A i \in A : Min(A) <= i
        <5> HIDE DEF A
        <5> QED BY <1>5, <4>1, MinIs
      <4>3. \A i \in A : i \in Int BY <1>4
      <4> DEFINE x == Min(A)
      <4>4. x \in Int /\ a \in Int /\ x <= a /\ a <= x BY <4>1, <4>2, <4>3
      <4> HIDE DEF x
      <4>5. x = a BY <4>4
      <4> QED BY <4>5 DEF x
    <3>3. a + 1 - 1 = a OBVIOUS
    <3> QED BY <1>8, <1>11, <2>2, <3>1, <3>2, <3>3 DEF Get
  <2> QED BY <2>1, <2>2
<1> QED BY <1>7, <1>9, <1>11, <1>12

-----------------------------------------------------------------------------
\* The edits.
LEMMA NowNone ==
  ASSUME NEW t \in Seq(SoundLines), NEW key, Active(t, key) = {}
  PROVE  Now(t, key, <<>>)
<1>1. <<>> \in Seq(Seq(Words)) /\ Len(<<>>) = 0 OBVIOUS
<1>2. Len(t) \in Nat BY FileIs
<1>3. NowAt(t, key, <<>>, 1) BY <1>1, <1>2 DEF NowAt
<1> QED BY <1>1, <1>3 DEF Now

\* An option set on one line has that line's value alone.
LEMMA NowOne ==
  ASSUME NEW t \in Seq(SoundLines), NEW key, NEW p, Active(t, key) = {p},
         NEW v \in Seq(Words), LineOf(t[p], key, v)
  PROVE  Now(t, key, <<v>>) /\ NowAt(t, key, <<v>>, p)
<1>1. <<v>> \in Seq(Seq(Words)) /\ Len(<<v>>) = 1 /\ <<v>>[1] = v BY Singleton
<1>2. p \in DOMAIN t BY ActiveIs
<1>3. p \in Nat \ {0} /\ p <= Len(t) /\ p + 1 - 1 = p /\ p .. p = {p} BY <1>2, FileIs
<1>4. NowAt(t, key, <<v>>, p) BY <1>1, <1>3 DEF NowAt
<1> QED BY <1>1, <1>3, <1>4 DEF Now

\* Removing an option leaves it unset and the rest as it was.
LEMMA RemoveIs ==
  ASSUME NEW s \in Seq(SoundLines), NEW key
  PROVE  LET t == RemoveOption(s, key)
         IN  Now(t, key, <<>>) /\ SameBut(s, t, key) /\ Active(t, key) = {}
<1> DEFINE A == Active(s, key)
           t == RemoveOption(s, key)
<1>1. /\ Without(s, A) \in Seq(SoundLines) /\ SameBut(s, Without(s, A), key)
      /\ Active(Without(s, A), key) = {Rank(DOMAIN s \ A, i) : i \in Active(s, key) \ A}
  <2>1. A \in SUBSET Active(s, key) OBVIOUS
  <2> HIDE DEF A
  <2> QED BY <2>1, WithoutActive
<1>2. t = Without(s, A) BY DEF RemoveOption
<1>3. Active(t, key) = {} BY <1>1, <1>2
<1> HIDE DEF t
<1> QED BY <1>1, <1>2, <1>3, NowNone DEF t

\* Removing an option that is not set changes nothing.
LEMMA RemoveAgain ==
  ASSUME NEW t \in Seq(SoundLines), NEW key, Active(t, key) = {}
  PROVE  RemoveOption(t, key) = t
BY WithoutNothing DEF RemoveOption

\* A line of the option, written anew.
LEMMA RewriteOwn ==
  ASSUME NEW s \in Seq(SoundLines), NEW key, NEW p \in Find(s, key), NEW v \in Seq(Words)
  PROVE  /\ Rewrite(s, p, v) \in Seq(SoundLines)
         /\ LineOf(Rewrite(s, p, v)[p], key, v)
         /\ SameBut(s, Rewrite(s, p, v), key)
         /\ p \in Active(s, key) => Active(Rewrite(s, p, v), key) = Active(s, key)
         /\ Active(s, key) = {} => Active(Rewrite(s, p, v), key) = {p}
<1> DEFINE r == Rewrite(s, p, v)
           line == OptionLine(s[p].key, v)
<1>1. p \in DOMAIN s /\ IsOption(s[p]) /\ Lower[s[p].key] = Lower[key] BY DEF Find
<1>2. /\ line \in SoundLines /\ s[p].key \in Names
      /\ r = Splice(s, p, <<line>>)
      /\ r \in Seq(SoundLines) /\ Len(r) = Len(s)
      /\ \A i \in DOMAIN s : r[i] = IF i = p THEN line ELSE s[i]
  BY <1>1, RewriteIs
<1>3. LineOf(line, key, v) BY <1>1, <1>2, OptionLineOf
<1> HIDE DEF r, line
<1>4. r[p] = line BY <1>1, <1>2
<1>5. <<line>> \in Seq(SoundLines) /\ Len(<<line>>) = 1 /\ <<line>>[1] = line BY <1>2, Singleton
<1>6. IsActive(line, key) /\ Own(line, key) BY <1>3, LineOfIs
<1>7. SameBut(s, r, key)
  <2>1. \A i \in 1 .. Len(<<line>>) : Own(<<line>>[i], key) BY <1>5, <1>6
  <2>2. Own(s[p], key) BY <1>1 DEF Own
  <2> QED BY <1>1, <1>2, <1>5, <2>1, <2>2, SpliceKeeps
<1>8. Active(r, key) = Active(s, key) \cup {p}
  <2>1. DOMAIN r = DOMAIN s BY <1>2, FileIs
  <2>2. Active(r, key) = {i \in DOMAIN r : IsActive(r[i], key)} BY <1>2, ActiveIs
  <2>3. Active(s, key) = {i \in DOMAIN s : IsActive(s[i], key)} BY ActiveIs
  <2> QED BY <1>1, <1>2, <1>4, <1>6, <2>1, <2>2, <2>3
<1>9. /\ p \in Active(s, key) => Active(r, key) = Active(s, key)
      /\ Active(s, key) = {} => Active(r, key) = {p}
  BY <1>8
<1> QED BY <1>2, <1>3, <1>4, <1>5, <1>7, <1>9 DEF r

\* What an edit finds of an option: its active lines, or else an example of it.
LEMMA FoundIs ==
  ASSUME NEW s \in Seq(SoundLines), NEW key
  PROVE  /\ Active(s, key) \subseteq Find(s, key)
         /\ Examples(s, key) # {} => Min(Examples(s, key)) \in Find(s, key)
         /\ Active(s, key) # {} => Min(Active(s, key)) \in Active(s, key)
<1>1. Find(s, key) \subseteq DOMAIN s BY DEF Find
<1>2. Active(s, key) \subseteq Find(s, key) /\ Examples(s, key) \subseteq Find(s, key) BY DEF Active, Examples
<1>3. Positions(Active(s, key)) /\ Positions(Examples(s, key)) BY <1>1, <1>2, FilePositions
<1> QED BY <1>2, <1>3, MinIs

\* Setting an option sets it once, to the value, and leaves the rest.
LEMMA SetOptionIs ==
  ASSUME NEW s \in Seq(SoundLines), NEW key \in Names, NEW v \in Seq(Words)
  PROVE  LET t == SetOption(s, key, v)
         IN  Now(t, key, <<v>>) /\ SameBut(s, t, key)
<1> DEFINE t == SetOption(s, key, v)
           A == Active(s, key)
           X == Examples(s, key)
<1>1. CASE A # {}
  <2> DEFINE p == Min(A)
             r == Rewrite(s, p, v)
  <2>1. t = Without(r, A \ {p}) BY <1>1 DEF SetOption
  <2>2. p \in Find(s, key) /\ p \in A BY <1>1, FoundIs
  <2>3. r \in Seq(SoundLines) /\ LineOf(r[p], key, v) /\ SameBut(s, r, key) /\ Active(r, key) = A
    <3> HIDE DEF p
    <3> QED BY <2>2, RewriteOwn
  <2> HIDE DEF r
  <2>5. t[p] = r[p] /\ Active(t, key) = {p} /\ t \in Seq(SoundLines) /\ SameBut(r, t, key)
    BY <1>1, <2>1, <2>3, WithoutRest
  <2> HIDE DEF t, p
  <2>6. Now(t, key, <<v>>) BY <2>3, <2>5, NowOne
  <2>7. SameBut(s, t, key) BY <2>3, <2>5, SameButThrough
  <2> QED BY <2>6, <2>7 DEF t
<1>2. CASE A = {} /\ X # {}
  <2> DEFINE p == Min(X)
  <2>1. t = Rewrite(s, p, v) BY <1>2 DEF SetOption
  <2>2. p \in Find(s, key) BY <1>2, FoundIs
  <2> HIDE DEF p
  <2>3. t \in Seq(SoundLines) /\ LineOf(t[p], key, v) /\ SameBut(s, t, key) /\ Active(t, key) = {p}
    BY <1>2, <2>1, <2>2, RewriteOwn
  <2> HIDE DEF t
  <2>5. Now(t, key, <<v>>) BY <2>3, NowOne
  <2> QED BY <2>3, <2>5 DEF t
<1>3. CASE A = {} /\ X = {}
  <2>1. t = AppendLine(s, OptionLine(key, v)) BY <1>3 DEF SetOption
  <2>2. LineOf(OptionLine(key, v), key, v) BY OptionLineOf
  <2> QED BY <1>3, <2>1, <2>2, AppendIs
<1> QED BY <1>1, <1>2, <1>3

\* An option with one value is set on one line.
LEMMA NowOneIs ==
  ASSUME NEW t, NEW key, NEW v \in Seq(Words), Now(t, key, <<v>>)
  PROVE  t \in Seq(SoundLines) /\ \E p \in Nat \ {0} : Active(t, key) = {p} /\ LineOf(t[p], key, v)
<1>0. t \in Seq(SoundLines) BY DEF Now
<1>1. PICK p \in Nat \ {0} : NowAt(t, key, <<v>>, p) BY DEF Now
<1>2. Len(<<v>>) = 1 /\ <<v>>[1] = v BY Singleton
<1>3. p + 1 - 1 = p /\ p .. p = {p} OBVIOUS
<1>4. Active(t, key) = {p} /\ LineOf(t[p], key, v) BY <1>1, <1>2, <1>3 DEF NowAt
<1> QED BY <1>0, <1>4

\* Setting an option to what it is set to changes nothing.
LEMMA SetOptionAgain ==
  ASSUME NEW t, NEW key, NEW v \in Seq(Words), Now(t, key, <<v>>)
  PROVE  SetOption(t, key, v) = t
<1>0. t \in Seq(SoundLines) BY DEF Now
<1>4. PICK p \in Nat \ {0} : Active(t, key) = {p} /\ LineOf(t[p], key, v) BY NowOneIs
<1>5. p \in DOMAIN t /\ Positions({p}) BY <1>0, <1>4, ActiveIs
<1>6. Min({p}) = p BY MinOne
<1>7. Rewrite(t, p, v) = t
  <2>1. t[p] = OptionLine(t[p].key, v) BY <1>4 DEF LineOf
  <2>2. Rewrite(t, p, v) = [t EXCEPT ![p] = t[p]] BY <2>1 DEF Rewrite
  <2>3. \E n \in Nat : t \in [1 .. n -> SoundLines] BY <1>0, LenProperties
  <2> QED BY <2>2, <2>3
<1>8. SetOption(t, key, v) = Without(Rewrite(t, p, v), {p} \ {p}) BY <1>4, <1>6 DEF SetOption
<1>9. {p} \ {p} = {} OBVIOUS
<1> QED BY <1>0, <1>7, <1>8, <1>9, WithoutNothing

\* The lines written for a list, one for each value.
LEMMA OptionLinesAre ==
  ASSUME NEW k \in Names, NEW key, Lower[k] = Lower[key], NEW values \in Seq(Seq(Words))
  PROVE  /\ OptionLines(k, values) \in Seq(SoundLines) /\ Len(OptionLines(k, values)) = Len(values)
         /\ \A i \in 1 .. Len(values) : /\ LineOf(OptionLines(k, values)[i], key, values[i])
                                        /\ OptionLines(k, values)[i].key = k
<1>1. Len(values) \in Nat /\ DOMAIN values = 1 .. Len(values) /\ \A i \in 1 .. Len(values) : values[i] \in Seq(Words)
  BY LenProperties
<1>2. \A i \in 1 .. Len(values) : /\ OptionLine(k, values[i]) \in SoundLines
                                  /\ LineOf(OptionLine(k, values[i]), key, values[i])
                                  /\ OptionLine(k, values[i]).key = k
  BY <1>1, OptionLineIs, OptionLineOf
<1>3. OptionLines(k, values) = [i \in 1 .. Len(values) |-> OptionLine(k, values[i])] BY <1>1 DEF OptionLines
<1>4. OptionLines(k, values) \in [1 .. Len(values) -> SoundLines] BY <1>2, <1>3
<1>5. OptionLines(k, values) \in Seq(SoundLines) /\ Len(OptionLines(k, values)) = Len(values)
  <2> DEFINE x == OptionLines(k, values)
  <2>1. x \in [1 .. Len(values) -> SoundLines] /\ Len(values) \in Nat BY <1>1, <1>4
  <2>3. DOMAIN x = 1 .. Len(values) BY <2>1
  <2>2. x \in Seq(SoundLines)
    <3> DEFINE n == Len(values)
    <3>1. x \in [1 .. n -> SoundLines] /\ n \in Nat BY <2>1
    <3> HIDE DEF x, n
    <3> QED BY <3>1, IsASeq
  <2> HIDE DEF x
  <2>4. Len(x) = Len(values) BY <2>1, <2>2, <2>3, LenProperties
  <2> QED BY <2>2, <2>4 DEF x
<1>6. \A i \in 1 .. Len(values) : OptionLines(k, values)[i] = OptionLine(k, values[i]) BY <1>3
<1> QED BY <1>2, <1>5, <1>6

\* A line and lines after it.
LEMMA PutFirst ==
  ASSUME NEW L, NEW x \in L, NEW b \in Seq(L)
  PROVE  /\ <<x>> \o b \in Seq(L) /\ Len(<<x>> \o b) = 1 + Len(b) /\ Len(b) \in Nat
         /\ (<<x>> \o b)[1] = x
         /\ \A i \in 2 .. 1 + Len(b) : (<<x>> \o b)[i] = b[i - 1]
<1>1. <<x>> \in Seq(L) /\ Len(<<x>>) = 1 /\ <<x>>[1] = x BY Singleton
<1>2. Len(b) \in Nat BY LenProperties
<1>3. /\ <<x>> \o b \in Seq(L) /\ Len(<<x>> \o b) = Len(<<x>>) + Len(b)
      /\ \A i \in 1 .. Len(<<x>>) + Len(b) :
           (<<x>> \o b)[i] = IF i <= Len(<<x>>) THEN <<x>>[i] ELSE b[i - Len(<<x>>)]
  BY <1>1, ConcatProperties
<1>4. (<<x>> \o b)[1] = x
  <2>1. 1 \in 1 .. 1 + Len(b) BY <1>2
  <2> QED BY <1>1, <1>3, <2>1
<1>5. ASSUME NEW i \in 2 .. 1 + Len(b) PROVE (<<x>> \o b)[i] = b[i - 1]
  <2>1. i \in 1 .. 1 + Len(b) /\ ~(i <= 1) BY <1>2
  <2> QED BY <1>1, <1>3, <2>1
<1> QED BY <1>1, <1>2, <1>3, <1>4, <1>5

Alike(t, key) == \A i, j \in Active(t, key) : t[i].key = t[j].key

\* Setting a list sets the option to that list in order, and leaves the rest.
LEMMA SetAllIs ==
  ASSUME NEW s \in Seq(SoundLines), NEW key \in Names, NEW values \in Seq(Seq(Words))
  PROVE  LET t == SetAll(s, key, values)
         IN  Now(t, key, values) /\ SameBut(s, t, key) /\ (Has(s, key) => Alike(t, key))
<1> DEFINE t == SetAll(s, key, values)
           A == Active(s, key)
           n == Len(values)
<1>0. n \in Nat /\ \A i \in 1 .. n : values[i] \in Seq(Words) BY LenProperties
<1>1. CASE values = <<>>
  <2>1. t = RemoveOption(s, key) BY <1>1 DEF SetAll
  <2>2. Now(t, key, values) /\ SameBut(s, t, key) /\ Active(t, key) = {} BY <1>1, <2>1, RemoveIs
  <2> HIDE DEF t
  <2>3. Alike(t, key) BY <2>2 DEF Alike
  <2> QED BY <2>2, <2>3 DEF t
<1>2. CASE values # <<>> /\ A # {}
  <2> DEFINE p == Min(A)
             w == Without(s, A \ {p})
             k == s[p].key
             new == OptionLines(k, values)
  <2>1. t = Splice(w, p, new) BY <1>2 DEF SetAll
  <2>2. /\ p \in A /\ p \in Find(w, key) /\ Active(w, key) = {p}
        /\ w \in Seq(SoundLines) /\ SameBut(s, w, key)
    BY <1>2, WithoutRest
  <2>3. k \in Names /\ Lower[k] = Lower[key]
    <3>1. p \in DOMAIN s /\ IsOption(s[p]) /\ Lower[k] = Lower[key] BY <2>2 DEF Active, Find
    <3> HIDE DEF p
    <3> QED BY <3>1, FileIs, SoundLine
  <2> HIDE DEF p, w, k
  <2>4. /\ new \in Seq(SoundLines) /\ Len(new) = n
        /\ \A i \in 1 .. n : LineOf(new[i], key, values[i]) /\ new[i].key = k
    BY <2>3, OptionLinesAre
  <2> HIDE DEF new
  <2>5. Now(t, key, values) /\ NowAt(t, key, values, p) /\ SameBut(w, t, key)
    <3> HIDE DEF t
    <3>1. Active(w, key) \subseteq {p} BY <2>2
    <3> QED BY <2>1, <2>2, <2>4, <3>1, SpliceNow
  <2>6. SameBut(s, t, key)
    <3> HIDE DEF t
    <3> QED BY <2>2, <2>5, SameButThrough
  <2>7. \A i \in 1 .. n : t[p + i - 1] = new[i]
    <3>1. p \in DOMAIN w BY <2>2 DEF Find
    <3> HIDE DEF t
    <3>2. \A i \in 1 .. Len(new) : Splice(w, p, new)[p + i - 1] = new[i] BY <2>2, <2>4, <3>1, SpliceIs
    <3> QED BY <2>1, <2>4, <3>2
  <2> HIDE DEF t, A
  <2>8. ASSUME NEW i \in Active(t, key) PROVE t[i].key = k
    <3>1. p \in Nat \ {0} /\ i \in p .. p + n - 1
      <4>1. p \in DOMAIN w BY <2>2 DEF Find
      <4>2. p \in Nat \ {0} BY <2>2, <4>1, FileIs
      <4> QED BY <2>5, <4>2 DEF NowAt
    <3>2. i - p + 1 \in 1 .. n /\ p + (i - p + 1) - 1 = i BY <1>0, <3>1, Shift
    <3>3. t[i] = new[i - p + 1] BY <2>7, <3>2
    <3> QED BY <2>4, <3>2, <3>3
  <2>9. Alike(t, key) BY <2>8 DEF Alike
  <2> QED BY <2>5, <2>6, <2>9 DEF t
<1>3. CASE values # <<>> /\ A = {}
  <2> DEFINE v == Head(values)
             rest == Tail(values)
             single == SetOption(s, key, v)
             at == Min(Active(single, key))
             new == <<single[at]>> \o OptionLines(key, rest)
  <2>1. t = Splice(single, at, new) BY <1>3 DEF SetAll
  <2>2. v \in Seq(Words) /\ v = values[1] /\ n >= 1
    <3>1. n # 0 BY <1>3, EmptySeq
    <3> QED BY <1>0, <1>3, <3>1, HeadTailProperties
  <2>3. rest \in Seq(Seq(Words)) /\ Len(rest) = n - 1 /\ \A i \in 1 .. n - 1 : rest[i] = values[i + 1]
    BY <1>3, HeadTailProperties
  <2> HIDE DEF v, rest
  <2>4. Now(single, key, <<v>>) /\ SameBut(s, single, key) BY <2>2, SetOptionIs
  <2> HIDE DEF single
  <2>5. PICK p \in Nat \ {0} : Active(single, key) = {p} /\ LineOf(single[p], key, v) BY <2>2, <2>4, NowOneIs
  <2>6. single \in Seq(SoundLines) /\ Active(single, key) = {p} /\ LineOf(single[p], key, v)
    BY <2>2, <2>4, <2>5, NowOneIs
  <2>7. p \in Find(single, key) BY <2>6 DEF Active
  <2>8. at = p
    <3>1. Min({p}) = p BY MinOne
    <3> QED BY <2>6, <3>1
  <2>9. single[p] \in SoundLines BY <2>2, <2>6, LineOfIs
  <2>10. /\ OptionLines(key, rest) \in Seq(SoundLines) /\ Len(OptionLines(key, rest)) = n - 1
         /\ \A i \in 1 .. n - 1 : LineOf(OptionLines(key, rest)[i], key, rest[i])
    BY <2>3, OptionLinesAre
  <2>11. /\ new \in Seq(SoundLines) /\ Len(new) = n
         /\ new[1] = single[p] /\ \A i \in 2 .. n : new[i] = OptionLines(key, rest)[i - 1]
    <3>1. 1 + (n - 1) = n BY <1>0
    <3> DEFINE b == OptionLines(key, rest)
               x == single[p]
    <3>2. b \in Seq(SoundLines) /\ x \in SoundLines /\ Len(b) = n - 1 BY <2>9, <2>10
    <3> HIDE DEF b, x, n
    <3>3. /\ <<x>> \o b \in Seq(SoundLines) /\ Len(<<x>> \o b) = 1 + Len(b)
          /\ (<<x>> \o b)[1] = x
          /\ \A i \in 2 .. 1 + Len(b) : (<<x>> \o b)[i] = b[i - 1]
      BY <3>2, PutFirst
    <3>4. new = <<x>> \o b BY <2>8 DEF b, x
    <3> HIDE DEF new
    <3>5. /\ new \in Seq(SoundLines) /\ Len(new) = n
          /\ new[1] = x /\ \A i \in 2 .. n : new[i] = b[i - 1]
      BY <3>1, <3>2, <3>3, <3>4
    <3> QED BY <3>5 DEF b, x
  <2>12. ASSUME NEW i \in 1 .. n PROVE LineOf(new[i], key, values[i])
    <3> HIDE DEF new, n
    <3>1. CASE i = 1 BY <2>2, <2>6, <2>11, <3>1
    <3>2. CASE i # 1
      <4>1. i \in 2 .. n /\ i - 1 \in 1 .. n - 1 /\ (i - 1) + 1 = i BY <1>0, <3>2
      <4>2. LineOf(OptionLines(key, rest)[i - 1], key, rest[i - 1]) BY <2>10, <4>1
      <4>3. rest[i - 1] = values[i] BY <2>3, <4>1
      <4> QED BY <2>11, <4>1, <4>2, <4>3
    <3> QED BY <3>1, <3>2
  <2> HIDE DEF new, at, t, A
  <2>13. Now(t, key, values) /\ SameBut(single, t, key)
    <3>1. Active(single, key) \subseteq {p} BY <2>6
    <3> QED BY <2>1, <2>6, <2>7, <2>8, <2>11, <2>12, <3>1, SpliceNow
  <2>14. SameBut(s, t, key) BY <2>4, <2>13, SameButThrough
  <2>15. ~Has(s, key) BY <1>3 DEF Has, A
  <2> QED BY <2>13, <2>14, <2>15 DEF t
<1> QED BY <1>1, <1>2, <1>3

\* Typed again, a list comes out on its own lines, in the letters of the first.
LEMMA SetAllAgain ==
  ASSUME NEW t, NEW key, NEW values, Now(t, key, values)
  PROVE  LET u == SetAll(t, key, values)
         IN  /\ u \in Seq(SoundLines) /\ Meaning(u) = Meaning(t)
             /\ Alike(t, key) => u = t
<1> DEFINE u == SetAll(t, key, values)
           n == Len(values)
           A == Active(t, key)
<1>0. t \in Seq(SoundLines) /\ values \in Seq(Seq(Words)) BY DEF Now
<1>1. PICK a \in Nat \ {0} : NowAt(t, key, values, a) BY DEF Now
<1>2. Len(t) \in Nat /\ DOMAIN t = 1 .. Len(t) /\ n \in Nat /\ \A i \in 1 .. n : values[i] \in Seq(Words)
  BY <1>0, FileIs, LenProperties
<1>3. A = a .. a + n - 1 /\ a + n - 1 <= Len(t) /\ \A i \in 1 .. n : LineOf(t[a + i - 1], key, values[i])
  BY <1>1 DEF NowAt
<1>4. CASE values = <<>>
  <2>1. n = 0 BY <1>4, EmptySeq
  <2>2. A = {} BY <1>3, <2>1
  <2>3. u = RemoveOption(t, key) BY <1>4 DEF SetAll
  <2>4. u = t BY <1>0, <2>2, <2>3, RemoveAgain
  <2> QED BY <1>0, <2>4
<1>5. CASE values # <<>>
  <2>1. n >= 1 BY <1>0, <1>2, <1>5, EmptySeq
  <2>2. a \in A /\ A # {} /\ Positions(A)
    <3>1. Positions(A) BY <1>0, ActiveIs
    <3> HIDE DEF A, n
    <3>2. a \in A BY <1>2, <1>3, <2>1
    <3> QED BY <3>1, <3>2
  <2>3. Min(A) = a
    <3> DEFINE x == Min(A)
    <3>1. x \in A /\ \A i \in A : x <= i
      <4> HIDE DEF A
      <4> QED BY <2>2, MinIs
    <3>2. \A i \in A : i \in Int /\ a <= i BY <1>3
    <3>3. x \in Int /\ a \in Int /\ x <= a /\ a <= x BY <2>2, <3>1, <3>2
    <3> HIDE DEF x
    <3>4. x = a BY <3>3
    <3> QED BY <3>4 DEF x
  <2> DEFINE D == A \ {a}
             S == DOMAIN t \ D
             w == Without(t, D)
             c == Len(t) - n + 1
             e == [m \in 1 .. c |-> IF m <= a THEN m ELSE m + n - 1]
             k == t[a].key
             new == OptionLines(k, values)
  <2>4. u = Splice(w, a, new) BY <1>5, <2>2, <2>3 DEF SetAll
  <2>5. c \in Nat /\ a <= c BY <1>2, <1>3, <2>1
  <2>6. D = a + 1 .. a + n - 1 BY <1>3
  <2>7. InOrderOnto(e, 1 .. c, S)
    <3> HIDE DEF A, n
    <3>1. e \in [1 .. c -> S] BY <1>2, <1>3, <2>1, <2>5, <2>6
    <3>2. \A i, j \in 1 .. c : i < j => e[i] < e[j] BY <1>2, <2>1, <2>5
    <3>3. ASSUME NEW q \in S PROVE \E m \in 1 .. c : e[m] = q
      <4>0. q \in 1 .. Len(t) /\ q \notin a + 1 .. a + n - 1 BY <1>2, <2>6
      <4>1. CASE q <= a
        <5>1. q \in 1 .. c /\ e[q] = q BY <1>2, <2>5, <4>0, <4>1
        <5> QED BY <5>1
      <4>2. CASE ~(q <= a)
        <5>1. q - n + 1 \in 1 .. c /\ ~(q - n + 1 <= a) /\ (q - n + 1) + n - 1 = q
          BY <1>2, <2>1, <4>0, <4>2
        <5> QED BY <5>1
      <4> QED BY <4>1, <4>2
    <3> QED BY <3>1, <3>2, <3>3 DEF InOrderOnto
  <2>8. w = [m \in 1 .. c |-> t[e[m]]]
    <3>1. D \in SUBSET DOMAIN t BY <1>0, ActiveIs
    <3>2. Positions(S)
      <4>1. S \in SUBSET DOMAIN t OBVIOUS
      <4> HIDE DEF S
      <4> QED BY <1>0, <4>1, FilePositions
    <3> HIDE DEF S, c, e
    <3>3. Kept(t, S) = [m \in 1 .. c |-> t[e[m]]] BY <2>5, <2>7, <3>2, KeptIs
    <3> QED BY <3>3 DEF Without, S
  <2>9. w \in Seq(SoundLines) /\ Len(w) = c
    <3>1. \A m \in 1 .. c : e[m] \in DOMAIN t BY <2>7 DEF InOrderOnto
    <3>2. \A i \in DOMAIN t : t[i] \in SoundLines BY <1>0, FileIs
    <3> HIDE DEF e
    <3>3. w \in [1 .. c -> SoundLines] /\ DOMAIN w = 1 .. c BY <2>8, <3>1, <3>2
    <3> HIDE DEF w, c
    <3>4. w \in Seq(SoundLines) BY <2>5, <3>3, IsASeq
    <3> QED BY <2>5, <3>3, <3>4, LenProperties
  <2>10. k \in Names /\ Lower[k] = Lower[key] /\ IsOption(t[a]) /\ IsActive(t[a], key)
    <3>1. a + 1 - 1 = a /\ 1 \in 1 .. n BY <1>2, <2>1
    <3>2. LineOf(t[a], key, values[1]) /\ values[1] \in Seq(Words) BY <1>2, <1>3, <3>1
    <3>3. IsActive(t[a], key) BY <3>2, LineOfIs
    <3> QED BY <3>2, <3>3 DEF LineOf, IsActive
  <2>11. /\ new \in Seq(SoundLines) /\ Len(new) = n
         /\ \A i \in 1 .. n : LineOf(new[i], key, values[i]) /\ new[i].key = k
    <3> HIDE DEF k
    <3> QED BY <1>0, <2>10, OptionLinesAre
  <2>12. a \in DOMAIN w BY <2>5, <2>8
  <2>15. \A m \in 1 .. c : w[m] = t[IF m <= a THEN m ELSE m + n - 1] BY <2>8
  <2> HIDE DEF new, w, k, e, D, S
  <2>13. /\ Splice(w, a, new) \in Seq(SoundLines) /\ Len(Splice(w, a, new)) = Len(w) - 1 + Len(new)
         /\ \A i \in 1 .. a - 1 : Splice(w, a, new)[i] = w[i]
         /\ \A i \in 1 .. Len(new) : Splice(w, a, new)[a + i - 1] = new[i]
         /\ \A i \in a + 1 .. Len(w) : Splice(w, a, new)[i + Len(new) - 1] = w[i]
    BY <2>9, <2>11, <2>12, SpliceIs
  <2> HIDE DEF u, n, A, c
  <2>14. u \in Seq(SoundLines) /\ Len(u) = Len(t)
    <3>1. c - 1 + n = Len(t) BY <1>2 DEF c
    <3> QED BY <2>4, <2>9, <2>11, <2>13, <3>1
  <2>16. \A i \in 1 .. a - 1 : u[i] = t[i]
    <3>1. \A i \in 1 .. a - 1 : i \in 1 .. c /\ i <= a BY <2>5
    <3> QED BY <2>4, <2>13, <2>15, <3>1
  <2>17. \A i \in 1 .. n : u[a + i - 1] = new[i] BY <2>4, <2>11, <2>13
  <2>18. ASSUME NEW i \in a + n .. Len(t) PROVE u[i] = t[i]
    <3>1. i - n + 1 \in a + 1 .. c /\ i - n + 1 \in 1 .. c /\ ~(i - n + 1 <= a) /\ (i - n + 1) + n - 1 = i
      BY <1>2, <2>1, <2>5 DEF c
    <3>2. u[i] = w[i - n + 1] BY <2>4, <2>9, <2>11, <2>13, <3>1
    <3> QED BY <2>15, <3>1, <3>2
  <2>19. DOMAIN u = 1 .. Len(t) BY <2>14, FileIs
  <2>20. ASSUME NEW i \in DOMAIN t
         PROVE  u[i] = t[i] \/ \E m \in 1 .. n : i = a + m - 1 /\ i \in A /\ u[i] = new[m] /\ LineOf(t[i], key, values[m])
    <3>1. i \in 1 .. a - 1 \/ i \in a .. a + n - 1 \/ i \in a + n .. Len(t) BY <1>2
    <3>2. CASE i \in a .. a + n - 1
      <4>1. i - a + 1 \in 1 .. n /\ a + (i - a + 1) - 1 = i BY <1>2, <3>2
      <4> QED BY <1>3, <2>17, <3>2, <4>1
    <3> QED BY <2>16, <2>18, <3>1, <3>2
  <2>21. Meaning(u) = Meaning(t)
    <3> DEFINE Read(l) == IF IsOption(l) THEN <<Lower[l.key], l.value, l.active>> ELSE l.raw
    <3>1. ASSUME NEW i \in DOMAIN t PROVE Read(u[i]) = Read(t[i])
      <4>1. CASE u[i] = t[i] BY <4>1
      <4>2. ASSUME NEW m \in 1 .. n, u[i] = new[m], LineOf(t[i], key, values[m]) PROVE Read(u[i]) = Read(t[i])
        <5>1. LineOf(u[i], key, values[m]) BY <2>11, <4>2
        <5>2. values[m] \in Seq(Words) BY <1>2
        <5>3. /\ IsActive(u[i], key) /\ u[i].value = values[m] /\ IsActive(t[i], key) /\ t[i].value = values[m]
          BY <4>2, <5>1, <5>2, LineOfIs
        <5>4. \A l : LineOf(l, key, values[m]) => l.active = TRUE
          <6> SUFFICES ASSUME NEW l, LineOf(l, key, values[m]) PROVE l.active = TRUE OBVIOUS
          <6>1. l = OptionLine(l.key, values[m]) BY DEF LineOf
          <6> QED BY <6>1 DEF OptionLine, ConfLine
        <5>5. u[i].active = TRUE /\ t[i].active = TRUE BY <4>2, <5>1, <5>4
        <5> QED BY <5>3, <5>5 DEF IsActive
      <4> HIDE DEF Read
      <4> QED BY <2>20, <4>1, <4>2
    <3>2. Meaning(u) = [i \in DOMAIN u |-> Read(u[i])] /\ Meaning(t) = [i \in DOMAIN t |-> Read(t[i])] BY DEF Meaning
    <3> HIDE DEF Read
    <3> QED BY <1>2, <2>19, <3>1, <3>2
  <2>22. ASSUME Alike(t, key) PROVE u = t
    <3>1. ASSUME NEW i \in DOMAIN t PROVE u[i] = t[i]
      <4>1. ASSUME NEW m \in 1 .. n, i \in A, u[i] = new[m], LineOf(t[i], key, values[m]) PROVE u[i] = t[i]
        <5>1. t[i].key = k BY <2>2, <2>22, <4>1 DEF Alike, A, k
        <5>2. LineOf(new[m], key, values[m]) /\ new[m].key = k BY <2>11
        <5>3. t[i] = OptionLine(k, values[m]) BY <4>1, <5>1 DEF LineOf
        <5>4. new[m] = OptionLine(k, values[m]) BY <5>2 DEF LineOf
        <5> QED BY <4>1, <5>3, <5>4
      <4> QED BY <2>20, <4>1
    <3> QED BY <1>0, <1>2, <2>14, <3>1, SeqEqual
  <2> QED BY <2>14, <2>21, <2>22 DEF u
<1> QED BY <1>4, <1>5

-----------------------------------------------------------------------------
\* The help of the options, when one option's line becomes lines of it.
Spliced(s, t, p, n) ==
  /\ n \in Nat \ {0} /\ p \in Nat \ {0} /\ p <= Len(s) /\ Len(t) = Len(s) - 1 + n
  /\ \A i \in 1 .. p - 1 : t[i] = s[i]
  /\ \A i \in p + 1 .. Len(s) : t[i + n - 1] = s[i]
  /\ IsOption(s[p])
  /\ \A i \in p .. p + n - 1 : IsOption(t[i]) /\ Lower[t[i].key] = Lower[s[p].key]
Onto(p, n, i) == IF i <= p THEN i ELSE i + n - 1
From(p, n, i) == IF i < p THEN i ELSE IF i <= p + n - 1 THEN p ELSE i - n + 1
Of(s, name) == {i \in DOMAIN s : IsOption(s[i]) /\ Lower[s[i].key] = name}

\* Where positions go when lines are put in place of one, and come from.
LEMMA OntoIs ==
  ASSUME NEW l \in Nat, NEW p \in Nat \ {0}, p <= l, NEW n \in Nat \ {0}
  PROVE  /\ \A i \in 1 .. l : Onto(p, n, i) \in 1 .. l - 1 + n
         /\ \A i \in 1 .. l - 1 + n : From(p, n, i) \in 1 .. l /\ Onto(p, n, From(p, n, i)) <= i
         /\ \A i, j \in 1 .. l : i <= j => Onto(p, n, i) <= Onto(p, n, j)
BY DEF Onto, From

\* The lines naming an option go with the lines that are put in place of one.
LEMMA SplicedOf ==
  ASSUME NEW s \in Seq(SoundLines), NEW t \in Seq(SoundLines), NEW p, NEW n, Spliced(s, t, p, n), NEW name
  PROVE  /\ \A i \in Of(s, name) : Onto(p, n, i) \in Of(t, name)
         /\ \A i \in Of(t, name) : From(p, n, i) \in Of(s, name)
         /\ \A i \in Of(s, name) : Onto(p, n, i) \in Nat /\ i \in Nat
<1>1. /\ Len(s) \in Nat /\ DOMAIN s = 1 .. Len(s) /\ DOMAIN t = 1 .. Len(s) - 1 + n
      /\ n \in Nat \ {0} /\ p \in Nat \ {0} /\ p <= Len(s)
  <2>1. DOMAIN t = 1 .. Len(t) /\ DOMAIN s = 1 .. Len(s) /\ Len(s) \in Nat BY FileIs
  <2> QED BY <2>1 DEF Spliced
<1>2. ASSUME NEW i \in Of(s, name) PROVE Onto(p, n, i) \in Of(t, name) /\ Onto(p, n, i) \in Nat /\ i \in Nat
  <2>0. i \in 1 .. Len(s) /\ IsOption(s[i]) /\ Lower[s[i].key] = name BY <1>1 DEF Of
  <2>1. Onto(p, n, i) \in DOMAIN t BY <1>1, <2>0 DEF Onto
  <2>2. CASE i < p
    <3>1. Onto(p, n, i) = i /\ t[i] = s[i] BY <1>1, <2>0, <2>2 DEF Onto, Spliced
    <3> QED BY <1>1, <2>0, <2>1, <3>1 DEF Of
  <2>3. CASE i = p
    <3>1. Onto(p, n, i) = i /\ i \in p .. p + n - 1 BY <1>1, <2>0, <2>3 DEF Onto
    <3>2. IsOption(t[i]) /\ Lower[t[i].key] = name BY <2>0, <2>3, <3>1 DEF Spliced
    <3> QED BY <1>1, <2>0, <2>1, <3>1, <3>2 DEF Of
  <2>4. CASE i > p
    <3>1. Onto(p, n, i) = i + n - 1 /\ i \in p + 1 .. Len(s) BY <1>1, <2>0, <2>4 DEF Onto
    <3>2. t[i + n - 1] = s[i] BY <3>1 DEF Spliced
    <3> QED BY <1>1, <2>0, <2>1, <3>1, <3>2 DEF Of
  <2> QED BY <1>1, <2>0, <2>2, <2>3, <2>4
<1>3. ASSUME NEW i \in Of(t, name) PROVE From(p, n, i) \in Of(s, name)
  <2>0. i \in 1 .. Len(s) - 1 + n /\ IsOption(t[i]) /\ Lower[t[i].key] = name BY <1>1 DEF Of
  <2>1. From(p, n, i) \in DOMAIN s BY <1>1, <2>0 DEF From
  <2>2. CASE i < p
    <3>1. From(p, n, i) = i /\ t[i] = s[i] BY <1>1, <2>0, <2>2 DEF From, Spliced
    <3> QED BY <1>1, <2>0, <2>1, <3>1 DEF Of
  <2>3. CASE i \in p .. p + n - 1
    <3>1. From(p, n, i) = p BY <1>1, <2>0, <2>3 DEF From
    <3>2. IsOption(s[p]) /\ Lower[t[i].key] = Lower[s[p].key] BY <2>3 DEF Spliced
    <3> QED BY <1>1, <2>0, <2>1, <3>1, <3>2 DEF Of
  <2>4. CASE i > p + n - 1
    <3>1. From(p, n, i) = i - n + 1 /\ i - n + 1 \in p + 1 .. Len(s) /\ (i - n + 1) + n - 1 = i
      BY <1>1, <2>0, <2>4 DEF From
    <3>2. t[(i - n + 1) + n - 1] = s[i - n + 1] BY <3>1 DEF Spliced
    <3>3. t[i] = s[i - n + 1] BY <3>1, <3>2
    <3> QED BY <1>1, <2>0, <2>1, <3>1, <3>3 DEF Of
  <2> QED BY <1>1, <2>0, <2>2, <2>3, <2>4
<1> QED BY <1>2, <1>3

\* The prose above a line stays above it when the option's line is replaced.
LEMMA SplicedHelp ==
  ASSUME NEW s \in Seq(SoundLines), NEW t \in Seq(SoundLines), NEW p, NEW n, Spliced(s, t, p, n),
         NEW m \in DOMAIN s
  PROVE  Help(t, Onto(p, n, m)) = Help(s, m)
<1> DEFINE q == Onto(p, n, m)
           S == Above(s, m)
           T == Above(t, q)
<1>1. /\ Len(s) \in Nat /\ DOMAIN s = 1 .. Len(s) /\ DOMAIN t = 1 .. Len(s) - 1 + n
      /\ n \in Nat \ {0} /\ p \in Nat \ {0} /\ p <= Len(s) /\ m \in 1 .. Len(s)
  <2>1. DOMAIN t = 1 .. Len(t) /\ DOMAIN s = 1 .. Len(s) /\ Len(s) \in Nat BY FileIs
  <2> QED BY <2>1 DEF Spliced
<1>2. Positions(S) /\ Positions(T)
  <2>1. S \in SUBSET DOMAIN s BY <1>1 DEF Above
  <2>2. q \in 1 .. Len(s) - 1 + n BY <1>1 DEF Onto
  <2>3. T \in SUBSET DOMAIN t
    <3> HIDE DEF q
    <3> QED BY <1>1, <2>2 DEF Above
  <2> HIDE DEF S, T
  <2> QED BY <2>1, <2>3, FilePositions
<1>3. CASE m <= p
  <2> DEFINE h == [i \in S |-> i]
  <2>1. q = m BY <1>3 DEF Onto
  <2>2. \A i \in 1 .. m - 1 : t[i] = s[i] BY <1>1, <1>3 DEF Spliced
  <2>3. S = T
    <3>1. \A j \in 1 .. m - 1 : \A k \in j .. m - 1 : t[k] = s[k] BY <1>1, <2>2
    <3> QED BY <2>1, <3>1 DEF Above
  <2>4. \A i \in S : i \in 1 .. m - 1 BY DEF Above
  <2> HIDE DEF q, S, T
  <2>5. SameLines(s, S, t, T, h) BY <2>2, <2>3, <2>4 DEF SameLines, InOrderOnto
  <2> HIDE DEF h
  <2>6. Kept(s, S) = Kept(t, T) BY <1>2, <2>5, KeptSame
  <2> QED BY <2>6 DEF Help, q, S, T
<1>4. CASE m > p
  <2> DEFINE h == [i \in S |-> i + n - 1]
             Said(l) == IsComment(l) /\ ~IsOption(l)
  <2>1. q = m + n - 1 BY <1>1, <1>4 DEF Onto
  <2>2. \A i \in p + 1 .. m - 1 : t[i + n - 1] = s[i] BY <1>1 DEF Spliced
  <2>3. ~Said(s[p]) /\ ~Said(t[p + n - 1]) BY <1>1 DEF Spliced
  <2>4. S = {j \in 1 .. m - 1 : \A k \in j .. m - 1 : Said(s[k])} BY DEF Above
  <2>5. T = {j \in 1 .. q - 1 : \A k \in j .. q - 1 : Said(t[k])} BY DEF Above
  <2> HIDE DEF q, S, T, Said
  <2>6. ASSUME NEW i \in S PROVE i \in p + 1 .. m - 1
    <3>1. i \in 1 .. m - 1 /\ \A k \in i .. m - 1 : Said(s[k]) BY <2>4
    <3>2. ~(i <= p) BY <1>1, <1>4, <2>3, <3>1
    <3> QED BY <1>1, <3>1, <3>2
  <2>7. ASSUME NEW j \in T PROVE j - n + 1 \in p + 1 .. m - 1
    <3>1. j \in 1 .. q - 1 /\ \A k \in j .. q - 1 : Said(t[k]) BY <2>5
    <3>2. ~(j <= p + n - 1)
      <4>1. j <= p + n - 1 => p + n - 1 \in j .. q - 1 BY <1>1, <1>4, <2>1, <3>1
      <4> QED BY <2>3, <3>1, <4>1
    <3> QED BY <1>1, <2>1, <3>1, <3>2
  <2>8. ASSUME NEW i \in p + 1 .. m - 1 PROVE i \in S <=> i + n - 1 \in T
    <3>1. i \in 1 .. m - 1 /\ i + n - 1 \in 1 .. q - 1 BY <1>1, <2>1
    <3>2. (\A k \in i .. m - 1 : Said(s[k])) <=> (\A k \in i + n - 1 .. q - 1 : Said(t[k]))
      <4>1. ASSUME NEW k \in i .. m - 1 PROVE k + n - 1 \in i + n - 1 .. q - 1 /\ t[k + n - 1] = s[k]
        <5>1. k \in p + 1 .. m - 1 BY <1>1
        <5>2. k + n - 1 \in i + n - 1 .. q - 1 BY <1>1, <2>1
        <5> QED BY <2>2, <5>1, <5>2
      <4>2. ASSUME NEW k \in i + n - 1 .. q - 1 PROVE k - n + 1 \in i .. m - 1 /\ t[k] = s[k - n + 1]
        <5>1. k - n + 1 \in i .. m - 1 /\ k - n + 1 \in p + 1 .. m - 1 /\ (k - n + 1) + n - 1 = k BY <1>1, <2>1
        <5>2. t[(k - n + 1) + n - 1] = s[k - n + 1] BY <2>2, <5>1
        <5> QED BY <5>1, <5>2
      <4> QED BY <4>1, <4>2
    <3> QED BY <2>4, <2>5, <3>1, <3>2
  <2>9. h \in [S -> T] BY <2>6, <2>8
  <2>10. \A i, j \in S : i < j => h[i] < h[j]
    <3>1. \A i \in S : i \in Int BY <1>2 DEF Positions
    <3> QED BY <1>1, <3>1
  <2>11. ASSUME NEW j \in T PROVE \E i \in S : h[i] = j
    <3>1. j - n + 1 \in p + 1 .. m - 1 BY <2>7
    <3>2. (j - n + 1) + n - 1 = j
      <4>1. j \in Int BY <1>2 DEF Positions
      <4> QED BY <1>1, <4>1
    <3>3. j - n + 1 \in S BY <2>8, <3>1, <3>2
    <3> QED BY <3>2, <3>3
  <2>12. \A i \in S : s[i] = t[h[i]] BY <2>2, <2>6
  <2>13. SameLines(s, S, t, T, h) BY <2>9, <2>10, <2>11, <2>12 DEF SameLines, InOrderOnto
  <2> HIDE DEF h
  <2>14. Kept(s, S) = Kept(t, T) BY <1>2, <2>13, KeptSame
  <2> QED BY <2>14 DEF Help, q, S, T
<1> QED BY <1>1, <1>3, <1>4

\* Replacing an option's line leaves the documentation of every option.
LEMMA SplicedDocumentation ==
  ASSUME NEW s \in Seq(SoundLines), NEW t \in Seq(SoundLines), NEW p, NEW n, Spliced(s, t, p, n)
  PROVE  Documentation(t) = Documentation(s)
<1>1. \A name : /\ \A i \in Of(s, name) : Onto(p, n, i) \in Of(t, name)
                /\ \A i \in Of(t, name) : From(p, n, i) \in Of(s, name)
  BY SplicedOf
<1>2. \A x, name : name \in Named(x) <=> Of(x, name) # {} BY DEF Named, Of
<1>3. Named(s) = Named(t)
  <2>1. ASSUME NEW name \in Named(s) PROVE name \in Named(t)
    <3>1. PICK i : i \in Of(s, name) BY <1>2
    <3>2. Onto(p, n, i) \in Of(t, name) BY <1>1, <3>1
    <3> QED BY <1>2, <3>2
  <2>2. ASSUME NEW name \in Named(t) PROVE name \in Named(s)
    <3>1. PICK i : i \in Of(t, name) BY <1>2
    <3>2. From(p, n, i) \in Of(s, name) BY <1>1, <3>1
    <3> QED BY <1>2, <3>2
  <2> QED BY <2>1, <2>2
<1>4. ASSUME NEW name \in Named(s)
      PROVE  Help(t, Min(Of(t, name))) = Help(s, Min(Of(s, name)))
  <2> DEFINE O == Of(s, name)
             P == Of(t, name)
             m == Min(O)
             k == Min(P)
  <2>1. O # {} /\ P # {} BY <1>2, <1>3
  <2>2. O \subseteq DOMAIN s /\ P \subseteq DOMAIN t BY DEF Of
  <2>3. Positions(O) /\ Positions(P)
    <3> HIDE DEF O, P
    <3> QED BY <2>2, FilePositions
  <2>4. m \in O /\ k \in P /\ (\A i \in O : m <= i) /\ (\A i \in P : k <= i)
    <3> HIDE DEF O, P
    <3> QED BY <2>1, <2>3, MinIs
  <2>5. Onto(p, n, m) \in P /\ From(p, n, k) \in O
    <3> HIDE DEF m, k
    <3> QED BY <1>1, <2>4
  <2> HIDE DEF m, k, O, P
  <2>6. /\ Len(s) \in Nat /\ DOMAIN s = 1 .. Len(s) /\ DOMAIN t = 1 .. Len(s) - 1 + n
        /\ n \in Nat \ {0} /\ p \in Nat \ {0} /\ p <= Len(s)
    <3>1. DOMAIN t = 1 .. Len(t) /\ DOMAIN s = 1 .. Len(s) /\ Len(s) \in Nat BY FileIs
    <3> QED BY <3>1 DEF Spliced
  <2>7. m \in 1 .. Len(s) /\ k \in 1 .. Len(s) - 1 + n /\ m <= From(p, n, k) /\ k <= Onto(p, n, m)
    BY <2>2, <2>4, <2>5, <2>6
  <2>8. /\ Onto(p, n, m) \in 1 .. Len(s) - 1 + n
        /\ From(p, n, k) \in 1 .. Len(s) /\ Onto(p, n, From(p, n, k)) <= k
        /\ Onto(p, n, From(p, n, k)) \in 1 .. Len(s) - 1 + n
    BY <2>6, <2>7, OntoIs
  <2>9. Onto(p, n, m) <= Onto(p, n, From(p, n, k)) BY <2>6, <2>7, <2>8, OntoIs
  <2>10. k = Onto(p, n, m)
    <3> DEFINE x == Onto(p, n, m)
               y == Onto(p, n, From(p, n, k))
    <3>1. x \in Int /\ y \in Int /\ k \in Int /\ k <= x /\ x <= y /\ y <= k BY <2>6, <2>7, <2>8, <2>9
    <3> HIDE DEF x, y
    <3>2. k = x BY <3>1
    <3> QED BY <3>2 DEF x
  <2>11. Help(t, Onto(p, n, m)) = Help(s, m)
    <3>1. m \in DOMAIN s BY <2>2, <2>4
    <3> QED BY <3>1, SplicedHelp
  <2> QED BY <2>10, <2>11 DEF m, k, O, P
<1>5. \A x : Documentation(x) = [name \in Named(x) |-> Help(x, Min(Of(x, name)))] BY DEF Documentation, Of
<1> QED BY <1>3, <1>4, <1>5

\* A splice in the option's place.
LEMMA SpliceDocuments ==
  ASSUME NEW s \in Seq(SoundLines), NEW key, NEW p \in Find(s, key), NEW new \in Seq(SoundLines), Len(new) # 0,
         \A i \in 1 .. Len(new) : IsOption(new[i]) /\ Lower[new[i].key] = Lower[key]
  PROVE  Documentation(Splice(s, p, new)) = Documentation(s)
<1> DEFINE t == Splice(s, p, new)
           n == Len(new)
<1>1. /\ p \in DOMAIN s /\ IsOption(s[p]) /\ Lower[s[p].key] = Lower[key] BY DEF Find
<1>2. Len(s) \in Nat /\ DOMAIN s = 1 .. Len(s) /\ p \in Nat \ {0} /\ p <= Len(s) /\ n \in Nat \ {0}
  <2>1. Len(s) \in Nat /\ DOMAIN s = 1 .. Len(s) /\ n \in Nat BY FileIs
  <2> QED BY <1>1, <2>1
<1>3. /\ t \in Seq(SoundLines) /\ Len(t) = Len(s) - 1 + n
      /\ \A i \in 1 .. p - 1 : t[i] = s[i]
      /\ \A i \in 1 .. n : t[p + i - 1] = new[i]
      /\ \A i \in p + 1 .. Len(s) : t[i + n - 1] = s[i]
  BY <1>1, SpliceIs
<1> HIDE DEF t
<1>4. ASSUME NEW i \in p .. p + n - 1 PROVE IsOption(t[i]) /\ Lower[t[i].key] = Lower[s[p].key]
  <2>1. i - p + 1 \in 1 .. n /\ p + (i - p + 1) - 1 = i BY <1>2
  <2>2. t[i] = new[i - p + 1] BY <1>3, <2>1
  <2> QED BY <1>1, <2>1, <2>2
<1> HIDE DEF n
<1>5. Spliced(s, t, p, n) BY <1>1, <1>2, <1>3, <1>4 DEF Spliced
<1>6. Documentation(t) = Documentation(s) BY <1>3, <1>5, SplicedDocumentation
<1> QED BY <1>6 DEF t

\* Of at most one position none is left when the first is taken.
LEMMA OneOrNone ==
  ASSUME NEW S, Positions(S), Cardinality(S) <= 1
  PROVE  S = {} \/ (S \ {Min(S)} = {} /\ S # {})
<1>1. Cardinality(S) \in Nat /\ IsFiniteSet(S) BY Ranks
<1>2. CASE Cardinality(S) = 0
  <2>1. S = {} BY <1>1, <1>2, FS_EmptySet
  <2> QED BY <2>1
<1>3. CASE Cardinality(S) = 1
  <2>1. PICK x : S = {x} BY <1>1, <1>3, FS_Singleton
  <2>2. Min(S) \in S BY <2>1, MinIs
  <2> QED BY <2>1, <2>2
<1> QED BY <1>1, <1>2, <1>3

\* Rewriting a line of the option leaves every option's documentation.
LEMMA RewriteDocuments ==
  ASSUME NEW s \in Seq(SoundLines), NEW key, NEW p \in Find(s, key), NEW v \in Seq(Words)
  PROVE  Documentation(Rewrite(s, p, v)) = Documentation(s)
<1> DEFINE line == OptionLine(s[p].key, v)
<1>1. p \in DOMAIN s /\ IsOption(s[p]) /\ Lower[s[p].key] = Lower[key] BY DEF Find
<1>2. line \in SoundLines /\ s[p].key \in Names /\ Rewrite(s, p, v) = Splice(s, p, <<line>>)
  BY <1>1, RewriteIs
<1>3. LineOf(line, key, v) BY <1>1, <1>2, OptionLineOf
<1>4. IsOption(line) /\ Lower[line.key] = Lower[key]
  <2> HIDE DEF line
  <2>1. IsActive(line, key) BY <1>3, LineOfIs
  <2> QED BY <2>1 DEF IsActive
<1> HIDE DEF line
<1>5. <<line>> \in Seq(SoundLines) /\ Len(<<line>>) = 1 /\ <<line>>[1] = line BY <1>2, Singleton
<1>6. \A i \in 1 .. Len(<<line>>) : IsOption(<<line>>[i]) /\ Lower[<<line>>[i].key] = Lower[key] BY <1>4, <1>5
<1> DEFINE new == <<line>>
<1>7. new \in Seq(SoundLines) /\ Len(new) # 0 /\ Rewrite(s, p, v) = Splice(s, p, new) BY <1>2, <1>5
<1>8. \A i \in 1 .. Len(new) : IsOption(new[i]) /\ Lower[new[i].key] = Lower[key] BY <1>6
<1> HIDE DEF new
<1> QED BY <1>7, <1>8, SpliceDocuments

\* Setting an option the file names leaves every option's documentation.
LEMMA SetOptionDocuments ==
  ASSUME NEW s \in Seq(SoundLines), NEW key \in Names, NEW v \in Seq(Words),
         Cardinality(Active(s, key)) <= 1, Find(s, key) # {}
  PROVE  Documentation(SetOption(s, key, v)) = Documentation(s)
<1> DEFINE A == Active(s, key)
           X == Examples(s, key)
           t == SetOption(s, key, v)
<1>1. Positions(A) BY ActiveIs
<1>2. CASE A # {}
  <2> DEFINE p == Min(A)
             r == Rewrite(s, p, v)
  <2>1. A \ {p} = {}
    <3> HIDE DEF A
    <3> QED BY <1>1, <1>2, OneOrNone DEF A
  <2>2. t = Without(r, A \ {p}) BY <1>2 DEF SetOption
  <2>3. p \in Find(s, key) BY <1>2, FoundIs
  <2>4. r \in Seq(SoundLines) /\ Documentation(r) = Documentation(s)
    <3> HIDE DEF p
    <3> QED BY <2>3, RewriteOwn, RewriteDocuments
  <2> HIDE DEF r, p, A, t
  <2>5. t = r BY <2>1, <2>2, <2>4, WithoutNothing
  <2> QED BY <2>4, <2>5 DEF t
<1>3. CASE A = {} /\ X # {}
  <2> DEFINE p == Min(X)
  <2>1. t = Rewrite(s, p, v) BY <1>3 DEF SetOption
  <2>2. p \in Find(s, key) BY <1>3, FoundIs
  <2> HIDE DEF p, t
  <2>3. Documentation(t) = Documentation(s) BY <2>1, <2>2, RewriteDocuments
  <2> QED BY <2>3 DEF t
<1>4. A # {} \/ X # {} BY DEF Examples
<1> QED BY <1>2, <1>3, <1>4

\* And so does setting a list of an option the file names.
LEMMA SetAllDocuments ==
  ASSUME NEW s \in Seq(SoundLines), NEW key \in Names, NEW values \in Seq(Seq(Words)), values # <<>>,
         Cardinality(Active(s, key)) <= 1, Find(s, key) # {}
  PROVE  Documentation(SetAll(s, key, values)) = Documentation(s)
<1> DEFINE A == Active(s, key)
           t == SetAll(s, key, values)
           n == Len(values)
<1>1. Positions(A) BY ActiveIs
<1>0. n \in Nat /\ n # 0 /\ \A i \in 1 .. n : values[i] \in Seq(Words) BY LenProperties, EmptySeq
<1>2. CASE A # {}
  <2> DEFINE p == Min(A)
             k == s[p].key
             new == OptionLines(k, values)
             w == Without(s, A \ {p})
  <2>1. A \ {p} = {}
    <3> HIDE DEF A
    <3> QED BY <1>1, <1>2, OneOrNone DEF A
  <2>2. t = Splice(w, p, new) BY <1>2 DEF SetAll
  <2>3. p \in Find(s, key) BY <1>2, FoundIs
  <2>4. w = s
    <3> HIDE DEF p, A
    <3> QED BY <2>1, WithoutNothing
  <2>5. k \in Names /\ Lower[k] = Lower[key]
    <3>1. p \in DOMAIN s /\ IsOption(s[p]) /\ Lower[k] = Lower[key] BY <2>3 DEF Find
    <3> HIDE DEF p
    <3> QED BY <3>1, FileIs, SoundLine
  <2> HIDE DEF k, w, p, A
  <2>6. new \in Seq(SoundLines) /\ Len(new) = n /\ \A i \in 1 .. n : LineOf(new[i], key, values[i])
    BY <2>5, OptionLinesAre
  <2> HIDE DEF new, t
  <2>7. \A i \in 1 .. n : IsOption(new[i]) /\ Lower[new[i].key] = Lower[key]
    <3> SUFFICES ASSUME NEW i \in 1 .. n PROVE IsOption(new[i]) /\ Lower[new[i].key] = Lower[key] OBVIOUS
    <3>1. values[i] \in Seq(Words) /\ LineOf(new[i], key, values[i]) BY <1>0, <2>6
    <3>2. IsActive(new[i], key) BY <3>1, LineOfIs
    <3> QED BY <3>2 DEF IsActive
  <2>8. Documentation(Splice(s, p, new)) = Documentation(s) BY <1>0, <2>3, <2>6, <2>7, SpliceDocuments
  <2> QED BY <2>2, <2>4, <2>8 DEF t
<1>3. CASE A = {}
  <2> DEFINE v == Head(values)
             rest == Tail(values)
             single == SetOption(s, key, v)
             at == Min(Active(single, key))
             b == OptionLines(key, rest)
             new == <<single[at]>> \o b
  <2>1. t = Splice(single, at, new)
    <3> HIDE DEF single
    <3> QED BY <1>3 DEF SetAll, single
  <2>2. v \in Seq(Words) BY <1>0, HeadTailProperties
  <2>3. rest \in Seq(Seq(Words)) BY HeadTailProperties
  <2> HIDE DEF v, rest
  <2>4. Documentation(single) = Documentation(s) BY <2>2, SetOptionDocuments
  <2>5. Now(single, key, <<v>>) BY <2>2, SetOptionIs
  <2> HIDE DEF single
  <2>6. PICK p \in Nat \ {0} : Active(single, key) = {p} /\ LineOf(single[p], key, v) BY <2>2, <2>5, NowOneIs
  <2>7. single \in Seq(SoundLines) BY <2>2, <2>5, NowOneIs
  <2>8. at = p
    <3>1. Min({p}) = p BY MinOne
    <3> QED BY <2>6, <3>1
  <2>9. p \in Find(single, key) BY <2>6 DEF Active
  <2>10. single[p] \in SoundLines /\ IsActive(single[p], key) BY <2>2, <2>6, LineOfIs
  <2>11. /\ b \in Seq(SoundLines) /\ Len(b) = Len(rest)
         /\ \A i \in 1 .. Len(rest) : LineOf(b[i], key, rest[i])
    BY <2>3, OptionLinesAre
  <2> HIDE DEF b
  <2> DEFINE x == single[p]
             c == <<x>> \o b
  <2>12. x \in SoundLines BY <2>10
  <2> HIDE DEF x
  <2>13. /\ c \in Seq(SoundLines) /\ Len(c) = 1 + Len(b) /\ Len(b) \in Nat
         /\ c[1] = x /\ \A i \in 2 .. 1 + Len(b) : c[i] = b[i - 1]
    BY <2>11, <2>12, PutFirst
  <2>14. new = c BY <2>8 DEF x
  <2> HIDE DEF new, c
  <2>15. \A i \in 1 .. Len(rest) : rest[i] \in Seq(Words) BY <2>3, LenProperties
  <2>16. ASSUME NEW i \in 1 .. Len(c) PROVE IsOption(c[i]) /\ Lower[c[i].key] = Lower[key]
    <3>1. IsActive(c[i], key)
      <4>1. CASE i = 1 BY <2>10, <2>13, <4>1 DEF x
      <4>2. CASE i # 1
        <5>1. i \in 2 .. 1 + Len(b) /\ i - 1 \in 1 .. Len(rest) BY <2>11, <2>13, <4>2
        <5>2. LineOf(b[i - 1], key, rest[i - 1]) /\ rest[i - 1] \in Seq(Words) BY <2>11, <2>15, <5>1
        <5>3. IsActive(b[i - 1], key) BY <5>2, LineOfIs
        <5> QED BY <2>13, <5>1, <5>3
      <4> QED BY <4>1, <4>2
    <3> QED BY <3>1 DEF IsActive
  <2>17. Len(c) # 0 BY <2>13
  <2> HIDE DEF at, t, A
  <2>18. Documentation(Splice(single, p, c)) = Documentation(single)
    BY <2>7, <2>9, <2>13, <2>16, <2>17, SpliceDocuments
  <2> QED BY <2>1, <2>4, <2>8, <2>14, <2>18 DEF t
<1> QED BY <1>2, <1>3

-----------------------------------------------------------------------------
\* What is the same when only the option's lines are not.
LEMMA OptionIsNoFiller ==
  ASSUME NEW l \in SoundLines, IsOption(l)
  PROVE  l.raw \notin {EmptyLine, HeaderLine}
<1>1. ParseLine(l.raw) = l BY SoundLine
<1> QED BY <1>1, Fillers

\* Files that are the same but for an option have the same prose.
LEMMA SameProse ==
  ASSUME NEW s \in Seq(SoundLines), NEW t \in Seq(SoundLines), NEW key, SameBut(s, t, key)
  PROVE  Prose(s) = Prose(t)
<1> DEFINE L == {l \in SoundLines : ~IsOption(l) /\ l.raw \notin {EmptyLine, HeaderLine}}
<1>1. \A l \in L : ~Own(l, key) BY DEF Own
<1>2. ASSUME NEW x \in Seq(SoundLines) PROVE Prose(x) = Kept(x, At(x, L))
  <2>1. \A i \in DOMAIN x : x[i] \in SoundLines BY FileIs
  <2>2. At(x, L) = {i \in DOMAIN x : ~IsOption(x[i]) /\ x[i].raw \notin {EmptyLine, HeaderLine}} BY <2>1 DEF At
  <2> QED BY <2>2 DEF Prose
<1>3. Kept(s, At(s, L)) = Kept(t, At(t, L))
  <2> HIDE DEF L
  <2> QED BY <1>1 DEF SameBut
<1> QED BY <1>2, <1>3

\* And the same settings of the other options.
LEMMA SameOthers ==
  ASSUME NEW s \in Seq(SoundLines), NEW t \in Seq(SoundLines), NEW key, SameBut(s, t, key)
  PROVE  Others(s, key) = Others(t, key)
<1> DEFINE L == {l \in SoundLines : IsOption(l) /\ Lower[l.key] # Lower[key]}
<1>1. \A l \in L : ~Own(l, key) BY OptionIsNoFiller DEF Own
<1>2. ASSUME NEW x \in Seq(SoundLines) PROVE Others(x, key) = Kept(x, At(x, L))
  <2>1. \A i \in DOMAIN x : x[i] \in SoundLines BY FileIs
  <2>2. At(x, L) = {i \in DOMAIN x : IsOption(x[i]) /\ Lower[x[i].key] # Lower[key]} BY <2>1 DEF At
  <2> QED BY <2>2 DEF Others
<1>3. Kept(s, At(s, L)) = Kept(t, At(t, L))
  <2> HIDE DEF L
  <2> QED BY <1>1 DEF SameBut
<1> QED BY <1>2, <1>3

\* And the other options read alike.
LEMMA SameReading ==
  ASSUME NEW s \in Seq(SoundLines), NEW t \in Seq(SoundLines), NEW key, SameBut(s, t, key),
         NEW n, Lower[n] # Lower[key]
  PROVE  GetAll(s, n) = GetAll(t, n)
<1> DEFINE L == {l \in SoundLines : IsActive(l, n)}
<1>1. \A l \in L : ~Own(l, key) BY OptionIsNoFiller DEF Own, IsActive
<1>2. ASSUME NEW x \in Seq(SoundLines) PROVE Active(x, n) = At(x, L)
  <2>1. \A i \in DOMAIN x : x[i] \in SoundLines BY FileIs
  <2>2. Active(x, n) = {i \in DOMAIN x : IsActive(x[i], n)} BY ActiveIs
  <2> QED BY <2>1, <2>2 DEF At
<1>3. Kept(s, At(s, L)) = Kept(t, At(t, L))
  <2> HIDE DEF L
  <2> QED BY <1>1 DEF SameBut
<1>4. Kept(s, Active(s, n)) = Kept(t, Active(t, n))
  <2> HIDE DEF L
  <2> QED BY <1>2, <1>3
<1> QED BY <1>4 DEF GetAll

\* The first value is the one that is read when one is asked for.
LEMMA FirstOfAll ==
  ASSUME NEW s \in Seq(SoundLines), NEW n
  PROVE  /\ Has(s, n) <=> GetAll(s, n) # <<>>
         /\ \A default : Get(s, n, default) = IF GetAll(s, n) = <<>> THEN default ELSE GetAll(s, n)[1]
<1> DEFINE A == Active(s, n)
           named == Kept(s, A)
           all == [i \in DOMAIN named |-> named[i].value]
<1>1. Positions(A) /\ \A i \in A : s[i] \in SoundLines BY ActiveIs, FileIs
<1>2. /\ DOMAIN named = 1 .. Cardinality(A) /\ Cardinality(A) \in Nat /\ IsFiniteSet(A)
      /\ \A i \in A : named[Rank(A, i)] = s[i] /\ Rank(A, i) \in 1 .. Cardinality(A)
  <2> HIDE DEF A
  <2> QED BY <1>1, KeptLines, Ranks
<1>3. GetAll(s, n) = all BY DEF GetAll
<1>4. CASE A = {}
  <2>1. Cardinality(A) = 0 BY <1>4, FS_EmptySet
  <2>2. DOMAIN all = {} BY <1>2, <2>1
  <2>3. all = <<>>
    <3> HIDE DEF named
    <3>1. DOMAIN named = {} BY <2>2
    <3> QED BY <3>1
  <2> QED BY <1>3, <1>4, <2>3 DEF Has, Get
<1>5. CASE A # {}
  <2> DEFINE p == Min(A)
  <2>1. p \in A /\ \A i \in A : p <= i
    <3> HIDE DEF A
    <3> QED BY <1>1, <1>5, MinIs
  <2>2. Rank(A, p) = 1
    <3>1. \A i \in A : i \in Int BY <1>1 DEF Positions
    <3>2. p \in Int BY <2>1, <3>1
    <3> HIDE DEF A, p
    <3>3. {j \in A : j <= p} = {p}
      <4>1. ASSUME NEW j \in A, j <= p PROVE j = p
        <5>1. j \in Int /\ p <= j BY <2>1, <3>1
        <5> QED BY <3>2, <4>1, <5>1
      <4>2. p <= p BY <3>2
      <4> QED BY <2>1, <4>1, <4>2
    <3> QED BY <3>3, FS_Singleton DEF Rank
  <2>3. named[1] = s[p] /\ 1 \in DOMAIN named BY <1>2, <2>1, <2>2
  <2>4. all # <<>> /\ all[1] = s[p].value
    <3> HIDE DEF named
    <3>1. 1 \in DOMAIN all /\ all[1] = s[p].value BY <2>3
    <3>2. 1 \notin DOMAIN <<>> OBVIOUS
    <3> HIDE DEF all
    <3> QED BY <3>1, <3>2
  <2>5. Has(s, n) /\ \A default : Get(s, n, default) = s[p].value BY <1>5 DEF Has, Get
  <2> HIDE DEF all, p
  <2> QED BY <1>3, <2>4, <2>5
<1> QED BY <1>4, <1>5

\* A text is loaded as sound lines and keeps the text it was loaded from.
LEMMA TextIs ==
  ASSUME NEW text \in Seq(RawLines)
  PROVE  Parse(text).lines \in Seq(SoundLines) /\ Parse(text).original = text
<1> DEFINE s == [i \in DOMAIN text |-> ParseLine(text[i])]
<1>1. Len(text) \in Nat /\ DOMAIN text = 1 .. Len(text) /\ \A i \in 1 .. Len(text) : text[i] \in RawLines
  BY LenProperties
<1>2. s \in [1 .. Len(text) -> SoundLines] BY <1>1 DEF SoundLines
<1>3. s \in Seq(SoundLines)
  <2> HIDE DEF s
  <2> QED BY <1>1, <1>2, IsASeq
<1>4. Parse(text).lines = s /\ Parse(text).original = text BY DEF Parse
<1> QED BY <1>3, <1>4

\* Whatever was typed into whichever editor.
LEMMA NothingElse ==
  ASSUME NEW text \in Seq(RawLines), NEW key, NEW after, NEW values,
         Now(after, key, values), SameBut(Parse(text).lines, after, key)
  PROVE  LET before == Parse(text)
             reread == Parse(ToText(after)).lines
         IN  /\ Prose(after) = Prose(before.lines) /\ Prose(reread) = Prose(after)
             /\ Others(after, key) = Others(before.lines, key)
             /\ Others(reread, key) = Others(after, key)
             /\ ChangedKeys([before EXCEPT !.lines = after]) \subseteq {Lower[key]}
             /\ Now(reread, key, values)
<1> DEFINE before == Parse(text)
           s == before.lines
           reread == Parse(ToText(after)).lines
           conf == [before EXCEPT !.lines = after]
<1>1. s \in Seq(SoundLines) /\ before.original = text /\ after \in Seq(SoundLines) BY TextIs DEF Now
<1>2. reread \in Seq(SoundLines) /\ SameBut(after, reread, key) /\ Now(reread, key, values)
  BY <1>1, ReadIs, ReadKeeps, ReadNow
<1>3. conf.lines = after /\ conf.original = text
  <2>1. before = [lines |-> [i \in DOMAIN text |-> ParseLine(text[i])], original |-> text] BY DEF Parse
  <2> QED BY <2>1
<1>4. ASSUME NEW n \in Names, GetAll(conf.lines, n) # GetAll(Parse(conf.original).lines, n)
      PROVE  Lower[n] = Lower[key]
  <2>1. GetAll(after, n) # GetAll(s, n) BY <1>3, <1>4
  <2> HIDE DEF s
  <2> QED BY <1>1, <2>1, SameReading DEF s
<1>5. ChangedKeys(conf) \subseteq {Lower[key]} BY <1>4 DEF ChangedKeys
<1>6. Prose(after) = Prose(s) /\ Others(after, key) = Others(s, key)
  <2>1. SameBut(s, after, key) OBVIOUS
  <2> HIDE DEF s
  <2> QED BY <1>1, <2>1, SameProse, SameOthers
<1>7. Prose(reread) = Prose(after) /\ Others(reread, key) = Others(after, key)
  <2> HIDE DEF reread
  <2> QED BY <1>1, <1>2, SameProse, SameOthers
<1> QED BY <1>2, <1>5, <1>6, <1>7

\* A yes or no that is written is read as it was meant.
LEMMA BoolWords ==
  ASSUME NEW b \in BOOLEAN
  PROVE  FromBool(b) \in Seq(Words) /\ \A default : ToBool(FromBool(b), default) = b
<1>1. "yes" \in Words /\ "no" \in Words BY WordsWritten
<1>2. <<"yes">> \in Seq(Words) /\ <<"no">> \in Seq(Words) BY <1>1, Singleton
<1>3. <<"yes">> \in TrueWords BY DEF TrueWords
<1>4. <<"no">> \in FalseWords BY DEF FalseWords
<1>5. <<"no">> \notin TrueWords
  <2>1. \A x : <<x>>[1] = x /\ <<x>> # <<>> OBVIOUS
  <2>2. <<"no">> # <<"yes">> /\ <<"no">> # <<"true">> /\ <<"no">> # <<"1">> /\ <<"no">> # <<"on">> OBVIOUS
  <2> QED BY <2>1, <2>2 DEF TrueWords
<1>6. CASE b = TRUE BY <1>2, <1>3, <1>6 DEF FromBool, ToBool
<1>7. CASE b = FALSE BY <1>2, <1>4, <1>5, <1>7 DEF FromBool, ToBool
<1> QED BY <1>6, <1>7

\* What was typed is all an editor then shows.
LEMMA TypedBool ==
  ASSUME NEW text \in Seq(RawLines), NEW option, option.key \in Names, option.kind = "bool", NEW value \in BOOLEAN
  PROVE  EditIsLocal(Parse(text), option, value)
<1> DEFINE before == Parse(text)
           s == before.lines
           key == option.key
           v == FromBool(value)
           after == Typed(s, option, value)
           again == Typed(after, option, value)
           reread == Parse(ToText(after)).lines
<1>1. s \in Seq(SoundLines) BY TextIs
<1>2. v \in Seq(Words) /\ \A default : ToBool(v, default) = value BY BoolWords
<1>3. \A x : Typed(x, option, value) = SetOption(x, key, v) BY DEF Typed
<1> HIDE DEF s, v, key
<1>4. Now(after, key, <<v>>) /\ SameBut(s, after, key)
  <2>1. key \in Names BY DEF key
  <2> QED BY <1>1, <1>2, <1>3, <2>1, SetOptionIs
<1>5. again = after
  <2> HIDE DEF after
  <2> QED BY <1>2, <1>3, <1>4, SetOptionAgain
<1> HIDE DEF again
<1>6. /\ Prose(after) = Prose(s) /\ Prose(reread) = Prose(after)
      /\ Others(after, key) = Others(s, key) /\ Others(reread, key) = Others(after, key)
      /\ ChangedKeys([before EXCEPT !.lines = after]) \subseteq {Lower[key]}
      /\ Now(reread, key, <<v>>)
  <2> HIDE DEF after
  <2> QED BY <1>4, NothingElse DEF s
<1>7. <<v>> \in Seq(Seq(Words)) /\ Len(<<v>>) = 1 /\ <<v>>[1] = v /\ <<v>> # <<>> BY <1>2, Singleton
<1>8. ASSUME NEW t, Now(t, key, <<v>>) PROVE CurrentValue(t, option) = value /\ Cardinality(Active(t, key)) <= 1
  <2>1. Has(t, key) /\ Get(t, key, <<>>) = v /\ Cardinality(Active(t, key)) = 1 BY <1>7, <1>8, NowReads
  <2>2. CurrentValue(t, option) = GetBool(t, key, option.default) BY DEF CurrentValue, Repeatable, key
  <2> QED BY <1>2, <2>1, <2>2 DEF GetBool
<1>9. CurrentValue(after, option) = value /\ CurrentValue(reread, option) = value /\ Cardinality(Active(after, key)) <= 1
  <2> HIDE DEF after, reread
  <2> QED BY <1>4, <1>6, <1>8
<1>10. InPlace(s, after, key) => Documentation(after) = Documentation(s)
  <2>1. key \in Names BY DEF key
  <2>2. after = SetOption(s, key, v) BY <1>3
  <2> HIDE DEF after
  <2> QED BY <1>1, <1>2, <2>1, <2>2, SetOptionDocuments DEF InPlace
<1>11. Meaning(again) = Meaning(after) BY <1>5
<1> HIDE DEF after, reread
<1> QED BY <1>5, <1>6, <1>9, <1>10, <1>11 DEF EditIsLocal, again, after, reread, key, s

\* What is typed into the editor of a repeatable option is local to it.
LEMMA TypedList ==
  ASSUME NEW text \in Seq(RawLines), NEW option, option.key \in Names, option.kind \in Repeatable,
         NEW value \in Seq(Seq(Words))
  PROVE  EditIsLocal(Parse(text), option, value)
<1> DEFINE before == Parse(text)
           s == before.lines
           key == option.key
           after == Typed(s, option, value)
           again == Typed(after, option, value)
           reread == Parse(ToText(after)).lines
<1>1. s \in Seq(SoundLines) BY TextIs
<1>2. option.kind # "bool" /\ option.kind # "enum" /\ option.kind \notin Integral
  <2>1. option.kind = "multi" \/ option.kind = "regex" BY DEF Repeatable
  <2> QED BY <2>1 DEF Integral
<1>3. \A x : Typed(x, option, value) = SetAll(x, key, value)
  <2>1. \A v : Valid(option, v) BY <1>2 DEF Valid
  <2> QED BY <1>2, <2>1 DEF Typed
<1> HIDE DEF s, key
<1>0. key \in Names BY DEF key
<1>4. Now(after, key, value) /\ SameBut(s, after, key) /\ (Has(s, key) => Alike(after, key))
  BY <1>0, <1>1, <1>3, SetAllIs
<1>5. Meaning(again) = Meaning(after) /\ (Has(s, key) => again = after)
  <2> HIDE DEF after
  <2> QED BY <1>3, <1>4, SetAllAgain
<1> HIDE DEF again
<1>6. /\ Prose(after) = Prose(s) /\ Prose(reread) = Prose(after)
      /\ Others(after, key) = Others(s, key) /\ Others(reread, key) = Others(after, key)
      /\ ChangedKeys([before EXCEPT !.lines = after]) \subseteq {Lower[key]}
      /\ Now(reread, key, value)
  <2> HIDE DEF after
  <2> QED BY <1>4, NothingElse DEF s
<1>8. ASSUME NEW t, Now(t, key, value) PROVE CurrentValue(t, option) = value
  <2>1. GetAll(t, key) = value BY <1>8, NowReads
  <2> QED BY <1>2, <2>1 DEF CurrentValue, key
<1>9. CurrentValue(after, option) = value /\ CurrentValue(reread, option) = value
  <2> HIDE DEF after, reread
  <2> QED BY <1>4, <1>6, <1>8
<1>10. InPlace(s, after, key) => Documentation(after) = Documentation(s)
  <2> SUFFICES ASSUME InPlace(s, after, key) PROVE Documentation(after) = Documentation(s) OBVIOUS
  <2>1. value # <<>>
    <3> HIDE DEF after
    <3>1. Has(after, key) BY DEF InPlace, Has
    <3> QED BY <1>4, <3>1, NowReads
  <2>2. after = SetAll(s, key, value) BY <1>3
  <2>3. Cardinality(Active(s, key)) <= 1 /\ Find(s, key) # {} BY DEF InPlace
  <2> HIDE DEF after
  <2> QED BY <1>0, <1>1, <2>1, <2>2, <2>3, SetAllDocuments
<1> HIDE DEF after, reread
<1> QED BY <1>2, <1>5, <1>6, <1>9, <1>10 DEF EditIsLocal, again, after, reread, key, s

\* What is typed into the editor of any other option is local to it.
LEMMA TypedOne ==
  ASSUME NEW text \in Seq(RawLines), NEW option, option.key \in Names,
         option.kind # "bool", option.kind \notin Repeatable,
         NEW value \in Seq(Words), Valid(option, value)
  PROVE  EditIsLocal(Parse(text), option, value)
<1> DEFINE before == Parse(text)
           s == before.lines
           key == option.key
           values == IF value = <<>> THEN <<>> ELSE <<value>>
           after == Typed(s, option, value)
           again == Typed(after, option, value)
           reread == Parse(ToText(after)).lines
<1>1. s \in Seq(SoundLines) BY TextIs
<1>3. \A x : Typed(x, option, value) = IF value = <<>> THEN RemoveOption(x, key) ELSE SetOption(x, key, value)
  BY DEF Typed
<1> HIDE DEF s, key
<1>0. key \in Names BY DEF key
<1>4. Now(after, key, values) /\ SameBut(s, after, key)
  <2>1. CASE value = <<>> BY <1>1, <1>3, <2>1, RemoveIs
  <2>2. CASE value # <<>> BY <1>0, <1>1, <1>3, <2>2, SetOptionIs
  <2> QED BY <2>1, <2>2
<1>5. again = after
  <2>1. CASE value = <<>>
    <3>1. after = RemoveOption(s, key) /\ again = RemoveOption(after, key) BY <1>3, <2>1
    <3>2. after \in Seq(SoundLines) /\ Active(after, key) = {} BY <1>1, <3>1, RemoveIs DEF Now
    <3> HIDE DEF after, again
    <3> QED BY <3>1, <3>2, RemoveAgain
  <2>2. CASE value # <<>>
    <3>1. again = SetOption(after, key, value) BY <1>3, <2>2
    <3>2. Now(after, key, <<value>>) BY <1>4, <2>2
    <3> HIDE DEF after, again
    <3> QED BY <3>1, <3>2, SetOptionAgain
  <2> QED BY <2>1, <2>2
<1> HIDE DEF again
<1>7. /\ values \in Seq(Seq(Words)) /\ Len(values) <= 1
      /\ IF value = <<>> THEN values = <<>> ELSE values # <<>> /\ values[1] = value
  <2>1. <<value>> \in Seq(Seq(Words)) /\ Len(<<value>>) = 1 /\ <<value>>[1] = value /\ <<value>> # <<>> BY Singleton
  <2>2. <<>> \in Seq(Seq(Words)) /\ Len(<<>>) = 0 OBVIOUS
  <2> QED BY <2>1, <2>2
<1> HIDE DEF values
<1>6. /\ Prose(after) = Prose(s) /\ Prose(reread) = Prose(after)
      /\ Others(after, key) = Others(s, key) /\ Others(reread, key) = Others(after, key)
      /\ ChangedKeys([before EXCEPT !.lines = after]) \subseteq {Lower[key]}
      /\ Now(reread, key, values)
  <2> HIDE DEF after
  <2> QED BY <1>4, NothingElse DEF s
<1>8. ASSUME NEW t, Now(t, key, values) PROVE CurrentValue(t, option) = value /\ Cardinality(Active(t, key)) <= 1
  <2>1. Get(t, key, <<>>) = value /\ Cardinality(Active(t, key)) <= 1 BY <1>7, <1>8, NowReads
  <2>2. CurrentValue(t, option) = Get(t, key, <<>>) BY DEF CurrentValue, key
  <2> QED BY <2>1, <2>2
<1>9. CurrentValue(after, option) = value /\ CurrentValue(reread, option) = value /\ Cardinality(Active(after, key)) <= 1
  <2> HIDE DEF after, reread
  <2> QED BY <1>4, <1>6, <1>8
<1>10. InPlace(s, after, key) => Documentation(after) = Documentation(s)
  <2> SUFFICES ASSUME InPlace(s, after, key) PROVE Documentation(after) = Documentation(s) OBVIOUS
  <2>1. value # <<>>
    <3> HIDE DEF after
    <3>1. Has(after, key) BY DEF InPlace, Has
    <3> QED BY <1>4, <1>7, <3>1, NowReads
  <2>2. after = SetOption(s, key, value) BY <1>3, <2>1
  <2>3. Cardinality(Active(s, key)) <= 1 /\ Find(s, key) # {} BY DEF InPlace
  <2> HIDE DEF after
  <2> QED BY <1>0, <1>1, <2>2, <2>3, SetOptionDocuments
<1>11. Meaning(again) = Meaning(after) BY <1>5
<1> HIDE DEF after, reread
<1> QED BY <1>5, <1>6, <1>9, <1>10, <1>11 DEF EditIsLocal, again, after, reread, key, s

\* Every edit of every file, whatever the files, editors and values.
THEOREM EveryEditIsLocal ==
  \A text \in Files, option \in Editors : \A value \in Typeable(option) : EditIsLocal(Parse(text), option, value)
<1> SUFFICES ASSUME NEW text \in Files, NEW option \in Editors, NEW value \in Typeable(option)
             PROVE  EditIsLocal(Parse(text), option, value)
  OBVIOUS
<1>1. text \in Seq(RawLines) BY FilesAreText
<1>2. option.key \in Names BY EditorsAreOfOptions
<1>3. CASE option.kind = "bool"
  <2>1. Typeable(option) = BOOLEAN BY <1>3 DEF Typeable, Repeatable
  <2> QED BY <1>1, <1>2, <1>3, <2>1, TypedBool
<1>4. CASE option.kind \in Repeatable
  <2>1. option.kind # "bool" BY <1>4 DEF Repeatable
  <2>2. value \in UNION {[1 .. n -> Values] : n \in 0 .. MaxRows} BY <1>4, <2>1 DEF Typeable
  <2>3. PICK n \in 0 .. MaxRows : value \in [1 .. n -> Values] BY <2>2
  <2>4. n \in Nat /\ value \in [1 .. n -> Seq(Words)] BY <2>3, ValuesAreWords
  <2>5. value \in Seq(Seq(Words)) BY <2>4, IsASeq
  <2> QED BY <1>1, <1>2, <1>4, <2>5, TypedList
<1>5. CASE option.kind # "bool" /\ option.kind \notin Repeatable
  <2>1. value \in Values \cup {<<>>} /\ Valid(option, value) BY <1>5 DEF Typeable
  <2>2. value \in Seq(Words)
    <3>1. <<>> \in Seq(Words) OBVIOUS
    <3> QED BY <2>1, <3>1, ValuesAreWords
  <2> QED BY <1>1, <1>2, <1>5, <2>1, <2>2, TypedOne
<1> QED BY <1>3, <1>4, <1>5

-----------------------------------------------------------------------------
\* What is diagnosed is what is looked at and wrong.
Looks(s, status, daemon, low) ==
  {NoExclusion(s), NothingWatched(s), PreventionOnMounts(s), RiskyPrevention(s), ReportOnly(s),
   DaemonDown(status, daemon), WatchLimit(s, low)}

\* What the diagnosis lists is each look that found something wrong.
LEMMA DiagnosedIs ==
  ASSUME NEW s, NEW status, NEW daemon, NEW low
  PROVE  LET F == DiagnoseOnAccess(s, status, daemon, low)
         IN  /\ \A i \in DOMAIN F : \E look \in Looks(s, status, daemon, low) : look.wrong /\ F[i] = look.found
             /\ \A look \in Looks(s, status, daemon, low) : look.wrong => \E i \in DOMAIN F : F[i] = look.found
<1> DEFINE a == NoExclusion(s)
           b == NothingWatched(s)
           c == PreventionOnMounts(s)
           d == RiskyPrevention(s)
           e == ReportOnly(s)
           f == DaemonDown(status, daemon)
           g == WatchLimit(s, low)
           looked == <<a, b, c, d, e, f, g>>
           S == {i \in DOMAIN looked : looked[i].wrong}
           L == Looks(s, status, daemon, low)
           wrong == Kept(looked, S)
           F == DiagnoseOnAccess(s, status, daemon, low)
<1>1. F = [i \in DOMAIN wrong |-> wrong[i].found] BY DEF DiagnoseOnAccess
<1>2. L = {a, b, c, d, e, f, g} BY DEF Looks
<1> HIDE DEF a, b, c, d, e, f, g, L, F
<1>3. /\ DOMAIN looked = 1 .. 7
      /\ looked[1] = a /\ looked[2] = b /\ looked[3] = c /\ looked[4] = d
      /\ looked[5] = e /\ looked[6] = f /\ looked[7] = g
  OBVIOUS
<1> HIDE DEF looked
<1>4. \A i \in 1 .. 7 : looked[i] \in L
  <2>1. \A i \in 1 .. 7 : i = 1 \/ i = 2 \/ i = 3 \/ i = 4 \/ i = 5 \/ i = 6 \/ i = 7 OBVIOUS
  <2> QED BY <1>2, <1>3, <2>1
<1>5. \A look \in L : \E i \in 1 .. 7 : looked[i] = look
  <2>1. 1 \in 1 .. 7 /\ 2 \in 1 .. 7 /\ 3 \in 1 .. 7 /\ 4 \in 1 .. 7 /\ 5 \in 1 .. 7 /\ 6 \in 1 .. 7 /\ 7 \in 1 .. 7
    OBVIOUS
  <2> QED BY <1>2, <1>3, <2>1
<1>6. Positions(S)
  <2>1. IsFiniteSet(1 .. 7)
    <3> DEFINE one == 1
               seven == 7
    <3>1. one \in Int /\ seven \in Int OBVIOUS
    <3> HIDE DEF one, seven
    <3>2. IsFiniteSet(one .. seven) BY <3>1, FS_Interval
    <3> QED BY <3>2 DEF one, seven
  <2>2. S \subseteq 1 .. 7 BY <1>3
  <2> HIDE DEF S
  <2>3. IsFiniteSet(S) BY <2>1, <2>2, FS_Subset
  <2> QED BY <2>2, <2>3 DEF Positions
<1>7. \A i \in S : looked[i] \in L BY <1>3, <1>4
<1>8. \A i \in S : i \in 1 .. 7 /\ looked[i].wrong BY <1>3
<1>9. \A i \in 1 .. 7 : looked[i].wrong => i \in S BY <1>3
<1> HIDE DEF S
<1>10. /\ DOMAIN wrong = 1 .. Cardinality(S)
       /\ \A m \in 1 .. Cardinality(S) : Nth(S, m) \in S /\ wrong[m] = looked[Nth(S, m)]
       /\ \A i \in S : Rank(S, i) \in 1 .. Cardinality(S) /\ wrong[Rank(S, i)] = looked[i]
  BY <1>6, <1>7, KeptLines
<1> HIDE DEF wrong
<1>11. ASSUME NEW i \in DOMAIN F PROVE \E look \in L : look.wrong /\ F[i] = look.found
  <2>1. i \in 1 .. Cardinality(S) /\ F[i] = wrong[i].found BY <1>1, <1>10
  <2>2. Nth(S, i) \in S /\ wrong[i] = looked[Nth(S, i)] BY <1>10, <2>1
  <2> QED BY <1>7, <1>8, <2>1, <2>2
<1>12. ASSUME NEW look \in L, look.wrong PROVE \E i \in DOMAIN F : F[i] = look.found
  <2>1. PICK j \in 1 .. 7 : looked[j] = look BY <1>5
  <2>2. j \in S BY <1>9, <1>12, <2>1
  <2>3. Rank(S, j) \in DOMAIN F /\ F[Rank(S, j)] = look.found BY <1>1, <1>10, <2>1, <2>2
  <2> QED BY <2>3
<1> QED BY <1>11, <1>12 DEF L, F

\* The names of what is listed, and of what of it is serious.
LEMMA IdsAre ==
  ASSUME NEW s, NEW status, NEW daemon, NEW low
  PROVE  LET F == DiagnoseOnAccess(s, status, daemon, low)
         IN  /\ Ids(F) = {look.found.id : look \in {look \in Looks(s, status, daemon, low) : look.wrong}}
             /\ Serious(F) = {look.found.id : look \in {look \in Looks(s, status, daemon, low) :
                                look.wrong /\ look.found.severity \in {"danger", "warn"}}}
<1> DEFINE F == DiagnoseOnAccess(s, status, daemon, low)
           L == Looks(s, status, daemon, low)
<1>1. /\ \A i \in DOMAIN F : \E look \in L : look.wrong /\ F[i] = look.found
      /\ \A look \in L : look.wrong => \E i \in DOMAIN F : F[i] = look.found
  BY DiagnosedIs
<1> HIDE DEF F, L
<1>2. Ids(F) = {look.found.id : look \in {look \in L : look.wrong}} BY <1>1 DEF Ids
<1>3. Serious(F) = {look.found.id : look \in {look \in L : look.wrong /\ look.found.severity \in {"danger", "warn"}}}
  BY <1>1 DEF Serious
<1> QED BY <1>2, <1>3 DEF F, L

\* What is wrong, by name.
LEMMA WrongIs ==
  ASSUME NEW s, NEW status, NEW daemon, NEW low
  PROVE  LET F == DiagnoseOnAccess(s, status, daemon, low)
         IN  /\ "no-exclusion" \in Ids(F) => ~HasExclusion(s)
             /\ "nothing-watched" \in Ids(F) => ~Watched(s)
             /\ "prevention-mountpath" \in Ids(F) => Prevents(s) /\ Mounted(s) # <<>>
             /\ "risky-prevention" \in Ids(F) => Prevents(s) /\ Risky(s)
             /\ "report-only" \in Ids(F) => ~Prevents(s)
<1> DEFINE L == Looks(s, status, daemon, low)
           W == {look \in L : look.wrong}
<1>1. Ids(DiagnoseOnAccess(s, status, daemon, low)) = {look.found.id : look \in W} BY IdsAre
<1>2. /\ NoExclusion(s).found.id = "no-exclusion" /\ (NoExclusion(s).wrong <=> ~HasExclusion(s))
      /\ NothingWatched(s).found.id = "nothing-watched" /\ (NothingWatched(s).wrong <=> ~Watched(s))
      /\ PreventionOnMounts(s).found.id = "prevention-mountpath"
      /\ (PreventionOnMounts(s).wrong <=> Prevents(s) /\ Mounted(s) # <<>>)
      /\ RiskyPrevention(s).found.id = "risky-prevention" /\ (RiskyPrevention(s).wrong <=> Prevents(s) /\ Risky(s))
      /\ ReportOnly(s).found.id = "report-only" /\ (ReportOnly(s).wrong => ~Prevents(s))
      /\ DaemonDown(status, daemon).found.id = "daemon-down"
      /\ WatchLimit(s, low).found.id = "watch-limit"
  BY DEF NoExclusion, NothingWatched, PreventionOnMounts, RiskyPrevention, ReportOnly, DaemonDown, WatchLimit, Diagnosis
<1>3. L = {NoExclusion(s), NothingWatched(s), PreventionOnMounts(s), RiskyPrevention(s), ReportOnly(s),
           DaemonDown(status, daemon), WatchLimit(s, low)}
  BY DEF Looks
<1> HIDE DEF L
<1> QED BY <1>1, <1>2, <1>3

\* Whatever is serious of the one file is serious of the other that reads worse.
LEMMA SeriousIs ==
  ASSUME NEW s, NEW t, NEW status, NEW daemon, NEW low,
         HasExclusion(s) => HasExclusion(t), Watched(s) => Watched(t),
         Prevents(t) /\ Mounted(t) # <<>> => Prevents(s) /\ Mounted(s) # <<>>,
         Prevents(t) /\ Risky(t) => Prevents(s) /\ Risky(s)
  PROVE  Serious(DiagnoseOnAccess(t, status, daemon, low)) \subseteq Serious(DiagnoseOnAccess(s, status, daemon, low))
<1> DEFINE L(x) == Looks(x, status, daemon, low)
           W(x) == {look \in L(x) : look.wrong /\ look.found.severity \in {"danger", "warn"}}
<1>1. \A x : Serious(DiagnoseOnAccess(x, status, daemon, low)) = {look.found.id : look \in W(x)} BY IdsAre
<1>2. \A x : L(x) = {NoExclusion(x), NothingWatched(x), PreventionOnMounts(x), RiskyPrevention(x), ReportOnly(x),
                     DaemonDown(status, daemon), WatchLimit(x, low)}
  BY DEF Looks
<1>3. \A x : /\ NoExclusion(x).found.id = "no-exclusion" /\ (NoExclusion(x).wrong <=> ~HasExclusion(x))
             /\ NoExclusion(x).found.severity = "danger"
  BY DEF NoExclusion, Diagnosis
<1>4. \A x : /\ NothingWatched(x).found.id = "nothing-watched" /\ (NothingWatched(x).wrong <=> ~Watched(x))
             /\ NothingWatched(x).found.severity = "danger"
  BY DEF NothingWatched, Diagnosis
<1>5. \A x : /\ PreventionOnMounts(x).found.id = "prevention-mountpath"
             /\ (PreventionOnMounts(x).wrong <=> Prevents(x) /\ Mounted(x) # <<>>)
             /\ PreventionOnMounts(x).found.severity = "warn"
  BY DEF PreventionOnMounts, Diagnosis
<1>6. \A x : /\ RiskyPrevention(x).found.id = "risky-prevention"
             /\ (RiskyPrevention(x).wrong <=> Prevents(x) /\ Risky(x)) /\ RiskyPrevention(x).found.severity = "warn"
  BY DEF RiskyPrevention, Diagnosis
<1>7. \A x : ReportOnly(x).found.severity = "info" BY DEF ReportOnly, Diagnosis
<1>8. \A x : WatchLimit(x, low).found.severity = "info" BY DEF WatchLimit, Diagnosis
<1> HIDE DEF L
<1>9. ASSUME NEW look \in W(t) PROVE \E k \in W(s) : k.found.id = look.found.id
  <2>1. look \in L(t) /\ look.wrong /\ look.found.severity \in {"danger", "warn"} OBVIOUS
  <2>2. CASE look = NoExclusion(t)
    <3>1. NoExclusion(s) \in W(s) BY <1>2, <1>3, <2>1, <2>2
    <3> QED BY <1>3, <2>2, <3>1
  <2>3. CASE look = NothingWatched(t)
    <3>1. NothingWatched(s) \in W(s) BY <1>2, <1>4, <2>1, <2>3
    <3> QED BY <1>4, <2>3, <3>1
  <2>4. CASE look = PreventionOnMounts(t)
    <3>1. PreventionOnMounts(s) \in W(s) BY <1>2, <1>5, <2>1, <2>4
    <3> QED BY <1>5, <2>4, <3>1
  <2>5. CASE look = RiskyPrevention(t)
    <3>1. RiskyPrevention(s) \in W(s) BY <1>2, <1>6, <2>1, <2>5
    <3> QED BY <1>6, <2>5, <3>1
  <2>6. CASE look = DaemonDown(status, daemon)
    <3>1. look \in W(s) BY <1>2, <2>1, <2>6
    <3> QED BY <3>1
  <2>7. look # ReportOnly(t) /\ look # WatchLimit(t, low) BY <1>7, <1>8, <2>1
  <2> QED BY <1>2, <2>1, <2>2, <2>3, <2>4, <2>5, <2>6, <2>7
<1> HIDE DEF W
<1>10. \A look \in W(t) : look.found.id \in {k.found.id : k \in W(s)} BY <1>9
<1> QED BY <1>1, <1>10

\* What is offered, and for what.
Offered(s, id, remedy) ==
  \/ /\ id = "no-exclusion"
     /\ \/ remedy = Remedy("OnAccessExcludeUname", "list", DaemonUser(s), TRUE)
        \/ remedy = Remedy("OnAccessExcludeRootUID", "one", FromBool(TRUE), FALSE)
  \/ id = "nothing-watched" /\ remedy = WatchHome(TRUE)
  \/ /\ id = "prevention-mountpath"
     /\ remedy \in {SetPrevention(FALSE, TRUE), Remedy("OnAccessMountPath", "remove", <<>>, FALSE)}
  \/ id = "risky-prevention" /\ remedy \in {WatchHome(TRUE), SetPrevention(FALSE, FALSE)}
  \/ id = "report-only" /\ Mounted(s) = <<>> /\ remedy = SetPrevention(TRUE, ~Risky(s))

\* The remedies that are listed are offered for what they are listed with.
LEMMA OfferedAre ==
  ASSUME NEW s, NEW status, NEW daemon, NEW low,
         NEW i \in DOMAIN DiagnoseOnAccess(s, status, daemon, low),
         NEW r \in DOMAIN DiagnoseOnAccess(s, status, daemon, low)[i].remedies
  PROVE  LET found == DiagnoseOnAccess(s, status, daemon, low)[i]
         IN  Offered(s, found.id, found.remedies[r])
<1> DEFINE found == DiagnoseOnAccess(s, status, daemon, low)[i]
<1>1. PICK look \in Looks(s, status, daemon, low) : look.wrong /\ found = look.found BY DiagnosedIs
<1>2. r \in DOMAIN found.remedies OBVIOUS
<1> SUFFICES Offered(s, found.id, found.remedies[r]) OBVIOUS
<1> HIDE DEF found
<1>a. DOMAIN <<>> = {} OBVIOUS
<1>b. ASSUME NEW a, NEW q \in DOMAIN <<a>> PROVE <<a>>[q] = a BY <1>b
<1>c. ASSUME NEW a, NEW b, NEW q \in DOMAIN <<a, b>> PROVE <<a, b>>[q] = a \/ <<a, b>>[q] = b BY <1>c
<1>3. CASE look = NoExclusion(s)
  <2>1. found = Diagnosis("no-exclusion", "danger",
                  << Remedy("OnAccessExcludeUname", "list", DaemonUser(s), TRUE),
                     Remedy("OnAccessExcludeRootUID", "one", FromBool(TRUE), FALSE) >>)
    BY <1>1, <1>3 DEF NoExclusion
  <2> DEFINE a == Remedy("OnAccessExcludeUname", "list", DaemonUser(s), TRUE)
             b == Remedy("OnAccessExcludeRootUID", "one", FromBool(TRUE), FALSE)
  <2>2. found.id = "no-exclusion" /\ found.remedies = <<a, b>>
    <3> HIDE DEF a, b
    <3>1. found = Diagnosis("no-exclusion", "danger", <<a, b>>) BY <2>1 DEF a, b
    <3> QED BY <3>1 DEF Diagnosis
  <2>3. found.remedies[r] = a \/ found.remedies[r] = b
    <3> HIDE DEF a, b
    <3> QED BY <1>2, <1>c, <2>2
  <2> QED BY <2>2, <2>3 DEF Offered
<1>4. CASE look = NothingWatched(s)
  <2> DEFINE a == WatchHome(TRUE)
  <2> HIDE DEF a
  <2>1. found = Diagnosis("nothing-watched", "danger", <<a>>) BY <1>1, <1>4 DEF NothingWatched, a
  <2>2. found.id = "nothing-watched" /\ found.remedies = <<a>> BY <2>1 DEF Diagnosis
  <2>3. found.remedies[r] = a BY <1>2, <1>b, <2>2
  <2> QED BY <2>2, <2>3 DEF Offered, a
<1>5. CASE look = PreventionOnMounts(s)
  <2> DEFINE a == SetPrevention(FALSE, TRUE)
             b == Remedy("OnAccessMountPath", "remove", <<>>, FALSE)
  <2> HIDE DEF a, b
  <2>1. found = Diagnosis("prevention-mountpath", "warn", <<a, b>>) BY <1>1, <1>5 DEF PreventionOnMounts, a, b
  <2>2. found.id = "prevention-mountpath" /\ found.remedies = <<a, b>> BY <2>1 DEF Diagnosis
  <2>3. found.remedies[r] \in {a, b} BY <1>2, <1>c, <2>2
  <2> QED BY <2>2, <2>3 DEF Offered, a, b
<1>6. CASE look = RiskyPrevention(s)
  <2> DEFINE a == WatchHome(TRUE)
             b == SetPrevention(FALSE, FALSE)
  <2> HIDE DEF a, b
  <2>1. found = Diagnosis("risky-prevention", "warn", <<a, b>>) BY <1>1, <1>6 DEF RiskyPrevention, a, b
  <2>2. found.id = "risky-prevention" /\ found.remedies = <<a, b>> BY <2>1 DEF Diagnosis
  <2>3. found.remedies[r] \in {a, b} BY <1>2, <1>c, <2>2
  <2> QED BY <2>2, <2>3 DEF Offered, a, b
<1>7. CASE look = ReportOnly(s)
  <2> DEFINE a == SetPrevention(TRUE, ~Risky(s))
  <2> HIDE DEF a
  <2>1. found = Diagnosis("report-only", "info", IF Mounted(s) # <<>> THEN <<>> ELSE <<a>>)
    BY <1>1, <1>7 DEF ReportOnly, a
  <2>2. found.id = "report-only" /\ found.remedies = IF Mounted(s) # <<>> THEN <<>> ELSE <<a>> BY <2>1 DEF Diagnosis
  <2>3. Mounted(s) = <<>> /\ found.remedies = <<a>> BY <1>2, <2>2
  <2>4. found.remedies[r] = a BY <1>2, <1>b, <2>3
  <2> QED BY <2>2, <2>3, <2>4 DEF Offered, a
<1>8. CASE look = DaemonDown(status, daemon)
  <2>1. found = Diagnosis("daemon-down", "danger", <<>>) BY <1>1, <1>8 DEF DaemonDown
  <2>2. found.remedies = <<>> BY <2>1 DEF Diagnosis
  <2> QED BY <1>2, <1>a, <2>2
<1>9. CASE look = WatchLimit(s, low)
  <2>1. found = Diagnosis("watch-limit", "info", <<>>) BY <1>1, <1>9 DEF WatchLimit
  <2>2. found.remedies = <<>> BY <2>1 DEF Diagnosis
  <2> QED BY <1>2, <1>a, <2>2
<1> QED BY <1>1, <1>3, <1>4, <1>5, <1>6, <1>7, <1>8, <1>9 DEF Looks

-----------------------------------------------------------------------------
\* What a remedy does to what is read of the options.
Reread(s, remedy) == Parse(ToText(Remedied(s, remedy))).lines
Changed(s, u, key, values) ==
  /\ u \in Seq(SoundLines) /\ GetAll(u, key) = values
  /\ \A n \in ConsultedOptions : n # key => GetAll(u, n) = GetAll(s, n)

\* An edit of a consulted option changes what is read of it and of nothing else.
LEMMA EditChanges ==
  ASSUME NEW s \in Seq(SoundLines), NEW t, NEW key \in ConsultedOptions, NEW values,
         Now(t, key, values), SameBut(s, t, key)
  PROVE  Changed(s, Parse(ToText(t)).lines, key, values)
<1> DEFINE u == Parse(ToText(t)).lines
<1>1. t \in Seq(SoundLines) BY DEF Now
<1>2. u \in Seq(SoundLines) /\ SameBut(t, u, key) /\ Now(u, key, values) BY <1>1, ReadIs, ReadKeeps, ReadNow
<1> HIDE DEF u
<1>3. SameBut(s, u, key) /\ GetAll(u, key) = values BY <1>2, SameButThrough, NowReads
<1>4. ASSUME NEW n \in ConsultedOptions, n # key PROVE GetAll(u, n) = GetAll(s, n)
  <2>1. Lower[n] # Lower[key] BY <1>4, OptionsAreDistinct
  <2> QED BY <1>2, <1>3, <2>1, SameReading
<1>5. Changed(s, u, key, values) BY <1>2, <1>3, <1>4 DEF Changed
<1> QED BY <1>5 DEF u

\* A remedy is such an edit: one value set, or the option removed.
LEMMA RemedyChanges ==
  ASSUME NEW s \in Seq(SoundLines), NEW remedy, remedy.key \in ConsultedOptions, remedy.value \in Seq(Words)
  PROVE  /\ remedy.how = "remove" => Changed(s, Reread(s, remedy), remedy.key, <<>>)
         /\ remedy.how \in {"list", "one"} => Changed(s, Reread(s, remedy), remedy.key, <<remedy.value>>)
<1> DEFINE key == remedy.key
           v == remedy.value
<1>0. key \in ConsultedOptions /\ key \in Names /\ v \in Seq(Words) BY OptionsAreDistinct
<1>1. CASE remedy.how = "remove"
  <2>1. Remedied(s, remedy) = RemoveOption(s, key) BY <1>1 DEF Remedied
  <2> DEFINE t == RemoveOption(s, key)
  <2>2. Now(t, key, <<>>) /\ SameBut(s, t, key) BY RemoveIs
  <2> HIDE DEF t, key
  <2>3. Changed(s, Parse(ToText(t)).lines, key, <<>>) BY <1>0, <2>2, EditChanges
  <2> QED BY <1>1, <2>1, <2>3 DEF Reread, t, key
<1>2. CASE remedy.how = "one"
  <2>1. Remedied(s, remedy) = SetOption(s, key, v) BY <1>2 DEF Remedied
  <2> DEFINE t == SetOption(s, key, v)
  <2> HIDE DEF key, v
  <2>2. Now(t, key, <<v>>) /\ SameBut(s, t, key) BY <1>0, SetOptionIs
  <2> HIDE DEF t
  <2>3. Changed(s, Parse(ToText(t)).lines, key, <<v>>) BY <1>0, <2>2, EditChanges
  <2> QED BY <1>2, <2>1, <2>3 DEF Reread, t, key, v
<1>3. CASE remedy.how = "list"
  <2>1. Remedied(s, remedy) = SetAll(s, key, <<v>>) BY <1>3 DEF Remedied
  <2> DEFINE t == SetAll(s, key, <<v>>)
             values == <<v>>
  <2>2. values \in Seq(Seq(Words))
    <3> HIDE DEF v
    <3> QED BY <1>0, Singleton
  <2> HIDE DEF key, v, values
  <2>3. Now(t, key, values) /\ SameBut(s, t, key) BY <1>0, <2>2, SetAllIs DEF values
  <2> HIDE DEF t
  <2>4. Changed(s, Parse(ToText(t)).lines, key, values) BY <1>0, <2>3, EditChanges
  <2> QED BY <1>3, <2>1, <2>4 DEF Reread, t, key, v, values
<1> QED BY <1>1, <1>2, <1>3

\* What is diagnosed is read from the seven options.
LEMMA ReadFrom ==
  ASSUME NEW s \in Seq(SoundLines)
  PROVE  /\ HasExclusion(s) <=>
              \/ GetAll(s, "OnAccessExcludeUID") # <<>> \/ GetAll(s, "OnAccessExcludeUname") # <<>>
              \/ GetAll(s, "OnAccessExcludeRootUID") # <<>> /\ ToBool(GetAll(s, "OnAccessExcludeRootUID")[1], FALSE)
         /\ Prevents(s) <=>
              GetAll(s, "OnAccessPrevention") # <<>> /\ ToBool(GetAll(s, "OnAccessPrevention")[1], FALSE)
<1>1. \A n : GetBool(s, n, FALSE) <=> GetAll(s, n) # <<>> /\ ToBool(GetAll(s, n)[1], FALSE)
  <2> SUFFICES ASSUME NEW n PROVE GetBool(s, n, FALSE) <=> GetAll(s, n) # <<>> /\ ToBool(GetAll(s, n)[1], FALSE)
    OBVIOUS
  <2>1. /\ Has(s, n) <=> GetAll(s, n) # <<>>
        /\ Get(s, n, <<>>) = IF GetAll(s, n) = <<>> THEN <<>> ELSE GetAll(s, n)[1]
    BY FirstOfAll
  <2> QED BY <2>1 DEF GetBool
<1>2. \A n : Has(s, n) <=> GetAll(s, n) # <<>> BY FirstOfAll
<1> QED BY <1>1, <1>2 DEF HasExclusion, Prevents

\* The seven options the diagnosis reads.
LEMMA ConsultedAre ==
  /\ "User" \in ConsultedOptions /\ "OnAccessPrevention" \in ConsultedOptions /\ "OnAccessIncludePath" \in ConsultedOptions
  /\ "OnAccessMountPath" \in ConsultedOptions /\ "OnAccessExcludeUID" \in ConsultedOptions
  /\ "OnAccessExcludeUname" \in ConsultedOptions /\ "OnAccessExcludeRootUID" \in ConsultedOptions
BY DEF ConsultedOptions

\* One of them is changed and the others are read as before.
LEMMA ExclusionChanged ==
  ASSUME NEW s \in Seq(SoundLines), NEW u,
         (\E v : Changed(s, u, "OnAccessExcludeUname", <<v>>)) \/ Changed(s, u, "OnAccessExcludeRootUID", <<FromBool(TRUE)>>)
  PROVE  HasExclusion(u) /\ (Prevents(u) <=> Prevents(s)) /\ Included(u) = Included(s) /\ Mounted(u) = Mounted(s)
<1>1. u \in Seq(SoundLines) BY DEF Changed
<1>2. \A v : <<v>> # <<>> /\ <<v>>[1] = v OBVIOUS
<1>3. ToBool(FromBool(TRUE), FALSE) BY BoolWords
<1>4. HasExclusion(u)
  <2>1. CASE \E v : Changed(s, u, "OnAccessExcludeUname", <<v>>)
    <3>1. GetAll(u, "OnAccessExcludeUname") # <<>> BY <1>2, <2>1 DEF Changed
    <3> QED BY <1>1, <3>1, ReadFrom
  <2>2. CASE Changed(s, u, "OnAccessExcludeRootUID", <<FromBool(TRUE)>>)
    <3>1. GetAll(u, "OnAccessExcludeRootUID") = <<FromBool(TRUE)>> BY <2>2 DEF Changed
    <3> QED BY <1>1, <1>2, <1>3, <3>1, ReadFrom
  <2> QED BY <2>1, <2>2
<1>5. /\ GetAll(u, "OnAccessPrevention") = GetAll(s, "OnAccessPrevention")
      /\ GetAll(u, "OnAccessIncludePath") = GetAll(s, "OnAccessIncludePath")
      /\ GetAll(u, "OnAccessMountPath") = GetAll(s, "OnAccessMountPath")
  BY ConsultedAre DEF Changed
<1>6. Prevents(u) <=> Prevents(s) BY <1>1, <1>5, ReadFrom
<1> QED BY <1>4, <1>5, <1>6 DEF Included, Mounted

\* Prevention turned on or off changes nothing else that is read.
LEMMA PreventionChanged ==
  ASSUME NEW s \in Seq(SoundLines), NEW u, NEW b \in BOOLEAN, Changed(s, u, "OnAccessPrevention", <<FromBool(b)>>)
  PROVE  (Prevents(u) <=> b) /\ (HasExclusion(u) <=> HasExclusion(s)) /\ Included(u) = Included(s) /\ Mounted(u) = Mounted(s)
<1>1. u \in Seq(SoundLines) BY DEF Changed
<1>2. \A v : <<v>> # <<>> /\ <<v>>[1] = v OBVIOUS
<1>3. ToBool(FromBool(b), FALSE) = b BY BoolWords
<1>4. GetAll(u, "OnAccessPrevention") = <<FromBool(b)>> BY DEF Changed
<1>5. Prevents(u) <=> b BY <1>1, <1>2, <1>3, <1>4, ReadFrom
<1>6. /\ GetAll(u, "OnAccessExcludeUID") = GetAll(s, "OnAccessExcludeUID")
      /\ GetAll(u, "OnAccessExcludeUname") = GetAll(s, "OnAccessExcludeUname")
      /\ GetAll(u, "OnAccessExcludeRootUID") = GetAll(s, "OnAccessExcludeRootUID")
      /\ GetAll(u, "OnAccessIncludePath") = GetAll(s, "OnAccessIncludePath")
      /\ GetAll(u, "OnAccessMountPath") = GetAll(s, "OnAccessMountPath")
  BY ConsultedAre DEF Changed
<1>7. HasExclusion(u) <=> HasExclusion(s) BY <1>1, <1>6, ReadFrom
<1> QED BY <1>5, <1>6, <1>7 DEF Included, Mounted

\* The watched paths changed, and nothing else that is read.
LEMMA WatchedChanged ==
  ASSUME NEW s \in Seq(SoundLines), NEW u
  PROVE  /\ Changed(s, u, "OnAccessIncludePath", <<Home>>) => Included(u) = <<Home>> /\ Mounted(u) = Mounted(s)
         /\ Changed(s, u, "OnAccessMountPath", <<>>) => Mounted(u) = <<>>
         /\ Changed(s, u, "OnAccessIncludePath", <<Home>>) =>
              (Prevents(u) <=> Prevents(s)) /\ (HasExclusion(u) <=> HasExclusion(s))
<1>1. ASSUME Changed(s, u, "OnAccessIncludePath", <<Home>>)
      PROVE  (Prevents(u) <=> Prevents(s)) /\ (HasExclusion(u) <=> HasExclusion(s)) /\ Mounted(u) = Mounted(s)
  <2>1. u \in Seq(SoundLines) BY <1>1 DEF Changed
  <2>2. /\ GetAll(u, "OnAccessPrevention") = GetAll(s, "OnAccessPrevention")
        /\ GetAll(u, "OnAccessExcludeUID") = GetAll(s, "OnAccessExcludeUID")
        /\ GetAll(u, "OnAccessExcludeUname") = GetAll(s, "OnAccessExcludeUname")
        /\ GetAll(u, "OnAccessExcludeRootUID") = GetAll(s, "OnAccessExcludeRootUID")
        /\ GetAll(u, "OnAccessMountPath") = GetAll(s, "OnAccessMountPath")
    BY <1>1, ConsultedAre DEF Changed
  <2> QED BY <2>1, <2>2, ReadFrom DEF Mounted
<1>2. Changed(s, u, "OnAccessMountPath", <<>>) => Mounted(u) = <<>> BY DEF Changed, Mounted
<1>3. Changed(s, u, "OnAccessIncludePath", <<Home>>) => Included(u) = <<Home>> BY DEF Changed, Included
<1> QED BY <1>1, <1>2, <1>3

\* What is read of an option is a text or the default.
LEMMA ValuesRead ==
  ASSUME NEW s \in Seq(SoundLines), NEW n
  PROVE  Get(s, n, <<>>) \in Seq(Words)
<1>1. <<>> \in Seq(Words) OBVIOUS
<1>2. CASE Has(s, n)
  <2> DEFINE p == Min(Active(s, n))
  <2>1. p \in Active(s, n) BY <1>2, FoundIs DEF Has
  <2> HIDE DEF p
  <2>2. p \in DOMAIN s /\ IsActive(s[p], n) /\ s[p] \in SoundLines BY <2>1, ActiveIs, FileIs
  <2>3. PICK raw \in RawLines : s[p] = ParseLine(raw) BY <2>2 DEF SoundLines
  <2>4. raw.words \in Seq(Words) BY DEF RawLines
  <2>5. s[p].value \in Seq(Words)
    <3>1. raw.words # <<>> => Tail(raw.words) \in Seq(Words) BY <2>4, HeadTailProperties
    <3>2. \/ raw.words # <<>> /\ s[p] = ConfLine(raw, Head(raw.words), Tail(raw.words), ~raw.hash)
          \/ s[p] = ConfLine(raw, "", <<>>, FALSE)
      BY <2>3 DEF ParseLine
    <3>3. \A key, value, active : ConfLine(raw, key, value, active).value = value BY DEF ConfLine
    <3>4. CASE raw.words # <<>> /\ s[p] = ConfLine(raw, Head(raw.words), Tail(raw.words), ~raw.hash)
      <4> DEFINE tail == Tail(raw.words)
      <4>1. s[p].value = tail BY <3>3, <3>4
      <4> QED BY <3>1, <3>4, <4>1
    <3>5. CASE s[p] = ConfLine(raw, "", <<>>, FALSE)
      <4> DEFINE none == <<>>
      <4>1. none \in Seq(Words) BY <1>1
      <4> HIDE DEF none
      <4>2. s[p] = ConfLine(raw, "", none, FALSE) BY <3>5 DEF none
      <4> DEFINE plain == ConfLine(raw, "", none, FALSE)
      <4>3. plain.value = none BY DEF ConfLine
      <4>4. s[p] = plain BY <4>2
      <4> HIDE DEF plain
      <4>5. s[p].value = none BY <4>3, <4>4
      <4> QED BY <4>1, <4>5
    <3> QED BY <3>2, <3>4, <3>5
  <2> QED BY <1>2, <2>5 DEF Get, p
<1>3. CASE ~Has(s, n) BY <1>1, <1>3 DEF Get
<1> QED BY <1>2, <1>3

\* Every remedy that is offered mends what it is offered for.
LEMMA OfferedHeals ==
  ASSUME NEW s \in Seq(SoundLines), NEW status, NEW daemon, NEW low, NEW id, NEW remedy, Offered(s, id, remedy)
  PROVE  LET u == Reread(s, remedy)
             left == DiagnoseOnAccess(u, status, daemon, low)
         IN  /\ id \notin Ids(left)
             /\ remedy.recommended => Serious(left) \subseteq Serious(DiagnoseOnAccess(s, status, daemon, low))
<1> DEFINE u == Reread(s, remedy)
           left == DiagnoseOnAccess(u, status, daemon, low)
           found == DiagnoseOnAccess(s, status, daemon, low)
<1> SUFFICES id \notin Ids(left) /\ (remedy.recommended => Serious(left) \subseteq Serious(found)) OBVIOUS
<1> HIDE DEF u
<1>1. /\ "no-exclusion" \in Ids(left) => ~HasExclusion(u)
      /\ "nothing-watched" \in Ids(left) => ~Watched(u)
      /\ "prevention-mountpath" \in Ids(left) => Prevents(u) /\ Mounted(u) # <<>>
      /\ "risky-prevention" \in Ids(left) => Prevents(u) /\ Risky(u)
      /\ "report-only" \in Ids(left) => ~Prevents(u)
  BY WrongIs
<1>2. ASSUME HasExclusion(s) => HasExclusion(u), Watched(s) => Watched(u),
             Prevents(u) /\ Mounted(u) # <<>> => Prevents(s) /\ Mounted(s) # <<>>,
             Prevents(u) /\ Risky(u) => Prevents(s) /\ Risky(s)
      PROVE  Serious(left) \subseteq Serious(found)
  BY <1>2, SeriousIs
<1> HIDE DEF left, found
<1>3. Home \in Seq(Words) /\ Home \notin RiskyPaths BY HomeIsNoSystemDirectory
<1>4. /\ Watched(u) <=> Included(u) # <<>> \/ Mounted(u) # <<>>
      /\ Watched(s) <=> Included(s) # <<>> \/ Mounted(s) # <<>>
      /\ Included(u) = Included(s) => (Risky(u) <=> Risky(s))
      /\ Included(u) = <<Home>> => Included(u) # <<>> /\ ~Risky(u)
  <2>1. <<Home>> # <<>> /\ DOMAIN <<Home>> = {1} /\ <<Home>>[1] = Home OBVIOUS
  <2> QED BY <1>3, <2>1 DEF Watched, Risky
<1>5. CASE id = "no-exclusion"
  <2>1. HasExclusion(u) /\ (Prevents(u) <=> Prevents(s)) /\ Included(u) = Included(s) /\ Mounted(u) = Mounted(s)
    <3>1. CASE remedy = Remedy("OnAccessExcludeUname", "list", DaemonUser(s), TRUE)
      <4>1. remedy.key = "OnAccessExcludeUname" /\ remedy.how = "list" /\ remedy.value = DaemonUser(s) BY <3>1 DEF Remedy
      <4>2. DaemonUser(s) \in Seq(Words)
        <5>1. Get(s, "User", <<>>) \in Seq(Words) BY ValuesRead
        <5>2. <<"clamav">> \in Seq(Words)
          <6>1. "clamav" \in Words BY WordsWritten
          <6> QED BY <6>1, Singleton
        <5> QED BY <5>1, <5>2 DEF DaemonUser
      <4>3. Changed(s, u, "OnAccessExcludeUname", <<remedy.value>>) BY <4>1, <4>2, ConsultedAre, RemedyChanges DEF u
      <4> QED BY <4>3, ExclusionChanged
    <3>2. CASE remedy = Remedy("OnAccessExcludeRootUID", "one", FromBool(TRUE), FALSE)
      <4>1. remedy.key = "OnAccessExcludeRootUID" /\ remedy.how = "one" /\ remedy.value = FromBool(TRUE)
        BY <3>2 DEF Remedy
      <4>2. FromBool(TRUE) \in Seq(Words) BY BoolWords
      <4>3. Changed(s, u, "OnAccessExcludeRootUID", <<FromBool(TRUE)>>)
        BY <4>1, <4>2, ConsultedAre, RemedyChanges DEF u
      <4> QED BY <4>3, ExclusionChanged
    <3> QED BY <1>5, <3>1, <3>2 DEF Offered
  <2> QED BY <1>1, <1>2, <1>4, <1>5, <2>1
<1>6. ASSUME NEW b \in BOOLEAN, NEW recommended, remedy = SetPrevention(b, recommended)
      PROVE  /\ (Prevents(u) <=> b) /\ (HasExclusion(u) <=> HasExclusion(s))
             /\ Included(u) = Included(s) /\ Mounted(u) = Mounted(s) /\ remedy.recommended = recommended
  <2>1. /\ remedy.key = "OnAccessPrevention" /\ remedy.how = "one" /\ remedy.value = FromBool(b)
        /\ remedy.recommended = recommended
    BY <1>6 DEF Remedy, SetPrevention
  <2>2. FromBool(b) \in Seq(Words) BY BoolWords
  <2>3. Changed(s, u, "OnAccessPrevention", <<FromBool(b)>>) BY <2>1, <2>2, ConsultedAre, RemedyChanges DEF u
  <2> QED BY <2>1, <2>3, PreventionChanged
<1>7. ASSUME remedy = WatchHome(TRUE)
      PROVE  /\ Included(u) = <<Home>> /\ Mounted(u) = Mounted(s)
             /\ (Prevents(u) <=> Prevents(s)) /\ (HasExclusion(u) <=> HasExclusion(s))
  <2>1. remedy.key = "OnAccessIncludePath" /\ remedy.how = "list" /\ remedy.value = Home
    BY <1>7 DEF Remedy, WatchHome
  <2>2. Changed(s, u, "OnAccessIncludePath", <<Home>>) BY <1>3, <2>1, ConsultedAre, RemedyChanges DEF u
  <2> QED BY <2>2, WatchedChanged
<1>8. ASSUME remedy = Remedy("OnAccessMountPath", "remove", <<>>, FALSE)
      PROVE  Mounted(u) = <<>> /\ remedy.recommended = FALSE
  <2>1. /\ remedy.key = "OnAccessMountPath" /\ remedy.how = "remove" /\ remedy.value = <<>>
        /\ remedy.recommended = FALSE
    BY <1>8 DEF Remedy
  <2>2. <<>> \in Seq(Words) OBVIOUS
  <2>3. Changed(s, u, "OnAccessMountPath", <<>>) BY <2>1, <2>2, ConsultedAre, RemedyChanges DEF u
  <2> QED BY <2>1, <2>3, WatchedChanged
<1>9. CASE id = "nothing-watched"
  <2>1. remedy = WatchHome(TRUE) BY <1>9 DEF Offered
  <2> QED BY <1>1, <1>2, <1>4, <1>7, <1>9, <2>1
<1>10. CASE id = "prevention-mountpath"
  <2>1. remedy = SetPrevention(FALSE, TRUE) \/ remedy = Remedy("OnAccessMountPath", "remove", <<>>, FALSE)
    BY <1>10 DEF Offered
  <2>2. CASE remedy = SetPrevention(FALSE, TRUE)
    <3>1. /\ ~Prevents(u) /\ (HasExclusion(u) <=> HasExclusion(s)) /\ Included(u) = Included(s) /\ Mounted(u) = Mounted(s)
      BY <1>6, <2>2
    <3> QED BY <1>1, <1>2, <1>4, <1>10, <3>1
  <2>3. CASE remedy = Remedy("OnAccessMountPath", "remove", <<>>, FALSE)
    BY <1>1, <1>8, <1>10, <2>3
  <2> QED BY <2>1, <2>2, <2>3
<1>11. CASE id = "risky-prevention"
  <2>1. remedy = WatchHome(TRUE) \/ remedy = SetPrevention(FALSE, FALSE) BY <1>11 DEF Offered
  <2>2. CASE remedy = WatchHome(TRUE) BY <1>1, <1>2, <1>4, <1>7, <1>11, <2>2
  <2>3. CASE remedy = SetPrevention(FALSE, FALSE)
    <3>1. ~Prevents(u) /\ remedy.recommended = FALSE BY <1>6, <2>3
    <3> QED BY <1>1, <1>11, <3>1
  <2> QED BY <2>1, <2>2, <2>3
<1>12. CASE id = "report-only"
  <2>1. Mounted(s) = <<>> /\ remedy = SetPrevention(TRUE, ~Risky(s)) BY <1>12 DEF Offered
  <2>2. /\ Prevents(u) /\ (HasExclusion(u) <=> HasExclusion(s)) /\ Included(u) = Included(s) /\ Mounted(u) = Mounted(s)
        /\ remedy.recommended = ~Risky(s)
    BY <1>6, <2>1
  <2> QED BY <1>1, <1>2, <1>4, <1>12, <2>1, <2>2
<1> QED BY <1>5, <1>9, <1>10, <1>11, <1>12 DEF Offered

\* Every remedy for every file and machine, whatever they are.
THEOREM EveryRemedyHeals ==
  \A text \in Files, machine \in Machines : RemediesHealIn(Parse(text).lines, machine)
<1> SUFFICES ASSUME NEW text \in Files, NEW machine \in Machines
             PROVE  RemediesHealIn(Parse(text).lines, machine)
  OBVIOUS
<1> DEFINE s == Parse(text).lines
           Diagnosed(file) == DiagnoseOnAccess(file, machine.scanner, machine.daemon, machine.lowLimit)
           found == Diagnosed(s)
<1>1. s \in Seq(SoundLines) BY FilesAreText, TextIs
<1> HIDE DEF s
<1>2. ASSUME NEW i \in DOMAIN found, NEW r \in DOMAIN found[i].remedies
      PROVE  LET remedy == found[i].remedies[r]
                 left == Diagnosed(Reread(s, remedy))
             IN  /\ found[i].id \notin Ids(left)
                 /\ remedy.recommended => Serious(left) \subseteq Serious(found)
  <2>1. Offered(s, found[i].id, found[i].remedies[r]) BY OfferedAre
  <2> QED BY <1>1, <2>1, OfferedHeals
<1> QED BY <1>2 DEF RemediesHealIn, Reread, s

\* The badge, whatever systemctl says.
THEOREM BadgeIsDiagnosis == \A status : ToneIsDiagnosis(status)
<1> SUFFICES ASSUME NEW status PROVE ToneIsDiagnosis(status) OBVIOUS
<1> DEFINE F == DiagnoseService(status)
<1>1. ASSUME NEW x PROVE <<x>>[1] = x /\ DOMAIN <<x>> = {1} OBVIOUS
<1>2. (\E i \in DOMAIN F : F[i].severity = "danger") <=> Exists(status) /\ ~Masked(status) /\ HasFailed(status)
  <2>1. CASE ~Exists(status)
    <3>1. F = << Diagnosis("missing", "info", <<>>) >> BY <2>1 DEF DiagnoseService
    <3>2. Diagnosis("missing", "info", <<>>).severity = "info" BY DEF Diagnosis
    <3> HIDE DEF F
    <3> QED BY <1>1, <2>1, <3>1, <3>2
  <2>2. CASE Exists(status) /\ Masked(status)
    <3>1. F = << Diagnosis("masked", "warn", <<>>) >> BY <2>2 DEF DiagnoseService
    <3>2. Diagnosis("masked", "warn", <<>>).severity = "warn" BY DEF Diagnosis
    <3> HIDE DEF F
    <3> QED BY <1>1, <2>2, <3>1, <3>2
  <2>3. CASE Exists(status) /\ ~Masked(status) /\ HasFailed(status)
    <3>1. F = << Diagnosis("failed", "danger", <<>>) >> BY <2>3 DEF DiagnoseService
    <3>2. Diagnosis("failed", "danger", <<>>).severity = "danger" BY DEF Diagnosis
    <3> HIDE DEF F
    <3> QED BY <1>1, <2>3, <3>1, <3>2
  <2>4. CASE Exists(status) /\ ~Masked(status) /\ ~HasFailed(status)
    <3>1. F = << Diagnosis("stopped", "warn", <<>>) >> \/ F = <<>> BY <2>4 DEF DiagnoseService
    <3>2. Diagnosis("stopped", "warn", <<>>).severity = "warn" BY DEF Diagnosis
    <3>3. DOMAIN <<>> = {} OBVIOUS
    <3> HIDE DEF F
    <3> QED BY <1>1, <2>4, <3>1, <3>2, <3>3
  <2> QED BY <2>1, <2>2, <2>3, <2>4
<1>3. Tone(status) = "danger" <=> Exists(status) /\ ~Masked(status) /\ HasFailed(status)
  BY DEF Tone, HasFailed, Running
<1>4. Summary(status) = "Failed" <=> Exists(status) /\ ~Masked(status) /\ HasFailed(status)
  BY DEF Summary, HasFailed, Running, Starting
<1> HIDE DEF F
<1> QED BY <1>2, <1>3, <1>4 DEF ToneIsDiagnosis, F

\* Of every file the pages may load, what is typed into the editor of an option
\* (ConfFile.set, set_all and remove of core/conf_file.py) leaves every other line
\* of the file and is read back as it was typed.
THEOREM SpecEditsStayLocal == Spec => []EditsStayLocal
<1>1. EditsStayLocal BY EveryEditIsLocal DEF EditsStayLocal
<1> QED BY <1>1, PTL

\* Of every file and machine, each remedy the on-access diagnosis offers (core/diagnostics.py)
\* ends what it is offered for and makes nothing serious of the rest.
THEOREM SpecRemediesHeal == Spec => []RemediesHeal
<1>1. RemediesHeal BY EveryRemedyHeals, BadgeIsDiagnosis DEF RemediesHeal
<1> QED BY <1>1, PTL
=============================================================================
