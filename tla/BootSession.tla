---------------------------- MODULE BootSession ----------------------------
(***************************************************************************)
(* The Boot Analyzer page (ui/pages/boot.py), its analyzer                 *)
(* (core/boot/analyzer.py) and the profile they share                      *)
(* (core/boot/profile.py).                                                 *)
(*                                                                         *)
(* An analysis runs on a worker thread: the probe gets to read the facts   *)
(* of a check one after the other, or fails to; the check is judged by the *)
(* policy of the moment the analysis began; the profile's overrides and    *)
(* mutes are applied to the findings as they are now; the report reaches   *)
(* the page later, as an event.  The user goes on editing the profile in   *)
(* the meantime.  The model runs one check, which stands for the loop over *)
(* all of them: run_check keeps them apart.                                *)
(***************************************************************************)
EXTENDS BootAnalysis, Functions

CONSTANTS Snapshots,    \* pairs of states of the watched files
          Edited,       \* the checks whose findings the user has a say in
          MaxEdits      \* bound: edits of the profile

ASSUME BootConstants == Edited \subseteq Checks /\ MaxEdits \in Nat

(* A state of the watched files says of each path which file is there, if  *)
(* any.  No file's contents are the mark of a file that was not hashed.    *)
ASSUME SnapshotsAreFiles ==
    \A pair \in Snapshots : \A i \in 1..2 :
        /\ DOMAIN pair[i] = Paths
        /\ \A q \in Paths : pair[i][q] # NoFile => pair[i][q].content # Unhashed

VARIABLES
  check,     \* the check that runs
  host,      \* its facts, as the probe has them so far
  worker,    \* what the worker thread does, or "idle": not busy
  policy,    \* what the running analysis judges by
  draft,     \* the report it is making
  report,    \* the report the page shows
  profile,   \* the Profile both of them hold
  edits,     \* edits of the profile so far
  touched    \* observation: what was edited since the worker took it up

vars == <<check, host, worker, policy, draft, report, profile, edits, touched>>

NoReport == [found |-> {}, judged |-> {}, preset |-> "none", by |-> "none",
             touched |-> {}]
NoSeverity == -1

Default == [preset |-> "balanced", disabled |-> FALSE, keys |-> << >>,
            limits |-> << >>, overrides |-> << >>, mutes |-> {}]

NothingRead(c) ==
    [f \in Catalogue[c].reads \cup {"was", "now"} |->
        IF f \in {"was", "now"} THEN << >> ELSE Unread(f)]

(* Profile.policy: the preset, and on it what the user tuned.              *)
PolicyOf(pr) ==
    [sev |-> Overlaid(pr.keys, Policy[pr.preset].sev),
     limit |-> Overlaid(pr.limits, Policy[pr.preset].limit)]

(* Finding.with_severity.  Python's "or" passes over a severity of 0.      *)
WithSeverity(f, sev) ==
    IF sev = f.sev THEN f
    ELSE [f EXCEPT !.sev = sev,
                   !.original = IF f.original \in {NoSeverity, PASS} THEN f.sev
                                ELSE f.original]

(* Profile.apply_to *)
ApplyTo(pr, f) ==
    LET g == IF f.id \in DOMAIN pr.overrides
             THEN WithSeverity(f, pr.overrides[f.id]) ELSE f
    IN  IF f.id \in pr.mutes THEN [g EXCEPT !.muted = TRUE] ELSE g

Fresh(f) == [id |-> f.id, sev |-> f.sev, original |-> NoSeverity,
             muted |-> FALSE]

Decorated(pr, found) == {ApplyTo(pr, Fresh(f)) : f \in found}

-----------------------------------------------------------------------------
Init ==
    /\ check \in Checks /\ host = NothingRead(check)
    /\ worker = "idle" /\ policy = PolicyOf(Default)
    /\ draft = NoReport /\ report = NoReport
    /\ profile = Default /\ edits = 0 /\ touched = {}

(* BootAnalyzer.start, with the profile as it is now: refused while busy   *)
(* and when every check is off.                                            *)
Start(pr) ==
    IF worker = "idle" /\ ~pr.disabled
    THEN /\ worker' = "reading" /\ policy' = PolicyOf(pr)
         /\ draft' = [NoReport EXCEPT !.by = pr.preset] /\ touched' = {}
    ELSE UNCHANGED <<worker, policy, draft, touched>>

(* The button, the notice, or the page shown without a report.  A second   *)
(* analysis without an edit repeats the first one and is left out.         *)
Analyse ==
    /\ worker = "idle" /\ (report = NoReport \/ edits > 0)
    /\ Start(profile)
    /\ UNCHANGED <<check, host, report, profile, edits>>

(* The probe reads one more of the facts the check asks for.               *)
Read(f) ==
    /\ worker = "reading"
    /\ host[f] = Unread(f)
    /\ \E v \in Readings(f) : host' = [host EXCEPT ![f] = v]
    /\ UNCHANGED <<check, worker, policy, draft, report, profile, edits, touched>>

(* For the drift check: the files when the baseline was taken, and now.    *)
WalkFiles ==
    /\ worker = "reading" /\ check = "baseline_drift"
    /\ host.was = << >>
    /\ \E s \in Snapshots : host' = [host EXCEPT !.was = s[1], !.now = s[2]]
    /\ UNCHANGED <<check, worker, policy, draft, report, profile, edits, touched>>

(* run_check, and the profile as it is now on what it gave.                *)
Judge ==
    /\ worker = "reading"
    /\ LET found == RunCheck(check, host, policy).found
       IN  draft' = [draft EXCEPT !.judged = found,
                                  !.found = Decorated(profile, found)]
    /\ worker' = "judged" /\ touched' = touched \ {"decoration"}
    /\ host' = NothingRead(check)
    /\ UNCHANGED <<check, policy, report, profile, edits>>

(* The end of analyse: the report is given the preset's name.              *)
Close ==
    /\ worker = "judged" /\ worker' = "reported"
    /\ draft' = [draft EXCEPT !.preset = profile.preset]
    /\ UNCHANGED <<check, host, policy, report, profile, edits, touched>>

(* _on_done and show_report *)
Deliver ==
    /\ worker = "reported" /\ worker' = "idle"
    /\ report' = [draft EXCEPT !.touched = touched]
    /\ draft' = NoReport /\ touched' = {}
    /\ UNCHANGED <<check, host, policy, profile, edits>>

(* _on_error: what is not one check's fault ends the analysis.             *)
Fail ==
    /\ worker \in {"reading", "judged"} /\ worker' = "idle"
    /\ host' = NothingRead(check) /\ draft' = NoReport /\ touched' = {}
    /\ UNCHANGED <<check, policy, report, profile, edits>>
-----------------------------------------------------------------------------
(* The user.  Every edit is saved at once; what it changes is noted.       *)
Edit(pr, what) ==
    /\ check \in Edited /\ edits < MaxEdits /\ edits' = edits + 1
    /\ profile' = pr /\ profile' # profile
    /\ touched' = IF worker = "idle" THEN touched ELSE touched \cup {what}
    /\ UNCHANGED <<check, host, worker, policy, draft>>

(* Mutant: what was muted once stays muted. *)
UndecoratedButMuted(f) ==
    [f EXCEPT !.sev = IF f.original # NoSeverity THEN f.original ELSE f.sev,
              !.original = NoSeverity]

(* _refresh_after_profile_edit: the findings the page has, decorated anew. *)
Undecorated(f) ==
    [f EXCEPT !.sev = IF f.original # NoSeverity THEN f.original ELSE f.sev,
              !.original = NoSeverity, !.muted = FALSE]

Refreshed(pr) ==
    [report EXCEPT !.found = {ApplyTo(pr, Undecorated(f)) : f \in report.found},
                   !.touched = report.touched \ {"decoration"}]

Redecorate(pr) == Edit(pr, "decoration") /\ report' = Refreshed(pr)

Mute(id) == Redecorate([profile EXCEPT !.mutes = profile.mutes \cup {id}])
Unmute(id) == Redecorate([profile EXCEPT !.mutes = profile.mutes \ {id}])
OverrideSeverity(id, sev) ==
    Redecorate([profile EXCEPT !.overrides = Overlaid([i \in {id} |-> sev], @)])
DropOverride(id) ==
    Redecorate([profile EXCEPT !.overrides =
                   Restrict(profile.overrides,
                            DOMAIN profile.overrides \ {id})])

(* The Checks tab: what it changes waits for the next analysis.            *)
Retune(pr) == Edit(pr, "policy") /\ UNCHANGED report

EnableCheck == Retune([profile EXCEPT !.disabled = ~profile.disabled])
OverridePolicy(key, sev) ==
    Retune([profile EXCEPT !.keys = Overlaid([k \in {key} |-> sev], @)])
OverrideThreshold(key, value) ==
    Retune([profile EXCEPT !.limits = Overlaid([k \in {key} |-> value], @)])

(* The picker is disabled while an analysis runs.                          *)
SetPreset(name) ==
    LET pr == [profile EXCEPT !.preset = name]
    IN  /\ worker = "idle" /\ check \in Edited /\ edits < MaxEdits
        /\ name # profile.preset
        /\ edits' = edits + 1 /\ profile' = pr /\ Start(pr)
        /\ UNCHANGED <<check, host, report>>

(* The menu is not; the analysis that should follow is refused then.       *)
ResetProfile ==
    /\ check \in Edited /\ edits < MaxEdits /\ profile # Default
    /\ edits' = edits + 1 /\ profile' = Default
    /\ report' = [report EXCEPT !.touched = @ \cup {"decoration"}]
    /\ IF worker = "idle" THEN Start(Default)
       ELSE /\ touched' = touched \cup {"decoration", "preset"}
            /\ UNCHANGED <<worker, policy, draft>>
    /\ UNCHANGED <<check, host>>

Shown == {f.id : f \in report.found}

Next ==
    \/ Analyse \/ WalkFiles \/ Judge \/ Close \/ Deliver \/ Fail
    \/ \E f \in Catalogue[check].reads : Read(f)
    \/ \E id \in Shown : Mute(id) \/ Unmute(id) \/ DropOverride(id)
    \/ \E id \in Shown, sev \in {PASS, HIGH} : OverrideSeverity(id, sev)
    \/ EnableCheck \/ ResetProfile
    \/ \E key \in {"kexec_enabled", "journal_errors"} : OverridePolicy(key, HIGH)
    \/ OverrideThreshold("journal_error_budget", 5)
    \/ \E i \in DOMAIN Presets : SetPreset(Presets[i])

Spec == Init /\ [][Next]_vars

Result(h, preset) == RunCheck(check, h, Policy[preset])
-----------------------------------------------------------------------------
(* Where a check says that all is well although a fact its verdict could   *)
(* turn on was not read: the pass only means that nothing was seen.        *)
Unlooked(c, f) ==
    \/ c \in {"failed_units", "masked_units", "kernel_hooks"}
    \/ <<c, f>> \in
         {<<"cpu_mitigations", "vulnState">>,
          <<"cpu_mitigations", "oldMicrocode">>,
          <<"microcode", "oldMicrocode">>, <<"microcode", "microcodeLog">>,
          <<"running_version", "bootImage">>, <<"secure_boot", "setupMode">>,
          <<"boot_entries", "bootOrder">>, <<"boot_entries", "bootCurrent">>,
          <<"esp_permissions", "espMode">>, <<"sysctl_expectations", "sysctl">>,
          <<"mandatory_access_control", "selinuxEnforce">>,
          <<"core_dumps", "suidDumpable">>,
          <<"boot_permissions", "bootEntries">>,
          <<"initramfs", "initramfsAge">>, <<"initramfs", "otherAge">>,
          <<"removable_boot", "removable">>, <<"local_overrides", "overrides">>,
          <<"library_preloading", "environment">>, <<"custom", "customFile">>,
          <<"custom", "customCmdline">>, <<"custom", "customUnit">>}

(* A pass given while some fact was not read is a pass whatever that fact  *)
(* turns out to be: "we looked and it is fine" is never said of what was   *)
(* not looked at (registry.passed, FileRead), the reads of Unlooked apart. *)
PassStands ==
    \A f \in Catalogue[check].reads :
        host[f] = Unread(f) /\ ~Unlooked(check, f) =>
            \A ok \in {x \in Result(host, "balanced").found : x.sev = PASS},
               v \in Readings(f) :
                LET after == Result([host EXCEPT ![f] = v], "balanced")
                IN  after.skipped \/ ok \in after.found

(* Each preset is at least as hard on the same machine as the one before:  *)
(* no stricter stance ever forgives what a milder one reports, and even    *)
(* the strictest makes no check say worse than the catalogue declares.     *)
PresetsAreOrdered ==
    /\ \A i \in 1..3 :
        LET milder == Result(host, Presets[i])
            harder == Result(host, Presets[i + 1])
        IN  /\ milder.skipped = harder.skipped
            /\ \A f \in milder.found : f.sev # PASS =>
                   \E g \in harder.found : g.id = f.id /\ g.sev >= f.sev
    /\ \A f \in Result(host, Presets[4]).found : f.sev <= Catalogue[check].worst

(* "Nothing in the boot chain has changed" is only said when every watched *)
(* file is there, with the same owner and mode and, if it could be read    *)
(* both times, the same contents, else the same size and time.             *)
SameFile(a, b) ==
    \/ a = NoFile /\ b = NoFile
    \/ /\ a # NoFile /\ b # NoFile
       /\ a.mode = b.mode /\ a.uid = b.uid
       /\ IF a.readable /\ b.readable THEN a.content = b.content
          ELSE a.size = b.size /\ a.mtime = b.mtime

UnchangedMeansSame ==
    check = "baseline_drift" /\ host.was # << >> =>
        (Passed("integrity.baseline.unchanged") = Result(host, "strict").found
            <=> /\ host.baselineTaken
                /\ \A q \in Paths : SameFile(host.was[q], host.now[q]))

(* No pass is given that was not earned.                                   *)
PassesAreEarned == PassStands /\ UnchangedMeansSame

(* What the page shows is what the check found, muted and re-weighed as    *)
(* the profile says now, after any mutes, overrides and resets; but for an *)
(* edit that comes after the worker has applied the profile and before its *)
(* report arrives, and for a reset while it runs (analyse, apply_to,       *)
(* _refresh_after_profile_edit); and the preset it names is the one its    *)
(* findings were judged by, but for a reset while the analysis ran (the    *)
(* policy is taken at the start, the name at the end).                     *)
ReportFollowsProfile ==
    /\ "decoration" \notin report.touched =>
           report.found = Decorated(profile, report.judged)
    /\ report.preset # report.by => "preset" \in report.touched

=============================================================================
