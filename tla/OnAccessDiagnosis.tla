-------------------------- MODULE OnAccessDiagnosis --------------------------
\* What is wrong with a service and what would fix it (core/diagnostics.py,
\* core/services.py), as the Protection page shows it: a diagnosis has an id, how
\* bad it is and its remedies, each a change of one option of clamd.conf.
EXTENDS ConfText

CONSTANTS Home,        \* the user's directory
          RiskyPaths,  \* where prevention may hang the machine
          Shown,       \* what systemctl can tell of a unit
          Machines     \* the machines diagnosed: the scanner, the daemon, the watch limit

ConsultedOptions ==
  {"User", "OnAccessPrevention", "OnAccessIncludePath", "OnAccessMountPath",
   "OnAccessExcludeUID", "OnAccessExcludeUname", "OnAccessExcludeRootUID"}

\* "System directories are left alone" (diagnostics.py) when the home directory is watched.
ASSUME HomeIsNoSystemDirectory == Home \in Seq(Words) \ RiskyPaths
ASSUME OptionsAreDistinct ==
  ConsultedOptions \subseteq Names /\ \A a, b \in ConsultedOptions : Lower[a] = Lower[b] => a = b

\* A unit as systemctl tells of it; a role that has none, or whose unit cannot
\* be asked about, is there but in name.
Status(load, active, file, result) == [load |-> load, active |-> active, file |-> file, result |-> result]
NoUnit   == Status("", "", "", "")
NotFound == Status("not-found", "", "", "")
ReadStatus(hasUnit, asked, shown) == IF ~hasUnit THEN NoUnit ELSE IF ~asked THEN NotFound ELSE shown

Exists(status)   == status.load \notin {"", "not-found"}
Running(status)  == status.active = "active"
HasFailed(status) == status.active = "failed"
Starting(status) == status.active \in {"activating", "deactivating", "reloading"}
Masked(status)   == "masked" \in {status.file, status.load}
\* It ran, succeeded and exited.
OneShotOk(status) == status.active = "inactive" /\ status.result = "success"

Summary(status) ==
  IF ~Exists(status) THEN "Not installed" ELSE
  IF Masked(status) THEN "Masked" ELSE
    CASE HasFailed(status) -> "Failed"
      [] Running(status)   -> "Running"
      [] Starting(status)  -> status.active
      [] OTHER             -> "Stopped"
Tone(status) ==
  IF ~Exists(status) \/ Masked(status) THEN "neutral" ELSE
    CASE HasFailed(status) -> "danger"
      [] Running(status)   -> "ok"
      [] OTHER             -> "warn"

-----------------------------------------------------------------------------
Diagnosis(id, severity, remedies) == [id |-> id, severity |-> severity, remedies |-> remedies]
Remedy(key, how, value, recommended) ==
  [key |-> key, how |-> how, value |-> value, recommended |-> recommended]

\* Mutant: a list is added to the values there are.
RemediedAdding(lines, remedy) ==
  CASE remedy.how = "remove" -> RemoveOption(lines, remedy.key)
    [] remedy.how = "list"   -> SetAll(lines, remedy.key, Append(GetAll(lines, remedy.key), remedy.value))
    [] remedy.how = "one"    -> SetOption(lines, remedy.key, remedy.value)
Remedied(lines, remedy) ==
  CASE remedy.how = "remove" -> RemoveOption(lines, remedy.key)
    [] remedy.how = "list"   -> SetAll(lines, remedy.key, <<remedy.value>>)
    [] remedy.how = "one"    -> SetOption(lines, remedy.key, remedy.value)

\* Of a unit other than the on-access scanner's.
DiagnoseService(status) ==
  IF ~Exists(status) THEN << Diagnosis("missing", "info", <<>>) >> ELSE
  IF Masked(status)  THEN << Diagnosis("masked", "warn", <<>>) >> ELSE
    CASE HasFailed(status) -> << Diagnosis("failed", "danger", <<>>) >>
      [] ~HasFailed(status) /\ ~Running(status) /\ ~OneShotOk(status) -> << Diagnosis("stopped", "warn", <<>>) >>
      [] OTHER             -> <<>>

DaemonUser(lines) == IF Get(lines, "User", <<>>) = <<>> THEN <<"clamav">> ELSE Get(lines, "User", <<>>)
HasExclusion(lines) ==
  \/ Has(lines, "OnAccessExcludeUID") \/ Has(lines, "OnAccessExcludeUname")
  \/ GetBool(lines, "OnAccessExcludeRootUID", FALSE)

SetPrevention(b, recommended) == Remedy("OnAccessPrevention", "one", FromBool(b), recommended)
WatchHome(recommended) == Remedy("OnAccessIncludePath", "list", Home, recommended)

Included(lines) == GetAll(lines, "OnAccessIncludePath")
Mounted(lines)  == GetAll(lines, "OnAccessMountPath")
Watched(lines)  == Included(lines) # <<>> \/ Mounted(lines) # <<>>
Prevents(lines) == GetBool(lines, "OnAccessPrevention", FALSE)
Risky(lines)    == \E i \in DOMAIN Included(lines) : Included(lines)[i] \in RiskyPaths

\* What can be wrong with the file.
NoExclusion(lines) ==
  [wrong |-> ~HasExclusion(lines),
   found |-> Diagnosis("no-exclusion", "danger",
               << Remedy("OnAccessExcludeUname", "list", DaemonUser(lines), TRUE),
                  Remedy("OnAccessExcludeRootUID", "one", FromBool(TRUE), FALSE) >>)]
NothingWatched(lines) ==
  [wrong |-> ~Watched(lines), found |-> Diagnosis("nothing-watched", "danger", <<WatchHome(TRUE)>>)]
PreventionOnMounts(lines) ==
  [wrong |-> Prevents(lines) /\ Mounted(lines) # <<>>,
   found |-> Diagnosis("prevention-mountpath", "warn",
               << SetPrevention(FALSE, TRUE), Remedy("OnAccessMountPath", "remove", <<>>, FALSE) >>)]
RiskyPrevention(lines) ==
  [wrong |-> Prevents(lines) /\ Risky(lines),
   found |-> Diagnosis("risky-prevention", "warn", << WatchHome(TRUE), SetPrevention(FALSE, FALSE) >>)]
ReportOnly(lines) ==
  [wrong |-> ~Prevents(lines) /\ Watched(lines) /\ HasExclusion(lines),
   found |-> Diagnosis("report-only", "info",
               IF Mounted(lines) # <<>> THEN <<>> ELSE << SetPrevention(TRUE, ~Risky(lines)) >>)]

\* And with the machine.
DaemonDown(status, daemon) ==
  [wrong |-> Exists(status) /\ ~Running(daemon), found |-> Diagnosis("daemon-down", "danger", <<>>)]
WatchLimit(lines, lowLimit) ==
  [wrong |-> lowLimit /\ Watched(lines), found |-> Diagnosis("watch-limit", "info", <<>>)]

DiagnoseOnAccess(lines, status, daemon, lowLimit) ==
  LET looked == << NoExclusion(lines), NothingWatched(lines), PreventionOnMounts(lines),
                   RiskyPrevention(lines), ReportOnly(lines), DaemonDown(status, daemon),
                   WatchLimit(lines, lowLimit) >>
      wrong == Kept(looked, {i \in DOMAIN looked : looked[i].wrong})
  IN [i \in DOMAIN wrong |-> wrong[i].found]

-----------------------------------------------------------------------------
Ids(found) == {found[i].id : i \in DOMAIN found}
Serious(found) == {found[i].id : i \in {i \in DOMAIN found : found[i].severity \in {"danger", "warn"}}}

\* A remedy does away with what it is offered for, in the file as it will be
\* written, whatever the file says twice, in other letters or in an example; and
\* a recommended one brings nothing serious in its place.
\* (Remedy: "A concrete change that would fix a problem".)
RemediesHealIn(lines, machine) ==
  LET Diagnosed(file) == DiagnoseOnAccess(file, machine.scanner, machine.daemon, machine.lowLimit)
      found == Diagnosed(lines) IN
  \A i \in DOMAIN found : \A r \in DOMAIN found[i].remedies :
    LET remedy == found[i].remedies[r]
        reread == Parse(ToText(Remedied(lines, remedy))).lines
        left   == Diagnosed(reread) IN
    /\ found[i].id \notin Ids(left)
    /\ remedy.recommended => Serious(left) \subseteq Serious(found)

\* The badge of a service is red just when its diagnosis is.
ToneIsDiagnosis(status) ==
  /\ (Tone(status) = "danger") = (Summary(status) = "Failed")
  /\ (Tone(status) = "danger") = (\E i \in DOMAIN DiagnoseService(status) :
                                    DiagnoseService(status)[i].severity = "danger")
=============================================================================
