-------------------------- MODULE PersistenceChecks -------------------------
(***************************************************************************)
(* core/boot/checks/persistence.py and common.py: everything wired to run  *)
(* automatically, and what makes a command line look out of place.  A      *)
(* command is the set of shapes inspect_command looks for in it.           *)
(***************************************************************************)
EXTENDS BootFindings

(* What the caller says of the place a command was found in. *)
SystemUnit(packaged) ==
    [home |-> TRUE, system |-> TRUE, absolute |-> ~packaged]
OwnEntry == [home |-> TRUE, system |-> FALSE, absolute |-> FALSE]
Anywhere == [home |-> FALSE, system |-> FALSE, absolute |-> FALSE]

InspectCommand(command, s) ==
    LET Weigh(cond, weight) == IF cond THEN {weight} ELSE {}
        Has(shape) == shape \in command
    IN  Weigh(Has("tmp"), "high")
        \cup Weigh(Has("fetch"), IF Has("pipe") THEN "high" ELSE "medium")
        \cup Weigh(Has("inline shell") \/ Has("inline code"), "medium")
        \cup Weigh(Has("base64"), "high")
        \cup Weigh(Has("blob") /\ ~Has("base64"), "medium")
        \cup Weigh(Has("hex"), "medium")
        \cup Weigh(s.home /\ Has("home"),
                   IF s.system THEN "high" ELSE "medium")
        \cup Weigh(s.absolute /\ Has("relative"),
                   IF s.system THEN "medium" ELSE "low")

(* Of a whole script only the serious reasons are kept. *)
InspectScript(lines) ==
    (UNION {InspectCommand(c, Anywhere) : c \in lines}) \cap {"high"}

Notable(entry) == entry.weights \cap {"high", "medium"} # {}
Serious(entry) == "high" \in entry.weights

-----------------------------------------------------------------------------
(* What is wired to start: the inventory, gathered source by source.       *)

Shapes == {{}, {"tmp"}, {"fetch"}, {"fetch", "pipe"}, {"home"}, {"relative"},
           {"inline shell"}, {"base64", "blob"}, {"blob"}}

Unit(scope, packaged, owner, commands) ==
    [scope |-> scope, packaged |-> packaged, owner |-> owner,
     commands |-> commands]

PersistenceFacts ==
    LET Units == [scope : {"system", "user"}, packaged : BOOLEAN,
                  owner : {"root", "someone"}, commands : {<<c>> : c \in Shapes}]
        Job(kind, c) == [kind |-> kind, command |-> c]
        CronFile(file, jobs, lines) ==
            [file |-> file, jobs |-> jobs, lines |-> lines]
        Table(jobs) == CronFile("table", jobs, {})
        Script(lines) == CronFile("script", {}, lines)
        Denied == CronFile("denied", {}, {})
    IN
    [preload |-> <<"denied", {"missing", "listed"}>>,
     environment |-> <<"unread", {"clean", "LD_PRELOAD"}>>,
     units |-> <<{}, {{u} : u \in Units}
                     \cup {{Unit("system", TRUE, "root", <<{}, {"tmp"}>>)},
                           {Unit("system", TRUE, "root", << >>)}}>>,
     autostart |-> <<{}, {{[command |-> c, active |-> a]} :
                             c \in Shapes, a \in BOOLEAN}>>,
     hashSeed |-> <<"1", {"1", "2"}>>,
     cron |-> <<{}, {{Denied}, {Script({{"fetch"}})}, {Script({{"tmp"}, {}})},
                     {Table({Job("setting", {"tmp"})}), Denied}}
                    \cup {{Table({Job("job", c)})} : c \in Shapes}>>,
     profiles |-> <<{}, {{{}}, {{"tmp"}}, {{"fetch"}},
                         {{"fetch", "pipe"}, {}}}>>,
     udev |-> <<{}, {{c} : c \in Shapes}>>,
     modprobe |-> <<{}, {{{"blacklist"}}, {{"re-entry"}},
                         {{"re-entry", "tmp"}}}
                        \cup {{c} : c \in Shapes}>>,
     pathDirs |-> <<{}, {{"safe"}, {"sticky"}, {"world writable", "safe"},
                    {"not root"}}>>]

(* Only the first Exec line of a unit is looked at. *)
CollectUnits(h) ==
    LET First(u) == IF u.commands = << >> THEN {} ELSE u.commands[1]
        Scope(u) == IF u.scope = "system" THEN SystemUnit(u.packaged)
                    ELSE OwnEntry
    IN  {[origin |-> u.scope, owner |-> u.owner,
          weights |-> InspectCommand(First(u), Scope(u))] : u \in h.units}

CollectAutostart(h) ==
    {[enabled |-> a.active, weights |-> InspectCommand(a.command, OwnEntry)] :
        a \in h.autostart}

(* A crontab line is a job, a setting, a comment or too short to be one.   *)
CrontabCommands(jobs) == {l.command : l \in {m \in jobs : m.kind = "job"}}

CollectCron(h) ==
    LET Tables == {f \in h.cron : f.file = "table"}
        Scripts == {f \in h.cron : f.file = "script"}
    IN  {[weights |-> InspectCommand(c, Anywhere)] :
            c \in UNION {CrontabCommands(f.jobs) : f \in Tables}}
        \cup {[weights |-> InspectScript(f.lines)] : f \in Scripts}

CollectProfiles(h) ==
    {e \in {[weights |-> InspectScript({c})] : c \in h.profiles} :
        e.weights # {}}

CollectUdev(h) == {[weights |-> InspectCommand(c, Anywhere)] : c \in h.udev}

(* "install x /bin/true" is how a module is blacklisted.                   *)
CollectModprobe(h) ==
    LET Judge(c) ==
            LET w == InspectCommand(c, [home |-> FALSE, system |-> TRUE,
                                        absolute |-> FALSE])
            IN  IF w = {} /\ "re-entry" \notin c THEN {"low"} ELSE w
    IN  {[weights |-> Judge(c)] : c \in h.modprobe \ {{"blacklist"}}}

-----------------------------------------------------------------------------
(* Only the unexplainable shapes get the full weight of the policy.        *)
WeightOf(p, key, entry) ==
    IF Serious(entry) \/ p.sev[key] <= LOW THEN p.sev[key] ELSE LOW

Flagged(entries, id, p, key) ==
    {[id |-> id, sev |-> WeightOf(p, key, e)] :
        e \in {x \in entries : Notable(x)}}

(* A preload file that is there and cannot be read is reported.            *)
LibraryPreloading(h, p) ==
    IF h.preload = "missing" /\ h.environment # "LD_PRELOAD"
    THEN Yield(Passed("persistence.ld-preload.absent"))
    ELSE Yield(Found("persistence.ld-preload.present",
                     AtLeast(p.sev.ld_preload, HIGH)))

SuspiciousUnits(h, p) ==
    LET units == CollectUnits(h)
        flagged == Flagged(units, "persistence.units.unit", p,
                           "suspicious_exec")
        nonRoot == \E u \in units : u.origin = "system" /\ u.owner # "root"
    IN  IF units = {} THEN Skip
        ELSE Yield(flagged
                   \cup FoundIf(nonRoot, "persistence.units.non-root-owned",
                                p.sev.unit_in_home)
                   \cup FoundIf(flagged = {} /\ ~nonRoot,
                                "persistence.units.clean", PASS))

AutostartEntries(h, p) ==
    LET active == {e \in CollectAutostart(h) : e.enabled}
        flagged == Flagged(active, "persistence.autostart.entry", p,
                           "autostart_suspicious")
    IN  IF h.autostart = {} THEN Skip
        ELSE Yield(flagged \cup FoundIf(flagged = {},
                                        "persistence.autostart.clean", PASS))

(* The id ends in Python's hash of the command, which each process salts.  *)
ScheduledJobs(h, p) ==
    LET entries == CollectCron(h)
        unreadable == \E f \in h.cron : f.file = "denied"
        flagged == Flagged(entries, "persistence.scheduled.job-" \o h.hashSeed,
                           p, "cron_suspicious")
    IN  IF entries = {} /\ ~unreadable THEN Skip
        ELSE Yield(flagged
                   \cup FoundIf(unreadable, "persistence.scheduled.unreadable",
                                INFO)
                   \cup FoundIf(flagged = {}, "persistence.scheduled.clean",
                                PASS))

ShellProfiles(h, p) ==
    LET entries == CollectProfiles(h)
    IN  IF h.profiles = {} THEN Skip
        ELSE IF entries = {}
             THEN Yield(Passed("persistence.shell-profiles.clean"))
        ELSE Yield({[id |-> "persistence.shell-profiles.file",
                     sev |-> WeightOf(p, "profile_script_suspicious", e)] :
                        e \in entries})

(* Modprobe hooks that are not notable leave no trace in the report.       *)
KernelHooks(h, p) ==
    LET udev == CollectUdev(h)
        modprobe == CollectModprobe(h)
        rules == Flagged(udev, "persistence.kernel-hooks.udev-rule", p,
                         "udev_run_rule")
    IN  IF udev = {} /\ modprobe = {}
        THEN Yield(Passed("persistence.kernel-hooks.none"))
        ELSE Yield(Flagged(modprobe, "persistence.kernel-hooks.modprobe", p,
                           "modprobe_install_hook")
                   \cup rules
                   \cup FoundIf(udev # {} /\ rules = {},
                                "persistence.kernel-hooks.udev-present", INFO))

(* A sticky directory is not at anyone's mercy. *)
WritablePath(h, p) ==
    IF h.pathDirs = {} THEN Skip
    ELSE IF h.pathDirs \subseteq {"safe", "sticky"}
         THEN Yield(Passed("persistence.path.clean"))
    ELSE Yield(Found("persistence.path.writable",
                     AtLeast(p.sev.world_writable_path, CRITICAL)))

=============================================================================
