---------------------------- MODULE KernelChecks ----------------------------
(***************************************************************************)
(* core/boot/checks/kernel.py: what the running kernel allows.  A check is *)
(* a function of the facts h of the machine and of the policy p; a fact is *)
(* what the probe returned, with "unread" for a file or a command that     *)
(* gave nothing.                                                           *)
(***************************************************************************)
EXTENDS BootFindings

(* Each fact: what an unread one looks like, and the values it can have. *)
KernelFacts ==
    [taint |-> <<{"unread"}, {{}, {"fault"}, {"modules"}, {"note"},
                 {"fault", "modules"}, {"modules", "note"}}>>,
     lockdown |-> <<"unread", {"integrity", "none"}>>,
     sigEnforce |-> <<"unread", {"Y", "N"}>>,
     cmdline |-> <<{"unread"}, {{"quiet"}, {"mitigations=off", "nokaslr"},
                   {"init=/bin/sh"}, {"single", "audit=0"},
                   {"iommu=soft", "debug"}, {"lockdown=none"},
                   {"module.sig_enforce=0"}}>>,
     vulnDir |-> <<"unread", {"listed"}>>,
     vulnState |-> <<"unread", {"mitigation", "vulnerable", "partial"}>>,
     oldMicrocode |-> <<"unread", {"mitigation", "absent", "vulnerable"}>>,
     revision |-> <<"unread", {"reported"}>>,
     microcodeLog |-> <<"unread", {"early", "silent", "late"}>>,
     iommuGroups |-> <<{}, {{"dmar0"}}>>,
     thunderbolt |-> <<{}, {{"domain0"}}>>,
     btime |-> <<"unread", {"known"}>>,
     bootImage |-> <<"unread", {"older", "none", "newer"}>>,
     modulesDir |-> <<"gone", {"present"}>>,
     kexecDisabled |-> <<"unread", {"1", "0"}>>]

(* Mutant: an unread taint value is taken for zero. *)
TaintUnreadIsZero(h, p) ==
    IF h.taint \in {{"unread"}, {}} THEN Yield(Passed("kernel.taint.clean"))
    ELSE Yield(Found("kernel.taint.modules", p.sev.kernel_tainted_modules))

(* A bit no table entry names gives no finding, as the code's loops do. *)
Taint(h, p) ==
    IF h.taint = {"unread"} THEN Skip
    ELSE IF h.taint = {} THEN Yield(Passed("kernel.taint.clean"))
    ELSE Yield(
        FoundIf("fault" \in h.taint, "kernel.taint.fault",
                p.sev.kernel_tainted_serious)
        \cup FoundIf("modules" \in h.taint, "kernel.taint.modules",
                     p.sev.kernel_tainted_modules)
        \cup FoundIf(h.taint = {"note"}, "kernel.taint.note", INFO))

Lockdown(h, p) ==
    IF h.lockdown = "unread" THEN Skip
    ELSE IF h.lockdown # "none" THEN Yield(Passed("kernel.lockdown.on"))
    ELSE Yield(Found("kernel.lockdown.none", p.sev.lockdown_none))

ModuleSigning(h, p) ==
    IF h.sigEnforce = "unread" THEN Skip
    ELSE IF h.sigEnforce = "Y"
         THEN Yield(Passed("kernel.module-signing.enforced"))
    ELSE Yield(Found("kernel.module-signing.not-enforced",
                     p.sev.module_signing_off))

(* The words that switch a defence off: policy key and floor of each. *)
RiskyParameters ==
    LET Risky(words, key, floor) ==
            {[word |-> w, key |-> key, floor |-> floor] : w \in words}
    IN  Risky({"init=/bin/sh", "systemd.debug-shell", "rd.break",
               "mitigations=off", "nopti", "pti=off", "noexec=off", "nosmap",
               "nosmep"}, "cmdline_risky", HIGH)
        \cup Risky({"spectre_v2=off", "selinux=0", "apparmor=0",
                    "vsyscall=native", "nokaslr"}, "cmdline_risky", MEDIUM)
        \cup Risky({"module.sig_enforce=0"}, "module_signing_off", MEDIUM)
        \cup Risky({"iommu=off", "iommu=soft", "intel_iommu=off",
                    "amd_iommu=off"}, "no_iommu", MEDIUM)
        \cup Risky({"audit=0"}, "cmdline_risky", LOW)
        \cup Risky({"lockdown=none"}, "lockdown_none", LOW)
        \cup Risky({"random.trust_cpu=off", "debug"}, "cmdline_risky", INFO)

EmergencyWords == {"single", "s", "1", "emergency", "rescue", "init=/bin/sh"}

(* "init=/bin/sh" is in both tables and costs two findings. *)
RiskyCmdline(h, p) ==
    LET hits == {risky \in RiskyParameters : risky.word \in h.cmdline}
        emergency == h.cmdline \cap EmergencyWords # {}
        Hit(risky) == [id |-> "kernel.cmdline." \o risky.word,
                       sev |-> AtLeast(p.sev[risky.key], risky.floor)]
    IN  IF h.cmdline = {"unread"} THEN Skip
        ELSE Yield(
            FoundIf(emergency, "kernel.cmdline.emergency",
                    AtLeast(p.sev.cmdline_risky, HIGH))
            \cup {Hit(risky) : risky \in hits}
            \cup FoundIf(hits = {} /\ ~emergency, "kernel.cmdline.clean", PASS))

(* A vulnerability file that cannot be read counts as neither. *)
CpuMitigations(h, p) ==
    LET states == {h.vulnState, h.oldMicrocode}
    IN  IF h.vulnDir = "unread" THEN Skip
        ELSE IF "vulnerable" \in states
             THEN Yield(Found("kernel.mitigations.vulnerable",
                              p.sev.cpu_vulnerable))
        ELSE IF "partial" \in states
             THEN Yield(Found("kernel.mitigations.partial", LOW))
        ELSE Yield(Passed("kernel.mitigations.covered"))

Microcode(h, p) ==
    LET messages == h.microcodeLog \in {"early", "late"}
    IN  IF h.oldMicrocode = "vulnerable"
        THEN Yield(Found("kernel.microcode.outdated",
                         AtLeast(p.sev.microcode_stale, HIGH)))
        ELSE IF ~messages /\ h.revision = "unread" THEN Skip
        ELSE IF h.microcodeLog = "late"
             THEN Yield(Found("kernel.microcode.late", p.sev.microcode_stale))
        ELSE Yield(Passed("kernel.microcode.current"))

Iommu(h, p) ==
    IF h.iommuGroups # {} THEN Yield(Passed("kernel.iommu.active"))
    ELSE Yield(Found("kernel.iommu.absent",
                     AtLeast(p.sev.no_iommu,
                             IF h.thunderbolt # {} THEN MEDIUM ELSE LOW)))

(* "newer" is a kernel image written more than pending_reboot_hours after  *)
(* the boot; a directory that cannot be listed looks like one without any. *)
RunningVersion(h, p) ==
    IF h.btime = "unread" THEN Skip
    ELSE IF h.modulesDir = "gone"
         THEN Yield(Found("kernel.running-version.modules-gone", HIGH))
    ELSE IF h.bootImage = "newer"
         THEN Yield(Found("kernel.running-version.pending-reboot",
                          p.sev.stale_running_kernel))
    ELSE Yield(Passed("kernel.running-version.current"))

Kexec(h, p) ==
    IF h.kexecDisabled = "unread" THEN Skip
    ELSE IF h.kexecDisabled = "1" THEN Yield(Passed("kernel.kexec.disabled"))
    ELSE Yield(Found("kernel.kexec.enabled", p.sev.kexec_enabled))

=============================================================================
