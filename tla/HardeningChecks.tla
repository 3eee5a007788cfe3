--------------------------- MODULE HardeningChecks --------------------------
(***************************************************************************)
(* core/boot/checks/hardening.py: switches that make a local exploit       *)
(* harder to land.                                                         *)
(***************************************************************************)
EXTENDS BootFindings

NoValue == -9     \* sysctl_int's None; -1 is a value some sysctls take

(* The sysctls by what the table of expectations asks of them. *)
AtLeastOne == {"kernel.kptr_restrict", "kernel.yama.ptrace_scope",
               "fs.protected_regular", "fs.protected_fifos",
               "kernel.unprivileged_bpf_disabled", "net.core.bpf_jit_harden"}
ExactlyOne == {"kernel.dmesg_restrict", "fs.protected_symlinks",
               "fs.protected_hardlinks"}

Expectations ==
    [k \in AtLeastOne |-> {1, 2, 3}] @@ [k \in ExactlyOne |-> {1}]
    @@ ("kernel.randomize_va_space" :> {2})
    @@ ("kernel.perf_event_paranoid" :> {2, 3, 4})
    @@ ("vm.mmap_min_addr" :> {65536})
    @@ ("dev.tty.ldisc_autoload" :> {0})
    @@ ("fs.suid_dumpable" :> {0, 2})

(* Every setting as wanted, but for at most two of them. *)
SysctlSettings ==
    LET wanted == [k \in DOMAIN Expectations |-> Max(Expectations[k])]
        Values == {NoValue, -1, 0, 1, 2}
    IN  {[wanted EXCEPT ![j] = v, ![k] = w] :
            j, k \in DOMAIN Expectations, v, w \in Values}

HardeningFacts ==
    [sysctl |-> <<[k \in DOMAIN Expectations |-> NoValue], SysctlSettings>>,
     lsm |-> <<{"unread"}, {{"capability"}, {"yama", "apparmor"},
                            {"selinux"}, {"smack"}}>>,
     selinuxEnforce |-> <<"unread", {"1", "0"}>>,
     maxUserNamespaces |-> <<NoValue, {0, 1000}>>,
     usernsClone |-> <<NoValue, {0, 1}>>,
     corePattern |-> <<"unread", {"core", "|/usr/lib/systemd", "|"}>>,
     suidDumpable |-> <<NoValue, {0, 1, 2}>>]

(* One finding for each weak setting.  A setting that is not there is only *)
(* mentioned beside weak ones: with none weak, the verdict is a pass.      *)
SysctlExpectations(h, p) ==
    LET absent == {k \in DOMAIN Expectations : h.sysctl[k] = NoValue}
        weak == {k \in DOMAIN Expectations \ absent :
                    h.sysctl[k] \notin Expectations[k]}
    IN  IF weak = {} THEN Yield(Passed("hardening.sysctl.all"))
        ELSE Yield({[id |-> "hardening.sysctl." \o k,
                     sev |-> p.sev.sysctl_weak] : k \in weak}
                   \cup FoundIf(absent # {}, "hardening.sysctl.absent", INFO))

MandatoryAccessControl(h, p) ==
    LET mac == h.lsm \cap {"selinux", "apparmor", "smack", "tomoyo"}
    IN  IF h.lsm = {"unread"} THEN Skip
        ELSE IF mac = {}
             THEN Yield(Found("hardening.lsm.none", p.sev.no_mac_lsm))
        ELSE IF "selinux" \in mac /\ h.selinuxEnforce = "0"
             THEN Yield(Found("hardening.lsm.selinux-permissive",
                              p.sev.no_mac_lsm))
        ELSE Yield(Passed("hardening.lsm.present"))

UserNamespaces(h, p) ==
    IF h.maxUserNamespaces = NoValue /\ h.usernsClone = NoValue THEN Skip
    ELSE IF /\ (h.maxUserNamespaces = NoValue \/ h.maxUserNamespaces > 0)
            /\ h.usernsClone \in {NoValue, 1}
         THEN Yield(Found("hardening.userns.allowed",
                          p.sev.unprivileged_userns))
    ELSE Yield(Passed("hardening.userns.restricted"))

(* A lone bar has no handler to name: the check fails on it.               *)
CoreDumps(h, p) ==
    IF h.corePattern = "unread" THEN Skip
    ELSE IF h.suidDumpable = 1
         THEN Yield(Found("hardening.coredumps.suid-dumpable",
                          p.sev.suid_dumpable))
    ELSE IF h.corePattern = "|" THEN CheckFailed("hardening.coredumps")
    ELSE IF h.corePattern = "|/usr/lib/systemd"
         THEN Yield(Passed("hardening.coredumps.handled"))
    ELSE Yield(Found("hardening.coredumps.to-disk", INFO))

=============================================================================
