---------------------------- MODULE BootFindings ----------------------------
(***************************************************************************)
(* The vocabulary of the Boot Analyzer (core/boot/model.py, registry.py,   *)
(* profile.py): severities, the four presets and the policy a check is     *)
(* handed, and what one check gives back.  A finding is its id and its     *)
(* severity; wording, evidence and fixes are left out.                     *)
(***************************************************************************)
EXTENDS Integers, Sequences, FiniteSets, FiniteSetsExt, TLC

PASS == 0
INFO == 10
LOW == 20
MEDIUM == 30
HIGH == 40
CRITICAL == 50

Severities == {PASS, INFO, LOW, MEDIUM, HIGH, CRITICAL}

IsProblem(sev) == sev >= LOW

AtLeast(a, b) == IF a >= b THEN a ELSE b

(***************************************************************************)
(* What a check gives back.  SkipCheck may be raised after findings were   *)
(* yielded; run_check builds a tuple first, so they are lost with it.      *)
(***************************************************************************)
Found(id, sev) == {[id |-> id, sev |-> sev]}
Passed(id) == Found(id, PASS)
FoundIf(cond, id, sev) == IF cond THEN Found(id, sev) ELSE {}

Yield(findings) == [skipped |-> FALSE, found |-> findings]
Skip == [skipped |-> TRUE, found |-> {}]
CheckFailed(id) == Yield(Found(id \o ".check-failed", INFO))

(***************************************************************************)
(* Policies: the balanced severities, and each preset as what it changes.  *)
(***************************************************************************)
(* Names rated by severity, and a table with some of its entries changed.  *)
Rated(critical, high, medium, low, info) ==
    [k \in critical \cup high \cup medium \cup low \cup info |->
        IF k \in critical THEN CRITICAL ELSE IF k \in high THEN HIGH
        ELSE IF k \in medium THEN MEDIUM ELSE IF k \in low THEN LOW ELSE INFO]
Overlaid(changes, base) ==
    [k \in DOMAIN changes \cup DOMAIN base |->
        IF k \in DOMAIN changes THEN changes[k] ELSE base[k]]

BaseSeverities == Rated(
    {"boot_world_writable"},
    {"secure_boot_setup_mode", "kernel_tainted_serious", "cmdline_risky",
     "cpu_vulnerable", "initramfs_missing", "ld_preload", "suspicious_exec",
     "autostart_suspicious", "cron_suspicious", "profile_script_suspicious",
     "modprobe_install_hook", "world_writable_path"},
    {"secure_boot_off", "esp_permissions", "microcode_stale",
     "stale_running_kernel", "suid_dumpable", "boot_permissions",
     "initramfs_stale", "unencrypted_swap", "boot_on_removable", "failed_unit",
     "masked_security_unit", "unit_in_home", "device_timeout",
     "baseline_drift"},
    {"no_uefi", "no_tpm", "no_dbx", "boot_order_unexpected", "lockdown_none",
     "module_signing_off", "unsigned_modules", "kernel_tainted_modules",
     "no_iommu", "sysctl_weak", "no_mac_lsm", "grub_no_password",
     "no_root_encryption", "mount_options_weak", "system_degraded",
     "vendor_unit_overridden", "udev_run_rule", "boot_slow",
     "journal_errors"},
    {"no_measured_boot", "kexec_enabled", "unprivileged_userns",
     "unit_exposure", "unit_slow", "firmware_slow",
     "baseline_drift_expected"})

RelaxedSeverities == Rated(
    {}, {},
    {"autostart_suspicious", "cron_suspicious", "profile_script_suspicious"},
    {"secure_boot_off"},
    {"no_tpm", "no_dbx", "lockdown_none", "module_signing_off",
     "unsigned_modules", "kernel_tainted_modules", "sysctl_weak", "no_mac_lsm",
     "no_root_encryption", "no_iommu", "grub_no_password",
     "mount_options_weak", "unit_exposure", "vendor_unit_overridden",
     "udev_run_rule", "boot_slow", "system_degraded"})

StrictSeverities == Rated(
    {}, {"secure_boot_off"},
    {"no_tpm", "no_dbx", "lockdown_none", "module_signing_off",
     "unsigned_modules", "kernel_tainted_modules", "sysctl_weak", "no_mac_lsm",
     "no_root_encryption", "no_iommu", "grub_no_password",
     "mount_options_weak", "vendor_unit_overridden", "udev_run_rule",
     "boot_slow", "journal_errors", "system_degraded"},
    {"no_measured_boot", "unprivileged_userns", "kexec_enabled",
     "unit_exposure", "unit_slow"},
    {})

ParanoidSeverities == Rated(
    {"secure_boot_off", "secure_boot_setup_mode"},
    {"no_tpm", "no_dbx", "lockdown_none", "module_signing_off",
     "unsigned_modules", "no_mac_lsm", "no_root_encryption",
     "unencrypted_swap", "no_iommu", "boot_permissions",
     "masked_security_unit", "baseline_drift"},
    {"no_uefi", "no_measured_boot", "kernel_tainted_modules", "sysctl_weak",
     "unprivileged_userns", "grub_no_password", "mount_options_weak",
     "kexec_enabled", "vendor_unit_overridden", "udev_run_rule", "boot_slow",
     "journal_errors", "system_degraded"},
    {"unit_exposure", "unit_slow"},
    {})

(* Thresholds; systemd's exposure score is kept in tenths. *)
BaseThresholds ==
    [boot_total_seconds |-> 90, unit_slow_seconds |-> 15,
     firmware_seconds |-> 30, journal_error_budget |-> 50,
     exposure_unsafe |-> 90, initramfs_stale_days |-> 30,
     boot_change_days |-> 7, pending_reboot_hours |-> 1]

RelaxedThresholds ==
    [boot_total_seconds |-> 180, unit_slow_seconds |-> 30,
     firmware_seconds |-> 60, journal_error_budget |-> 200,
     exposure_unsafe |-> 96]

StrictThresholds ==
    [boot_total_seconds |-> 60, unit_slow_seconds |-> 8,
     firmware_seconds |-> 20, journal_error_budget |-> 20,
     exposure_unsafe |-> 80, initramfs_stale_days |-> 14]

ParanoidThresholds ==
    [boot_total_seconds |-> 45, unit_slow_seconds |-> 5,
     firmware_seconds |-> 15, journal_error_budget |-> 10,
     exposure_unsafe |-> 70, initramfs_stale_days |-> 7]

Presets == <<"relaxed", "balanced", "strict", "paranoid">>

(* Mutant: the paranoid preset is laid under the balanced one. *)
PolicyParanoidUnder ==
    [relaxed  |-> [sev |-> Overlaid(RelaxedSeverities, BaseSeverities),
                   limit |-> Overlaid(RelaxedThresholds, BaseThresholds)],
     balanced |-> [sev |-> BaseSeverities, limit |-> BaseThresholds],
     strict   |-> [sev |-> Overlaid(StrictSeverities, BaseSeverities),
                   limit |-> Overlaid(StrictThresholds, BaseThresholds)],
     paranoid |-> [sev |-> Overlaid(BaseSeverities, ParanoidSeverities),
                   limit |-> Overlaid(BaseThresholds, ParanoidThresholds)]]

Policy ==
    [relaxed  |-> [sev |-> Overlaid(RelaxedSeverities, BaseSeverities),
                   limit |-> Overlaid(RelaxedThresholds, BaseThresholds)],
     balanced |-> [sev |-> BaseSeverities, limit |-> BaseThresholds],
     strict   |-> [sev |-> Overlaid(StrictSeverities, BaseSeverities),
                   limit |-> Overlaid(StrictThresholds, BaseThresholds)],
     paranoid |-> [sev |-> Overlaid(ParanoidSeverities, BaseSeverities),
                   limit |-> Overlaid(ParanoidThresholds, BaseThresholds)]]

=============================================================================
