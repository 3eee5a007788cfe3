---------------------------- MODULE BootAnalysis ----------------------------
(***************************************************************************)
(* The catalogue of the Boot Analyzer: every check with the facts it reads *)
(* and the worst it may say.                                               *)
(***************************************************************************)
EXTENDS KernelChecks, FirmwareChecks, HardeningChecks, BootChainChecks,
        ServiceChecks, PersistenceChecks, IntegrityChecks, CustomChecks

Facts ==
    Overlaid(KernelFacts, Overlaid(FirmwareFacts, Overlaid(HardeningFacts,
    Overlaid(BootChainFacts, Overlaid(ServiceFacts, Overlaid(PersistenceFacts,
    Overlaid(IntegrityFacts, CustomFacts)))))))

Unread(f) == Facts[f][1]
Readings(f) == Facts[f][2]

Entry(worst, reads) == [worst |-> worst, reads |-> reads]

Catalogue ==
    [taint |-> Entry(HIGH, {"taint"}),
     lockdown |-> Entry(HIGH, {"lockdown"}),
     module_signing |-> Entry(HIGH, {"sigEnforce"}),
     risky_cmdline |-> Entry(HIGH, {"cmdline"}),
     cpu_mitigations |-> Entry(HIGH, {"vulnDir", "vulnState", "oldMicrocode"}),
     microcode |-> Entry(HIGH, {"oldMicrocode", "revision", "microcodeLog"}),
     iommu |-> Entry(HIGH, {"iommuGroups", "thunderbolt"}),
     running_version |-> Entry(HIGH, {"btime", "bootImage", "modulesDir"}),
     kexec |-> Entry(MEDIUM, {"kexecDisabled"}),
     boot_mode |-> Entry(MEDIUM, {"efi"}),
     secure_boot |-> Entry(CRITICAL, {"efi", "secureBootVar",
                                      "bootctlSecureBoot", "setupMode"}),
     revocation_list |-> Entry(HIGH, {"efi", "secureBootVar", "dbx"}),
     trusted_platform_module |-> Entry(HIGH, {"tpmDevices", "tpmMajor",
                                              "bootctlMeasured"}),
     boot_entries |-> Entry(MEDIUM, {"efi", "efibootmgr", "bootNext",
                                     "bootOrder", "bootCurrent"}),
     esp_permissions |-> Entry(CRITICAL, {"efi", "espMount", "espMode"}),
     sysctl_expectations |-> Entry(MEDIUM, {"sysctl"}),
     mandatory_access_control |-> Entry(HIGH, {"lsm", "selinuxEnforce"}),
     user_namespaces |-> Entry(MEDIUM, {"maxUserNamespaces", "usernsClone"}),
     core_dumps |-> Entry(MEDIUM, {"corePattern", "suidDumpable"}),
     bootloader |-> Entry(LOW, {"bootConfig", "product"}),
     grub_password |-> Entry(MEDIUM, {"bootConfig", "grubSources"}),
     boot_permissions |-> Entry(CRITICAL, {"bootDir", "bootEntries"}),
     initramfs |-> Entry(HIGH, {"kernelImages", "initramfsAge", "otherAge"}),
     disk_encryption |-> Entry(HIGH, {"mountinfo", "rootUuid", "homeUuid",
                                      "swaps", "swapUuid"}),
     mount_options |-> Entry(MEDIUM, {"mountinfo", "sharedMounts"}),
     removable_boot |-> Entry(MEDIUM, {"mountinfo", "removable"}),
     failed_units |-> Entry(HIGH, {"failed"}),
     system_state |-> Entry(MEDIUM, {"state"}),
     service_exposure |-> Entry(MEDIUM, {"exposure"}),
     local_overrides |-> Entry(MEDIUM, {"overridesDir", "overrides"}),
     masked_units |-> Entry(HIGH, {"masked"}),
     total_time |-> Entry(MEDIUM, {"bootSeconds"}),
     device_waits |-> Entry(MEDIUM, {"blame"}),
     slow_units |-> Entry(LOW, {"blame"}),
     firmware_time |-> Entry(LOW, {"bootSeconds", "firmwareSeconds"}),
     library_preloading |-> Entry(CRITICAL, {"preload", "environment"}),
     suspicious_units |-> Entry(HIGH, {"units"}),
     autostart_entries |-> Entry(HIGH, {"autostart"}),
     scheduled_jobs |-> Entry(HIGH, {"cron", "hashSeed"}),
     shell_profiles |-> Entry(HIGH, {"profiles"}),
     kernel_hooks |-> Entry(HIGH, {"udev", "modprobe"}),
     writable_path |-> Entry(CRITICAL, {"pathDirs"}),
     baseline_drift |-> Entry(HIGH, {"baselineTaken"}),
     journal_errors |-> Entry(MEDIUM, {"journalErrors"}),
     custom |-> Entry(MEDIUM, {"definition", "customSysctl", "customFile",
                               "customMode", "customCmdline", "customUnit"})]

Checks == DOMAIN Catalogue

RunCheck(c, h, p) ==
    CASE c = "taint" -> Taint(h, p)
      [] c = "lockdown" -> Lockdown(h, p)
      [] c = "module_signing" -> ModuleSigning(h, p)
      [] c = "risky_cmdline" -> RiskyCmdline(h, p)
      [] c = "cpu_mitigations" -> CpuMitigations(h, p)
      [] c = "microcode" -> Microcode(h, p)
      [] c = "iommu" -> Iommu(h, p)
      [] c = "running_version" -> RunningVersion(h, p)
      [] c = "kexec" -> Kexec(h, p)
      [] c = "boot_mode" -> BootMode(h, p)
      [] c = "secure_boot" -> SecureBoot(h, p)
      [] c = "revocation_list" -> RevocationList(h, p)
      [] c = "trusted_platform_module" -> TrustedPlatformModule(h, p)
      [] c = "boot_entries" -> BootEntries(h, p)
      [] c = "esp_permissions" -> EspPermissions(h, p)
      [] c = "sysctl_expectations" -> SysctlExpectations(h, p)
      [] c = "mandatory_access_control" -> MandatoryAccessControl(h, p)
      [] c = "user_namespaces" -> UserNamespaces(h, p)
      [] c = "core_dumps" -> CoreDumps(h, p)
      [] c = "bootloader" -> Bootloader(h, p)
      [] c = "grub_password" -> GrubPassword(h, p)
      [] c = "boot_permissions" -> BootPermissions(h, p)
      [] c = "initramfs" -> Initramfs(h, p)
      [] c = "disk_encryption" -> DiskEncryption(h, p)
      [] c = "mount_options" -> MountOptions(h, p)
      [] c = "removable_boot" -> RemovableBoot(h, p)
      [] c = "failed_units" -> FailedUnits(h, p)
      [] c = "system_state" -> SystemState(h, p)
      [] c = "service_exposure" -> ServiceExposure(h, p)
      [] c = "local_overrides" -> LocalOverrides(h, p)
      [] c = "masked_units" -> MaskedUnits(h, p)
      [] c = "total_time" -> TotalTime(h, p)
      [] c = "device_waits" -> DeviceWaits(h, p)
      [] c = "slow_units" -> SlowUnits(h, p)
      [] c = "firmware_time" -> FirmwareTime(h, p)
      [] c = "library_preloading" -> LibraryPreloading(h, p)
      [] c = "suspicious_units" -> SuspiciousUnits(h, p)
      [] c = "autostart_entries" -> AutostartEntries(h, p)
      [] c = "scheduled_jobs" -> ScheduledJobs(h, p)
      [] c = "shell_profiles" -> ShellProfiles(h, p)
      [] c = "kernel_hooks" -> KernelHooks(h, p)
      [] c = "writable_path" -> WritablePath(h, p)
      [] c = "baseline_drift" -> BaselineDrift(h, p)
      [] c = "journal_errors" -> JournalErrors(h, p)
      [] c = "custom" -> Evaluate(h, p)

=============================================================================
