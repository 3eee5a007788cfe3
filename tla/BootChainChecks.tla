--------------------------- MODULE BootChainChecks --------------------------
(***************************************************************************)
(* core/boot/checks/bootchain.py: the files and disks the machine boots    *)
(* from.                                                                   *)
(***************************************************************************)
EXTENDS BootFindings

Missing == -1     \* days behind of a kernel that has no initramfs
Unstatted == -2   \* one of the two files could not be looked at

Ages == {Missing, 0, 10, 20, 40}

BootChainFacts ==
    [bootConfig |-> <<"none", {"GRUB", "systemd-boot", "rEFInd"}>>,
     product |-> <<"unread", {"reported"}>>,
     grubSources |-> <<{"denied"}, {{}, {"plain"}, {"password"},
                       {"plain", "denied"}, {"password", "denied"}}>>,
     bootDir |-> <<"absent", {"directory"}>>,
     bootEntries |-> <<{}, {{"fine"}, {"world writable"}, {"group writable"},
                       {"not root", "fine"}, {"not root", "world writable"},
                       {"world writable", "group writable"}}>>,
     kernelImages |-> <<{}, {{"initramfsAge"}, {"initramfsAge", "otherAge"}}>>,
     initramfsAge |-> <<Unstatted, Ages>>,
     otherAge |-> <<Unstatted, Ages>>,
     mountinfo |-> <<"unread", {"read"}>>,
     rootUuid |-> <<"unread", {"CRYPT", "LVM"}>>,
     homeUuid |-> <<"unread", {"no mount", "CRYPT", "LVM"}>>,
     swaps |-> <<"unread", {"empty", "listed"}>>,
     swapUuid |-> <<"unread", {"CRYPT", "none"}>>,
     sharedMounts |-> <<{}, {{"safe"}, {"weak"}, {"safe", "weak"}}>>,
     removable |-> <<"unread", {"0", "1"}>>]

Bootloader(h, p) ==
    IF h.bootConfig = "none" /\ h.product = "unread"
    THEN Yield(Found("bootchain.bootloader.unknown", INFO))
    ELSE Yield(Passed("bootchain.bootloader.detected"))

GrubPassword(h, p) ==
    IF h.bootConfig # "GRUB" THEN Skip
    ELSE IF "password" \in h.grubSources
         THEN Yield(Passed("bootchain.grub-password.set"))
    ELSE IF h.grubSources = {"denied"}
         THEN Yield(Found("bootchain.grub-password.unknown", INFO))
    ELSE Yield(Found("bootchain.grub-password.unset", p.sev.grub_no_password))

(* The walk's entries by what is wrong with them.  A directory below /boot *)
(* that cannot be listed adds no entries.                                  *)
BootPermissions(h, p) ==
    LET Wrong(kind) == kind \in h.bootEntries
    IN  IF h.bootDir = "absent" THEN Skip
        ELSE Yield(
            FoundIf(Wrong("world writable"),
                    "bootchain.permissions.world-writable",
                    AtLeast(p.sev.boot_world_writable, CRITICAL))
            \cup FoundIf(Wrong("not root"),
                         "bootchain.permissions.not-root-owned",
                         p.sev.boot_permissions)
            \cup FoundIf(Wrong("group writable"),
                         "bootchain.permissions.group-writable",
                         p.sev.boot_permissions)
            \cup FoundIf(h.bootEntries \subseteq {"fine"},
                         "bootchain.permissions.clean", PASS))

(* The policy has a severity for a missing image; the check reports INFO.  *)
Initramfs(h, p) ==
    LET ages == {h[k] : k \in h.kernelImages}
        missing == Missing \in ages
        stale == \E a \in ages : a > p.limit.initramfs_stale_days
    IN  IF h.kernelImages = {} THEN Skip
        ELSE Yield(FoundIf(missing, "bootchain.initramfs.missing", INFO)
                   \cup FoundIf(stale, "bootchain.initramfs.stale",
                                p.sev.initramfs_stale)
                   \cup FoundIf(~missing /\ ~stale,
                                "bootchain.initramfs.current", PASS))

IsEncrypted(uuid) == uuid = "CRYPT"

(* Plain swap beside a plain root is not worth a second finding. *)
SwapFindings(h, p) ==
    IF h.swaps # "listed" THEN {}
    ELSE IF IsEncrypted(h.swapUuid) THEN Passed("bootchain.encryption.swap")
    ELSE FoundIf(IsEncrypted(h.rootUuid), "bootchain.encryption.swap-plain",
                 p.sev.unencrypted_swap)

DiskEncryption(h, p) ==
    LET encrypted == IsEncrypted(h.rootUuid)
    IN  IF h.mountinfo = "unread" THEN Skip
        ELSE Yield(
            (IF encrypted THEN Passed("bootchain.encryption.root")
             ELSE Found("bootchain.encryption.none",
                        p.sev.no_root_encryption))
            \cup FoundIf(/\ encrypted
                         /\ h.homeUuid \notin {"no mount", "CRYPT"},
                         "bootchain.encryption.home-plain",
                         AtLeast(p.sev.no_root_encryption, MEDIUM))
            \cup SwapFindings(h, p))

MountOptions(h, p) ==
    IF h.mountinfo = "unread" \/ h.sharedMounts = {} THEN Skip
    ELSE IF "weak" \in h.sharedMounts
         THEN Yield(Found("bootchain.mount-options.weak",
                          p.sev.mount_options_weak))
    ELSE Yield(Passed("bootchain.mount-options.set"))

(* The flag is looked up under the disk's name, which is the partition's   *)
(* without its digits: a mapper device or an mmc card has no such file.    *)
RemovableBoot(h, p) ==
    IF h.mountinfo = "unread" THEN Skip
    ELSE IF h.removable = "1"
         THEN Yield(Found("bootchain.removable.removable",
                          p.sev.boot_on_removable))
    ELSE Yield(Passed("bootchain.removable.fixed"))

=============================================================================
