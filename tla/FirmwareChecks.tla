--------------------------- MODULE FirmwareChecks ---------------------------
(***************************************************************************)
(* core/boot/checks/firmware.py: what the firmware verifies before the     *)
(* kernel exists.                                                          *)
(***************************************************************************)
EXTENDS BootFindings

(* An EFI variable that cannot be read, or is shorter than five bytes, is  *)
(* "unread"; bootctl is "unread" when it printed no such line.             *)
FirmwareFacts ==
    [efi |-> <<"absent", {"present"}>>,
     secureBootVar |-> <<"unread", {"1", "0"}>>,
     bootctlSecureBoot |-> <<"unread", {"enabled", "disabled"}>>,
     setupMode |-> <<"unread", {"0", "1"}>>,
     dbx |-> <<"unread", {"full", "stub"}>>,
     tpmDevices |-> <<{}, {{"tpm0"}}>>,
     tpmMajor |-> <<"unread", {"2", "1"}>>,
     bootctlMeasured |-> <<"unread", {"yes", "no"}>>,
     efibootmgr |-> <<"unread", {"read"}>>,
     bootNext |-> <<"unset", {"set"}>>,
     bootOrder |-> <<"empty", {"disk first", "usb first"}>>,
     bootCurrent |-> <<"unknown", {"first", "another"}>>,
     espMount |-> <<"none", {"vfat"}>>,
     espMode |-> <<"unread", {"private", "readable", "world writable"}>>]

IsUefi(h) == h.efi = "present"

BootMode(h, p) ==
    IF IsUefi(h) THEN Yield(Passed("firmware.boot-mode.uefi"))
    ELSE Yield(Found("firmware.boot-mode.legacy", p.sev.no_uefi))

(* Either source may say that Secure Boot is on; setup mode, when its      *)
(* variable cannot be read, counts as off.                                 *)
SecureBoot(h, p) ==
    IF ~IsUefi(h) THEN Skip
    ELSE IF h.secureBootVar = "unread" /\ h.bootctlSecureBoot = "unread"
         THEN Yield(Found("firmware.secure-boot.unknown", INFO))
    ELSE IF h.setupMode = "1"
         THEN Yield(Found("firmware.secure-boot.setup-mode",
                          p.sev.secure_boot_setup_mode))
    ELSE IF h.secureBootVar = "1" \/ h.bootctlSecureBoot = "enabled"
         THEN Yield(Passed("firmware.secure-boot.enabled"))
    ELSE Yield(Found("firmware.secure-boot.disabled", p.sev.secure_boot_off))

(* Only the EFI variable is asked here: bootctl's word is not.             *)
RevocationList(h, p) ==
    IF ~IsUefi(h) \/ h.secureBootVar # "1" THEN Skip
    ELSE IF h.dbx = "full" THEN Yield(Passed("firmware.revocation.present"))
    ELSE Yield(Found("firmware.revocation.empty", p.sev.no_dbx))

TrustedPlatformModule(h, p) ==
    IF h.tpmDevices = {} THEN Yield(Found("firmware.tpm.absent", p.sev.no_tpm))
    ELSE IF h.tpmMajor # "2" THEN Yield(Found("firmware.tpm.old", p.sev.no_tpm))
    ELSE IF h.bootctlMeasured # "yes"
         THEN Yield(Found("firmware.tpm.not-measured", p.sev.no_measured_boot))
    ELSE Yield(Passed("firmware.tpm.measured"))

(* A pending one-shot entry is reported beside the verdict on the order.   *)
BootEntries(h, p) ==
    LET ordered == h.bootOrder # "empty"
        verdict ==
            IF h.bootOrder = "usb first"
            THEN Found("firmware.boot-entries.removable-first",
                       p.sev.boot_order_unexpected)
            ELSE IF ordered /\ h.bootCurrent = "another"
            THEN Found("firmware.boot-entries.unexpected-current", INFO)
            ELSE Passed("firmware.boot-entries.order")
    IN  IF ~IsUefi(h) \/ h.efibootmgr = "unread" THEN Skip
        ELSE Yield(verdict \cup FoundIf(h.bootNext = "set",
                                        "firmware.boot-entries.bootnext", LOW))

(* A mount point that cannot be looked at has mode 0, the strictest one.   *)
EspPermissions(h, p) ==
    IF ~IsUefi(h) \/ h.espMount = "none" THEN Skip
    ELSE IF h.espMode = "world writable"
         THEN Yield(Found("firmware.esp.world-writable",
                          AtLeast(p.sev.esp_permissions, CRITICAL)))
    ELSE IF h.espMode = "readable"
         THEN Yield(Found("firmware.esp.readable", INFO))
    ELSE Yield(Passed("firmware.esp.restricted"))

=============================================================================
