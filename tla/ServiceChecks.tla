---------------------------- MODULE ServiceChecks ---------------------------
(***************************************************************************)
(* core/boot/checks/services.py and performance.py: what systemd says of   *)
(* the units and of the time the boot took.                                *)
(***************************************************************************)
EXTENDS BootFindings

(* A listing is "silent" when the command timed out or is not installed,   *)
(* which leaves nothing on its standard error, and "refused" when it       *)
(* failed and said why.                                                    *)
Answer(how, units) == [how |-> how, units |-> units]

ServiceFacts ==
    LET Listings ==
            {Answer("answered", units) :
                units \in SUBSET {"sshd.service", "auditd.service"}}
        Device(length, s) == [kind |-> "device", length |-> length, secs |-> s]
        Service(s) == [kind |-> "service", length |-> 12, secs |-> s]
        Mount(s) == [kind |-> "mount", length |-> 10, secs |-> s]
    IN
    [failed |-> <<Answer("silent", {}), Listings \cup {Answer("refused", {})}>>,
     state |-> <<"unread", {"running", "degraded", "starting"}>>,
     exposure |-> <<{}, {{60}, {60, 75}, {85}, {92}, {60, 97}}>>,
     overridesDir |-> <<"absent", {"directory"}>>,
     overrides |-> <<{}, {{"drop-in"}, {"enable link"}, {"shadowing"},
                     {"shadowing", "drop-in"}}>>,
     masked |-> <<Answer("silent", {}), Listings \cup {Answer("refused", {})}>>,
     bootSeconds |-> <<0, {50, 70, 100, 200}>>,
     blame |-> <<{}, {{Service(3), Device(8, 3)}, {Service(6)}, {Service(40)},
                 {Device(8, 20), Device(30, 20)}, {Mount(12), Service(12)},
                 {Device(8, 90), Service(20)}}>>,
     firmwareSeconds |-> <<0, {10, 18, 25, 40, 70}>>]

SecurityUnits == {"auditd.service"}

(* A command that failed is believed unless it said something on stderr:   *)
(* systemctl also exits non-zero when a filter matches nothing.            *)
FailedUnits(h, p) ==
    LET Floor(u) == IF u \in SecurityUnits THEN HIGH ELSE MEDIUM
    IN  IF h.failed.how = "refused" THEN Skip
        ELSE IF h.failed.units = {} THEN Yield(Passed("services.failed.none"))
        ELSE Yield({[id |-> "services.failed." \o u,
                     sev |-> AtLeast(p.sev.failed_unit, Floor(u))] :
                        u \in h.failed.units})

SystemState(h, p) ==
    IF h.state = "unread" THEN Skip
    ELSE IF h.state = "running" THEN Yield(Passed("services.state.running"))
    ELSE Yield(Found("services.state." \o h.state, p.sev.system_degraded))

ServiceExposure(h, p) ==
    IF h.exposure = {} THEN Skip
    ELSE IF \E score \in h.exposure : score >= p.limit.exposure_unsafe
         THEN Yield(Found("services.exposure.unsafe", p.sev.unit_exposure))
    ELSE Yield(Passed("services.exposure.contained"))

LocalOverrides(h, p) ==
    IF h.overridesDir = "absent" THEN Skip
    ELSE IF "shadowing" \in h.overrides
         THEN Yield(Found("services.overrides.shadowed",
                          p.sev.vendor_unit_overridden))
    ELSE Yield(Passed("services.overrides.none"))

MaskedUnits(h, p) ==
    IF h.masked.how = "refused" THEN Skip
    ELSE IF h.masked.units \cap SecurityUnits # {}
         THEN Yield(Found("services.masked.security",
                          p.sev.masked_security_unit))
    ELSE IF h.masked.units # {} THEN Yield(Found("services.masked.some", INFO))
    ELSE Yield(Passed("services.masked.none"))

-----------------------------------------------------------------------------
(* Devices that took the same time are one device under several names: the *)
(* shortest name stands for all of them.                                   *)
SlowestUnits(h) ==
    LET devices == {u \in h.blame : u.kind = "device"}
        Shortest(same) == CHOOSE u \in same :
                              \A v \in same : u.length <= v.length
    IN  (h.blame \ devices)
        \cup {Shortest({v \in devices : v.secs = u.secs}) : u \in devices}

Waits(u) == u.kind \in {"device", "mount", "swap"}

SlowOnes(h, p) == {u \in SlowestUnits(h) : u.secs >= p.limit.unit_slow_seconds}

TotalTime(h, p) ==
    IF h.bootSeconds = 0 THEN Skip
    ELSE IF h.bootSeconds <= p.limit.boot_total_seconds
         THEN Yield(Passed("performance.total.quick"))
    ELSE Yield(Found("performance.total.slow", p.sev.boot_slow))

DeviceWaits(h, p) ==
    IF h.blame = {} THEN Skip
    ELSE IF \E u \in SlowOnes(h, p) : Waits(u)
         THEN Yield(Found("performance.devices.timeout",
                          p.sev.device_timeout))
    ELSE Yield(Passed("performance.devices.prompt"))

SlowUnits(h, p) ==
    IF h.blame = {} THEN Skip
    ELSE IF \E u \in SlowOnes(h, p) : ~Waits(u)
         THEN Yield(Found("performance.units.slow", p.sev.unit_slow))
    ELSE Yield(Passed("performance.units.quick"))

FirmwareTime(h, p) ==
    IF h.bootSeconds = 0 \/ h.firmwareSeconds = 0 THEN Skip
    ELSE IF h.firmwareSeconds <= p.limit.firmware_seconds
         THEN Yield(Passed("performance.firmware.quick"))
    ELSE Yield(Found("performance.firmware.slow", p.sev.firmware_slow))

=============================================================================
