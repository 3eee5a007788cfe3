---------------------------- MODULE MCBootSession ----------------------------
(* A kernel, its initramfs and a unit file, recorded and looked at again;  *)
(* and beside the Boot page, the Services page on a few machines: TLC      *)
(* looks at the two one at a time.                                         *)
EXTENDS BootSession, UnitInventory

CONSTANTS kernel, initramfs, unit

MCPaths == {kernel, initramfs, unit}
MCKernelPaths == {kernel}
MCInitramfsPaths == {initramfs}

(* Two contents, sizes, modes, owners and times a kernel update apart.     *)
Versions ==
    {NoFile} \cup {File(c, s, m, t, u, r) :
        c \in {"a", "b"}, s \in {1, 2}, m \in {"644", "666"}, t \in {0, 60},
        u \in {"root", "someone"}, r \in BOOLEAN}

Plain == File("a", 1, "644", 0, "root", TRUE)
Updated == File("b", 2, "644", 60, "root", TRUE)

(* One file in every two states, beside others that stay or are updated.   *)
MCSnapshots ==
    {<<[q \in MCPaths |-> IF q = one THEN was ELSE Plain],
       [q \in MCPaths |-> IF q = one THEN now
                          ELSE IF q \in updated THEN Updated ELSE Plain]>> :
        one \in MCPaths, was \in Versions, now \in Versions,
        updated \in {{}, {kernel}, {kernel, initramfs}}}

-----------------------------------------------------------------------------
(* A daemon, in both trees, and a login prompt that is an instance of a    *)
(* template.  A third name is the daemon's too, a unit's own, or nobody's. *)
MCNames == <<"daemon", "getty@", "getty@1", "spare">>
MCTemplates == {"getty@"}
MCTemplateOf == [n \in {MCNames[i] : i \in DOMAIN MCNames} |-> IF n = "getty@1" THEN "getty@" ELSE n]
Lib == <<"/usr/lib", "daemon">>
OldLib == <<"/lib", "daemon">>
Etc == <<"/etc", "daemon">>
Prompt == <<"/usr/lib", "getty@">>
MCPathOrder == <<Etc, OldLib, Lib, Prompt>>

Daemon(names, active, path) ==
    [id |-> "daemon", names |-> names, load |-> "loaded", active |-> active,
     result |-> IF active = "failed" THEN "exit-code" ELSE "success",
     condition |-> "yes", file |-> IF path = Etc THEN "enabled" ELSE "disabled",
     preset |-> "disabled", path |-> path, drops |-> {}, pid |-> IF active = "active" THEN 1 ELSE 0,
     user |-> "", restarted |-> FALSE, service |-> TRUE]
Other(id) ==
    [id |-> id, names |-> {id}, load |-> "loaded", active |-> "active", result |-> "success",
     condition |-> "yes", file |-> "enabled", preset |-> "enabled", path |-> Prompt,
     drops |-> {<<"/etc", "getty@1">>}, pid |-> 2, user |-> "root", restarted |-> TRUE, service |-> TRUE]

Tree(names, others, active, path) ==
    [n \in names \cup others \cup {"getty@", "getty@1"} |->
        IF n \in names THEN Daemon(names, active, path) ELSE Other(n)]
Session == [n \in {"daemon"} |-> Daemon({"daemon"}, "active", Lib)]
MachineOf(manager, names, others, active, path, gone) ==
    [tree |-> [s \in BOOLEAN |-> IF s THEN Session ELSE Tree(names, others, active, path)],
     filed |-> [s \in BOOLEAN |-> IF s THEN {"daemon"} ELSE names \cup others \cup {"getty@"}],
     loaded |-> [s \in BOOLEAN |-> IF s THEN {"daemon"} ELSE {"daemon", "getty@1"}],
     manager |-> manager,
     recorded |-> CASE manager = "none" -> {}
                    [] manager = "dpkg" -> {OldLib, Prompt}
                    [] OTHER -> {Lib, Prompt},
     gone |-> gone,
     exposed |-> [s \in BOOLEAN |-> IF s THEN {} ELSE {"daemon"}],
     slow |-> [s \in BOOLEAN |-> IF s THEN {} ELSE {"daemon"}],
     open |-> IF names = {"daemon"} THEN {2} ELSE {1, 2},
     presets |-> [s \in BOOLEAN |->
         IF s THEN <<>>
         ELSE << [f \in {"90"} |-> {"getty@"}],
                 [f \in {"90", "99"} |-> IF f = "90" THEN {"spare"} ELSE {"daemon"}] >>]]
MCMachines ==
    {MachineOf(manager, names, {}, active, path, {}) :
        manager \in {"pacman", "dpkg", "rpm", "none"}, names \in {{"daemon"}, {"spare", "daemon"}},
        active \in {"active", "failed"}, path \in {Lib, Etc}}
    \cup {MachineOf(manager, {"daemon"}, {}, "active", Lib, {Lib}) : manager \in {"pacman", "dpkg", "rpm"}}
    \cup {MachineOf(manager, {"daemon"}, {"spare"}, "active", Lib, {}) : manager \in {"rpm", "none"}}

(* Reads after the first list are followed on one machine only.            *)
FirstMachine == MachineOf("none", {"daemon"}, {}, "active", Lib, {})
MCInit ==
    /\ Init /\ UnitInit
    /\ machine = FirstMachine \/ check = "kexec"
MCNext ==
    \/ /\ machine = FirstMachine /\ turns = 0 /\ phase = "none" /\ ~listed.there /\ ~picker /\ ~refused
       /\ Next /\ UNCHANGED unitVars
    \/ /\ check = "kexec" /\ worker = "idle" /\ report = NoReport /\ edits = 0
       /\ listed.there => machine = FirstMachine /\ turns = 0
       /\ UnitNext /\ UNCHANGED vars
MCSpec == MCInit /\ [][MCNext]_<<vars, unitVars>>
=============================================================================
