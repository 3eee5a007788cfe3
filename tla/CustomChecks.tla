---------------------------- MODULE CustomChecks ----------------------------
(***************************************************************************)
(* core/boot/custom.py: the checks a user writes, one operator for each of *)
(* the six kinds, and what is required of a definition of each kind.       *)
(***************************************************************************)
EXTENDS BootFindings

NoNumber == -9    \* a sysctl that cannot be read
Text == 100       \* a value that is not a number

Kinds == {"sysctl", "file_exists", "file_mode", "file_contains", "cmdline",
          "unit_state"}

(* The mode is only looked at by file_mode, so its absence is not noticed. *)
Required == [k \in Kinds |->
    CASE k = "sysctl" -> {"key", "value"}
      [] k \in {"file_exists", "file_mode"} -> {"path"}
      [] k = "file_contains" -> {"path", "pattern"}
      [] k = "cmdline" -> {"parameter"}
      [] k = "unit_state" -> {"unit"}]

(* A definition with a field missing becomes a problem and not a check.    *)
Usable(d) == Required[d.kind] \subseteq d.fields

Definition(kind, compare, value, expect, mode, fields) ==
    [kind |-> kind, compare |-> compare, value |-> value, expect |-> expect,
     mode |-> mode, fields |-> fields]

CustomFacts ==
    LET Simple(kind, expect) ==
            Definition(kind, "eq", 1, expect, {}, Required[kind])
        Sysctl(compare, value) ==
            Definition("sysctl", compare, value, "present", {},
                       {"key", "value"})
        Mode(m) == Definition("file_mode", "eq", 1, "present", m, {"path"})
    IN
    [definition |-> <<Definition("sysctl", "eq", 1, "present", {}, {"key"}),
        {Simple(k, e) : k \in {"file_exists", "file_contains", "cmdline",
                               "unit_state"}, e \in {"present", "absent"}}
        \cup {Sysctl(c, v) : c \in {"eq", "ne", "ge", "le"}, v \in {1, Text}}
        \cup {Mode({}), Mode({"group"}), Mode({"group", "other"})}>>,
     customSysctl |-> <<NoNumber, {0, 1, 2, Text}>>,
     customFile |-> <<"denied", {"missing", "with it", "without it"}>>,
     customMode |-> <<{"unread"}, {{}, {"group"}, {"other"}}>>,
     customCmdline |-> <<"unread", {"has it", "another value", "lacks it"}>>,
     customUnit |-> <<"unknown", {"active", "inactive"}>>]

(* Two values that are not both numbers are compared as text, where any    *)
(* comparison but eq asks for them to differ.                              *)
EvalSysctl(d, h) ==
    LET actual == h.customSysctl
        wanted == d.value
    IN  IF Text \in {actual, wanted}
        THEN (actual = wanted) <=> (d.compare = "eq")
        ELSE CASE d.compare = "eq" -> actual = wanted
               [] d.compare = "ne" -> actual # wanted
               [] d.compare = "ge" -> actual >= wanted
               [] d.compare = "le" -> actual <= wanted

EvalFileExists(d, h) == (h.customFile # "missing") <=> (d.expect = "present")

(* The file grants nothing the allowed mode does not. *)
EvalFileMode(d, h) == h.customMode \subseteq d.mode

EvalFileContains(d, h) ==
    (h.customFile = "with it") <=> (d.expect = "present")

EvalCmdline(d, h) == (h.customCmdline = "has it") <=> (d.expect = "present")

EvalUnitState(h) == h.customUnit = "active"

Evaluate(h, p) ==
    LET d == h.definition
        skips == \/ d.kind = "sysctl" /\ h.customSysctl = NoNumber
                 \/ d.kind = "file_mode" /\ h.customMode = {"unread"}
                 \/ /\ d.kind = "file_contains"
                    /\ h.customFile \in {"denied", "missing"}
        satisfied ==
            CASE d.kind = "sysctl" -> EvalSysctl(d, h)
              [] d.kind = "file_exists" -> EvalFileExists(d, h)
              [] d.kind = "file_mode" -> EvalFileMode(d, h)
              [] d.kind = "file_contains" -> EvalFileContains(d, h)
              [] d.kind = "cmdline" -> EvalCmdline(d, h)
              [] d.kind = "unit_state" -> EvalUnitState(h)
    IN  IF ~Usable(d) \/ skips THEN Skip
        ELSE IF satisfied THEN Yield(Passed("site.check.ok"))
        ELSE Yield(Found("site.check.failed", MEDIUM))

=============================================================================
