------------------------------ MODULE UnitFacts ------------------------------
\* What ClamGuard says of one systemd unit (core/units/model.py, purpose.py) from
\* what systemctl, the package manager, systemd-analyze, ss and the preset files
\* said of it (enrich.py).
\*
\* A unit is the record systemctl answered for it:
\*   id, names      its own name, and every name it has
\*   load, active, result, condition, file, preset   systemd's words for its state
\*   path, drops    its file, and the files that override it: <<directory, file>>
\*   pid, user, restarted, service
\* and the fields of Enrich: session, package, checked, ruled, exposed, slow, open.
LOCAL INSTANCE Naturals
LOCAL INSTANCE FiniteSets

CONSTANTS PathOrder,   \* every path of a unit's file, sorted
          TemplateOf   \* the template of a name, or the name itself

NoPath == <<"", "">>

-----------------------------------------------------------------------------
\* model.py
Exists(unit)  == unit.load \notin {"", "not-found"}
Running(unit) == unit.active = "active"
Failed(unit)  == unit.active = "failed"
Skipped(unit) == unit.result = "exec-condition"
Masked(unit)  == unit.load = "masked" \/ unit.file \in {"masked", "masked-runtime"}
StartsItself(word) == word \in {"enabled", "enabled-runtime", "static", "generated", "indirect"}

\* The unit files of a person: of /etc, /usr/local or the home directory.
IsLocal(path) == path[1] \in {"/etc", "/usr/local", "/home"}
LocalDropIns(unit) == {path \in unit.drops : IsLocal(path)}

Provenance(unit) ==
  IF unit.file = "transient" \/ unit.path[1] = "/run/transient" THEN "transient"
  ELSE IF unit.path = NoPath THEN "unknown"
  ELSE IF unit.file = "generated" \/ unit.path[1] = "/run/generator" THEN "generated"
  ELSE IF unit.package THEN "package"
  ELSE IF IsLocal(unit.path) THEN "local"
  ELSE IF unit.checked THEN "unpackaged" ELSE "unknown"
IsUnpackaged(unit) == Provenance(unit) \in {"local", "unpackaged"}

\* ruled: "yes", "no", or "unknown" when no preset file could be read.
DeviatesFromPreset(unit) ==
  /\ unit.preset # "" /\ unit.ruled # "no"
  /\ unit.file \notin {"static", "generated", "transient", "alias", "indirect"}
  /\ StartsItself(unit.file) # StartsItself(unit.preset)

RunsAsRoot(unit) == ~unit.session /\ unit.user \in {"", "root"}

\* purpose.py, what is worth a second look.
Flags(unit) ==
  LET holds == [failed      |-> Failed(unit),
                ended_badly |-> unit.result \notin {"", "success"} /\ ~Skipped(unit),
                restarted   |-> unit.restarted,
                masked      |-> Masked(unit),
                condition   |-> /\ unit.condition = "no" /\ ~Running(unit)
                                /\ unit.file \in {"enabled", "enabled-runtime"},
                changed     |-> DeviatesFromPreset(unit),
                unowned     |-> IsUnpackaged(unit),
                overridden  |-> LocalDropIns(unit) # {},
                unconfined  |-> unit.exposed /\ Running(unit) /\ RunsAsRoot(unit),
                reachable   |-> unit.open /\ unit.service /\ Running(unit) /\ RunsAsRoot(unit),
                slow        |-> unit.slow]
  IN IF Exists(unit) THEN {flag \in DOMAIN holds : holds[flag]} ELSE {"not_found"}

-----------------------------------------------------------------------------
\* How many of S come before x in the order, a sequence.
Place(order, S, x) ==
  Cardinality({i \in DOMAIN order : order[i] \in S /\ \E j \in DOMAIN order : i < j /\ order[j] = x})

\* inventory.py: one entry of a unit however many names reached it, the first.
Deduplicate(seen, more) == seen \cup {unit \in more : \A other \in seen : other.id # unit.id}

\* Inventory.get: the unit by its own name, else by another of its names.
Get(units, name) ==
  LET own == {unit \in units : unit.id = name} IN
  IF own # {} THEN own ELSE {unit \in units : name \in unit.names}

-----------------------------------------------------------------------------
\* enrich.py: who owns the files, of the package managers that can be asked.  Each
\* answers from the paths its database records, and reads the disk or does not.
MergedUsrAlias(path) ==
  CASE path[1] = "/usr/lib" -> <<"/lib", path[2]>>
    [] path[1] = "/lib"     -> <<"/usr/lib", path[2]>>
    [] OTHER -> path
PacmanOwners(paths, recorded, gone) == (paths \cap recorded) \ gone
\* dpkg is asked under both spellings of a merged path, unless both are units' files.
DpkgOwners(paths, recorded, gone) ==
  {path \in paths : \/ path \in recorded
                    \/ MergedUsrAlias(path) \notin paths /\ MergedUsrAlias(path) \in recorded}
\* rpm answers a line for each file that is there, and the lines are taken to be
\* those of the paths in their order.
RpmOwners(paths, recorded, gone) ==
  LET there == paths \ gone
  IN {path \in paths : \E line \in there : /\ Place(PathOrder, there, line) = Place(PathOrder, paths, path)
                                          /\ line \in recorded}
Owners(manager, paths, recorded, gone) ==
  CASE manager = "pacman" -> PacmanOwners(paths, recorded, gone)
    [] manager = "dpkg" -> DpkgOwners(paths, recorded, gone)
    [] manager = "rpm"  -> RpmOwners(paths, recorded, gone)
    [] manager = "none" -> {}

\* The names the preset rules are about.  directories: most important first, each
\* a function from its files to the names their patterns match; a file hides one
\* of the same name in a later directory.
PresetPatterns(directories) ==
  LET Inside(i) == DOMAIN directories[i]
      Chosen(i) == Inside(i) \ UNION {Inside(j) : j \in 1 .. i - 1}
  IN UNION {UNION {directories[i][name] : name \in Chosen(i)} : i \in DOMAIN directories}
PresetNames(unit, patterns) ==
  (unit.names \cup {unit.id, TemplateOf[unit.id]}) \cap patterns # {}

\* enrich and _apply: what the tables say of a unit.
Enriched(unit, session, tables, directories) ==
  LET own == [session |-> session,
              package |-> unit.path \in tables.owners,
              checked |-> tables.manager # "none" /\ unit.path # NoPath,
              ruled   |-> IF directories = <<>> THEN "unknown"
                          ELSE IF PresetNames(unit, PresetPatterns(directories)) THEN "yes" ELSE "no",
              exposed |-> unit.id \in tables.exposed,
              slow    |-> unit.id \in tables.slow,
              open    |-> unit.pid # 0 /\ unit.pid \in tables.open]
  IN [f \in DOMAIN unit \cup DOMAIN own |-> IF f \in DOMAIN own THEN own[f] ELSE unit[f]]
=============================================================================
