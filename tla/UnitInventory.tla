---------------------------- MODULE UnitInventory ----------------------------
\* The Services page (ui/pages/services.py) and its reader (core/units/manager.py,
\* inventory.py, enrich.py): a pool thread asks the machine in several calls for
\* its units, the system's or those of the user's session, while the machine goes
\* on changing and the user picks the other scope.
EXTENDS UnitFacts
LOCAL INSTANCE Naturals
LOCAL INSTANCE Sequences

CONSTANTS AllNames,   \* the names of units, sorted
          Templates,  \* those of them that are templates
          Chunk,      \* CHUNK, the names of one call of systemctl show
          Machines,   \* what the machine can be
          MaxTurns    \* a bound of the model: changes of the machine

\* A machine: tree[session], from every name of a unit to its record; filed[session]
\* and loaded[session], what the two listings give; the package manager that can be
\* asked, the paths it records, the files of units that are gone; exposed[session],
\* slow[session]; open, the processes that listen to the world; presets[session].

\* What systemctl is relied on for: a name leads to the record of a unit, which is
\* the one under the unit's own name too.
UnitFields ==
  {"id", "names", "load", "active", "result", "condition", "file", "preset", "path", "drops",
   "pid", "user", "restarted", "service"}
ASSUME RecordsLead ==
  \A m \in Machines, session \in BOOLEAN : \A name \in DOMAIN m.tree[session] :
    LET found == m.tree[session][name] IN
    DOMAIN found = UnitFields /\ found.id \in DOMAIN m.tree[session] /\ m.tree[session][found.id] = found

\* And the package managers: one that is not there has recorded nothing; systemd
\* gives a file of the merged /usr one spelling, and all but dpkg record it as such.
UnitPaths ==
  UNION {UNION {{m.tree[session][name].path : name \in DOMAIN m.tree[session]} : session \in BOOLEAN} :
    m \in Machines}
ASSUME OneSpelling ==
  \A m \in Machines :
    /\ m.manager \in {"pacman", "dpkg", "rpm", "none"}
    /\ m.manager = "none" => m.recorded = {}
    /\ \A path \in UnitPaths :
         /\ MergedUsrAlias(path) \in UnitPaths => MergedUsrAlias(path) = path
         /\ m.manager # "dpkg" /\ MergedUsrAlias(path) \in m.recorded => path \in m.recorded

VARIABLES
  machine, turns,
  picker,    \* the page's scope: the units of the session, or the system's
  reading,   \* of the manager, busy
  pending,   \* the scope of the read that runs
  phase,     \* of the pool thread
  got,       \* what the read has so far
  listed,    \* the page's list
  refused    \* the last read to end could not be made, and the page says so
unitVars == <<machine, turns, picker, reading, pending, phase, got, listed, refused>>

Phases == {"none", "files", "loaded", "show", "owners", "managers", "sockets", "presets", "done", "raised"}
NoTables == [manager |-> "none", owners |-> {}, exposed |-> {}, slow |-> {}, open |-> {}]
\* moments: what the machine was while it was read; silent: the package manager did
\* not answer.
Nothing == [roster |-> {}, todo |-> {}, records |-> {}, tables |-> NoTables,
            units |-> {}, answered |-> {}, moments |-> {}, silent |-> FALSE]
NotListed == [there |-> FALSE, session |-> FALSE, read |-> Nothing]

UnitTypeOK ==
  /\ machine \in Machines /\ turns \in 0 .. MaxTurns
  /\ {picker, reading, pending, refused, got.silent, listed.there, listed.session} \subseteq BOOLEAN
  /\ phase \in Phases
  /\ got.todo \subseteq got.roster /\ got.answered \subseteq got.roster
  /\ got.moments \subseteq Machines

UnitInit ==
  /\ machine \in Machines /\ turns = 0 /\ picker = FALSE /\ reading = FALSE /\ pending = FALSE
  /\ phase = "none" /\ got = Nothing /\ listed = NotListed /\ refused = FALSE

\* UnitManager.refresh: not while a read runs.
Refresh(session) ==
  IF reading THEN UNCHANGED <<reading, pending, phase, got>>
  ELSE /\ reading' = TRUE /\ pending' = session /\ phase' = "files"
       /\ got' = [Nothing EXCEPT !.moments = {machine}]

-----------------------------------------------------------------------------
\* The machine: a unit starts, stops, is installed, is renamed.
Turn ==
  /\ turns < MaxTurns /\ turns' = turns + 1 /\ machine' \in Machines \ {machine}
  /\ machine'.manager = machine.manager
  /\ got' = IF phase = "none" THEN got ELSE [got EXCEPT !.moments = @ \cup {machine'}]
  /\ UNCHANGED <<picker, reading, pending, phase, listed, refused>>

\* The user.  The page's button is enabled only while nothing is read; the page
\* reads by itself when it is shown and never had a list.
PickScope ==
  /\ picker' = ~picker /\ Refresh(picker')
  /\ UNCHANGED <<machine, turns, listed, refused>>
PressRefresh ==
  /\ ~reading /\ Refresh(picker)
  /\ UNCHANGED <<machine, turns, picker, listed, refused>>
ShowPage ==
  /\ ~listed.there /\ ~reading /\ Refresh(picker)
  /\ UNCHANGED <<machine, turns, picker, listed, refused>>

-----------------------------------------------------------------------------
\* The pool thread, a call at a time.
Reads(from, to) ==
  phase = from /\ phase' = to /\ UNCHANGED <<machine, turns, picker, reading, pending, listed, refused>>

\* _roster: both listings, either of which may fail.
ListFiles ==
  /\ Reads("files", "loaded")
  /\ \E names \in {machine.filed[pending], {}} : got' = [got EXCEPT !.roster = names]
ListLoaded ==
  /\ Reads("loaded", "show")
  /\ \E names \in {machine.loaded[pending], {}} :
       LET roster == (got.roster \cup names) \ Templates
       IN got' = [got EXCEPT !.roster = roster, !.todo = roster]

\* What systemctl show answers for a name, which may be another name of the unit, or
\* of none any more.
NotFound(name) ==
  [id |-> name, names |-> {name}, load |-> "not-found", active |-> "inactive", result |-> "success",
   condition |-> "no", file |-> "", preset |-> "", path |-> NoPath, drops |-> {}, pid |-> 0,
   user |-> "", restarted |-> FALSE, service |-> TRUE]
Reply(m, session, name) ==
  IF name \in DOMAIN m.tree[session] THEN m.tree[session][name] ELSE NotFound(name)

\* The next chunk of names in their order, all of it answered or none.
ShowChunk ==
  /\ got.todo # {} /\ Reads("show", "show")
  /\ LET some == {name \in got.todo : Place(AllNames, got.todo, name) < Chunk}
         more == {Reply(machine, pending, name) : name \in some}
         left == [got EXCEPT !.todo = @ \ some]
     IN got' \in {left, [left EXCEPT !.records = Deduplicate(@, more), !.answered = @ \cup some]}
\* Templates that a name led to are dropped.
Collected ==
  /\ got.todo = {} /\ Reads("show", "owners")
  /\ got' = [got EXCEPT !.units = {unit \in got.records : unit.id \notin Templates}]

\* _owners.  A manager that does not answer in time was asked all the same.
AskOwners ==
  /\ Reads("owners", "managers")
  /\ LET paths == {unit.path : unit \in got.units} \ {NoPath}
         owned == Owners(machine.manager, paths, machine.recorded, machine.gone)
         asked == [got EXCEPT !.tables.manager = machine.manager]
     IN got' \in {[asked EXCEPT !.tables.owners = owned], [asked EXCEPT !.silent = TRUE]}

\* _exposure and _boot_times, of the manager of the units that are read.
\* Mutant: always of the system's.
ManagerTablesMutated(m, session) == [exposed |-> m.exposed[FALSE], slow |-> m.slow[FALSE]]
ManagerTables(m, session) == [exposed |-> m.exposed[session], slow |-> m.slow[session]]
AskManagers ==
  /\ Reads("managers", "sockets")
  /\ LET said == ManagerTables(machine, pending)
     IN got' \in {got, [got EXCEPT !.tables.exposed = said.exposed, !.tables.slow = said.slow]}

\* _listening_ports.
AskSockets ==
  /\ Reads("sockets", "presets")
  /\ got' \in {got, [got EXCEPT !.tables.open = machine.open]}

\* preset_patterns, and what was learnt goes to the units.
ReadPresets ==
  /\ Reads("presets", "done")
  /\ got' = [got EXCEPT !.units = {Enriched(unit, pending, got.tables, machine.presets[pending]) : unit \in @}]

\* An error that none of the above foresees.
ReadRaises ==
  /\ phase \notin {"none", "done", "raised"} /\ Reads(phase, "raised") /\ UNCHANGED got

-----------------------------------------------------------------------------
\* _on_done and the page's _on_refreshed: the manager is free again, and a list of
\* the scope that is not asked for any more is read again.
\* Mutant: the list is shown, whatever the picker says.
WantedMutated(session) == TRUE
Wanted(session) == session = picker
Arrives ==
  /\ phase = "done"
  /\ IF Wanted(pending)
     THEN /\ listed' = [there |-> TRUE, session |-> pending, read |-> got]
          /\ refused' = FALSE /\ reading' = FALSE /\ phase' = "none"
          /\ got' = Nothing /\ UNCHANGED pending
     ELSE /\ reading' = TRUE /\ pending' = picker /\ phase' = "files"
          /\ got' = [Nothing EXCEPT !.moments = {machine}] /\ UNCHANGED <<listed, refused>>
  /\ UNCHANGED <<machine, turns, picker>>

\* _on_error: the message, over the list there was.
Fails ==
  /\ phase = "raised" /\ phase' = "none" /\ reading' = FALSE /\ refused' = TRUE /\ got' = Nothing
  /\ UNCHANGED <<machine, turns, picker, pending, listed>>

UnitNext ==
  \/ Turn \/ PickScope \/ PressRefresh \/ ShowPage
  \/ ListFiles \/ ListLoaded \/ ShowChunk \/ Collected \/ AskOwners \/ AskManagers \/ AskSockets
  \/ ReadPresets \/ ReadRaises \/ Arrives \/ Fails
UnitSpec == UnitInit /\ [][UnitNext]_unitVars

-----------------------------------------------------------------------------
\* Once nothing is read, the list is of the scope that the picker names, whenever
\* the user picked it, unless the last read failed; and each unit in it answers for
\* that scope (its commands and its privileges are judged by it).
ListFollowsPicker ==
  /\ reading = (phase # "none")
  /\ ~reading /\ ~refused /\ listed.there =>
       listed.session = picker /\ \A unit \in listed.read.units : unit.session = picker

\* What a list says was so at some moment while it was read, although the machine
\* changed between the calls.  One row for a unit:
OneRowEach(read) ==
  \A unit, other \in read.units : other.id = unit.id => other = unit
\* each in a state that systemctl gave for it;
StatesWereRead(read, session) ==
  \A unit \in read.units : \E m \in read.moments :
    LET was == Reply(m, session, unit.id) IN \A f \in DOMAIN was : unit[f] = was[f]
\* what is called unconfined or slow is so for its own manager, and what is called
\* reachable has a process that listens;
WorstIsTrue(read, session) ==
  \A unit \in read.units :
    /\ "unconfined" \in Flags(unit) => \E m \in read.moments : unit.id \in m.exposed[session]
    /\ "slow" \in Flags(unit) => \E m \in read.moments : unit.id \in m.slow[session]
    /\ "reachable" \in Flags(unit) => \E m \in read.moments : unit.pid \in m.open
\* what no package is said to own is owned by none, unless the manager gave no
\* answer or files of units were gone;
UnownedIsTrue(read) ==
  \A unit \in read.units :
    "unowned" \in Flags(unit) =>
      \/ read.silent
      \/ \E m \in read.moments :
           m.gone # {} \/ {unit.path, MergedUsrAlias(unit.path)} \cap m.recorded = {}
\* what is said to deviate from its preset has one;
PresetsRule(read, session) ==
  \A unit \in read.units :
    "changed" \in Flags(unit) =>
      \E m \in read.moments :
        m.presets[session] = <<>> \/ PresetNames(unit, PresetPatterns(m.presets[session]))
\* and a name that was answered leads to a unit that it was a name of, a name that
\* kept its meaning to that one.
NamesLead(read, session) ==
  \A name \in read.answered : \E m \in read.moments :
    LET id == Reply(m, session, name).id
    IN id \in Templates \/ \E unit \in Get(read.units, id) : unit.id = id
NamesAreFound(read, session) ==
  \A name \in read.answered, unit \in read.units :
    (\A m \in read.moments : LET was == Reply(m, session, name) IN was.id = unit.id /\ name \in was.names)
      => unit \in Get(read.units, name)

Earned(read, session) ==
  /\ OneRowEach(read) /\ StatesWereRead(read, session) /\ WorstIsTrue(read, session)
  /\ UnownedIsTrue(read) /\ PresetsRule(read, session)
  /\ NamesLead(read, session) /\ NamesAreFound(read, session)

\* The list on the page is one that its reader has earned (collect, enrich, _flags):
\* no row, state, flag or name in it is of a moment before or of another manager.
ListIsEarned == Earned(listed.read, listed.session)
=============================================================================
