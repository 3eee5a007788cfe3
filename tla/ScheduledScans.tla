---------------------------- MODULE ScheduledScans ----------------------------
(***************************************************************************)
(* Scheduled scans from launch to start.  A launch hands its request to    *)
(* the copy that is already running, or claims the socket and becomes that *)
(* copy (app.py, core/single_instance.py).  The Scheduler of a running     *)
(* copy (core/scheduler.py) goes through its schedules at the launch and   *)
(* every thirty seconds, marks those that are due as run, saves them, and  *)
(* tells the main window, which asks the scan page to start a scan.  A     *)
(* full scan is asked about first (ui/pages/scan.py): the handler waits in *)
(* a modal question while its event loop goes on with timers and sockets.  *)
(*                                                                         *)
(* A schedule is its number, in the order of the list; when it is to run   *)
(* is a set of times.  A suspended handler is a frame on the stack of its  *)
(* process.  The scanner is busy or not.                                   *)
(***************************************************************************)
EXTENDS Naturals, Sequences, FiniteSetsExt

CONSTANTS Procs,    \* launches of the program
          NoProc,   \* no process
          Number,   \* how many schedules there can be
          Full,     \* those of kind FULL, which are asked about
          Moments,  \* when each is to run
          MaxTime,  \* bound: the last moment of the clock
          Hazards   \* which of HazardKinds may happen

HazardKinds == {"race",       \* a launch begins while another is under way
                "no_socket",  \* the socket cannot be made
                "no_disk"}    \* the schedules cannot be saved

Schedules == 1..Number
Times == 1..MaxTime
Never == 0   \* last_run of a schedule that has not run: the empty string

ASSUME ScheduleConstants ==
  /\ NoProc \notin Procs /\ Number \in Nat /\ MaxTime \in Nat \ {0} /\ Full \subseteq Schedules
  /\ Moments \in [Schedules -> SUBSET Times] /\ Hazards \subseteq HazardKinds

VARIABLES
  now,     \* the clock
  disk,    \* schedules.json
  mem,     \* Scheduler._schedules of each process
  phase,   \* how far each launch has come
  server,  \* whether SingleInstance._server is there
  socket,  \* the process whose server has the name; it may have died
  stack,   \* the handlers of the UI thread that have not returned, the last on top
  timer,   \* whether the Scheduler's timer is running
  busy,    \* Scanner.busy
  served   \* observation: how often a schedule was started for a moment

instanceVars == <<phase, server, socket>>
handlerVars == <<stack, timer, busy>>
vars == <<now, disk, mem, instanceVars, handlerVars, served>>

Records == [is : {"absent", "there", "removed"}, on : BOOLEAN, late : BOOLEAN, last : Times \cup {Never}]
Files == [Schedules -> Records]
Frames == [mode : {"tick", "launch", "user"}, at : Times, next : 1..(Number + 1),
           fire : Schedules \cup {0}, asks : BOOLEAN]

\* Every variable has its type.
TypeOK ==
  /\ now \in Times /\ disk \in Files /\ mem \in [Procs -> Files]
  /\ phase \in [Procs -> {"off", "forwarding", "claiming", "listening", "up"}]
  /\ server \in [Procs -> BOOLEAN] /\ socket \in Procs \cup {NoProc}
  /\ stack \in [Procs -> Seq(Frames)]
  /\ timer \in [Procs -> BOOLEAN] /\ busy \in [Procs -> BOOLEAN]
  /\ served \in [Schedules -> [Times -> Nat]]

NoSchedules == [s \in Schedules |-> [is |-> "absent", on |-> FALSE, late |-> FALSE, last |-> Never]]

Init ==
  /\ now = 1 /\ disk = NoSchedules /\ mem = [p \in Procs |-> NoSchedules]
  /\ phase = [p \in Procs |-> "off"] /\ server = [p \in Procs |-> FALSE] /\ socket = NoProc
  /\ stack = [p \in Procs |-> <<>>]
  /\ timer = [p \in Procs |-> FALSE] /\ busy = [p \in Procs |-> FALSE]
  /\ served = [s \in Schedules |-> [t \in Times |-> 0]]

Clock ==
  /\ now < MaxTime /\ now' = now + 1
  /\ UNCHANGED <<disk, mem, instanceVars, handlerVars, served>>

\* The operators below that are called "...Mutated" are the wrong turns the
\* properties are tried against; nothing uses them.

-----------------------------------------------------------------------------
(* Launching.                                                              *)

\* Somebody answers on the socket; a question does not keep it from answering.
AnswersMutated == socket # NoProc /\ phase[socket] = "up" /\ stack[socket] = <<>>
Answers == socket # NoProc /\ phase[socket] = "up"

Launching(p) == phase[p] \in {"forwarding", "claiming", "listening"}

Launch(p) ==
  /\ phase[p] = "off"
  /\ "race" \notin Hazards => \A q \in Procs : ~Launching(q)
  /\ phase' = [phase EXCEPT ![p] = "forwarding"]
  /\ UNCHANGED <<now, disk, mem, server, socket, handlerVars, served>>

\* SingleInstance.forward: the request is taken, and the launch is over.
Forward(p) ==
  /\ phase[p] = "forwarding"
  /\ phase' = [phase EXCEPT ![p] = IF Answers THEN "off" ELSE "claiming"]
  /\ UNCHANGED <<now, disk, mem, server, socket, handlerVars, served>>

\* The schedules are loaded, and _catch_up begins.
Up(p) ==
  /\ phase' = [phase EXCEPT ![p] = "up"] /\ mem' = [mem EXCEPT ![p] = disk]
  /\ stack' = [stack EXCEPT ![p] = <<[mode |-> "launch", at |-> now, next |-> 1,
                                       fire |-> 0, asks |-> FALSE]>>]
  /\ UNCHANGED <<now, disk, timer, busy, served>>

\* SingleInstance.listen asks once more; if somebody answers now, the launch goes on
\* without a socket.
Claim(p) ==
  /\ phase[p] = "claiming" /\ UNCHANGED <<server, socket>>
  /\ IF Answers THEN Up(p)
     ELSE /\ phase' = [phase EXCEPT ![p] = "listening"]
          /\ UNCHANGED <<now, disk, mem, handlerVars, served>>

\* removeServer and listen take the name from whoever has it.
Listen(p) ==
  /\ phase[p] = "listening" /\ Up(p)
  /\ \E made \in {TRUE} \cup {"no_socket" \notin Hazards} :
       /\ server' = [server EXCEPT ![p] = made]
       /\ socket' = IF made THEN p ELSE NoProc

\* Closing a server removes its name, whoever has taken it since.
Quit(p) ==
  /\ phase[p] = "up" /\ stack[p] = <<>>
  /\ socket' = IF server[p] THEN NoProc ELSE socket
  /\ phase' = [phase EXCEPT ![p] = "off"] /\ server' = [server EXCEPT ![p] = FALSE]
  /\ mem' = [mem EXCEPT ![p] = NoSchedules] /\ timer' = [timer EXCEPT ![p] = FALSE]
  /\ busy' = [busy EXCEPT ![p] = FALSE]
  /\ UNCHANGED <<now, disk, stack, served>>

\* The name of a process that died stays.
Crash(p) ==
  /\ phase[p] # "off"
  /\ phase' = [phase EXCEPT ![p] = "off"] /\ server' = [server EXCEPT ![p] = FALSE]
  /\ mem' = [mem EXCEPT ![p] = NoSchedules] /\ timer' = [timer EXCEPT ![p] = FALSE]
  /\ busy' = [busy EXCEPT ![p] = FALSE] /\ stack' = [stack EXCEPT ![p] = <<>>]
  /\ UNCHANGED <<now, disk, socket, served>>

-----------------------------------------------------------------------------
(* The list of schedules, as the settings page changes it.                 *)

Top(p) == stack[p][Len(stack[p])]
Idle(p) == phase[p] = "up" /\ stack[p] = <<>>
InLoop(p) == phase[p] = "up" /\ (stack[p] # <<>> => Top(p).asks)

\* save: the new list is in memory, and on the disk unless that fails.
Saved(p, list) ==
  /\ mem' = [mem EXCEPT ![p] = list]
  /\ \E written \in {TRUE} \cup {"no_disk" \notin Hazards} :
       disk' = IF written THEN list ELSE disk

Edit(p) ==
  /\ Idle(p)
  /\ \E s \in Schedules : LET r == mem[p][s] IN
       \/ /\ r.is = "absent"
          /\ \E late \in BOOLEAN : Saved(p, [mem[p] EXCEPT ![s] =
               [is |-> "there", on |-> TRUE, late |-> late, last |-> Never]])
       \/ r.is = "there" /\ Saved(p, [mem[p] EXCEPT ![s].is = "removed", ![s].on = FALSE])
       \/ r.is = "there" /\ Saved(p, [mem[p] EXCEPT ![s].on = ~r.on])
       \/ r.is = "there" /\ Saved(p, [mem[p] EXCEPT ![s].late = ~r.late])
  /\ UNCHANGED <<now, instanceVars, handlerVars, served>>

-----------------------------------------------------------------------------
(* The Scheduler's loops over the list, one schedule at a time.            *)

Push(p, frame) == stack' = [stack EXCEPT ![p] = Append(@, frame)]
SetTop(p, frame) == stack' = [stack EXCEPT ![p][Len(stack[p])] = frame]

\* The timer, also in the event loop of a question; Qt does not enter the handler
\* of a timer again before it has returned.
Tick(p) ==
  /\ InLoop(p) /\ timer[p]
  /\ \A i \in DOMAIN stack[p] : stack[p][i].mode # "tick"
  /\ Push(p, [mode |-> "tick", at |-> now, next |-> 1, fire |-> 0, asks |-> FALSE])
  /\ UNCHANGED <<now, disk, mem, instanceVars, timer, busy, served>>

\* Schedule.is_due: next_run_after(last_run_at) is the first time after it.
IsDue(s, r, at) ==
  r.is = "there" /\ r.on /\ r.last # Never /\ \E m \in Moments[s] : r.last < m /\ m <= at

\* Whether the loop marks the schedule, and whether it fires it as well.
Marks(s, r, frame) ==
  IF frame.mode = "launch"
  THEN r.is = "there" /\ r.on /\ r.late /\ (r.last = Never \/ IsDue(s, r, frame.at))
  ELSE IsDue(s, r, frame.at)
Fires(s, r, frame) == Marks(s, r, frame) /\ r.last # Never

Running(p, mode) == phase[p] = "up" /\ stack[p] # <<>> /\ ~Top(p).asks /\ Top(p).mode \in mode

\* mark_run with its save, for the schedule the loop has come to.
ConsiderMutated(p) ==
  /\ Running(p, {"tick", "launch"}) /\ Top(p).fire = 0 /\ Top(p).next \in Schedules
  /\ LET s == Top(p).next  r == mem[p][s]  frame == Top(p)
     IN /\ IF Marks(s, r, frame)
           THEN mem' = [mem EXCEPT ![p][s].last = frame.at] /\ disk' = disk
           ELSE UNCHANGED <<mem, disk>>
        /\ SetTop(p, [frame EXCEPT !.next = s + 1, !.fire = IF Fires(s, r, frame) THEN s ELSE 0])
  /\ UNCHANGED <<now, instanceVars, timer, busy, served>>
Consider(p) ==
  /\ Running(p, {"tick", "launch"}) /\ Top(p).fire = 0 /\ Top(p).next \in Schedules
  /\ LET s == Top(p).next  r == mem[p][s]  frame == Top(p)
     IN /\ IF Marks(s, r, frame)
           THEN Saved(p, [mem[p] EXCEPT ![s].last = frame.at])
           ELSE UNCHANGED <<mem, disk>>
        /\ SetTop(p, [frame EXCEPT !.next = s + 1, !.fire = IF Fires(s, r, frame) THEN s ELSE 0])
  /\ UNCHANGED <<now, instanceVars, timer, busy, served>>

\* Scanner.start: refused while a scan runs.
Serve(s, at) ==
  LET m == Max({t \in Moments[s] : t <= at}) IN served' = [served EXCEPT ![s][m] = @ + 1]
StartScan(p, frame) ==
  /\ busy' = [busy EXCEPT ![p] = TRUE]
  /\ IF busy[p] \/ frame.fire = 0 THEN UNCHANGED served ELSE Serve(frame.fire, frame.at)

\* due is emitted: _on_schedule_due, start_scheduled_scan and _start_clicked.
Emit(p) ==
  /\ Running(p, {"tick", "launch"}) /\ Top(p).fire # 0
  /\ LET frame == Top(p)
     IN \/ /\ busy[p]
           /\ SetTop(p, [frame EXCEPT !.fire = 0]) /\ UNCHANGED <<busy, served>>
        \/ \* nothing to scan: no drive, no folder
           /\ ~busy[p]
           /\ SetTop(p, [frame EXCEPT !.fire = 0]) /\ UNCHANGED <<busy, served>>
        \/ /\ ~busy[p] /\ frame.fire \in Full
           /\ SetTop(p, [frame EXCEPT !.asks = TRUE]) /\ UNCHANGED <<busy, served>>
        \/ /\ ~busy[p] /\ frame.fire \notin Full
           /\ SetTop(p, [frame EXCEPT !.fire = 0]) /\ StartScan(p, frame)
  /\ UNCHANGED <<now, disk, mem, instanceVars, timer>>

\* The loop is over; after the first one the timer is started.
ReturnMutated(p) ==
  /\ phase[p] = "up" /\ stack[p] # <<>> /\ ~Top(p).asks
  /\ Top(p).fire = 0 /\ Top(p).next > Number
  /\ timer' = [timer EXCEPT ![p] = @ \/ Top(p).mode = "tick"]
  /\ stack' = [stack EXCEPT ![p] = SubSeq(@, 1, Len(@) - 1)]
  /\ UNCHANGED <<now, disk, mem, instanceVars, busy, served>>
Return(p) ==
  /\ phase[p] = "up" /\ stack[p] # <<>> /\ ~Top(p).asks
  /\ Top(p).fire = 0 /\ Top(p).next > Number
  /\ timer' = [timer EXCEPT ![p] = @ \/ Top(p).mode = "launch"]
  /\ stack' = [stack EXCEPT ![p] = SubSeq(@, 1, Len(@) - 1)]
  /\ UNCHANGED <<now, disk, mem, instanceVars, busy, served>>

-----------------------------------------------------------------------------
(* The scan page.                                                          *)

\* The user asks for a scan: at once, or for a full one, after a question.
UserStarts(p) ==
  /\ Idle(p) /\ ~busy[p]
  /\ \/ busy' = [busy EXCEPT ![p] = TRUE] /\ stack' = stack
     \/ /\ Push(p, [mode |-> "user", at |-> now, next |-> Number + 1, fire |-> 0, asks |-> TRUE])
        /\ busy' = busy
  /\ UNCHANGED <<now, disk, mem, instanceVars, timer, served>>

\* A request another launch has handed over: any time the event loop runs, once
\* the scheduler has been started.
ForwardedStarts(p) ==
  /\ InLoop(p) /\ timer[p] /\ ~busy[p] /\ busy' = [busy EXCEPT ![p] = TRUE]
  /\ UNCHANGED <<now, disk, mem, instanceVars, stack, timer, served>>

\* _confirm_full_scan returns; the scanner may have become busy meanwhile.
Answer(p) ==
  /\ phase[p] = "up" /\ stack[p] # <<>> /\ Top(p).asks
  /\ SetTop(p, [Top(p) EXCEPT !.asks = FALSE, !.fire = 0])
  /\ StartScan(p, Top(p)) \/ UNCHANGED <<busy, served>>
  /\ UNCHANGED <<now, disk, mem, instanceVars, timer>>

ScanEnds(p) ==
  /\ busy[p] /\ busy' = [busy EXCEPT ![p] = FALSE]
  /\ UNCHANGED <<now, disk, mem, instanceVars, stack, timer, served>>

Handler(p) == Tick(p) \/ Consider(p) \/ Emit(p) \/ Return(p)
LaunchStep(p) == Forward(p) \/ Claim(p) \/ Listen(p)

Next ==
  \/ Clock
  \/ \E p \in Procs : \/ Launch(p) \/ LaunchStep(p) \/ Quit(p) \/ Crash(p) \/ Edit(p)
                      \/ Handler(p) \/ UserStarts(p) \/ ForwardedStarts(p)
                      \/ Answer(p) \/ ScanEnds(p)

Spec == Init /\ [][Next]_vars

\* The event loop gets to its handlers, a timer that keeps running out gets its
\* turn between them, and an open question, which is all the user can click on, is
\* answered.
FairSpec == Spec /\ \A p \in Procs :
  SF_vars(Tick(p)) /\ WF_vars(Consider(p) \/ Emit(p) \/ Return(p)) /\ WF_vars(Answer(p))

-----------------------------------------------------------------------------
(* Properties.                                                             *)

\* "launching it again does not start a second copy": crashes, questions and
\* stale sockets notwithstanding, as long as launches do not overlap.
OneCopy == \A p, q \in Procs : phase[p] = "up" /\ phase[q] = "up" => p = q

\* A schedule is started once for a moment: by the tick or the next launch, across
\* questions, crashes and any number of copies one after another.
OncePerMoment == \A s \in Schedules, t \in Times : served[s][t] <= 1

\* A schedule whose time has come does not stay due: it is marked (and started, or
\* skipped), unless the user turns it off or the program ends.
DueIsMarked ==
  \A p \in Procs, s \in Schedules :
    phase[p] = "up" /\ IsDue(s, mem[p][s], now) ~> phase[p] # "up" \/ ~IsDue(s, mem[p][s], now)
=============================================================================
