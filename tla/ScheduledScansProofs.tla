------------------------- MODULE ScheduledScansProofs -------------------------
(***************************************************************************)
(* Proofs about scheduled scans, for any number of launches, any clock and *)
(* any schedules.                                                          *)
(* - LaunchInv: one copy of the program runs, as long as launches do not   *)
(*   overlap and the socket can be made.                                   *)
(* - MarkInv: a schedule is started once for a moment, if besides that the *)
(*   list of schedules can be saved.  It says what makes the marking stay  *)
(*   true: what the running copy has is what the disk has, only the top    *)
(*   handler has something to start, and that was marked before.           *)
(***************************************************************************)
EXTENDS ScheduledScans, FiniteSetTheorems, SequenceTheorems, TLAPS

\* What a copy that runs has, and what a launch that was not answered knows: it is
\* the only launch, and no copy runs.
Calm == "race" \notin Hazards /\ "no_socket" \notin Hazards
LaunchTypes ==
  /\ phase \in [Procs -> {"off", "forwarding", "claiming", "listening", "up"}]
  /\ server \in [Procs -> BOOLEAN]
  /\ socket \in Procs \cup {NoProc}
OneLaunch == \A p, q \in Procs : Launching(p) /\ Launching(q) => p = q
UpHasName == \A p \in Procs : phase[p] = "up" => socket = p /\ server[p]
Unanswered == \A p, q \in Procs : phase[p] \in {"claiming", "listening"} => phase[q] # "up"
LaunchInv == LaunchTypes /\ OneLaunch /\ UpHasName /\ Unanswered

LEMMA NobodyUp == ASSUME UpHasName, ScheduleConstants, ~Answers
                  PROVE  \A q \in Procs : phase[q] # "up"
BY DEF UpHasName, ScheduleConstants, Answers

LEMMA LaunchStarts == Init => LaunchInv
BY DEF Init, LaunchInv, LaunchTypes, OneLaunch, UpHasName, Unanswered, Launching

\* Whatever leaves phase, server and socket alone.
LEMMA NotLaunching == ASSUME LaunchInv, UNCHANGED instanceVars PROVE LaunchInv'
BY DEF LaunchInv, LaunchTypes, OneLaunch, UpHasName, Unanswered, Launching, instanceVars

LEMMA LaunchSteps ==
  ASSUME ScheduleConstants, Calm, LaunchInv, NEW p \in Procs,
         Launch(p) \/ LaunchStep(p) \/ Quit(p) \/ Crash(p)
  PROVE  LaunchInv'
<1> USE DEF LaunchInv, LaunchTypes, OneLaunch, UpHasName, Unanswered, Launching
<1>1. CASE Launch(p)
  BY <1>1 DEF Launch, Calm
<1>2. CASE Forward(p)
  <2>1. CASE Answers
    BY <1>2, <2>1 DEF Forward
  <2>2. CASE ~Answers
    BY <1>2, <2>2, NobodyUp DEF Forward
  <2> QED BY <2>1, <2>2
<1>3. CASE Claim(p)
  <2>1. ~Answers
    BY <1>3 DEF Claim, Answers, ScheduleConstants
  <2> QED BY <1>3, <2>1 DEF Claim
<1>4. CASE Listen(p)
  <2>1. socket' = p /\ server' = [server EXCEPT ![p] = TRUE] /\ phase' = [phase EXCEPT ![p] = "up"]
    BY <1>4 DEF Listen, Up, Calm
  <2>2. \A q \in Procs : phase[q] # "up"
    BY <1>4 DEF Listen
  <2> QED BY <1>4, <2>1, <2>2 DEF Listen
<1>5. CASE Quit(p)
  BY <1>5 DEF Quit
<1>6. CASE Crash(p)
  BY <1>6 DEF Crash
<1> QED BY <1>1, <1>2, <1>3, <1>4, <1>5, <1>6 DEF LaunchStep

LEMMA ScheduleSteps == ScheduleConstants /\ Calm /\ LaunchInv /\ [Next]_vars => LaunchInv'
<1> SUFFICES ASSUME ScheduleConstants, Calm, LaunchInv, [Next]_vars PROVE LaunchInv'
  OBVIOUS
<1>1. CASE Clock \/ UNCHANGED vars
  BY <1>1, NotLaunching DEF Clock, vars
<1>2. ASSUME NEW p \in Procs, Launch(p) \/ LaunchStep(p) \/ Quit(p) \/ Crash(p) PROVE LaunchInv'
  BY <1>2, LaunchSteps
<1>3. ASSUME NEW p \in Procs,
             Edit(p) \/ Handler(p) \/ UserStarts(p) \/ ForwardedStarts(p) \/ Answer(p) \/ ScanEnds(p)
      PROVE  LaunchInv'
  <2>1. UNCHANGED instanceVars
    BY <1>3 DEF Edit, Handler, Tick, Consider, Emit, Return, UserStarts, ForwardedStarts, Answer, ScanEnds
  <2> QED BY <2>1, NotLaunching
<1> QED BY <1>1, <1>2, <1>3 DEF Next

\* No second copy, through crashes, stale sockets, questions and quits: launching it
\* again does not start one (SingleInstance.forward, listen).
THEOREM OneCopyRuns == ASSUME Calm PROVE Spec => []OneCopy
<1>1. LaunchInv => OneCopy
  BY DEF LaunchInv, UpHasName, OneCopy
<1>2. LaunchInv /\ [Next]_vars => LaunchInv'
  BY ScheduleSteps, ScheduleConstants
<1> QED BY <1>1, <1>2, LaunchStarts, PTL DEF Spec

USE ScheduleConstants

-----------------------------------------------------------------------------
(* A set of moments has a last one.                                        *)

\* Of the members of a set, the last is the one with the fewest after it.
LEMMA LastOne ==
  ASSUME NEW n \in Nat, NEW S \in SUBSET (1..n), S # {}
  PROVE  Max(S) \in S /\ \A y \in S : y <= Max(S)
<1> DEFINE After(x) == {y \in S : y > x}
           T == {After(x) : x \in S}
<1>0. S \subseteq Int
  OBVIOUS
<1>1. IsFiniteSet(S)
  <2>1. IsFiniteSet(1..n)
    BY FS_Interval
  <2> QED BY <2>1, FS_Subset
<1>2. IsWellFoundedOn(StrictSubsetOrdering(S), FiniteSubsetsOf(S))
  BY FS_StrictSubsetOrderingWellFounded
<1>3. T \subseteq FiniteSubsetsOf(S) /\ T # {}
  <2>1. FiniteSubsetsOf(S) = SUBSET S
    BY <1>1, FS_FiniteSubsetsOfFinite
  <2>2. \A x \in S : After(x) \in SUBSET S
    OBVIOUS
  <2>3. \A U \in T : U \in SUBSET S
    BY <2>2
  <2>4. PICK x : x \in S
    OBVIOUS
  <2>5. After(x) \in T
    BY <2>4
  <2> HIDE DEF T
  <2> QED BY <2>1, <2>3, <2>5
<1>4. PICK U \in T : \A V \in T : ~(<<V, U>> \in StrictSubsetOrdering(S))
  BY <1>2, <1>3, WFMin
<1>5. PICK x \in S : U = After(x)
  OBVIOUS
<1>6. ASSUME NEW y \in S, y > x PROVE FALSE
  <2>1. After(y) \subseteq After(x) /\ y \in After(x) /\ y \notin After(y)
    <3>1. x \in Int /\ y \in Int /\ \A z \in S : z \in Int /\ (z > y => z > x)
      BY <1>0, <1>5, <1>6
    <3>2. ~(y > y)
      BY <3>1
    <3> QED BY <3>1, <3>2, <1>6
  <2>2. After(y) \in T /\ After(y) \in SUBSET S /\ After(x) \in SUBSET S
    OBVIOUS
  <2>3. After(y) # After(x)
    BY <2>1
  <2> HIDE DEF After, T
  <2>4. <<After(y), After(x)>> \in StrictSubsetOrdering(S)
    BY <2>1, <2>2, <2>3 DEF StrictSubsetOrdering
  <2> QED BY <1>4, <1>5, <2>2, <2>4
<1>7. x \in S /\ \A y \in S : x >= y
  BY <1>6
<1>8. Max(S) \in S /\ \A y \in S : Max(S) >= y
  BY <1>7, Zenon DEF Max
<1> QED BY <1>8
-----------------------------------------------------------------------------
(* The stack of handlers.                                                  *)

LEMMA TopTyped ==
  ASSUME TypeOK, NEW p \in Procs, stack[p] # <<>>
  PROVE  /\ stack[p] \in Seq(Frames) /\ Len(stack[p]) \in Nat \ {0}
         /\ Top(p) = stack[p][Len(stack[p])] /\ Top(p) \in Frames
<1>1. stack[p] \in Seq(Frames)
  BY DEF TypeOK
<1> QED BY <1>1 DEF Top

LEMMA SetTopDoes ==
  ASSUME TypeOK, NEW p \in Procs, stack[p] # <<>>, NEW f \in Frames, SetTop(p, f)
  PROVE  /\ stack' \in [Procs -> Seq(Frames)]
         /\ \A q \in Procs : q # p => stack'[q] = stack[q]
         /\ Len(stack'[p]) = Len(stack[p]) /\ stack'[p] # <<>>
         /\ \A i \in 1..Len(stack[p]) : stack'[p][i] = IF i = Len(stack[p]) THEN f ELSE stack[p][i]
<1>1. stack[p] \in Seq(Frames) /\ Len(stack[p]) \in Nat \ {0}
  BY TopTyped
<1>2. PICK g : g = [stack[p] EXCEPT ![Len(stack[p])] = f]
  OBVIOUS
<1>3. /\ g \in Seq(Frames) /\ Len(g) = Len(stack[p])
      /\ \A i \in 1..Len(stack[p]) : g[i] = IF i = Len(stack[p]) THEN f ELSE stack[p][i]
  BY <1>1, <1>2
<1>4. stack' = [stack EXCEPT ![p] = g]
  BY <1>2 DEF SetTop
<1>5. stack \in [Procs -> Seq(Frames)]
  BY DEF TypeOK
<1> QED BY <1>1, <1>3, <1>4, <1>5

LEMMA PushDoes ==
  ASSUME TypeOK, NEW p \in Procs, NEW f \in Frames, Push(p, f)
  PROVE  /\ stack' \in [Procs -> Seq(Frames)]
         /\ \A q \in Procs : q # p => stack'[q] = stack[q]
         /\ Len(stack'[p]) = Len(stack[p]) + 1 /\ stack'[p] # <<>> /\ Len(stack[p]) \in Nat
         /\ \A i \in 1..(Len(stack[p]) + 1) :
              stack'[p][i] = IF i = Len(stack[p]) + 1 THEN f ELSE stack[p][i]
<1>1. stack \in [Procs -> Seq(Frames)] /\ stack[p] \in Seq(Frames)
  BY DEF TypeOK
<1>2. PICK g : g = Append(stack[p], f)
  OBVIOUS
<1>3. /\ g \in Seq(Frames) /\ Len(g) = Len(stack[p]) + 1 /\ g # <<>> /\ Len(stack[p]) \in Nat
      /\ \A i \in 1..(Len(stack[p]) + 1) : g[i] = IF i = Len(stack[p]) + 1 THEN f ELSE stack[p][i]
  BY <1>1, <1>2
<1>4. stack' = [stack EXCEPT ![p] = g]
  BY <1>2 DEF Push
<1> QED BY <1>1, <1>3, <1>4

LEMMA PopDoes ==
  ASSUME TypeOK, NEW p \in Procs, stack[p] # <<>>,
         stack' = [stack EXCEPT ![p] = SubSeq(@, 1, Len(@) - 1)]
  PROVE  /\ stack' \in [Procs -> Seq(Frames)]
         /\ \A q \in Procs : q # p => stack'[q] = stack[q]
         /\ Len(stack'[p]) = Len(stack[p]) - 1 /\ Len(stack[p]) \in Nat \ {0}
         /\ \A i \in 1..(Len(stack[p]) - 1) : stack'[p][i] = stack[p][i]
<1>1. /\ stack \in [Procs -> Seq(Frames)] /\ stack[p] \in Seq(Frames)
      /\ Len(stack[p]) \in Nat \ {0}
  BY TopTyped DEF TypeOK
<1>2. PICK g : g = SubSeq(stack[p], 1, Len(stack[p]) - 1)
  OBVIOUS
<1>3. /\ g \in Seq(Frames) /\ Len(g) = Len(stack[p]) - 1
      /\ \A i \in 1..(Len(stack[p]) - 1) : g[i] = stack[p][i]
  <2>1. PICK n : n = Len(stack[p]) - 1
    OBVIOUS
  <2>2. n \in Nat /\ \A i \in 1..n : stack[p][i] \in Frames
    BY <1>1, <2>1
  <2>3. /\ SubSeq(stack[p], 1, n) \in Seq(Frames)
        /\ Len(SubSeq(stack[p], 1, n)) = IF 1 <= n THEN n - 1 + 1 ELSE 0
        /\ \A i \in 1..(n - 1 + 1) : SubSeq(stack[p], 1, n)[i] = stack[p][1 + i - 1]
    BY <2>2, SubSeqProperties
  <2>4. n - 1 + 1 = n /\ (~(1 <= n) => n = 0) /\ \A i \in 1..n : 1 + i - 1 = i
    BY <2>2
  <2> QED BY <1>2, <2>1, <2>3, <2>4
<1>4. stack' = [stack EXCEPT ![p] = g]
  BY <1>1, <1>2
<1> QED BY <1>1, <1>3, <1>4
-----------------------------------------------------------------------------
(* What holds while copies come and go.                                    *)

\* A handler waits below another only if it has nothing to start; the first round
\* of a copy is alone, and the timer does not run before it is over.
FrameFits(p, i) ==
  LET f == stack[p][i] IN
  /\ f.mode = "user" \/ i < Len(stack[p]) => f.fire = 0
  /\ f.mode = "launch" => Len(stack[p]) = 1 /\ ~timer[p]
StackFits(p) ==
  /\ phase[p] # "up" => stack[p] = <<>> /\ ~timer[p]
  /\ \A i \in 1..Len(stack[p]) : FrameFits(p, i)

\* The copy that runs has what the disk has, a schedule is new until it has run, and
\* nothing was started for a moment that is not behind the last run.
Loaded == \A p \in Procs : phase[p] = "up" => mem[p] = disk
NewIsUnrun == \A s \in Schedules : disk[s].is = "absent" => disk[s].last = Never
ServedIsPast == \A s \in Schedules, t \in Times : served[s][t] > 0 => t <= disk[s].last

\* The schedule that is about to be started has been marked, and was not started yet
\* for the moment it is started for.
Before(s, at) == {t \in Moments[s] : t <= at}
Earned(s, at) ==
  /\ Before(s, at) # {}
  /\ Max(Before(s, at)) <= disk[s].last /\ served[s][Max(Before(s, at))] = 0
Pending(p) == stack[p] # <<>> /\ Top(p).fire # 0 => Earned(Top(p).fire, Top(p).at)

MarkInv ==
  /\ TypeOK /\ (\A p \in Procs : StackFits(p)) /\ Loaded /\ NewIsUnrun /\ ServedIsPast
  /\ OncePerMoment /\ \A p \in Procs : Pending(p)

LEMMA MarkStarts == Init => MarkInv
<1> SUFFICES ASSUME Init PROVE MarkInv
  OBVIOUS
<1> USE DEF Init
<1>1. NoSchedules \in Files
  BY DEF NoSchedules, Files, Records
<1>2. TypeOK
  BY <1>1 DEF TypeOK, Times
<1>3. \A p \in Procs : stack[p] = <<>> /\ ~timer[p] /\ phase[p] # "up" /\ Len(stack[p]) = 0
  OBVIOUS
<1>4. Loaded /\ (\A p \in Procs : Pending(p)) /\ \A p \in Procs : StackFits(p)
  BY <1>3 DEF Loaded, Pending, StackFits
<1>5. NewIsUnrun /\ ServedIsPast /\ OncePerMoment
  BY DEF NewIsUnrun, ServedIsPast, OncePerMoment, NoSchedules
<1> QED BY <1>2, <1>4, <1>5 DEF MarkInv

\* The moment a schedule is started for.
LEMMA TheMoment ==
  ASSUME NEW s \in Schedules, NEW at \in Times, Before(s, at) # {}
  PROVE  /\ Max(Before(s, at)) \in Moments[s] /\ Max(Before(s, at)) \in Times
         /\ \A t \in Before(s, at) : t <= Max(Before(s, at))
<1>1. Moments[s] \subseteq 1..MaxTime /\ MaxTime \in Nat
  BY DEF ScheduleConstants, Times
<1>2. Before(s, at) \in SUBSET (1..MaxTime) /\ Before(s, at) \subseteq Moments[s]
  BY <1>1 DEF Before
<1> QED BY <1>1, <1>2, LastOne DEF Times

\* Starting it counts once.
LEMMA ServeCounts ==
  ASSUME TypeOK, ServedIsPast, OncePerMoment, disk' = disk,
         NEW s \in Schedules, NEW at \in Times, Earned(s, at), Serve(s, at)
  PROVE  /\ served' \in [Schedules -> [Times -> Nat]]
         /\ ServedIsPast' /\ OncePerMoment'
<1>1. PICK m \in Times : m = Max(Before(s, at))
  BY TheMoment DEF Earned
<1>2. m <= disk[s].last /\ served[s][m] = 0
  BY <1>1 DEF Earned
<1>3. served' = [served EXCEPT ![s][m] = @ + 1]
  BY <1>1 DEF Serve, Before
<1>4. served \in [Schedules -> [Times -> Nat]]
  BY DEF TypeOK
<1>5. /\ served' \in [Schedules -> [Times -> Nat]] /\ served'[s][m] = 1
      /\ \A z \in Schedules, t \in Times : <<z, t>> # <<s, m>> => served'[z][t] = served[z][t]
  BY <1>2, <1>3, <1>4
<1> QED BY <1>2, <1>5 DEF ServedIsPast, OncePerMoment
-----------------------------------------------------------------------------
(* The types.                                                              *)

LEMMA ListTyped ==
  ASSUME TypeOK, NEW p \in Procs, NEW list \in Files, Saved(p, list)
  PROVE  mem' \in [Procs -> Files] /\ disk' \in Files
<1>1. mem \in [Procs -> Files] /\ disk \in Files
  BY DEF TypeOK
<1>2. mem' = [mem EXCEPT ![p] = list]
  BY DEF Saved
<1>3. disk' = list \/ disk' = disk
  BY DEF Saved
<1> QED BY <1>1, <1>2, <1>3

LEMMA EditTyped ==
  ASSUME TypeOK, NEW p \in Procs, Edit(p)
  PROVE  mem' \in [Procs -> Files] /\ disk' \in Files
<1>1. mem[p] \in Files
  BY DEF TypeOK
<1>2. \A s \in Schedules : mem[p][s] \in Records
  BY <1>1 DEF Files
<1>3. ASSUME NEW s \in Schedules, NEW r \in Records PROVE [mem[p] EXCEPT ![s] = r] \in Files
  BY <1>1 DEF Files
<1>4. PICK s \in Schedules :
       \/ \E late \in BOOLEAN : Saved(p, [mem[p] EXCEPT ![s] =
            [is |-> "there", on |-> TRUE, late |-> late, last |-> Never]])
       \/ Saved(p, [mem[p] EXCEPT ![s].is = "removed", ![s].on = FALSE])
       \/ Saved(p, [mem[p] EXCEPT ![s].on = ~mem[p][s].on])
       \/ Saved(p, [mem[p] EXCEPT ![s].late = ~mem[p][s].late])
  BY Zenon DEF Edit
<1>5. CASE \E late \in BOOLEAN : Saved(p, [mem[p] EXCEPT ![s] =
             [is |-> "there", on |-> TRUE, late |-> late, last |-> Never]])
  <2>1. PICK late \in BOOLEAN : Saved(p, [mem[p] EXCEPT ![s] =
             [is |-> "there", on |-> TRUE, late |-> late, last |-> Never]])
    BY <1>5
  <2>2. [is |-> "there", on |-> TRUE, late |-> late, last |-> Never] \in Records
    BY DEF Records
  <2> QED BY <1>3, <2>1, <2>2, ListTyped
<1>6. CASE Saved(p, [mem[p] EXCEPT ![s].is = "removed", ![s].on = FALSE])
  <2>1. [mem[p] EXCEPT ![s].is = "removed", ![s].on = FALSE] \in Files
    BY <1>1, <1>2 DEF Files, Records
  <2> QED BY <1>6, <2>1, ListTyped
<1>7. CASE Saved(p, [mem[p] EXCEPT ![s].on = ~mem[p][s].on])
  <2>1. [mem[p] EXCEPT ![s].on = ~mem[p][s].on] \in Files
    BY <1>1, <1>2 DEF Files, Records
  <2> QED BY <1>7, <2>1, ListTyped
<1>8. CASE Saved(p, [mem[p] EXCEPT ![s].late = ~mem[p][s].late])
  <2>1. [mem[p] EXCEPT ![s].late = ~mem[p][s].late] \in Files
    BY <1>1, <1>2 DEF Files, Records
  <2> QED BY <1>8, <2>1, ListTyped
<1> QED BY <1>4, <1>5, <1>6, <1>7, <1>8

\* What the loop does with the schedule it has come to.
LEMMA ConsiderDoes ==
  ASSUME TypeOK, NEW p \in Procs, Consider(p)
  PROVE  /\ stack[p] # <<>> /\ phase[p] = "up" /\ Top(p).fire = 0
         /\ \E s \in Schedules, f \in Frames :
              /\ s = Top(p).next /\ SetTop(p, f)
              /\ f = [Top(p) EXCEPT !.next = s + 1,
                                    !.fire = IF Fires(s, mem[p][s], Top(p)) THEN s ELSE 0]
              /\ IF Marks(s, mem[p][s], Top(p))
                 THEN Saved(p, [mem[p] EXCEPT ![s].last = Top(p).at])
                 ELSE UNCHANGED <<mem, disk>>
<1>1. stack[p] # <<>> /\ phase[p] = "up" /\ Top(p).fire = 0 /\ Top(p).next \in Schedules
  BY DEF Consider, Running
<1>2. PICK s \in Schedules : s = Top(p).next
  BY <1>1
<1>3. PICK f : f = [Top(p) EXCEPT !.next = s + 1,
                                  !.fire = IF Fires(s, mem[p][s], Top(p)) THEN s ELSE 0]
  OBVIOUS
<1>4. f \in Frames
  <2>1. Top(p) \in Frames /\ s \in Nat /\ s + 1 \in 1..(Number + 1)
    BY <1>1, TopTyped DEF Schedules, ScheduleConstants
  <2>2. (IF Fires(s, mem[p][s], Top(p)) THEN s ELSE 0) \in Schedules \cup {0}
    OBVIOUS
  <2> QED BY <1>3, <2>1, <2>2 DEF Frames
<1>5. /\ SetTop(p, f)
      /\ IF Marks(s, mem[p][s], Top(p))
         THEN Saved(p, [mem[p] EXCEPT ![s].last = Top(p).at])
         ELSE UNCHANGED <<mem, disk>>
  BY <1>2, <1>3 DEF Consider
<1> QED BY <1>1, <1>2, <1>3, <1>4, <1>5

LEMMA ConsiderTyped ==
  ASSUME TypeOK, NEW p \in Procs, Consider(p)
  PROVE  mem' \in [Procs -> Files] /\ disk' \in Files /\ stack' \in [Procs -> Seq(Frames)]
<1>1. PICK s \in Schedules, f \in Frames :
        /\ s = Top(p).next /\ SetTop(p, f)
        /\ f = [Top(p) EXCEPT !.next = s + 1,
                              !.fire = IF Fires(s, mem[p][s], Top(p)) THEN s ELSE 0]
        /\ IF Marks(s, mem[p][s], Top(p))
           THEN Saved(p, [mem[p] EXCEPT ![s].last = Top(p).at])
           ELSE UNCHANGED <<mem, disk>>
  BY ConsiderDoes
<1>2. stack[p] # <<>>
  BY ConsiderDoes
<1>3. [mem[p] EXCEPT ![s].last = Top(p).at] \in Files
  <2>1. mem[p] \in Files
    BY DEF TypeOK
  <2>2. Top(p).at \in Times
    BY <1>2, TopTyped DEF Frames
  <2> QED BY <2>1, <2>2 DEF Files, Records
<1>4. mem' \in [Procs -> Files] /\ disk' \in Files
  <2>1. CASE Marks(s, mem[p][s], Top(p))
    BY <1>1, <1>3, <2>1, ListTyped
  <2>2. CASE ~Marks(s, mem[p][s], Top(p))
    BY <1>1, <2>2 DEF TypeOK
  <2> QED BY <2>1, <2>2
<1> QED BY <1>1, <1>2, <1>4, SetTopDoes

\* A schedule that is started, or not, and the frame that goes on.
LEMMA StartTyped ==
  ASSUME TypeOK, NEW p \in Procs, NEW frame, StartScan(p, frame)
  PROVE  busy' \in [Procs -> BOOLEAN] /\ served' \in [Schedules -> [Times -> Nat]]
<1>1. busy \in [Procs -> BOOLEAN] /\ served \in [Schedules -> [Times -> Nat]]
  BY DEF TypeOK
<1>2. busy' = [busy EXCEPT ![p] = TRUE]
  BY DEF StartScan
<1>3. served' = served \/ Serve(frame.fire, frame.at)
  BY DEF StartScan
<1>4. CASE Serve(frame.fire, frame.at)
  <2>1. PICK s, m : served' = [served EXCEPT ![s][m] = @ + 1]
    BY <1>4 DEF Serve
  <2>2. served' = [served EXCEPT ![s] = [served[s] EXCEPT ![m] = served[s][m] + 1]]
    BY <2>1
  <2>3. CASE s \in Schedules
    <3>1. PICK g : g = [served[s] EXCEPT ![m] = served[s][m] + 1]
      OBVIOUS
    <3>2. g \in [Times -> Nat]
      <4>1. served[s] \in [Times -> Nat]
        BY <1>1, <2>3
      <4>2. m \in Times => served[s][m] + 1 \in Nat
        BY <4>1
      <4> QED BY <3>1, <4>1, <4>2
    <3> QED BY <1>1, <1>2, <2>2, <3>1, <3>2
  <2>4. CASE s \notin Schedules
    BY <1>1, <1>2, <2>2, <2>4
  <2> QED BY <2>3, <2>4
<1> QED BY <1>1, <1>2, <1>3, <1>4

\* The top frame after a start has been settled, or while it is asked about.
LEMMA FrameTyped ==
  ASSUME NEW f \in Frames
  PROVE  /\ [f EXCEPT !.fire = 0] \in Frames /\ [f EXCEPT !.asks = TRUE] \in Frames
         /\ [f EXCEPT !.asks = FALSE, !.fire = 0] \in Frames
BY DEF Frames

LEMMA FreshTyped ==
  ASSUME TypeOK
  PROVE  /\ [mode |-> "launch", at |-> now, next |-> 1, fire |-> 0, asks |-> FALSE] \in Frames
         /\ [mode |-> "tick", at |-> now, next |-> 1, fire |-> 0, asks |-> FALSE] \in Frames
         /\ [mode |-> "user", at |-> now, next |-> Number + 1, fire |-> 0, asks |-> TRUE] \in Frames
<1>1. now \in Times /\ 1 \in 1..(Number + 1) /\ Number + 1 \in 1..(Number + 1)
  BY DEF TypeOK, ScheduleConstants
<1> QED BY <1>1 DEF Frames

LEMMA LaunchTyped ==
  ASSUME TypeOK, NEW p \in Procs, Launch(p) \/ LaunchStep(p) \/ Quit(p) \/ Crash(p)
  PROVE  TypeOK'
<1>1. NoSchedules \in Files
  BY DEF NoSchedules, Files, Records
<1>2. <<>> \in Seq(Frames)
  OBVIOUS
<1>3. CASE Launch(p)
  BY <1>3 DEF TypeOK, Launch, handlerVars
<1>4. CASE Forward(p)
  BY <1>4 DEF TypeOK, Forward, handlerVars
<1>5. ASSUME Up(p) PROVE /\ phase' \in [Procs -> {"off", "forwarding", "claiming", "listening", "up"}]
                         /\ mem' \in [Procs -> Files] /\ stack' \in [Procs -> Seq(Frames)]
  <2>1. PICK f \in Frames : stack' = [stack EXCEPT ![p] = <<f>>]
    BY <1>5, FreshTyped DEF Up
  <2>2. <<f>> \in Seq(Frames)
    OBVIOUS
  <2> QED BY <1>5, <2>1, <2>2 DEF Up, TypeOK
<1>6. CASE Claim(p)
  <2>1. CASE Answers
    BY <1>5, <1>6, <2>1 DEF TypeOK, Claim, Up
  <2>2. CASE ~Answers
    BY <1>6, <2>2 DEF TypeOK, Claim, handlerVars
  <2> QED BY <2>1, <2>2
<1>7. CASE Listen(p)
  BY <1>5, <1>7 DEF TypeOK, Listen, Up
<1>8. CASE Quit(p)
  BY <1>1, <1>8 DEF TypeOK, Quit
<1>9. CASE Crash(p)
  BY <1>1, <1>2, <1>9 DEF TypeOK, Crash
<1> QED BY <1>3, <1>4, <1>6, <1>7, <1>8, <1>9 DEF LaunchStep

LEMMA HandlerTyped ==
  ASSUME TypeOK, NEW p \in Procs, Edit(p) \/ Handler(p) \/ UserStarts(p) \/ ForwardedStarts(p)
                                  \/ Answer(p) \/ ScanEnds(p)
  PROVE  TypeOK'
<1>1. CASE Edit(p)
  BY <1>1, EditTyped DEF TypeOK, Edit, instanceVars, handlerVars
<1>2. CASE Tick(p)
  <2>1. stack' \in [Procs -> Seq(Frames)]
    BY <1>2, FreshTyped, PushDoes DEF Tick
  <2> QED BY <1>2, <2>1 DEF TypeOK, Tick, instanceVars
<1>3. CASE Consider(p)
  BY <1>3, ConsiderTyped DEF TypeOK, Consider, instanceVars
<1>4. CASE Emit(p)
  <2>1. Top(p) \in Frames /\ stack[p] # <<>>
    BY <1>4, TopTyped DEF Emit, Running
  <2>2. stack' \in [Procs -> Seq(Frames)]
    <3>1. SetTop(p, [Top(p) EXCEPT !.fire = 0]) \/ SetTop(p, [Top(p) EXCEPT !.asks = TRUE])
      BY <1>4 DEF Emit
    <3> QED BY <2>1, <3>1, FrameTyped, SetTopDoes
  <2>3. busy' \in [Procs -> BOOLEAN] /\ served' \in [Schedules -> [Times -> Nat]]
    <3>1. StartScan(p, Top(p)) \/ UNCHANGED <<busy, served>>
      BY <1>4 DEF Emit
    <3> QED BY <3>1, StartTyped DEF TypeOK
  <2> QED BY <1>4, <2>2, <2>3 DEF TypeOK, Emit, instanceVars
<1>5. CASE Return(p)
  <2>1. stack' \in [Procs -> Seq(Frames)]
    BY <1>5, PopDoes DEF Return
  <2>2. timer' \in [Procs -> BOOLEAN]
    BY <1>5 DEF Return, TypeOK
  <2> QED BY <1>5, <2>1, <2>2 DEF TypeOK, Return, instanceVars
<1>6. CASE UserStarts(p)
  <2>1. stack' \in [Procs -> Seq(Frames)] /\ busy' \in [Procs -> BOOLEAN]
    <3>1. CASE busy' = [busy EXCEPT ![p] = TRUE] /\ stack' = stack
      BY <3>1 DEF TypeOK
    <3>2. CASE /\ Push(p, [mode |-> "user", at |-> now, next |-> Number + 1, fire |-> 0, asks |-> TRUE])
               /\ busy' = busy
      BY <3>2, FreshTyped, PushDoes DEF TypeOK
    <3> QED BY <1>6, <3>1, <3>2 DEF UserStarts
  <2> QED BY <1>6, <2>1 DEF TypeOK, UserStarts, instanceVars
<1>7. CASE ForwardedStarts(p)
  BY <1>7 DEF TypeOK, ForwardedStarts, instanceVars
<1>8. CASE Answer(p)
  <2>1. Top(p) \in Frames /\ stack[p] # <<>>
    BY <1>8, TopTyped DEF Answer
  <2>2. stack' \in [Procs -> Seq(Frames)]
    BY <1>8, <2>1, FrameTyped, SetTopDoes DEF Answer
  <2>3. busy' \in [Procs -> BOOLEAN] /\ served' \in [Schedules -> [Times -> Nat]]
    <3>1. StartScan(p, Top(p)) \/ UNCHANGED <<busy, served>>
      BY <1>8 DEF Answer
    <3> QED BY <3>1, StartTyped DEF TypeOK
  <2> QED BY <1>8, <2>2, <2>3 DEF TypeOK, Answer, instanceVars
<1>9. CASE ScanEnds(p)
  BY <1>9 DEF TypeOK, ScanEnds, instanceVars
<1> QED BY <1>1, <1>2, <1>3, <1>4, <1>5, <1>6, <1>7, <1>8, <1>9 DEF Handler

LEMMA TypeSteps == TypeOK /\ [Next]_vars => TypeOK'
<1> SUFFICES ASSUME TypeOK, [Next]_vars PROVE TypeOK'
  OBVIOUS
<1>1. CASE Clock
  <2>1. now' \in Times
    BY <1>1 DEF Clock, TypeOK, Times, ScheduleConstants
  <2> QED BY <1>1, <2>1 DEF TypeOK, Clock, instanceVars, handlerVars
<1>2. CASE UNCHANGED vars
  BY <1>2 DEF TypeOK, vars, instanceVars, handlerVars
<1>3. ASSUME NEW p \in Procs, Launch(p) \/ LaunchStep(p) \/ Quit(p) \/ Crash(p) PROVE TypeOK'
  BY <1>3, LaunchTyped
<1>4. ASSUME NEW p \in Procs,
             Edit(p) \/ Handler(p) \/ UserStarts(p) \/ ForwardedStarts(p) \/ Answer(p) \/ ScanEnds(p)
      PROVE  TypeOK'
  BY <1>4, HandlerTyped
<1> QED BY <1>1, <1>2, <1>3, <1>4 DEF Next
-----------------------------------------------------------------------------
(* The steps.                                                              *)

\* Steps that leave the handlers, the lists and the starts alone.
LEMMA OffStage ==
  ASSUME MarkInv, TypeOK', UNCHANGED <<disk, mem, served, stack, timer>>,
         \A p \in Procs : phase'[p] = "up" <=> phase[p] = "up"
  PROVE  MarkInv'
<1>1. \A p \in Procs : StackFits(p)'
  BY DEF MarkInv, StackFits, FrameFits
<1>2. Loaded' /\ NewIsUnrun' /\ ServedIsPast' /\ OncePerMoment'
  BY DEF MarkInv, Loaded, NewIsUnrun, ServedIsPast, OncePerMoment
<1>3. \A p \in Procs : Pending(p)'
  BY DEF MarkInv, Pending, Earned, Top
<1> QED BY <1>1, <1>2, <1>3 DEF MarkInv

\* Only the copy that runs has handlers.
LEMMA TheOthers ==
  ASSUME MarkInv, OneCopy, UNCHANGED phase, NEW p \in Procs, phase[p] = "up",
         \A q \in Procs : q # p => stack'[q] = stack[q] /\ timer'[q] = timer[q],
         StackFits(p)', Pending(p)'
  PROVE  /\ \A q \in Procs : StackFits(q)'
         /\ \A q \in Procs : Pending(q)'
<1>1. ASSUME NEW q \in Procs, q # p PROVE StackFits(q)' /\ Pending(q)'
  <2>1. phase[q] # "up"
    BY <1>1 DEF OneCopy
  <2>2. stack'[q] = <<>> /\ ~timer'[q] /\ phase'[q] # "up"
    BY <1>1, <2>1 DEF MarkInv, StackFits
  <2> QED BY <2>2 DEF StackFits, Pending
<1> QED BY <1>1

LEMMA UpMarks ==
  ASSUME MarkInv, TypeOK', NEW p \in Procs, phase[p] # "up", Up(p)
  PROVE  MarkInv'
<1>1. /\ stack \in [Procs -> Seq(Frames)] /\ mem \in [Procs -> Files]
      /\ phase \in [Procs -> {"off", "forwarding", "claiming", "listening", "up"}]
  BY DEF MarkInv, TypeOK
<1>2. PICK f : f = [mode |-> "launch", at |-> now, next |-> 1, fire |-> 0, asks |-> FALSE]
  OBVIOUS
<1>3. stack' = [stack EXCEPT ![p] = <<f>>] /\ UNCHANGED <<disk, timer, served>>
  BY <1>2 DEF Up
<1>4. ASSUME NEW q \in Procs, q # p PROVE StackFits(q)' /\ Pending(q)'
  <2>1. stack'[q] = stack[q] /\ timer'[q] = timer[q] /\ phase'[q] = phase[q]
    BY <1>1, <1>3, <1>4 DEF Up
  <2>2. StackFits(q) /\ Pending(q) /\ UNCHANGED <<disk, served>>
    BY <1>3 DEF MarkInv
  <2>3. StackFits(q)'
    BY <2>1, <2>2 DEF StackFits, FrameFits
  <2> QED BY <2>1, <2>2, <2>3 DEF Pending, Earned, Top
<1>5. stack'[p] = <<f>> /\ Len(stack'[p]) = 1 /\ stack'[p][1] = f /\ f.fire = 0
  BY <1>1, <1>2, <1>3
<1>6. StackFits(p)' /\ Pending(p)'
  <2>1. ~timer'[p] /\ phase'[p] = "up"
    BY <1>1, <1>3 DEF MarkInv, StackFits, Up
  <2>2. \A i \in 1..1 : i = 1
    OBVIOUS
  <2> QED BY <1>5, <2>1, <2>2 DEF StackFits, FrameFits, Pending, Top
<1>7. Loaded'
  BY <1>1, <1>3 DEF MarkInv, Loaded, Up
<1>8. NewIsUnrun' /\ ServedIsPast' /\ OncePerMoment'
  BY <1>3 DEF MarkInv, NewIsUnrun, ServedIsPast, OncePerMoment
<1> QED BY <1>4, <1>6, <1>7, <1>8 DEF MarkInv

LEMMA GoneMarks ==
  ASSUME MarkInv, TypeOK', NEW p \in Procs, Quit(p) \/ Crash(p)
  PROVE  MarkInv'
<1>1. /\ stack \in [Procs -> Seq(Frames)] /\ timer \in [Procs -> BOOLEAN]
      /\ phase \in [Procs -> {"off", "forwarding", "claiming", "listening", "up"}]
      /\ mem \in [Procs -> Files]
  BY DEF MarkInv, TypeOK
<1>2. /\ UNCHANGED <<disk, served>> /\ stack'[p] = <<>>
      /\ phase' = [phase EXCEPT ![p] = "off"] /\ timer' = [timer EXCEPT ![p] = FALSE]
      /\ mem' = [mem EXCEPT ![p] = NoSchedules]
      /\ \A q \in Procs : q # p => stack'[q] = stack[q]
  BY <1>1 DEF Quit, Crash
<1>3. ASSUME NEW q \in Procs PROVE StackFits(q)' /\ Pending(q)'
  <2>1. CASE q = p
    BY <1>1, <1>2, <2>1 DEF StackFits, Pending
  <2>2. CASE q # p
    BY <1>1, <1>2, <2>2 DEF MarkInv, StackFits, FrameFits, Pending, Earned, Top
  <2> QED BY <2>1, <2>2
<1>4. Loaded'
  BY <1>1, <1>2 DEF MarkInv, Loaded
<1>5. NewIsUnrun' /\ ServedIsPast' /\ OncePerMoment'
  BY <1>2 DEF MarkInv, NewIsUnrun, ServedIsPast, OncePerMoment
<1> QED BY <1>3, <1>4, <1>5 DEF MarkInv

\* A list that is saved, with the disk writable, is what both have.
Writable == "no_disk" \notin Hazards
LEMMA SavedIsLoaded ==
  ASSUME MarkInv, OneCopy, Writable, UNCHANGED phase,
         NEW p \in Procs, phase[p] = "up", NEW list, Saved(p, list)
  PROVE  Loaded' /\ disk' = list /\ mem[p] = disk
<1>1. mem' = [mem EXCEPT ![p] = list] /\ disk' = list
  BY DEF Saved, Writable
<1>2. mem \in [Procs -> Files]
  BY DEF MarkInv, TypeOK
<1> QED BY <1>1, <1>2 DEF Loaded, OneCopy, MarkInv

\* What the user does to a list leaves the last runs alone.
LEMMA EditMarks ==
  ASSUME MarkInv, TypeOK', OneCopy, Writable, NEW p \in Procs, Edit(p)
  PROVE  MarkInv'
<1>1. /\ phase[p] = "up" /\ stack[p] = <<>>
      /\ UNCHANGED <<instanceVars, handlerVars, served>>
  BY DEF Edit, Idle
<1>2. UNCHANGED <<phase, stack, timer, served>>
  BY <1>1 DEF instanceVars, handlerVars
<1>3. disk \in Files
  BY DEF MarkInv, TypeOK
<1>4. mem[p] = disk
  BY <1>1 DEF MarkInv, Loaded
<1>5. PICK s \in Schedules :
       \/ /\ disk[s].is = "absent"
          /\ \E late \in BOOLEAN : Saved(p, [disk EXCEPT ![s] =
               [is |-> "there", on |-> TRUE, late |-> late, last |-> Never]])
       \/ disk[s].is = "there" /\ Saved(p, [disk EXCEPT ![s].is = "removed", ![s].on = FALSE])
       \/ disk[s].is = "there" /\ Saved(p, [disk EXCEPT ![s].on = ~disk[s].on])
       \/ disk[s].is = "there" /\ Saved(p, [disk EXCEPT ![s].late = ~disk[s].late])
  BY <1>4, Zenon DEF Edit
<1>6. /\ Loaded' /\ \A z \in Schedules : disk'[z].last = disk[z].last
      /\ \A z \in Schedules : disk'[z].is = "absent" => disk[z].is = "absent"
  <2>1. CASE /\ disk[s].is = "absent"
             /\ \E late \in BOOLEAN : Saved(p, [disk EXCEPT ![s] =
               [is |-> "there", on |-> TRUE, late |-> late, last |-> Never]])
    <3>1. PICK late \in BOOLEAN : Saved(p, [disk EXCEPT ![s] =
               [is |-> "there", on |-> TRUE, late |-> late, last |-> Never]])
      BY <2>1
    <3>2. Loaded' /\ disk' = [disk EXCEPT ![s] =
               [is |-> "there", on |-> TRUE, late |-> late, last |-> Never]]
      BY <1>1, <1>2, <3>1, SavedIsLoaded
    <3>3. disk[s].last = Never
      BY <2>1 DEF MarkInv, NewIsUnrun
    <3> QED BY <1>3, <3>2, <3>3 DEF Files, Records
  <2>2. CASE disk[s].is = "there" /\ Saved(p, [disk EXCEPT ![s].is = "removed", ![s].on = FALSE])
    <3>1. Loaded' /\ disk' = [disk EXCEPT ![s].is = "removed", ![s].on = FALSE]
      BY <1>1, <1>2, <2>2, SavedIsLoaded
    <3> QED BY <1>3, <3>1 DEF Files, Records
  <2>3. CASE disk[s].is = "there" /\ Saved(p, [disk EXCEPT ![s].on = ~disk[s].on])
    <3>1. Loaded' /\ disk' = [disk EXCEPT ![s].on = ~disk[s].on]
      BY <1>1, <1>2, <2>3, SavedIsLoaded
    <3> QED BY <1>3, <3>1 DEF Files, Records
  <2>4. CASE disk[s].is = "there" /\ Saved(p, [disk EXCEPT ![s].late = ~disk[s].late])
    <3>1. Loaded' /\ disk' = [disk EXCEPT ![s].late = ~disk[s].late]
      BY <1>1, <1>2, <2>4, SavedIsLoaded
    <3> QED BY <1>3, <3>1 DEF Files, Records
  <2> QED BY <1>5, <2>1, <2>2, <2>3, <2>4
<1>7. StackFits(p)' /\ Pending(p)'
  BY <1>1, <1>2 DEF MarkInv, StackFits, FrameFits, Pending
<1>8. (\A q \in Procs : StackFits(q)') /\ (\A q \in Procs : Pending(q)')
  BY <1>1, <1>2, <1>7, TheOthers
<1>9. NewIsUnrun' /\ ServedIsPast' /\ OncePerMoment'
  BY <1>2, <1>6 DEF MarkInv, NewIsUnrun, ServedIsPast, OncePerMoment
<1> QED BY <1>6, <1>8, <1>9 DEF MarkInv

\* A tick finds nothing below it but a question of the user's.
LEMMA TickFinds ==
  ASSUME MarkInv, NEW p \in Procs, timer[p], \A i \in DOMAIN stack[p] : stack[p][i].mode # "tick"
  PROVE  \A i \in 1..Len(stack[p]) : stack[p][i].mode = "user"
<1>1. stack[p] \in Seq(Frames)
  BY DEF MarkInv, TypeOK
<1>2. \A i \in 1..Len(stack[p]) : stack[p][i].mode # "tick" /\ stack[p][i] \in Frames
  BY <1>1
<1>3. \A i \in 1..Len(stack[p]) : stack[p][i].mode # "launch"
  BY DEF MarkInv, StackFits, FrameFits
<1> QED BY <1>2, <1>3 DEF Frames

LEMMA PushMarks ==
  ASSUME MarkInv, TypeOK', OneCopy, NEW p \in Procs, phase[p] = "up",
         UNCHANGED <<phase, disk, mem, served, timer>>,
         NEW f \in Frames, Push(p, f), f.fire = 0, f.mode # "launch",
         \A i \in 1..Len(stack[p]) : stack[p][i].mode = "user"
  PROVE  MarkInv'
<1> DEFINE n == Len(stack[p])
<1>1. /\ \A q \in Procs : q # p => stack'[q] = stack[q]
      /\ Len(stack'[p]) = n + 1 /\ stack'[p] # <<>> /\ n \in Nat
      /\ \A i \in 1..(n + 1) : stack'[p][i] = IF i = n + 1 THEN f ELSE stack[p][i]
  BY PushDoes DEF MarkInv
<1>2. \A i \in 1..n : stack[p][i].mode = "user" /\ stack[p][i].fire = 0
  BY DEF MarkInv, StackFits, FrameFits
<1>3. StackFits(p)'
  <2>1. ASSUME NEW i \in 1..Len(stack'[p]) PROVE FrameFits(p, i)'
    <3>1. i \in 1..(n + 1)
      BY <1>1
    <3>2. stack'[p][i].mode # "launch" /\ stack'[p][i].fire = 0
      <4>1. CASE i = n + 1
        BY <1>1, <3>1, <4>1
      <4>2. CASE i # n + 1
        <5>1. i \in 1..n
          BY <1>1, <3>1, <4>2
        <5> QED BY <1>1, <1>2, <3>1, <4>2, <5>1
      <4> QED BY <4>1, <4>2
    <3> QED BY <3>2 DEF FrameFits
  <2>2. phase'[p] = "up"
    OBVIOUS
  <2> QED BY <2>1, <2>2 DEF StackFits
<1>4. Pending(p)'
  BY <1>1 DEF Pending, Top
<1>5. (\A q \in Procs : StackFits(q)') /\ (\A q \in Procs : Pending(q)')
  BY <1>1, <1>3, <1>4, TheOthers
<1>6. Loaded' /\ NewIsUnrun' /\ ServedIsPast' /\ OncePerMoment'
  BY DEF MarkInv, Loaded, NewIsUnrun, ServedIsPast, OncePerMoment
<1> QED BY <1>5, <1>6 DEF MarkInv

\* What the top handler may put in place of itself.
LEMMA TopMarks ==
  ASSUME MarkInv, OneCopy, NEW p \in Procs, phase[p] = "up", stack[p] # <<>>,
         UNCHANGED <<phase, timer>>, NEW f \in Frames, SetTop(p, f),
         f.mode = Top(p).mode, f.mode = "user" => f.fire = 0,
         f.fire # 0 => Earned(f.fire, f.at)'
  PROVE  (\A q \in Procs : StackFits(q)') /\ (\A q \in Procs : Pending(q)')
<1> DEFINE n == Len(stack[p])
<1>1. /\ \A q \in Procs : q # p => stack'[q] = stack[q]
      /\ Len(stack'[p]) = n /\ stack'[p] # <<>>
      /\ \A i \in 1..n : stack'[p][i] = IF i = n THEN f ELSE stack[p][i]
  BY SetTopDoes DEF MarkInv
<1>2. n \in Nat \ {0} /\ Top(p) = stack[p][n] /\ n \in 1..n
  BY TopTyped DEF MarkInv
<1>3. StackFits(p)'
  <2>1. ASSUME NEW i \in 1..Len(stack'[p]) PROVE FrameFits(p, i)'
    <3>1. i \in 1..n /\ FrameFits(p, i)
      BY <1>1 DEF MarkInv, StackFits
    <3>2. CASE i = n
      BY <1>1, <1>2, <3>1, <3>2 DEF FrameFits
    <3>3. CASE i # n
      BY <1>1, <1>2, <3>1, <3>3 DEF FrameFits
    <3> QED BY <3>2, <3>3
  <2> QED BY <2>1 DEF StackFits
<1>4. Pending(p)'
  <2>1. Top(p)' = f
    BY <1>1, <1>2 DEF Top
  <2> QED BY <2>1 DEF Pending
<1> QED BY <1>1, <1>3, <1>4, TheOthers

LEMMA ConsiderMarks ==
  ASSUME MarkInv, TypeOK', OneCopy, Writable, NEW p \in Procs, Consider(p)
  PROVE  MarkInv'
<1>1. PICK s \in Schedules, f \in Frames :
        /\ s = Top(p).next /\ SetTop(p, f)
        /\ f = [Top(p) EXCEPT !.next = s + 1,
                              !.fire = IF Fires(s, mem[p][s], Top(p)) THEN s ELSE 0]
        /\ IF Marks(s, mem[p][s], Top(p))
           THEN Saved(p, [mem[p] EXCEPT ![s].last = Top(p).at])
           ELSE UNCHANGED <<mem, disk>>
  BY ConsiderDoes DEF MarkInv
<1>2. /\ stack[p] # <<>> /\ phase[p] = "up" /\ Top(p).mode \in {"tick", "launch"}
      /\ UNCHANGED <<phase, timer, served>>
  BY DEF Consider, Running, instanceVars
<1>3. Top(p) \in Frames /\ disk \in Files /\ mem[p] = disk
  BY <1>2, TopTyped DEF MarkInv, TypeOK, Loaded
<1>4. PICK at \in Times : at = Top(p).at
  BY <1>3 DEF Frames
<1>5. f.mode = Top(p).mode /\ f.at = at /\ f.fire = IF Fires(s, disk[s], Top(p)) THEN s ELSE 0
  BY <1>1, <1>3, <1>4 DEF Frames
<1>6. disk[s] \in Records /\ at \in Nat /\ disk[s].last \in Nat
  BY <1>3 DEF Files, Records, Times, Never
<1>7. CASE Marks(s, disk[s], Top(p))
  <2>1. Loaded' /\ disk' = [disk EXCEPT ![s].last = at]
    BY <1>1, <1>2, <1>3, <1>4, <1>7, SavedIsLoaded
  <2>2. /\ disk'[s].last = at /\ disk'[s].is = "there"
        /\ \A z \in Schedules : z # s => disk'[z] = disk[z]
    <3>1. disk[s].is = "there"
      BY <1>7 DEF Marks, IsDue
    <3> QED BY <1>3, <1>6, <2>1, <3>1 DEF Files, Records
  <2>3. disk[s].last = Never \/ \E m \in Moments[s] : disk[s].last < m /\ m <= at
    BY <1>4, <1>7 DEF Marks, IsDue
  <2>4. disk[s].last <= at
    <3>1. Moments[s] \subseteq Nat
      BY DEF ScheduleConstants, Times
    <3> QED BY <1>6, <2>3, <3>1 DEF Never
  <2>5. ServedIsPast'
    <3>1. ASSUME NEW z \in Schedules, NEW t \in Times, served[z][t] > 0 PROVE t <= disk'[z].last
      <4>1. t <= disk[z].last /\ t \in Nat
        BY <3>1 DEF MarkInv, ServedIsPast, Times
      <4> QED BY <1>6, <2>2, <2>4, <4>1
    <3> QED BY <1>2, <3>1 DEF ServedIsPast
  <2>6. ASSUME f.fire # 0 PROVE Earned(f.fire, f.at)'
    <3>1. f.fire = s /\ Fires(s, disk[s], Top(p)) /\ disk[s].last # Never
      BY <1>5, <2>6 DEF Fires
    <3>2. PICK m \in Moments[s] : disk[s].last < m /\ m <= at
      BY <2>3, <3>1
    <3>3. m \in Before(s, at)
      BY <3>2 DEF Before
    <3>4. PICK k \in Times : k = Max(Before(s, at)) /\ k \in Before(s, at) /\ m <= k
      <4>1. Max(Before(s, at)) \in Times /\ m <= Max(Before(s, at))
        BY <3>3, TheMoment
      <4>2. Max(Before(s, at)) \in Moments[s]
        BY <3>3, TheMoment
      <4>3. Max(Before(s, at)) \in Before(s, at)
        <5>1. Before(s, at) \in SUBSET (1..MaxTime) /\ MaxTime \in Nat
          BY DEF Before, ScheduleConstants, Times
        <5> QED BY <3>3, <5>1, LastOne
      <4> QED BY <4>1, <4>3
    <3>5. k <= at /\ disk[s].last < k
      <4>1. k \in Nat /\ m \in Nat
        BY DEF ScheduleConstants, Times
      <4> QED BY <1>6, <3>2, <3>4, <4>1 DEF Before
    <3>6. ~(served[s][k] > 0)
      <4>1. k \in Nat
        BY DEF Times
      <4> QED BY <1>6, <3>5, <4>1 DEF MarkInv, ServedIsPast
    <3>7. served[s][k] = 0
      BY <3>6 DEF MarkInv, TypeOK
    <3>8. Before(s, at) # {} /\ k <= disk'[s].last /\ served'[s][k] = 0
      BY <1>2, <2>2, <3>3, <3>5, <3>7
    <3>9. Earned(s, at)'
      BY <3>4, <3>8 DEF Earned, Before
    <3> QED BY <1>5, <3>1, <3>9
  <2>7. (\A q \in Procs : StackFits(q)') /\ (\A q \in Procs : Pending(q)')
    BY <1>1, <1>2, <1>5, <2>6, TopMarks
  <2>8. NewIsUnrun' /\ OncePerMoment'
    BY <1>2, <2>2 DEF MarkInv, NewIsUnrun, OncePerMoment
  <2> QED BY <2>1, <2>5, <2>7, <2>8 DEF MarkInv
<1>8. CASE ~Marks(s, disk[s], Top(p))
  <2>1. UNCHANGED <<mem, disk, served, phase>> /\ f.fire = 0
    BY <1>1, <1>2, <1>3, <1>5, <1>8 DEF Fires
  <2>2. (\A q \in Procs : StackFits(q)') /\ (\A q \in Procs : Pending(q)')
    BY <1>1, <1>2, <1>5, <2>1, TopMarks
  <2>3. Loaded' /\ NewIsUnrun' /\ ServedIsPast' /\ OncePerMoment'
    BY <2>1 DEF MarkInv, Loaded, NewIsUnrun, ServedIsPast, OncePerMoment
  <2> QED BY <2>2, <2>3 DEF MarkInv
<1> QED BY <1>7, <1>8

\* A start the top handler had earned.
LEMMA StartCounts ==
  ASSUME MarkInv, UNCHANGED disk, NEW p \in Procs, stack[p] # <<>>,
         StartScan(p, Top(p)) \/ UNCHANGED <<busy, served>>
  PROVE  ServedIsPast' /\ OncePerMoment'
<1>1. Top(p) \in Frames
  BY TopTyped DEF MarkInv
<1>2. CASE UNCHANGED served
  BY <1>2 DEF MarkInv, ServedIsPast, OncePerMoment
<1>3. CASE ~UNCHANGED served
  <2>1. Top(p).fire # 0 /\ Serve(Top(p).fire, Top(p).at)
    BY <1>3 DEF StartScan
  <2>2. PICK s \in Schedules, at \in Times : s = Top(p).fire /\ at = Top(p).at
    BY <1>1, <2>1 DEF Frames
  <2>3. Earned(s, at) /\ Serve(s, at)
    BY <2>1, <2>2 DEF MarkInv, Pending
  <2> QED BY <2>3, ServeCounts DEF MarkInv
<1> QED BY <1>2, <1>3

LEMMA EmitMarks ==
  ASSUME MarkInv, TypeOK', OneCopy, NEW p \in Procs, Emit(p)
  PROVE  MarkInv'
<1>1. /\ stack[p] # <<>> /\ phase[p] = "up" /\ Top(p).mode # "user"
      /\ UNCHANGED <<disk, mem, phase, timer>>
  BY DEF Emit, Running, instanceVars
<1>2. Top(p) \in Frames
  BY <1>1, TopTyped DEF MarkInv
<1>3. ServedIsPast' /\ OncePerMoment'
  <2>1. StartScan(p, Top(p)) \/ UNCHANGED <<busy, served>>
    BY DEF Emit
  <2> QED BY <1>1, <2>1, StartCounts
<1>4. (\A q \in Procs : StackFits(q)') /\ (\A q \in Procs : Pending(q)')
  <2>1. CASE SetTop(p, [Top(p) EXCEPT !.fire = 0])
    <3>1. PICK f \in Frames : f = [Top(p) EXCEPT !.fire = 0]
      BY <1>2, FrameTyped
    <3>2. f.fire = 0 /\ f.mode = Top(p).mode /\ SetTop(p, f)
      BY <1>2, <2>1, <3>1 DEF Frames
    <3> QED BY <1>1, <3>2, TopMarks
  <2>2. CASE SetTop(p, [Top(p) EXCEPT !.asks = TRUE]) /\ UNCHANGED <<busy, served>>
    <3>1. PICK f \in Frames : f = [Top(p) EXCEPT !.asks = TRUE]
      BY <1>2, FrameTyped
    <3>2. f.fire = Top(p).fire /\ f.at = Top(p).at /\ f.mode = Top(p).mode /\ SetTop(p, f)
      BY <1>2, <2>2, <3>1 DEF Frames
    <3>3. f.fire # 0 => Earned(f.fire, f.at)
      BY <1>1, <3>2 DEF MarkInv, Pending
    <3>4. f.fire # 0 => Earned(f.fire, f.at)'
      BY <1>1, <2>2, <3>3 DEF Earned
    <3> QED BY <1>1, <3>2, <3>4, TopMarks
  <2> QED BY <2>1, <2>2 DEF Emit
<1>5. Loaded' /\ NewIsUnrun'
  BY <1>1 DEF MarkInv, Loaded, NewIsUnrun
<1> QED BY <1>3, <1>4, <1>5 DEF MarkInv

LEMMA AnswerMarks ==
  ASSUME MarkInv, TypeOK', OneCopy, NEW p \in Procs, Answer(p)
  PROVE  MarkInv'
<1>1. stack[p] # <<>> /\ phase[p] = "up" /\ UNCHANGED <<disk, mem, phase, timer>>
  BY DEF Answer, instanceVars
<1>2. ServedIsPast' /\ OncePerMoment'
  BY <1>1, StartCounts DEF Answer
<1>3. (\A q \in Procs : StackFits(q)') /\ (\A q \in Procs : Pending(q)')
  <2>1. Top(p) \in Frames
    BY <1>1, TopTyped DEF MarkInv
  <2>2. PICK f \in Frames : f = [Top(p) EXCEPT !.asks = FALSE, !.fire = 0]
    BY <2>1, FrameTyped
  <2>3. f.fire = 0 /\ f.mode = Top(p).mode /\ SetTop(p, f)
    BY <2>1, <2>2 DEF Frames, Answer
  <2> QED BY <1>1, <2>3, TopMarks
<1>4. Loaded' /\ NewIsUnrun'
  BY <1>1 DEF MarkInv, Loaded, NewIsUnrun
<1> QED BY <1>2, <1>3, <1>4 DEF MarkInv

\* What was below a handler that is over has nothing to start.
LEMMA ReturnMarks ==
  ASSUME MarkInv, TypeOK', OneCopy, NEW p \in Procs, Return(p)
  PROVE  MarkInv'
<1> DEFINE n == Len(stack[p])
<1>1. /\ stack[p] # <<>> /\ phase[p] = "up" /\ UNCHANGED <<disk, mem, phase, served>>
      /\ timer' = [timer EXCEPT ![p] = @ \/ Top(p).mode = "launch"]
      /\ stack' = [stack EXCEPT ![p] = SubSeq(@, 1, Len(@) - 1)]
  BY DEF Return, instanceVars
<1>2. /\ \A q \in Procs : q # p => stack'[q] = stack[q] /\ timer'[q] = timer[q]
      /\ stack'[p] \in Seq(Frames) /\ Len(stack'[p]) = n - 1 /\ n \in Nat \ {0}
      /\ \A i \in 1..(n - 1) : stack'[p][i] = stack[p][i]
  BY <1>1, PopDoes DEF MarkInv, TypeOK
<1>3. \A i \in 1..(n - 1) : stack'[p][i].fire = 0 /\ stack'[p][i].mode # "launch"
  <2>1. ASSUME NEW i \in 1..(n - 1) PROVE stack'[p][i].fire = 0 /\ stack'[p][i].mode # "launch"
    <3>1. i \in 1..n /\ i < n /\ n # 1 /\ stack'[p][i] = stack[p][i]
      <4>1. n \in Nat \ {0} /\ i \in 1..(n - 1)
        BY <1>2, <2>1
      <4> HIDE DEF n
      <4>2. i \in 1..n /\ i < n /\ n # 1
        BY <4>1
      <4> QED BY <1>2, <2>1, <4>2
    <3>2. FrameFits(p, i)
      BY <3>1 DEF MarkInv, StackFits
    <3> QED BY <3>1, <3>2 DEF FrameFits
  <2> QED BY <2>1
<1>4. StackFits(p)'
  <2>1. ASSUME NEW i \in 1..Len(stack'[p]) PROVE FrameFits(p, i)'
    BY <1>2, <1>3, <2>1 DEF FrameFits
  <2>2. phase'[p] = "up"
    BY <1>1
  <2> QED BY <2>1, <2>2 DEF StackFits
<1>5. Pending(p)'
  <2>1. stack'[p] # <<>> => n - 1 \in 1..(n - 1) /\ Top(p)' = stack'[p][n - 1]
    <3>1. stack'[p] # <<>> => n - 1 # 0
      <4>1. stack'[p] \in Seq(Frames) /\ Len(stack'[p]) = n - 1
        BY <1>2
      <4> HIDE DEF n
      <4> QED BY <4>1
    <3> QED BY <1>2, <3>1 DEF Top
  <2> QED BY <1>3, <2>1 DEF Pending
<1>6. (\A q \in Procs : StackFits(q)') /\ (\A q \in Procs : Pending(q)')
  BY <1>1, <1>2, <1>4, <1>5, TheOthers
<1>7. Loaded' /\ NewIsUnrun' /\ ServedIsPast' /\ OncePerMoment'
  BY <1>1 DEF MarkInv, Loaded, NewIsUnrun, ServedIsPast, OncePerMoment
<1> QED BY <1>6, <1>7 DEF MarkInv

LEMMA MarkSteps ==
  ASSUME Writable, LaunchInv, OneCopy, MarkInv, [Next]_vars, Calm
  PROVE  MarkInv'
<1>0. TypeOK' /\ TypeOK
  BY TypeSteps DEF MarkInv
<1>1. CASE Clock \/ UNCHANGED vars
  BY <1>0, <1>1, OffStage DEF Clock, vars, instanceVars, handlerVars
<1>2. ASSUME NEW p \in Procs, Launch(p) \/ Forward(p) PROVE MarkInv'
  <2>1. UNCHANGED <<disk, mem, served, stack, timer>>
    BY <1>2 DEF Launch, Forward, handlerVars
  <2>2. \A q \in Procs : phase'[q] = "up" <=> phase[q] = "up"
    BY <1>0, <1>2 DEF Launch, Forward, TypeOK
  <2> QED BY <1>0, <2>1, <2>2, OffStage
<1>3. ASSUME NEW p \in Procs, Claim(p) PROVE MarkInv'
  <2>1. CASE Answers
    BY <1>0, <1>3, <2>1, UpMarks DEF Claim
  <2>2. CASE ~Answers
    <3>1. UNCHANGED <<disk, mem, served, stack, timer>>
      BY <1>3, <2>2 DEF Claim, handlerVars
    <3>2. \A q \in Procs : phase'[q] = "up" <=> phase[q] = "up"
      BY <1>0, <1>3, <2>2 DEF Claim, TypeOK
    <3> QED BY <1>0, <3>1, <3>2, OffStage
  <2> QED BY <2>1, <2>2
<1>4. ASSUME NEW p \in Procs, Listen(p) PROVE MarkInv'
  BY <1>0, <1>4, UpMarks DEF Listen
<1>5. ASSUME NEW p \in Procs, Quit(p) \/ Crash(p) PROVE MarkInv'
  BY <1>0, <1>5, GoneMarks
<1>6. ASSUME NEW p \in Procs, Edit(p) PROVE MarkInv'
  BY <1>0, <1>6, EditMarks
<1>7. ASSUME NEW p \in Procs, Tick(p) PROVE MarkInv'
  <2>1. PICK f \in Frames : f = [mode |-> "tick", at |-> now, next |-> 1, fire |-> 0, asks |-> FALSE]
    BY <1>0, FreshTyped
  <2>2. /\ Push(p, f) /\ f.fire = 0 /\ f.mode = "tick" /\ phase[p] = "up" /\ timer[p]
        /\ stack[p] # <<>> => Top(p).asks
        /\ \A i \in DOMAIN stack[p] : stack[p][i].mode # "tick"
        /\ UNCHANGED <<phase, disk, mem, served, timer>>
    BY <1>7, <2>1 DEF Tick, InLoop, instanceVars
  <2>3. \A i \in 1..Len(stack[p]) : stack[p][i].mode = "user"
    BY <2>2, TickFinds
  <2> QED BY <1>0, <2>2, <2>3, PushMarks
<1>8. ASSUME NEW p \in Procs, Consider(p) PROVE MarkInv'
  BY <1>0, <1>8, ConsiderMarks
<1>9. ASSUME NEW p \in Procs, Emit(p) PROVE MarkInv'
  BY <1>0, <1>9, EmitMarks
<1>10. ASSUME NEW p \in Procs, Return(p) PROVE MarkInv'
  BY <1>0, <1>10, ReturnMarks
<1>11. ASSUME NEW p \in Procs, UserStarts(p) PROVE MarkInv'
  <2>1. phase[p] = "up" /\ stack[p] = <<>> /\ UNCHANGED <<phase, disk, mem, served, timer>>
    BY <1>11 DEF UserStarts, Idle, instanceVars
  <2>2. CASE stack' = stack
    BY <1>0, <2>1, <2>2, OffStage
  <2>3. CASE stack' # stack
    <3>1. PICK f \in Frames :
            f = [mode |-> "user", at |-> now, next |-> Number + 1, fire |-> 0, asks |-> TRUE]
      BY <1>0, FreshTyped
    <3>2. Push(p, f) /\ f.fire = 0 /\ f.mode = "user"
      BY <1>11, <2>3, <3>1 DEF UserStarts
    <3>3. Len(stack[p]) = 0
      BY <2>1
    <3> QED BY <1>0, <2>1, <3>2, <3>3, PushMarks
  <2> QED BY <2>2, <2>3
<1>12. ASSUME NEW p \in Procs, ForwardedStarts(p) \/ ScanEnds(p) PROVE MarkInv'
  <2>1. UNCHANGED <<disk, mem, served, stack, timer, phase>>
    BY <1>12 DEF ForwardedStarts, ScanEnds, instanceVars
  <2> QED BY <1>0, <2>1, OffStage
<1>13. ASSUME NEW p \in Procs, Answer(p) PROVE MarkInv'
  BY <1>0, <1>13, AnswerMarks
<1> QED BY <1>1, <1>2, <1>3, <1>4, <1>5, <1>6, <1>7, <1>8, <1>9, <1>10, <1>11, <1>12, <1>13
        DEF Next, LaunchStep, Handler

\* A schedule is started once for a moment (Schedule.is_due, Scheduler._check,
\* _catch_up): a marked moment is behind the last run for good, through questions,
\* ticks inside them, crashes and later copies, as long as the list can be saved and
\* launches do not overlap.
THEOREM StartedOncePerMoment == ASSUME Calm, Writable PROVE Spec => []OncePerMoment
<1>1. Init => LaunchInv /\ MarkInv
  BY LaunchStarts, MarkStarts
<1>2. LaunchInv /\ MarkInv /\ [Next]_vars => LaunchInv' /\ MarkInv'
  <2>1. LaunchInv => OneCopy
    BY DEF LaunchInv, UpHasName, OneCopy
  <2> QED BY <2>1, ScheduleSteps, MarkSteps
<1>3. MarkInv => OncePerMoment
  BY DEF MarkInv
<1> QED BY <1>1, <1>2, <1>3, PTL DEF Spec
=============================================================================
