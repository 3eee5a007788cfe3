--------------------------- MODULE ScanLifecycle ---------------------------
(***************************************************************************)
(* What the history promises about on-demand scans, with no engine, no     *)
(* worker thread and no event loop: scans happen one at a time and in      *)
(* order, each gets at most one verdict, and one that was cut off by the   *)
(* end of the program never gets a verdict afterwards.                     *)
(***************************************************************************)
EXTENDS Naturals

CONSTANT MaxScans   \* bound: scans started

VARIABLES phase,    \* what the history says of each scan
          live,     \* the scan that is going on; 0 when there is none
          asked     \* the scans that were asked to stop

vars == <<phase, live, asked>>

Scans == 1..MaxScans
Verdicts == {"completed", "stopped", "failed"}
Phases == {"unborn", "unrecorded", "running", "lost", "forgotten"} \cup Verdicts

Init == /\ phase = [n \in Scans |-> "unborn"]
        /\ live = 0
        /\ asked = {}

Begin(n) ==
  /\ live = 0
  /\ phase[n] = "unborn" /\ \A m \in 1..(n - 1) : phase[m] # "unborn"
  /\ \E p \in {"running", "unrecorded"} : phase' = [phase EXCEPT ![n] = p]
  /\ live' = n
  /\ UNCHANGED asked

AskedOrNot == asked' = asked \/ asked' = asked \cup {live}

AskStop == live # 0 /\ asked' = asked \cup {live} /\ UNCHANGED <<phase, live>>

\* A scan that was asked to stop, before or by this very step, is not completed.
End(verdict) ==
  /\ live # 0 /\ AskedOrNot
  /\ verdict = "completed" => live \notin asked'
  /\ phase' = [phase EXCEPT ![live] = IF @ = "running" THEN verdict ELSE @]
  /\ live' = 0

\* The program goes away under the scan.
Lose ==
  /\ live # 0 /\ AskedOrNot
  /\ phase' = [phase EXCEPT ![live] = IF @ = "running" THEN "lost" ELSE @]
  /\ live' = 0

\* Records can be thrown away at any time, that of the live scan included.
Forget(S) ==
  /\ phase' = [n \in Scans |-> IF n \in S THEN "forgotten" ELSE phase[n]]
  /\ UNCHANGED <<live, asked>>

Next ==
  \/ \E n \in Scans : Begin(n)
  \/ AskStop
  \/ \E verdict \in Verdicts : End(verdict)
  \/ Lose
  \/ \E S \in SUBSET {n \in Scans : phase[n] \notin {"unborn", "unrecorded"}} :
        Forget(S)

Spec == Init /\ [][Next]_vars
=============================================================================
