---------------------------- MODULE JobLifecycle ----------------------------
(***************************************************************************)
(* What a TrainingJob shows its users: the phase it is in and how often it *)
(* was restarted. This is the specification that TrainingJob implements as *)
(* long as the operator reads the job it last wrote.                       *)
(***************************************************************************)
EXTENDS Naturals

CONSTANTS BackoffLimit, Restartable

VARIABLES phase, restarts

Init == phase = "New" /\ restarts = 0

\* The phases a job goes through from one attempt to run it to its end.
Progress ==
    [New       |-> {"Created", "Failed", "Suspended"},
     Created   |-> {"Running", "Succeeded", "Failed", "Suspended"},
     Running   |-> {"Scaling", "Succeeded", "Failed", "Suspended"},
     Scaling   |-> {"Running", "Succeeded", "Failed", "Suspended"},
     Succeeded |-> {"Suspended"},
     Failed    |-> {"Suspended"},
     Suspended |-> {}]

Advance == phase' \in Progress[phase] /\ UNCHANGED restarts

\* A failed job starts over, within its backoff limit; it may fail at once.
Restart ==
    /\ phase = "Failed" /\ Restartable /\ restarts < BackoffLimit
    /\ phase' \in {"Created", "Failed"}
    /\ restarts' = restarts + 1

Spec == Init /\ [][Advance \/ Restart]_<<phase, restarts>>
=============================================================================
