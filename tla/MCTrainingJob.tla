--------------------------- MODULE MCTrainingJob ---------------------------
(***************************************************************************)
(* Values of the constants of TrainingJob for TLC.                         *)
(***************************************************************************)
EXTENDS JobProperties, TLC

CONSTANTS Out, In

NoScalers == [s \in {} |-> s]

\* A ScaleOut of one worker and a later ScaleIn of one worker.
OutThenIn ==
    Out :> [kind |-> "out", by |-> "count", count |-> 1,
             names |-> {}, script |-> FALSE, created |-> 1]
    @@ In :> [kind |-> "in", by |-> "count", count |-> 1,
             names |-> {}, script |-> FALSE, created |-> 2]

\* The same with a ScaleIn that brings a script of its own.
OutThenScripted == [OutThenIn EXCEPT ![In].script = TRUE]

InOnly == [s \in {In} |-> OutThenIn[s]]

\* A ScaleIn of one of the workers the job starts with, by its name.
InByName == [InOnly EXCEPT ![In].by = "names", ![In].names = {0}]
=============================================================================
