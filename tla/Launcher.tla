----------------------------- MODULE Launcher -----------------------------
(***************************************************************************)
(* The launcher pod of a TrainingJob (launcher.go): its creation with the  *)
(* hostfile ConfigMap, the commands run in it, and the synchronisation of  *)
(* the job's status with its phase. Every operator maps a world to the set *)
(* of worlds the code may leave.                                           *)
(***************************************************************************)
EXTENDS World

\* The pod is read from the cache, created and deleted by name.
CreateLauncher(w) ==
    (IF w.launcher = "None" THEN {[w EXCEPT !.launcher = "Pending"]} ELSE {Error(w)})
    \cup {Error(v) : v \in Fault(w, "apiError")}

\* A failed deletion is reported as an event and otherwise forgotten.
DeleteLauncher(w) ==
    IF w.seenLauncher = "None" THEN {w}
    ELSE {[w EXCEPT !.launcher = "None", !.hostfile = {}]} \cup Fault(w, "apiError")

\* A command that leaves the hostfile alone. Without a launcher in the cache
\* nothing is run and no error is returned; a command cannot run in a launcher
\* whose container does not run.
executeOnLauncher(w) ==
    IF w.seenLauncher = "None" THEN {w}
    ELSE (IF w.launcher = "Running" THEN {w} ELSE {Error(w)})
         \cup {Error(v) : v \in Fault(w, "execError")}

\* The command that rewrites the hostfile with the names in ws.
WriteHostfile(w, ws) ==
    {IF v.err = "none" /\ w.seenLauncher # "None" THEN [v EXCEPT !.hostfile = ws] ELSE v :
        v \in executeOnLauncher(w)}

Failed(w) == [w EXCEPT !.st = updateStatus(@, "Failed"), !.err = "none"]

\* The ConfigMap holds the workers that run when it is created; it is never
\* rewritten.
CreateHostConfigMap(w) ==
    IF w.configMap.made THEN {w}
    ELSE {[w EXCEPT !.configMap = [made |-> TRUE, hosts |-> w.st.current]]}
         \cup {Error(v) : v \in Fault(w, "apiError")}

\* Errors of the creations fail the job. (Those of the service account, the
\* role and the role binding are dropped by the functions that create them.)
createLauncher(w) ==
    LET GetOrCreate(v) == IF v.err = "none" /\ v.seenLauncher = "None"
                          THEN CreateLauncher(v) ELSE {v}
    IN  {IF v.err = "none"
         THEN [v EXCEPT !.st = updateJobConditions(@, "LauncherCreated")]
         ELSE Failed(v) : v \in UNION {GetOrCreate(u) : u \in CreateHostConfigMap(w)}}

LauncherGone_NotRecreated(w) == IF LauncherPolicy = "Never" THEN {Failed(w)} ELSE {w}

\* A launcher that is gone is created again, fails the job, or is passed over,
\* by its restart policy.
LauncherGone(w) ==
    CASE LauncherPolicy = "Always" ->
            {IF v.err = "none" THEN v ELSE Failed(v) : v \in CreateLauncher(w)}
      [] LauncherPolicy = "Never" -> {Failed(w)}
      [] OTHER -> {w}

syncLauncherState_RunningFirst(w) ==
    CASE w.seenLauncher = "None" -> LauncherGone(w)
      [] w.seenLauncher = "Running" /\ "Running" \notin w.st.conds ->
            {[w EXCEPT !.st = updateStatus(@, "Running")]}
      [] w.seenLauncher \in {"Succeeded", "Failed"} /\ "Running" \in w.st.conds ->
            {[w EXCEPT !.st = updateStatus(@, w.seenLauncher)]}
      [] OTHER -> {w}

syncLauncherState(w) ==
    CASE w.seenLauncher = "None" -> LauncherGone(w)
      [] w.seenLauncher = "Succeeded" -> {[w EXCEPT !.st = updateStatus(@, "Succeeded")]}
      [] w.seenLauncher = "Failed" -> {[w EXCEPT !.st = updateStatus(@, "Failed")]}
      [] w.seenLauncher = "Running" /\ "Running" \notin w.st.conds ->
            {[w EXCEPT !.st = updateStatus(@, "Running")]}
      [] OTHER -> {w}
=============================================================================
