------------------------------ MODULE Scaling ------------------------------
(***************************************************************************)
(* ScaleIn and ScaleOut (scaler.go, scalein.go, scaleout.go): the choice   *)
(* of the scaler a running job executes, and the steps of its execution,   *)
(* each one taken by a reconcile that may find it half done.               *)
(***************************************************************************)
EXTENDS Workers

SaveScaler_Unversioned(w, s, x) ==
    IF w.known[s] = x THEN w ELSE [w EXCEPT !.update = [r \in {s} |-> x]]

\* The write of a scaler's status carries the version that was read: the API
\* server refuses it when the cache held an old one. An unchanged status is
\* not written.
SaveScaler(w, s, x) ==
    IF s \in w.stale \/ w.known[s] = x THEN w
    ELSE [w EXCEPT !.update = [r \in {s} |-> x]]

FinishScaler_KeepPhase(w, s, x, c) ==
    SaveScaler([w EXCEPT !.st.scaler = NoScaler], s, [x EXCEPT !.conds = @ \cup {c}])

FinishScaler_Unrecorded(w, s, x, c) ==
    SaveScaler([w EXCEPT !.st.phase = "Running", !.st.scaler = NoScaler], s, x)

\* updateScalerState with ScaleSucceeded or ScaleFailed: the job runs again.
FinishScaler(w, s, x, c) ==
    SaveScaler([w EXCEPT !.st.phase = "Running", !.st.scaler = NoScaler],
               s, [x EXCEPT !.conds = @ \cup {c}])

\* The same with Scaling: the job and the scaler are bound to each other.
StartScaler(w, s) ==
    SaveScaler([w EXCEPT !.st.phase = "Scaling", !.st.scaler = s],
               s, [w.known[s] EXCEPT !.conds = @ \cup {"Scaling"}])

\* The unfinished scalers of the cache; ScaleOuts are listed before ScaleIns,
\* and the first of the latest ones is taken.
availableScalers(w) == {s \in DOMAIN w.known : ~isScaleFinished(w.known[s])}

latestScalers(S) ==
    LET latest == {s \in S : \A r \in S : ScalerSpec[r].created <= ScalerSpec[s].created}
        outs   == {s \in latest : ScalerSpec[s].kind = "out"}
    IN  IF outs # {} THEN outs ELSE latest

setTrainingJobScaler(w) ==
    IF availableScalers(w) = {} THEN {w}
    ELSE {StartScaler(w, s) : s \in latestScalers(availableScalers(w))}

\* Runs the scaler's script once: its own, or the one that writes hosts to the
\* hostfile. The result is in err and, for the scaler, in ScriptExecuted.
executeScaleScript(w, s, x, hosts) ==
    IF "ScriptExecuted" \in x.conds THEN {w}
    ELSE IF ScalerSpec[s].script THEN executeOnLauncher(w) ELSE WriteHostfile(w, hosts)

Executed(x) == [x EXCEPT !.conds = @ \cup {"ScriptExecuted"}]

-----------------------------------------------------------------------------
(* ScaleIn *)

Highest(ws, n) == {i \in ws : Cardinality({j \in ws : j > i}) < n}

\* The workers to delete are chosen by the first reconcile that executes the
\* ScaleIn. Names without a pod are dropped; a count must leave a worker.
CanChoose(s, w) ==
    ScalerSpec[s].by = "names"
    \/ (ScalerSpec[s].count > 0 /\ ScalerSpec[s].count < Cardinality(DOMAIN w.seen))

setsSaleInToDelete_AsMany(s, w) ==
    Highest(DOMAIN w.seen, IF ScalerSpec[s].by = "names" THEN Cardinality(ScalerSpec[s].names)
                                                         ELSE ScalerSpec[s].count)

setsSaleInToDelete(s, w) ==
    IF ScalerSpec[s].by = "names" THEN ScalerSpec[s].names \cap DOMAIN w.seen
    ELSE Highest(DOMAIN w.seen, ScalerSpec[s].count)

\* The workers whose process the launcher no longer shows: any, all without a
\* launcher. A custom script is trusted to have stopped them all.
checkWorkerShutdown(w, s, ws) ==
    IF ScalerSpec[s].script \/ w.seenLauncher = "None" THEN {<<w, ws>>}
    ELSE UNION {IF v.err = "none" THEN {<<v, D>> : D \in SUBSET ws} ELSE {<<v, {}>>} :
                  v \in executeOnLauncher(w)}

DeleteScaledIn_NoRequeue(w, s, x, hosts, down) ==
    {IF x.pods \cap DOMAIN v.seen = {}
     THEN FinishScaler([v EXCEPT !.st.target = FilterOut(@, x.pods), !.st.current = hosts],
                       s, x, "ScaleSucceeded")
     ELSE SaveScaler(v, s, x) :
        v \in UNION {CatchUp(u) : u \in DeleteWorkerPods(w, IF x.pods = {} THEN Worker ELSE down)}}

\* Deletes the workers that have shut down and looks whether all are gone. An
\* empty ToDeletePods is a nil slice, for which DeleteWorkerPods takes all.
DeleteScaledIn(w, s, x, hosts, down) ==
    {IF x.pods \cap DOMAIN v.seen = {}
     THEN FinishScaler([v EXCEPT !.st.target = FilterOut(@, x.pods), !.st.current = hosts],
                       s, x, "ScaleSucceeded")
     ELSE [SaveScaler(v, s, x) EXCEPT !.err = IF down = x.pods THEN "none" ELSE "requeue"] :
        v \in UNION {CatchUp(u) : u \in DeleteWorkerPods(w, IF x.pods = {} THEN Worker ELSE down)}}

ScaleInWorkers_AllHosts(w, s, x) ==
    LET hosts   == w.st.current
        Wait(v) == UNION {IF d[1].err = "none"
                          THEN DeleteScaledIn(d[1], s, Executed(x), hosts, d[2])
                          ELSE {SaveScaler(d[1], s, Executed(x))} :
                            d \in checkWorkerShutdown(v, s, x.pods)}
    IN  UNION {IF v.err = "none" THEN Wait(v)
               ELSE {FinishScaler([v EXCEPT !.err = "none"], s, x, "ScaleFailed")} :
                 v \in executeScaleScript(w, s, x, hosts)}

\* The ScaleIn once its workers are chosen.
ScaleInWorkers(w, s, x) ==
    LET hosts   == w.st.current \ x.pods
        Wait(v) == UNION {IF d[1].err = "none"
                          THEN DeleteScaledIn(d[1], s, Executed(x), hosts, d[2])
                          ELSE {SaveScaler(d[1], s, Executed(x))} :
                            d \in checkWorkerShutdown(v, s, x.pods)}
    IN  UNION {IF v.err = "none" THEN Wait(v)
               ELSE {FinishScaler([v EXCEPT !.err = "none"], s, x, "ScaleFailed")} :
                 v \in executeScaleScript(w, s, x, hosts)}

executeScaleIn(w, s) ==
    LET x == w.known[s]
    IN  CASE x.pods # {} -> ScaleInWorkers(w, s, x)
          [] x.pods = {} /\ CanChoose(s, w) ->
                ScaleInWorkers(w, s, [x EXCEPT !.pods = setsSaleInToDelete(s, w)])
          [] OTHER -> {FinishScaler(w, s, x, "ScaleFailed")}

-----------------------------------------------------------------------------
(* ScaleOut *)

\* A failed ScaleOut deletes the workers it added, those the cache shows.
ScaleOutFailed(w, s, x, err) ==
    UNION {DeleteWorkerPods([FinishScaler(v, s, x, "ScaleFailed") EXCEPT !.err = err], x.pods) :
             v \in CatchUp(w)}

Active_Labelled(w, s) == {i \in DOMAIN w.seen : w.seen[i].scaler = s}

Active(w, s) == {i \in Running(w.seen) : w.seen[i].scaler = s}

AwaitWorkers_Release(w, s, x) ==
    {[SaveScaler(w, s, x) EXCEPT !.err = "requeue", !.st.phase = "Running", !.st.scaler = NoScaler]}

\* Until enough of the added workers run the ScaleOut waits. Its timeout counts
\* from the Scaling condition and without one it never comes.
AwaitWorkers(w, s, x) ==
    {[SaveScaler(w, s, x) EXCEPT !.err = "requeue"]}
    \cup (IF "Scaling" \in x.conds THEN ScaleOutFailed(w, s, x, "requeue") ELSE {})

AddWorkers_Forget(w, s, x) ==
    UNION {IF v.err # "none" THEN ScaleOutFailed(v, s, x, "error")
           ELSE {FinishScaler(v, s, Executed(x), "ScaleSucceeded")} :
             v \in executeScaleScript(w, s, x, w.st.current \cup x.pods)}

\* Bound: no name is listed more than MaxCopies times in TargetWorkers.
AddWorkers(w, s, x) ==
    LET t == Append(w.st.target, x.pods)
    IN  UNION {CASE v.err # "none" -> ScaleOutFailed(v, s, x, "error")
                 [] v.err = "none" /\ \E i \in Worker : t[i] > MaxCopies -> {}
                 [] OTHER -> {FinishScaler([v EXCEPT !.st.target = t],
                                           s, Executed(x), "ScaleSucceeded")} :
                 v \in executeScaleScript(w, s, x, w.st.current \cup x.pods)}

\* The added workers are named once, after the highest name of TargetWorkers,
\* and created by every reconcile that finds them missing.
ScaleOutWorkers(w, s, x) ==
    UNION {CASE v.err # "none" -> ScaleOutFailed(v, s, x, "error")
             [] v.err = "none" /\ Cardinality(Active(v, s)) < ScalerSpec[s].count ->
                    AwaitWorkers(v, s, x)
             [] OTHER -> AddWorkers(v, s, x) :
             v \in createWorkers(w, x.pods, s)}

executeScaleOut(w, s) ==
    LET x     == w.known[s]
        names == IF x.pods # {} THEN x.pods ELSE NextNames(w.st.target, ScalerSpec[s].count)
    IN  IF ScalerSpec[s].count <= 0 THEN {Error(FinishScaler(w, s, x, "ScaleFailed"))}
        ELSE ScaleOutWorkers(w, s, [x EXCEPT !.pods = names])

-----------------------------------------------------------------------------

\* A scaler that is gone or finished is given up. In a job that has ended the
\* scaler stays as it is.
ExecuteScaler(w) ==
    LET s == w.st.scaler
    IN  CASE s = NoScaler -> {[w EXCEPT !.st.phase = "Running"]}
          [] s # NoScaler /\ isFinished(w.st) -> {w}
          [] s # NoScaler /\ ~isFinished(w.st)
             /\ (s \notin DOMAIN w.known \/ isScaleFinished(w.known[s])) ->
                {[w EXCEPT !.st.phase = "Running", !.st.scaler = NoScaler]}
          [] OTHER -> IF ScalerSpec[s].kind = "in" THEN executeScaleIn(w, s)
                                                   ELSE executeScaleOut(w, s)

executeScaling(w) == UNION {ExecuteScaler(v) : v \in syncLauncherState(w)}
=============================================================================
