------------------------------ MODULE Workers ------------------------------
(***************************************************************************)
(* The worker pods of a TrainingJob (worker.go): creation and deletion     *)
(* against a cache that may be behind, the restart of failed workers, and  *)
(* the workers recorded in the job's status.                               *)
(***************************************************************************)
EXTENDS Launcher, FiniteSetsExt

\* The names after the highest one of the bag t.
getWorkerPodsMaxIndex(t) == IF Members(t) = {} THEN -1 ELSE Max(Members(t))

NextNames_OffByOne(t, n) == (getWorkerPodsMaxIndex(t) + 1)..(getWorkerPodsMaxIndex(t) + n + 1)

NextNames(t, n) == (getWorkerPodsMaxIndex(t) + 1)..(getWorkerPodsMaxIndex(t) + n)

Running(ps) == {i \in DOMAIN ps : ps[i].phase = "Running"}

\* Creates the workers the cache does not show, by ascending index, and stops
\* at the first error: the API server has one of that name already, or it
\* fails, before or after it made the pod (its service comes second).
\* Bound: no worker beyond MaxWorker.
createWorkers(w, ws, s) ==
    LET missing == ws \ DOMAIN w.seen
        clash   == missing \cap DOMAIN w.pods
        Reached(i)   == \A j \in clash : i <= j
        StopAt(v, i) == Error([v EXCEPT !.pods = WithNew(@, {j \in missing : j < i}, s)])
    IN  IF ~(ws \subseteq Worker) THEN {}
        ELSE (IF clash = {} THEN {[w EXCEPT !.pods = WithNew(@, missing, s)]} ELSE {})
             \cup {StopAt(w, i) : i \in {j \in clash : Reached(j)}}
             \cup {StopAt(v, i + made) : v \in Fault(w, "apiError"),
                                         i \in {j \in ws : Reached(j)}, made \in {0, 1}}

\* Deletes by name the workers of ws that the cache shows. A deletion the API
\* server refuses is reported as an event and otherwise forgotten.
DeleteWorkerPods(w, ws) ==
    LET listed == ws \cap DOMAIN w.seen
    IN  {[w EXCEPT !.pods = Without(@, listed)]}
        \cup {[v EXCEPT !.pods = Without(@, listed \ {i})] :
                v \in Fault(w, "apiError"), i \in listed \cap DOMAIN w.pods}

DeleteAllWorkerPods(w) == DeleteWorkerPods(w, Worker)

\* Only the first terminated container is looked at.
podNeedRestart(policy, pod) ==
    CASE policy = "Always" -> pod.phase \in {"Failed", "Unknown", "Succeeded"}
      [] policy = "OnFailure" -> pod.phase = "Failed"
      [] policy = "ExitCode" -> pod.phase = "Failed" /\ pod.exit > 128 /\ pod.exit < 255
      [] OTHER -> FALSE

jobRestartPolicy == IF WorkerPolicy = "Unset" THEN "Never" ELSE WorkerPolicy

NeedRestart_OnlyListed(w, t) ==
    {i \in Members(t) \cap DOMAIN w.seen : podNeedRestart(jobRestartPolicy, w.seen[i])}

\* The workers of the bag t to replace. One that the cache does not show is
\* taken to be deleted.
NeedRestart(w, t) ==
    {i \in Members(t) : IF i \in DOMAIN w.seen
                        THEN podNeedRestart(jobRestartPolicy, w.seen[i])
                        ELSE jobRestartPolicy = "Always"}

ReplaceWorkers_Forget(w) ==
    LET t     == w.st.target
        old   == NeedRestart(w, t)
        names == NextNames(t, MapThenSumSet(LAMBDA i : t[i], old))
    IN  IF old = {} THEN {w} ELSE createWorkers(w, names, NoScaler)

ReplaceWorkers_One(w) ==
    LET t     == w.st.target
        old   == NeedRestart(w, t)
        names == NextNames(t, 1)
    IN  IF old = {} THEN {w}
        ELSE {IF v.err = "none"
              THEN [v EXCEPT !.st.target = Append(FilterOut(t, old), names)] ELSE v :
                v \in createWorkers(w, names, NoScaler)}

\* Replaces the workers that ended by workers of new names: one for each
\* occurrence of their names. After an error the old names stay.
ReplaceWorkers(w) ==
    LET t     == w.st.target
        old   == NeedRestart(w, t)
        names == NextNames(t, MapThenSumSet(LAMBDA i : t[i], old))
    IN  IF old = {} THEN {w}
        ELSE {IF v.err = "none"
              THEN [v EXCEPT !.st.target = Append(FilterOut(t, old), names)] ELSE v :
                v \in createWorkers(w, names, NoScaler)}

handleWorkersFailed_ErrorDropped(w) ==
    LET running   == Running(w.seen)
        hostfile  == IF running # w.st.current /\ "Running" \in w.st.conds
                     THEN WriteHostfile(w, running) ELSE {w}
        Record(v) == [v EXCEPT !.st.current = running, !.err = "none",
                               !.st.target = IF Members(@) = {} THEN BagOf(running) ELSE @]
    IN  UNION {ReplaceWorkers(Record(v)) : v \in hostfile}

\* The hostfile follows the running workers once the job runs; when that fails
\* the status keeps the old ones and the next reconcile tries again.
handleWorkersFailed(w) ==
    LET running   == Running(w.seen)
        hostfile  == IF running # w.st.current /\ "Running" \in w.st.conds
                     THEN WriteHostfile(w, running) ELSE {w}
        Record(v) == [v EXCEPT !.st.current = running,
                               !.st.target = IF Members(@) = {} THEN BagOf(running) ELSE @]
    IN  UNION {IF v.err = "none" THEN ReplaceWorkers(Record(v)) ELSE {v} : v \in hostfile}

\* The workers the job starts with: those it had, or the first Replicas names.
getJobReplicasWorkers(t) ==
    IF Members(t) # {} THEN t ELSE BagOf({i \in Worker : i < Replicas})

createTrainingJobWorkers(w) ==
    LET t == getJobReplicasWorkers(w.st.target)
    IN  {IF v.err = "none"
         THEN [v EXCEPT !.st = updateJobConditions(@, "WorkersCreated")]
         ELSE Failed(v) :
            v \in createWorkers([w EXCEPT !.st.target = t], Members(t), NoScaler)}

waitWorkersRunning_Created(w) ==
    {IF v.err = "none" /\ Cardinality(DOMAIN v.seen) >= Replicas
     THEN [v EXCEPT !.st = updateJobConditions(@, "WorkersReady")]
     ELSE v : v \in handleWorkersFailed(w)}

waitWorkersRunning_OffByOne(w) ==
    {IF v.err = "none" /\ Cardinality(v.st.current) > Replicas
     THEN [v EXCEPT !.st = updateJobConditions(@, "WorkersReady")]
     ELSE v : v \in handleWorkersFailed(w)}

waitWorkersRunning(w) ==
    {IF v.err = "none" /\ Cardinality(v.st.current) >= Replicas
     THEN [v EXCEPT !.st = updateJobConditions(@, "WorkersReady")]
     ELSE v : v \in handleWorkersFailed(w)}
=============================================================================
