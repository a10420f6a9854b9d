---------------------------- MODULE TrainingJob ----------------------------
(***************************************************************************)
(* The TrainingJob controller: one worker that reconciles one job, reading *)
(* from informer caches that may be behind the API server and writing to   *)
(* the API server, among pods that start, end and disappear, users that    *)
(* submit scalers or suspend the job, and restarts of the operator.        *)
(*                                                                         *)
(* A reconcile is Start (read the job from the cache), one handler (read   *)
(* the other caches and act on the cluster), WriteScaler and WriteJob (the *)
(* deferred status updates).                                               *)
(***************************************************************************)
EXTENDS Scaling

VARIABLES
    \* the API server and the cluster
    job,            \* the TrainingJob: its status and its suspended annotation
    scalers,        \* the ScaleIns and ScaleOuts, owned by the job
    pods,           \* the worker pods
    launcher,       \* the launcher pod
    configMap,      \* the hosts of the hostfile ConfigMap
    hostfile,       \* the hosts of the hostfile in the launcher
    \* the operator
    jobCache, scalerCache, podCache, launcherCache,   \* its informers' caches
    lag,            \* the informers with undelivered events
    queued,         \* the job's key is in the work queue
    pc, read, mine, update, retry,                    \* the reconcile under way
    faults          \* the number of faults so far

api   == <<job, scalers, pods, launcher, configMap, hostfile>>
cache == <<jobCache, scalerCache, podCache, launcherCache, lag>>
local == <<pc, read, mine, update, retry>>
vars  == <<api, cache, queued, local, faults>>

Job == [status : JobStatus, suspended : BOOLEAN]

Informers == {"job", "pods"} \cup Scalers

EmptyMap == [s \in {} |-> NewJob]

TypeOK ==
    /\ job \in Job /\ jobCache \in Job
    /\ IsScalerMap(scalers) /\ IsScalerMap(scalerCache) /\ IsScalerMap(update)
    /\ IsPodMap(pods) /\ IsPodMap(podCache)
    /\ launcher \in LauncherState /\ launcherCache \in LauncherState
    /\ configMap \in ConfigMap
    /\ hostfile \in SUBSET Worker
    /\ lag \subseteq Lagging
    /\ queued \in BOOLEAN
    /\ pc \in {"idle", "handle", "writeScaler", "writeJob"}
    /\ read \in JobStatus /\ mine \in JobStatus
    /\ retry \in BOOLEAN
    /\ faults \in 0..MaxFaults

\* The job was just created, and its creation delivered.
Init ==
    /\ job = [status |-> NewJob, suspended |-> FALSE] /\ jobCache = job
    /\ scalers = EmptyMap /\ scalerCache = EmptyMap
    /\ pods = EmptyMap /\ podCache = EmptyMap
    /\ launcher = "None" /\ launcherCache = "None"
    /\ configMap = [made |-> FALSE, hosts |-> {}] /\ hostfile = {}
    /\ lag = {} /\ queued = TRUE
    /\ pc = "idle" /\ read = NewJob /\ mine = NewJob
    /\ update = EmptyMap /\ retry = FALSE
    /\ faults = 0

-----------------------------------------------------------------------------
(* Events. An informer that lags holds its events back; one that does not    *)
(* delivers them at once, to the cache and to the work queue.                *)

\* With k = {"job"}, {"pods"} or {s}: the objects of the informers in k changed.
Publish(k) ==
    /\ lag' = lag \cup (k \cap Lagging)
    /\ queued' = (queued \/ k \ Lagging # {})

JobChanged ==
    /\ Publish({"job"})
    /\ jobCache' = IF "job" \in Lagging THEN jobCache ELSE job'
    /\ UNCHANGED <<scalerCache, podCache, launcherCache>>

PodsChanged ==
    /\ Publish({"pods"})
    /\ podCache' = IF "pods" \in Lagging THEN podCache ELSE pods'
    /\ launcherCache' = IF "pods" \in Lagging THEN launcherCache ELSE launcher'
    /\ UNCHANGED <<jobCache, scalerCache>>

\* The cache entry of s becomes the one of the map m, or goes with it.
Delivered(s, m) ==
    [r \in (DOMAIN scalerCache \ {s}) \cup (DOMAIN m \cap {s}) |->
        IF r = s THEN m[s] ELSE scalerCache[r]]

ScalerChanged(s) ==
    /\ Publish({s})
    /\ scalerCache' = IF s \in Lagging THEN scalerCache ELSE Delivered(s, scalers')
    /\ UNCHANGED <<jobCache, podCache, launcherCache>>

\* An informer delivers what it held back.
SyncJob ==
    /\ "job" \in lag /\ lag' = lag \ {"job"} /\ queued' = TRUE
    /\ jobCache' = job
    /\ UNCHANGED <<scalerCache, podCache, launcherCache, api, local, faults>>

SyncPods ==
    /\ "pods" \in lag /\ lag' = lag \ {"pods"} /\ queued' = TRUE
    /\ podCache' = pods /\ launcherCache' = launcher
    /\ UNCHANGED <<jobCache, scalerCache, api, local, faults>>

SyncScaler(s) ==
    /\ s \in lag /\ lag' = lag \ {s} /\ queued' = TRUE
    /\ scalerCache' = Delivered(s, scalers)
    /\ UNCHANGED <<jobCache, podCache, launcherCache, api, local, faults>>

\* An event of an object the model leaves out (a worker's service, the
\* ConfigMap), or the periodic resync of the informers.
OtherEvent ==
    /\ ~queued /\ queued' = TRUE
    /\ UNCHANGED <<api, cache, local, faults>>

-----------------------------------------------------------------------------
(* The reconcile *)

\* Reads the job from the cache. A suspended job gets the phase that has it
\* torn down, whatever its own phase.
Start ==
    /\ pc = "idle" /\ queued
    /\ queued' = FALSE
    /\ pc' = "handle"
    /\ read' = jobCache.status
    /\ mine' = IF jobCache.suspended THEN updateStatus(jobCache.status, "Suspended")
               ELSE jobCache.status
    /\ UNCHANGED <<api, cache, update, retry, faults>>

Observed ==
    [st |-> mine, pods |-> pods, launcher |-> launcher, configMap |-> configMap,
     hostfile |-> hostfile, seen |-> podCache, seenLauncher |-> launcherCache,
     known |-> scalerCache, stale |-> lag \cap Scalers, update |-> EmptyMap,
     faults |-> faults, err |-> "none"]

\* The handler leaves the world w. Events its informers delivered meanwhile have
\* queued the job; the others are held back, or delivered now.
Leave(w) ==
    LET held      == <<w.seen, w.seenLauncher>> # <<w.pods, w.launcher>>
        delivered == w.seen # podCache
        lags      == "pods" \in Lagging
    IN  /\ pc' = IF DOMAIN w.update = {} THEN "writeJob" ELSE "writeScaler"
        /\ mine' = w.st /\ update' = w.update /\ retry' = (w.err # "none")
        /\ pods' = w.pods /\ launcher' = w.launcher
        /\ configMap' = w.configMap /\ hostfile' = w.hostfile
        /\ podCache' = IF lags THEN w.seen ELSE w.pods
        /\ launcherCache' = IF lags THEN w.seenLauncher ELSE w.launcher
        /\ lag' = IF held /\ lags THEN lag \cup {"pods"} ELSE lag
        /\ queued' = (queued \/ delivered \/ (held /\ ~lags))
        /\ faults' = w.faults
        /\ UNCHANGED <<job, scalers, jobCache, scalerCache, read>>

AtHandler(phases) == pc = "handle" /\ mine.phase \in phases

doSteps_LauncherFirst(w) ==
    CASE "WorkersCreated" \notin w.st.conds -> createTrainingJobWorkers(w)
      [] "WorkersCreated" \in w.st.conds /\ "LauncherCreated" \notin w.st.conds -> createLauncher(w)
      [] {"WorkersCreated", "LauncherCreated"} \subseteq w.st.conds
         /\ "WorkersReady" \notin w.st.conds -> waitWorkersRunning(w)
      [] {"WorkersCreated", "WorkersReady", "LauncherCreated"} \subseteq w.st.conds
         /\ "Running" \notin w.st.conds -> syncLauncherState(w)
      [] OTHER -> {w}

\* The first step whose condition the job lacks: one step a reconcile.
doSteps(w) ==
    CASE "WorkersCreated" \notin w.st.conds -> createTrainingJobWorkers(w)
      [] "WorkersCreated" \in w.st.conds /\ "WorkersReady" \notin w.st.conds ->
            waitWorkersRunning(w)
      [] {"WorkersCreated", "WorkersReady"} \subseteq w.st.conds
         /\ "LauncherCreated" \notin w.st.conds -> createLauncher(w)
      [] {"WorkersCreated", "WorkersReady", "LauncherCreated"} \subseteq w.st.conds
         /\ "Running" \notin w.st.conds -> syncLauncherState(w)
      [] OTHER -> {w}

initializeJob(w) ==
    IF w.st.conds = {} THEN [w EXCEPT !.st = updateStatus(@, "Created")] ELSE w

HandleCreated ==
    /\ AtHandler({"New", "Created"})
    /\ \E w \in doSteps(initializeJob(Observed)) : Leave(w)

\* A new scaler is taken up only by a job that is still running after its
\* launcher and its workers were looked at.
reconcileJobRunning(w) ==
    UNION {IF v.err = "none" /\ v.st.phase = "Running" THEN setTrainingJobScaler(v) ELSE {v} :
             v \in UNION {handleWorkersFailed(u) : u \in syncLauncherState(w)}}

HandleRunning ==
    /\ AtHandler({"Running"})
    /\ \E w \in reconcileJobRunning(Observed) : Leave(w)

HandleScaling ==
    /\ AtHandler({"Scaling"})
    /\ \E w \in executeScaling(Observed) : Leave(w)

cleanup_OnlyAll(w) ==
    IF CleanPodPolicy = "All" THEN DeleteAllWorkerPods(w) ELSE {w}

\* Without a CleanPodPolicy the workers are deleted, as for Running and All.
cleanup(w) ==
    IF CleanPodPolicy = "None" THEN {w} ELSE DeleteAllWorkerPods(w)

HandleSucceeded ==
    /\ AtHandler({"Succeeded"})
    /\ \E w \in cleanup(Observed) : Leave(w)

needRestartJob_OffByOne(st) == JobPolicy = "OnFailure" /\ st.restarts <= BackoffLimit

needRestartJob(st) == JobPolicy = "OnFailure" /\ st.restarts < BackoffLimit

resetJobStatus_CountDown(st) ==
    updateStatus([NewJob EXCEPT !.restarts = st.restarts - 1, !.scaler = st.scaler], "Created")

resetJobStatus_KeepConditions(st) ==
    updateStatus([NewJob EXCEPT !.conds = st.conds, !.restarts = st.restarts + 1,
                                !.scaler = st.scaler], "Created")

resetJobStatus_Uncounted(st) ==
    updateStatus([NewJob EXCEPT !.restarts = st.restarts, !.scaler = st.scaler], "Created")

\* The current scaler is kept.
resetJobStatus(st) ==
    updateStatus([NewJob EXCEPT !.restarts = st.restarts + 1, !.scaler = st.scaler], "Created")

\* Deletes everything and takes the first step again, against a pod cache that
\* may not show the deletions yet.
restartJob(w) ==
    IF needRestartJob(w.st)
    THEN UNION {doSteps(v) :
           v \in UNION {CatchUp(u) : u \in UNION {DeleteLauncher(d) :
             d \in DeleteAllWorkerPods([w EXCEPT !.st = resetJobStatus(@)])}}}
    ELSE cleanup(w)

HandleFailed ==
    /\ AtHandler({"Failed"})
    /\ \E w \in restartJob(Observed) : Leave(w)

cleanupAll_WorkersOnly(w) == DeleteAllWorkerPods(w)

cleanupAll(w) == UNION {DeleteLauncher(v) : v \in DeleteAllWorkerPods(w)}

HandleSuspended ==
    /\ AtHandler({"Suspended"})
    /\ \E w \in cleanupAll(Observed) : Leave(w)

\* A fault happens within the budget.
MayFail(kind) ==
    /\ kind \in Faults /\ faults < MaxFaults
    /\ faults' = faults + 1

\* The scaler's deferred status update: the version was read before, so only
\* an API error or a deletion of the scaler may lose it here.
WriteScaler ==
    /\ pc = "writeScaler"
    /\ pc' = "writeJob" /\ update' = EmptyMap
    /\ \E s \in DOMAIN update :
         \/ /\ s \in DOMAIN scalers
            /\ scalers' = [scalers EXCEPT ![s] = update[s]]
            /\ ScalerChanged(s) /\ UNCHANGED faults
         \/ /\ s \notin DOMAIN scalers
            /\ UNCHANGED <<scalers, cache, queued, faults>>
         \/ /\ MayFail("apiError")
            /\ UNCHANGED <<scalers, cache, queued>>
    /\ UNCHANGED <<job, pods, launcher, configMap, hostfile, read, mine, retry>>

\* A status that reads the same may still be written: its counters and times,
\* which the handlers of these phases update, are not modelled.
MayEqual == read.phase \in {"New", "Created", "Running", "Scaling"}

\* Ends the reconcile; an error puts the key back into the work queue.
EndReconcile ==
    /\ pc' = "idle" /\ read' = NewJob /\ mine' = NewJob /\ retry' = FALSE
    /\ UNCHANGED update

\* The job's deferred status update. The status goes on top of the object the
\* cache holds now, whatever version the reconcile read: the API server takes
\* it when the cache is up to date, and otherwise it is lost without a retry.
WriteJob ==
    /\ pc = "writeJob" /\ EndReconcile
    /\ \/ /\ "job" \notin lag /\ (mine # read \/ MayEqual)
          /\ job' = [job EXCEPT !.status = mine]
          /\ jobCache' = IF "job" \in Lagging THEN jobCache ELSE job'
          /\ lag' = lag \cup ({"job"} \cap Lagging)
          /\ queued' = (queued \/ retry \/ "job" \notin Lagging)
          /\ UNCHANGED faults
       \/ /\ mine = read \/ "job" \in lag
          /\ queued' = (queued \/ retry)
          /\ UNCHANGED <<job, jobCache, lag, faults>>
       \/ /\ mine # read /\ "job" \notin lag /\ MayFail("apiError")
          /\ queued' = (queued \/ retry)
          /\ UNCHANGED <<job, jobCache, lag>>
    /\ UNCHANGED <<scalers, pods, launcher, configMap, hostfile,
                   scalerCache, podCache, launcherCache>>

\* The operator restarts: what the reconcile had not written is lost, the
\* caches are filled from the API server and every job is queued.
Crash ==
    /\ MayFail("crash")
    /\ pc' = "idle" /\ read' = NewJob /\ mine' = NewJob
    /\ update' = EmptyMap /\ retry' = FALSE
    /\ jobCache' = job /\ scalerCache' = scalers
    /\ podCache' = pods /\ launcherCache' = launcher
    /\ lag' = {} /\ queued' = TRUE
    /\ UNCHANGED api

-----------------------------------------------------------------------------
(* The cluster and its users *)

ChangePods(ps) ==
    /\ pods' = ps
    /\ UNCHANGED <<job, scalers, launcher, configMap, hostfile, local>>
    /\ PodsChanged

WorkerRuns(i) ==
    /\ i \in DOMAIN pods /\ pods[i].phase = "Pending"
    /\ ChangePods([pods EXCEPT ![i].phase = "Running"]) /\ UNCHANGED faults

WorkerEnds(i) ==
    /\ i \in DOMAIN pods /\ pods[i].phase \in {"Pending", "Running"}
    /\ MayFail("workerEnds")
    /\ \E fate \in WorkerFates, code \in ExitCodes :
         ChangePods([pods EXCEPT ![i].phase = fate,
                                 ![i].exit = IF fate = "Failed" THEN code ELSE 0])

WorkerLost(i) ==
    /\ i \in DOMAIN pods /\ MayFail("workerLost")
    /\ ChangePods(Without(pods, {i}))

\* The hostfile is a file of the launcher's container and goes with it.
ChangeLauncher(state, hosts) ==
    /\ launcher' = state /\ hostfile' = hosts
    /\ UNCHANGED <<job, scalers, pods, configMap, local>>
    /\ PodsChanged

\* Its init container copies the ConfigMap to the hostfile.
LauncherRuns ==
    /\ launcher = "Pending" /\ configMap.made
    /\ ChangeLauncher("Running", configMap.hosts) /\ UNCHANGED faults

LauncherEnds ==
    /\ \E fate \in LauncherFates :
         /\ launcher = "Running" \/ (launcher = "Pending" /\ fate = "Failed")
         /\ ChangeLauncher(fate, {})
    /\ UNCHANGED faults

LauncherLost ==
    /\ launcher # "None" /\ MayFail("launcherLost")
    /\ ChangeLauncher("None", {})

\* A user submits a scaler, and the scaler's own controller makes the job its
\* owner. A name is not used again before the operator saw its deletion.
SubmitScaler(s) ==
    /\ s \notin DOMAIN scalers \cup DOMAIN scalerCache \cup DOMAIN update
    /\ \A r \in DOMAIN scalers : ScalerSpec[r].created <= ScalerSpec[s].created
    /\ scalers' = [r \in DOMAIN scalers \cup {s} |->
                     IF r = s THEN [conds |-> {}, pods |-> {}] ELSE scalers[r]]
    /\ ScalerChanged(s)
    /\ UNCHANGED <<job, pods, launcher, configMap, hostfile, local, faults>>

DeleteScaler(s) ==
    /\ s \in DOMAIN scalers /\ MayFail("scalerDeleted")
    /\ scalers' = Restrict(scalers, DOMAIN scalers \ {s})
    /\ ScalerChanged(s)
    /\ UNCHANGED <<job, pods, launcher, configMap, hostfile, local>>

\* Sets the annotation job-supervisor.kube-ai.io/job-suspended.
Suspend ==
    /\ CanSuspend /\ ~job.suspended
    /\ job' = [job EXCEPT !.suspended = TRUE]
    /\ JobChanged
    /\ UNCHANGED <<scalers, pods, launcher, configMap, hostfile, local, faults>>

-----------------------------------------------------------------------------

Handle ==
    \/ HandleCreated \/ HandleRunning \/ HandleScaling
    \/ HandleSucceeded \/ HandleFailed \/ HandleSuspended

Reconcile == Start \/ Handle \/ WriteScaler \/ WriteJob

Sync == SyncJob \/ SyncPods \/ \E s \in Scalers : SyncScaler(s)

Environment ==
    \/ \E i \in Worker : WorkerRuns(i) \/ WorkerEnds(i) \/ WorkerLost(i)
    \/ LauncherRuns \/ LauncherEnds \/ LauncherLost
    \/ \E s \in Scalers : SubmitScaler(s) \/ DeleteScaler(s)
    \/ Suspend \/ OtherEvent

Next == Reconcile \/ Sync \/ Environment \/ Crash

Spec == Init /\ [][Next]_vars

\* The work queue's worker never stops, the calls of a reconcile return, the
\* informers deliver, and the kubelet starts the containers of a pod.
Fairness ==
    /\ WF_vars(Start) /\ WF_vars(Handle) /\ WF_vars(WriteScaler) /\ WF_vars(WriteJob)
    /\ WF_vars(SyncJob) /\ WF_vars(SyncPods) /\ \A s \in Scalers : WF_vars(SyncScaler(s))
    /\ \A i \in Worker : WF_vars(WorkerRuns(i))
    /\ WF_vars(LauncherRuns)

FairSpec == Spec /\ Fairness
=============================================================================
