------------------------- MODULE JobLifecycleProofs -------------------------
(***************************************************************************)
(* Proofs about TrainingJob: how the status of a job moves on. No launcher *)
(* is started on fewer hosts than the job has workers, and what the users  *)
(* see of the phase and the restarts is the life cycle of JobLifecycle.    *)
(* And the controller rests only when it has nothing to do: a reconcile    *)
(* that changes nothing, returns no error and is woken by nothing has seen *)
(* the newest state of the cluster, and its handler would have changed     *)
(* something had there been something to change.                           *)
(***************************************************************************)
EXTENDS JobFrameProofs, WellFoundedInduction, FiniteSetTheorems

-----------------------------------------------------------------------------
(* What holds of every copy of the status beside Consistent *)

\* A job that is not running yet has not taken the last step.
Early(st) ==
    /\ st.phase = "New" => st.conds = {}
    /\ st.phase = "Created" => "Running" \notin st.conds

\* Between the wait for the workers and the creation of the launcher the status
\* records enough of them for the ConfigMap.
Manned(st) ==
    "WorkersReady" \in st.conds /\ "LauncherCreated" \notin st.conds
    => Cardinality(st.current) >= Replicas

Crewed(w) ==
    /\ Manned(w.st)
    /\ w.configMap.made => Cardinality(w.configMap.hosts) >= Replicas

LEMMA NewJobEarly == Early(NewJob) /\ Manned(NewJob)
  BY DEF NewJob, Early, Manned

LEMMA SuspendedEarly ==
  ASSUME NEW st \in JobStatus, Early(st), Manned(st)
  PROVE  Early(updateStatus(st, "Suspended")) /\ Manned(updateStatus(st, "Suspended"))
  BY DEF Early, Manned, updateStatus, updateJobConditions, setCondition, JobStatus

-----------------------------------------------------------------------------
(* The handlers *)

\* The phases a job may show next, from the steps of one that was created.
LEMMA doStepsMove ==
  ASSUME NEW w, Good(w), Unfinished(w.st), w.st.phase = "Created", Early(w.st), Crewed(w)
  PROVE  \A v \in doSteps(w) :
           /\ v.st.phase \in {"Created", "Running", "Succeeded", "Failed"}
           /\ "WorkersCreated" \notin w.st.conds => v.st.phase \in {"Created", "Failed"}
           /\ Early(v.st) /\ Crewed(v)
<1>1. w \in Worlds /\ w.st \in JobStatus /\ StepOrder(w.st) BY DEF Good, Worlds, Consistent
<1>2. CASE "WorkersCreated" \notin w.st.conds
  <2>1. "WorkersReady" \notin w.st.conds /\ "Running" \notin w.st.conds
    BY <1>1, <1>2 DEF StepOrder
  <2>2. doSteps(w) = createTrainingJobWorkers(w) BY <1>2 DEF doSteps
  <2>3. \A v \in createTrainingJobWorkers(w) :
          v.configMap = w.configMap /\ Took(v.st, w.st, "WorkersCreated")
    BY createTrainingJobWorkersDoes DEF SameStore
  <2>4. \A v \in createTrainingJobWorkers(w) :
          "WorkersReady" \notin v.st.conds /\ "Running" \notin v.st.conds
          /\ v.st.phase \in {"Created", "Failed"}
    BY <2>1, <2>3 DEF Took, setCondition
  <2>5. QED BY <2>2, <2>3, <2>4 DEF Early, Crewed, Manned
<1>3. CASE "WorkersCreated" \in w.st.conds /\ "WorkersReady" \notin w.st.conds
  <2>1. "Running" \notin w.st.conds BY <1>1, <1>3 DEF StepOrder
  <2>2. doSteps(w) = waitWorkersRunning(w) BY <1>3 DEF doSteps
  <2>3. \A v \in waitWorkersRunning(w) :
          /\ v.configMap = w.configMap /\ v.st.phase = "Created"
          /\ \/ v.st.conds = w.st.conds
             \/ /\ v.st.conds = setCondition(w.st.conds, "WorkersReady")
                /\ Cardinality(v.st.current) >= Replicas
    BY waitWorkersRunningDoes DEF SameStore
  <2>4. \A v \in waitWorkersRunning(w) : "Running" \notin v.st.conds /\ Manned(v.st)
    BY <1>3, <2>1, <2>3 DEF setCondition, Manned
  <2>5. QED BY <1>3, <2>2, <2>3, <2>4 DEF Early, Crewed
<1>4. CASE /\ {"WorkersCreated", "WorkersReady"} \subseteq w.st.conds
           /\ "LauncherCreated" \notin w.st.conds
  <2>1. "Running" \notin w.st.conds BY <1>1, <1>4 DEF StepOrder
  <2>2. doSteps(w) = createLauncher(w) BY <1>4 DEF doSteps
  <2>3. Cardinality(w.st.current) >= Replicas BY <1>4 DEF Crewed, Manned
  <2>4. \A v \in createLauncher(w) :
          /\ Took(v.st, w.st, "LauncherCreated") /\ v.st.current = w.st.current
          /\ v.configMap = w.configMap \/ v.configMap.hosts = w.st.current
    BY createLauncherDoes
  <2>5. \A v \in createLauncher(w) :
          "Running" \notin v.st.conds /\ v.st.phase \in {"Created", "Failed"}
    BY <2>1, <2>4 DEF Took, setCondition
  <2>6. \A v \in createLauncher(w) : Crewed(v) BY <2>3, <2>4 DEF Crewed, Manned
  <2>7. QED BY <1>4, <2>2, <2>5, <2>6 DEF Early
<1>5. CASE /\ {"WorkersCreated", "WorkersReady", "LauncherCreated"} \subseteq w.st.conds
           /\ "Running" \notin w.st.conds
  <2>1. doSteps(w) = syncLauncherState(w) BY <1>5 DEF doSteps
  <2>2. \A v \in syncLauncherState(w) : Synced(v.st, w.st) /\ v.configMap = w.configMap
    BY <1>1, syncLauncherStateDoes DEF SameStore
  <2>3. \A v \in syncLauncherState(w) :
          /\ "LauncherCreated" \in v.st.conds
          /\ v.st = w.st \/ v.st.phase \in {"Running", "Succeeded", "Failed"}
    BY <1>1, <1>5, <2>2, SyncedDoes, SyncedConditions
  <2>4. QED BY <1>5, <2>1, <2>2, <2>3 DEF Early, Crewed, Manned
<1>6. CASE {"WorkersCreated", "WorkersReady", "LauncherCreated", "Running"} \subseteq w.st.conds
  BY <1>6 DEF Early
<1>7. QED BY <1>2, <1>3, <1>4, <1>5, <1>6

\* The status new may follow st in one reconcile.
Moves(st, new) ==
    \/ new.phase = st.phase /\ new.restarts = st.restarts
    \/ new.phase \in Lifecycle!Progress[st.phase] /\ new.restarts = st.restarts
    \/ /\ st.phase = "Failed" /\ needRestartJob(st)
       /\ new.phase \in {"Created", "Failed"} /\ new.restarts = st.restarts + 1

\* What a handler may leave of the world w.
Follows(v, w) ==
    /\ Moves(w.st, v.st)
    /\ w.st.phase = "Suspended" => v.st = w.st
    /\ Early(v.st) /\ Crewed(v)

LEMMA CreatedFollows ==
  ASSUME NEW w, Good(w), w.st.phase \in {"New", "Created"}, Early(w.st), Crewed(w)
  PROVE  \A v \in doSteps(initializeJob(w)) : Follows(v, w)
<1> DEFINE u == initializeJob(w)
<1>1. w \in Worlds BY DEF Good
<1>2. /\ Good(u) /\ Unfinished(u.st) /\ SameStore(u, w) /\ u.st.restarts = w.st.restarts
      /\ IF w.st.conds = {} THEN u.st.phase = "Created" /\ u.st.conds = {"Created"} ELSE u = w
  BY <1>1, initializeJobGood, initializeJobDoes
<1> HIDE DEF u
<1>3. u.st.phase = "Created" /\ Early(u.st) /\ Crewed(u)
  BY <1>2 DEF Early, Crewed, Manned, SameStore
<1>4. w.st.phase = "New" => "WorkersCreated" \notin u.st.conds BY <1>2 DEF Early
<1>5. ASSUME NEW v \in doSteps(u) PROVE Follows(v, w)
  <2>1. /\ v.st.phase \in {"Created", "Running", "Succeeded", "Failed"}
        /\ "WorkersCreated" \notin u.st.conds => v.st.phase \in {"Created", "Failed"}
        /\ Early(v.st) /\ Crewed(v)
    BY <1>2, <1>3, doStepsMove
  <2>2. v.st.restarts = w.st.restarts BY <1>2, doStepsDoes
  <2>3. Moves(w.st, v.st) BY <1>4, <2>1, <2>2 DEF Moves, Lifecycle!Progress
  <2>4. QED BY <2>1, <2>3 DEF Follows
<1>6. QED BY <1>5 DEF u

LEMMA RunningFollows ==
  ASSUME NEW w, NEW v, Crewed(w), w.st.phase \in {"Running", "Scaling"},
         v.configMap = w.configMap, v.st.restarts = w.st.restarts,
         v.st.phase \in {"Running", "Scaling", "Succeeded", "Failed"},
         "LauncherCreated" \in v.st.conds
  PROVE  Follows(v, w)
<1>1. Moves(w.st, v.st) BY DEF Moves, Lifecycle!Progress
<1>2. QED BY <1>1 DEF Follows, Early, Crewed, Manned

LEMMA SameFollows ==
  ASSUME NEW w, NEW v, Early(w.st), Crewed(w), v.st = w.st, v.configMap = w.configMap
  PROVE  Follows(v, w)
  BY DEF Follows, Moves, Crewed

LEMMA restartJobFollows ==
  ASSUME NEW w, Good(w), w.st.phase = "Failed", Early(w.st), Crewed(w)
  PROVE  \A v \in restartJob(w) : Follows(v, w)
<1>1. w \in Worlds /\ w.st \in JobStatus BY DEF Good, Worlds
<1>2. CASE ~needRestartJob(w.st)
  <2>1. restartJob(w) = cleanup(w) BY <1>2 DEF restartJob
  <2>2. QED BY <1>1, <2>1, cleanupActs, SameFollows DEF Acts, SameRest, SameStore
<1>3. CASE needRestartJob(w.st)
  <2>1. ASSUME NEW d, Good(d), SameStore(d, w), d.st = resetJobStatus(w.st), Unfinished(d.st),
               NEW v \in doSteps(d)
        PROVE  Follows(v, w)
    <3>1. d.st.phase = "Created" /\ d.st.conds = {"Created"} /\ d.st.restarts = w.st.restarts + 1
      BY <1>1, <2>1, resetJobStatusIs
    <3>2. Early(d.st) /\ Crewed(d) BY <2>1, <3>1 DEF Early, Crewed, Manned, SameStore
    <3>3. v.st.phase \in {"Created", "Failed"} /\ Early(v.st) /\ Crewed(v)
      BY <2>1, <3>1, <3>2, doStepsMove
    <3>4. v.st.restarts = w.st.restarts + 1 BY <2>1, <3>1, doStepsDoes
    <3>5. Moves(w.st, v.st) BY <1>3, <3>3, <3>4 DEF Moves
    <3>6. QED BY <3>3, <3>5 DEF Follows
  <2>2. QED BY <1>3, <2>1, restartJobDoes
<1>4. QED BY <1>2, <1>3

LEMMA HandleFollows ==
  ASSUME IInv, Handle, Early(mine), Crewed(Observed)
  PROVE  \E w : Leave(w) /\ Follows(w, Observed)
<1> DEFINE o == Observed
<1>1. /\ Good(o) /\ o \in Worlds /\ o.st = mine /\ DOMAIN o.update = {}
  BY ObservedGood DEF Observed, EmptyMap, Good
<1>2. Early(o.st) /\ Crewed(o) BY <1>1
<1> HIDE DEF o
<1>3. ASSUME HandleCreated PROVE \A w \in doSteps(initializeJob(o)) : Follows(w, o)
  BY <1>1, <1>2, <1>3, CreatedFollows DEF HandleCreated, AtHandler
<1>4. ASSUME HandleRunning PROVE \A w \in reconcileJobRunning(o) : Follows(w, o)
  BY <1>1, <1>2, <1>4, reconcileJobRunningDoes, RunningFollows DEF HandleRunning, AtHandler
<1>5. ASSUME HandleScaling PROVE \A w \in executeScaling(o) : Follows(w, o)
  BY <1>1, <1>2, <1>5, executeScalingDoes, RunningFollows DEF HandleScaling, AtHandler
<1>6. \A w \in cleanup(o) : Follows(w, o)
  BY <1>1, <1>2, cleanupActs, SameFollows DEF Acts, SameRest, SameStore
<1>7. ASSUME HandleFailed PROVE \A w \in restartJob(o) : Follows(w, o)
  BY <1>1, <1>2, <1>7, restartJobFollows DEF HandleFailed, AtHandler
<1>8. \A w \in cleanupAll(o) : Follows(w, o)
  BY <1>1, <1>2, cleanupAllActs, SameFollows DEF Acts, SameRest, SameStore
<1>9. \/ HandleCreated /\ \E w \in doSteps(initializeJob(o)) : Leave(w)
      \/ HandleRunning /\ \E w \in reconcileJobRunning(o) : Leave(w)
      \/ HandleScaling /\ \E w \in executeScaling(o) : Leave(w)
      \/ \E w \in cleanup(o) : Leave(w)
      \/ HandleFailed /\ \E w \in restartJob(o) : Leave(w)
      \/ \E w \in cleanupAll(o) : Leave(w)
  BY DEF Handle, HandleCreated, HandleRunning, HandleScaling, HandleSucceeded, HandleFailed,
     HandleSuspended, o
<1>10. QED BY <1>3, <1>4, <1>5, <1>6, <1>7, <1>8, <1>9 DEF o


-----------------------------------------------------------------------------
(* Every other step only copies statuses. *)

Handling == Start \/ Handle

LEMMA OthersCopy ==
  ASSUME IInv, [Next]_vars, ~Handling
  PROVE  Copies' \subseteq Copies \cup {NewJob} /\ configMap' = configMap
<1>1. job \in Job BY DEF IInv, TypeOK
<1> DEFINE Copied == /\ configMap' = configMap
                     /\ job'.status \in Copies \cup {NewJob}
                     /\ jobCache'.status \in Copies \cup {NewJob}
                     /\ read' \in Copies \cup {NewJob} /\ mine' \in Copies \cup {NewJob}
<1>2. {job.status, jobCache.status, read, mine} \subseteq Copies BY DEF Copies
<1>3. Copied => Copies' \subseteq Copies \cup {NewJob} BY DEF Copies
<1>4. ASSUME WriteScaler PROVE Copied
  <2>1. PICK s \in DOMAIN update : jobCache' = jobCache
    BY <1>4 DEF WriteScaler, ScalerChanged, cache
  <2>2. UNCHANGED <<job, configMap, read, mine>> BY <1>4 DEF WriteScaler
  <2>3. QED BY <1>2, <2>1, <2>2
<1>5. ASSUME WriteJob PROVE Copied
  <2>1. read' = NewJob /\ mine' = NewJob /\ configMap' = configMap
    BY <1>5 DEF WriteJob, EndReconcile
  <2>2. /\ job' = job \/ job' = [job EXCEPT !.status = mine]
        /\ jobCache' = jobCache \/ jobCache' = job'
    BY <1>5 DEF WriteJob
  <2>3. job'.status \in {job.status, mine} BY <1>1, <2>2 DEF Job
  <2>4. QED BY <1>2, <2>1, <2>2, <2>3
<1>6. ASSUME Sync PROVE Copied
  <2>1. UNCHANGED <<api, local>> /\ (jobCache' = jobCache \/ jobCache' = job)
    BY <1>6 DEF Sync, SyncJob, SyncPods, SyncScaler
  <2>2. QED BY <1>2, <2>1 DEF api, local
<1>7. ASSUME Crash PROVE Copied BY <1>2, <1>7 DEF Crash, api
<1>8. ASSUME Environment PROVE Copied
  <2>1. \/ UNCHANGED <<job, jobCache>>
        \/ job' = [job EXCEPT !.suspended = TRUE] /\ (jobCache' = jobCache \/ jobCache' = job')
    BY <1>8 DEF Environment, WorkerRuns, WorkerEnds, WorkerLost, LauncherRuns, LauncherEnds,
       LauncherLost, SubmitScaler, DeleteScaler, Suspend, OtherEvent, ChangePods, ChangeLauncher,
       PodsChanged, ScalerChanged, JobChanged, api, cache
  <2>2. job'.status = job.status /\ jobCache'.status \in {jobCache.status, job'.status}
    BY <1>1, <2>1 DEF Job
  <2>3. UNCHANGED <<read, mine, configMap>>
    BY <1>8 DEF Environment, WorkerRuns, WorkerEnds, WorkerLost, LauncherRuns, LauncherEnds,
       LauncherLost, SubmitScaler, DeleteScaler, Suspend, OtherEvent, ChangePods, ChangeLauncher,
       local, api
  <2>4. QED BY <1>2, <2>2, <2>3
<1>9. ASSUME UNCHANGED vars PROVE Copied BY <1>2, <1>9 DEF vars, api, cache, local
<1> HIDE DEF Copied
<1>10. QED
  <2>1. Copied
    BY <1>4, <1>5, <1>6, <1>7, <1>8, <1>9 DEF Next, Reconcile, Handling
  <2>2. QED BY <1>3, <2>1 DEF Copied

-----------------------------------------------------------------------------
(* No launcher on too few hosts: the inductive invariant says of every copy of *)
(* the status that it records enough workers for the ConfigMap to be made.     *)

CopyInv == (\A st \in Copies : Early(st) /\ Manned(st)) /\ HostsComplete

LEMMA CopyInit == Init => CopyInv
  BY NewJobEarly DEF Init, CopyInv, Copies, HostsComplete

LEMMA CopyStep == IInv /\ CopyInv /\ [Next]_vars => CopyInv'
<1> SUFFICES ASSUME IInv, CopyInv, [Next]_vars PROVE CopyInv' OBVIOUS
<1>1. ASSUME ~Handling PROVE CopyInv'
  <2>1. Copies' \subseteq Copies \cup {NewJob} /\ configMap' = configMap BY <1>1, OthersCopy
  <2>2. QED BY <2>1, NewJobEarly DEF CopyInv, HostsComplete
<1>2. ASSUME Start PROVE CopyInv'
  <2>1. /\ UNCHANGED <<job, jobCache, configMap>> /\ read' = jobCache.status
        /\ mine' \in {jobCache.status, updateStatus(jobCache.status, "Suspended")}
    BY <1>2 DEF Start, api, cache
  <2>2. jobCache.status \in JobStatus /\ jobCache.status \in Copies /\ job.status \in Copies
    BY DEF IInv, TypeOK, Job, Copies
  <2>3. Early(mine') /\ Manned(mine') BY <2>1, <2>2, SuspendedEarly DEF CopyInv
  <2>4. \A st \in Copies' : Early(st) /\ Manned(st) BY <2>1, <2>2, <2>3 DEF CopyInv, Copies
  <2>5. QED BY <2>1, <2>4 DEF CopyInv, HostsComplete
<1>3. ASSUME Handle PROVE CopyInv'
  <2>1. Early(mine) /\ Crewed(Observed)
    BY DEF CopyInv, Copies, Crewed, Observed, HostsComplete
  <2>2. PICK w : Leave(w) /\ Follows(w, Observed) BY <1>3, <2>1, HandleFollows
  <2>3. /\ UNCHANGED <<job, jobCache, read>> /\ mine' = w.st /\ configMap' = w.configMap
    BY <2>2 DEF Leave
  <2>4. \A st \in Copies' : Early(st) /\ Manned(st)
    BY <2>2, <2>3 DEF Copies, CopyInv, Follows, Crewed
  <2>5. QED BY <2>2, <2>3, <2>4 DEF CopyInv, HostsComplete, Follows, Crewed
<1>4. QED BY <1>1, <1>2, <1>3 DEF Handling

THEOREM CopiesKeep == Spec => []CopyInv
BY Inductive, CopyInit, CopyStep, PTL DEF Spec

\* The hostfile ConfigMap is made once (worker.go:442-458), from whatever workers
\* the status recorded then: they are never fewer than the job's replicas,
\* although that status may be computed from an old copy, by a reconcile after a
\* restart of the job or of the operator.
THEOREM LauncherHasItsHosts == Spec => []HostsComplete
<1>1. CopyInv => HostsComplete BY DEF CopyInv
<1>2. QED BY <1>1, CopiesKeep, PTL

-----------------------------------------------------------------------------
(* TrainingJob implements JobLifecycle when the job's informer delivers at     *)
(* once: a reconcile then starts from the status that is still the job's when  *)
(* it writes its own. Otherwise it would write over a newer one.               *)

LifeInv ==
    /\ pc # "idle" => read = job.status
    /\ pc = "handle" => mine = read \/ mine = updateStatus(read, "Suspended")
    /\ pc \in {"writeScaler", "writeJob"} => Moves(read, mine)

LEMMA SuspendedMoves ==
  ASSUME NEW st \in JobStatus PROVE Moves(st, updateStatus(st, "Suspended"))
<1> DEFINE new == updateStatus(st, "Suspended")
<1>1. new.phase = "Suspended" /\ new.restarts = st.restarts
  BY DEF updateStatus, updateJobConditions, JobStatus
<1>2. st.phase \in Phase BY DEF JobStatus
<1> HIDE DEF new
<1>3. Moves(st, new) BY <1>1, <1>2 DEF Moves, Phase, Lifecycle!Progress
<1>4. QED BY <1>3 DEF new

\* The steps that leave the reconcile where it is leave the job's status alone.
LEMMA OthersLive ==
  ASSUME IInv, Sync \/ Environment \/ UNCHANGED vars
  PROVE  UNCHANGED <<pc, read, mine>> /\ job'.status = job.status
<1>1. job \in Job BY DEF IInv, TypeOK
<1>2. ASSUME Sync PROVE UNCHANGED <<pc, read, mine, job>>
  BY <1>2 DEF Sync, SyncJob, SyncPods, SyncScaler, api, local
<1>3. ASSUME Environment PROVE UNCHANGED <<pc, read, mine>> /\ job'.status = job.status
  <2>1. UNCHANGED job \/ job' = [job EXCEPT !.suspended = TRUE]
    BY <1>3 DEF Environment, WorkerRuns, WorkerEnds, WorkerLost, LauncherRuns, LauncherEnds,
       LauncherLost, SubmitScaler, DeleteScaler, Suspend, OtherEvent, ChangePods, ChangeLauncher,
       api
  <2>2. UNCHANGED local
    BY <1>3 DEF Environment, WorkerRuns, WorkerEnds, WorkerLost, LauncherRuns, LauncherEnds,
       LauncherLost, SubmitScaler, DeleteScaler, Suspend, OtherEvent, ChangePods, ChangeLauncher
  <2>3. QED BY <1>1, <2>1, <2>2 DEF local, Job
<1>4. ASSUME UNCHANGED vars PROVE UNCHANGED <<pc, read, mine, job>>
  BY <1>4 DEF vars, api, local
<1>5. QED BY <1>2, <1>3, <1>4

LEMMA LifeStep ==
  ASSUME "job" \notin Lagging
  PROVE  IInv /\ CachesAgree /\ CopyInv /\ LifeInv /\ [Next]_vars
         => LifeInv' /\ (UNCHANGED job.status \/ Moves(job.status, job'.status))
<1> SUFFICES ASSUME IInv, CachesAgree, CopyInv, LifeInv, [Next]_vars
             PROVE  LifeInv' /\ (UNCHANGED job.status \/ Moves(job.status, job'.status))
  OBVIOUS
<1>1. TypeOK /\ "job" \notin lag /\ jobCache = job BY DEF IInv, TypeOK, CachesAgree
<1>2. ASSUME Sync \/ Environment \/ UNCHANGED vars PROVE LifeInv' /\ UNCHANGED job.status
  <2>1. UNCHANGED <<pc, read, mine>> /\ job'.status = job.status BY <1>2, OthersLive
  <2>2. pc' = pc /\ read' = read /\ mine' = mine BY <2>1
  <2>3. QED BY <2>1, <2>2 DEF LifeInv
<1>3. ASSUME Start PROVE LifeInv' /\ UNCHANGED job.status
  BY <1>1, <1>3 DEF Start, LifeInv, api
<1>4. ASSUME Handle PROVE LifeInv' /\ UNCHANGED job.status
  <2>1. Early(mine) /\ Crewed(Observed)
    BY DEF CopyInv, Copies, Crewed, Observed, HostsComplete
  <2>2. PICK w : Leave(w) /\ Follows(w, Observed) BY <1>4, <2>1, HandleFollows
  <2>3. Moves(mine, w.st) /\ (mine.phase = "Suspended" => w.st = mine)
    BY <2>2 DEF Follows, Observed
  <2>4. /\ UNCHANGED <<job, read>> /\ mine' = w.st /\ pc' \in {"writeScaler", "writeJob"}
    BY <2>2 DEF Leave
  <2>5. pc = "handle" /\ read \in JobStatus
    BY <1>1, <1>4 DEF Handle, HandleCreated, HandleRunning, HandleScaling, HandleSucceeded,
       HandleFailed, HandleSuspended, AtHandler, TypeOK
  <2>6. Moves(read, w.st)
    <3>1. CASE mine = read BY <2>3, <3>1
    <3>2. CASE mine = updateStatus(read, "Suspended")
      <4>1. mine.phase = "Suspended"
        BY <2>5, <3>2 DEF updateStatus, updateJobConditions, JobStatus
      <4>2. QED BY <2>3, <2>5, <3>2, <4>1, SuspendedMoves
    <3>3. QED BY <2>5, <3>1, <3>2 DEF LifeInv
  <2>7. QED BY <2>4, <2>5, <2>6 DEF LifeInv
<1>5. ASSUME WriteScaler PROVE LifeInv' /\ UNCHANGED job.status
  BY <1>5 DEF WriteScaler, LifeInv
<1>6. ASSUME WriteJob PROVE LifeInv' /\ (UNCHANGED job.status \/ Moves(job.status, job'.status))
  <2>1. pc = "writeJob" /\ pc' = "idle" BY <1>6 DEF WriteJob, EndReconcile
  <2>2. job' = job \/ job' = [job EXCEPT !.status = mine] BY <1>6 DEF WriteJob
  <2>3. job'.status = job.status \/ job'.status = mine BY <1>1, <2>2 DEF TypeOK, Job
  <2>4. Moves(job.status, mine) BY <2>1 DEF LifeInv
  <2>5. QED BY <2>1, <2>3, <2>4 DEF LifeInv
<1>7. ASSUME Crash PROVE LifeInv' /\ UNCHANGED job.status BY <1>7 DEF Crash, LifeInv, api
<1>8. QED BY <1>2, <1>3, <1>4, <1>5, <1>6, <1>7 DEF Next, Reconcile

LEMMA MovesImplement ==
  ASSUME IInv, Moves(job.status, job'.status)
  PROVE  [Lifecycle!Advance \/ Lifecycle!Restart]_<<job.status.phase, job.status.restarts>>
  BY DEF Moves, needRestartJob, Lifecycle!Advance, Lifecycle!Restart

\* Phases in their order, a restart only of a failed job, always counted and
\* within the limit, nothing after Succeeded (trainingjob_controller.go:204-241,
\* 328-374): as long as the operator reads the job it last wrote. Pods, launcher
\* and scalers may be read from any old copy, and the operator may restart.
THEOREM ImplementsLifecycle ==
  ASSUME "job" \notin Lagging
  PROVE  Spec => LifecycleSpec
<1>1. Init => Lifecycle!Init /\ LifeInv BY DEF Init, Lifecycle!Init, NewJob, LifeInv
<1>2. IInv /\ CachesAgree /\ CopyInv /\ LifeInv /\ [Next]_vars
      => LifeInv' /\ [Lifecycle!Advance \/ Lifecycle!Restart]_<<job.status.phase, job.status.restarts>>
  BY LifeStep, MovesImplement
<1>3. QED
  BY <1>1, <1>2, Inductive, CachesAreCurrent, CopiesKeep, PTL DEF Spec, LifecycleSpec, Lifecycle!Spec

-----------------------------------------------------------------------------
(* The highest name of a bag of workers *)

LEMMA LeastNat ==
  ASSUME NEW T, T \subseteq Nat, T # {} PROVE \E x \in T : \A y \in T : x <= y
<1> DEFINE R == OpToRel(<, Nat)
<1>1. IsWellFoundedOn(R, Nat) BY NatLessThanWellFounded
<1>2. \E x \in T : \A y \in T : <<y, x>> \notin R
  <2> HIDE DEF R
  <2>1. QED BY <1>1, WFMin
<1>3. PICK x \in T : \A y \in T : <<y, x>> \notin R BY <1>2
<1>4. ASSUME NEW y \in T PROVE x <= y
  <2>1. <<y, x>> \notin R BY <1>3
  <2>2. ~(y < x) BY <2>1 DEF OpToRel
  <2>3. QED BY <2>2
<1>5. QED BY <1>4

LEMMA HighestMember ==
  ASSUME NEW t \in [Worker -> Nat], NEW i \in Members(t)
  PROVE  /\ getWorkerPodsMaxIndex(t) \in Members(t)
         /\ \A j \in Members(t) : j <= getWorkerPodsMaxIndex(t)
<1> DEFINE M == Members(t)
           Above == {n \in Nat : \A j \in M : j <= n}
<1>1. M \subseteq 0..MaxWorker /\ MaxWorker \in Nat BY NumbersAssumption DEF Members, Worker
<1>2. MaxWorker \in Above BY <1>1
<1> HIDE DEF M
<1>3. PICK n \in Above : \A m \in Above : n <= m BY <1>2, LeastNat
<1>4. n \in M
  <2>1. SUFFICES ASSUME n \notin M PROVE FALSE OBVIOUS
  <2>2. i \in M /\ i \in Nat /\ i < n BY <1>1, <1>3, <2>1 DEF M
  <2>3. n - 1 \in Above BY <1>1, <1>3, <2>1, <2>2
  <2>4. QED BY <1>3, <2>2, <2>3
<1>5. \E x \in M : \A y \in M : x >= y BY <1>1, <1>3, <1>4
<1>6. Max(M) \in M /\ \A y \in M : Max(M) >= y BY <1>5 DEF Max
<1>7. getWorkerPodsMaxIndex(t) = Max(M) BY DEF getWorkerPodsMaxIndex, M
<1>8. QED BY <1>1, <1>6, <1>7 DEF M

\* New names are none of those the bag has.
LEMMA NamesAreNew ==
  ASSUME NEW t \in [Worker -> Nat], NEW i \in Members(t), NEW n
  PROVE  i \notin NextNames(t, n)
<1>1. getWorkerPodsMaxIndex(t) \in Members(t) /\ i <= getWorkerPodsMaxIndex(t)
  BY HighestMember
<1>2. i \in Nat /\ getWorkerPodsMaxIndex(t) \in Nat
  BY <1>1, NumbersAssumption DEF Members, Worker
<1> HIDE DEF getWorkerPodsMaxIndex
<1>3. QED BY <1>1, <1>2 DEF NextNames

-----------------------------------------------------------------------------
(* The launcher: which operations leave it alone *)

SameLauncher(S, w) == \A v \in S : v.launcher = w.launcher

LEMMA FaultLauncher == ASSUME NEW w \in Worlds, NEW kind PROVE SameLauncher(Fault(w, kind), w)
  BY DEF Fault, SameLauncher, Worlds

LEMMA ErrorLauncher == ASSUME NEW w \in Worlds PROVE Error(w).launcher = w.launcher
  BY DEF Error, Worlds

LEMMA WriteHostfileLauncher ==
  ASSUME NEW w \in Worlds, NEW ws PROVE SameLauncher(WriteHostfile(w, ws), w)
<1> DEFINE Written(v) == [v EXCEPT !.hostfile = ws]
<1>1. \A v \in Worlds : Written(v).launcher = v.launcher BY DEF Worlds
<1>2. \A v \in Fault(w, "execError") : v \in Worlds /\ v.launcher = w.launcher
  BY FaultActs, FaultLauncher DEF Acts, SameLauncher
<1>3. \A v \in executeOnLauncher(w) : v \in Worlds /\ v.launcher = w.launcher
  <2>1. \A v \in executeOnLauncher(w) : v \in Worlds BY executeOnLauncherActs DEF Acts
  <2>2. \A v \in executeOnLauncher(w) : v.launcher = w.launcher
    BY <1>2, ErrorLauncher DEF executeOnLauncher
  <2>3. QED BY <2>1, <2>2
<1>4. WriteHostfile(w, ws) = {IF v.err = "none" /\ w.seenLauncher # "None" THEN Written(v) ELSE v :
                               v \in executeOnLauncher(w)}
  BY DEF WriteHostfile
<1> HIDE DEF Written
<1>5. QED BY <1>1, <1>3, <1>4 DEF SameLauncher

LEMMA createWorkersLauncher ==
  ASSUME NEW w \in Worlds, NEW ws, NEW s PROVE SameLauncher(createWorkers(w, ws, s), w)
<1>1. CASE ~(ws \subseteq Worker) BY <1>1 DEF createWorkers, SameLauncher
<1>2. CASE ws \subseteq Worker
  <2> DEFINE missing == ws \ DOMAIN w.seen
             clash   == missing \cap DOMAIN w.pods
             Reached(i) == \A j \in clash : i <= j
             All(v) == [v EXCEPT !.pods = WithNew(v.pods, missing, s)]
             StopAt(v, i) == Error([v EXCEPT !.pods = WithNew(v.pods, {j \in missing : j < i}, s)])
  <2>1. ASSUME NEW v \in Worlds, NEW ps
        PROVE  [v EXCEPT !.pods = ps].launcher = v.launcher
               /\ Error([v EXCEPT !.pods = ps]).launcher = v.launcher
    BY DEF Worlds, Error
  <2>2. \A v \in Worlds : All(v).launcher = v.launcher BY <2>1
  <2>3. \A v \in Worlds : \A i : StopAt(v, i).launcher = v.launcher BY <2>1
  <2>4. createWorkers(w, ws, s) =
          (IF clash = {} THEN {All(w)} ELSE {})
          \cup {StopAt(w, i) : i \in {j \in clash : Reached(j)}}
          \cup {StopAt(v, i + made) :
                  v \in Fault(w, "apiError"), i \in {j \in ws : Reached(j)}, made \in {0, 1}}
    BY <1>2 DEF createWorkers
  <2>5. \A v \in Fault(w, "apiError") : v \in Worlds /\ v.launcher = w.launcher
    BY FaultActs, FaultLauncher DEF Acts, SameLauncher
  <2> HIDE DEF All, StopAt, missing, clash, Reached
  <2>6. ASSUME NEW x \in createWorkers(w, ws, s) PROVE x.launcher = w.launcher
    <3>1. \/ x = All(w)
          \/ \E i \in clash : x = StopAt(w, i)
          \/ \E v \in Fault(w, "apiError"), i \in ws, made \in {0, 1} : x = StopAt(v, i + made)
      BY <2>4
    <3>2. QED BY <2>2, <2>3, <2>5, <3>1
  <2>7. QED BY <2>6 DEF SameLauncher
<1>3. QED BY <1>1, <1>2


-----------------------------------------------------------------------------
(* The workers: a look at them that returns no error and leaves the status as  *)
(* it was has found it up to date, and none of the workers to be replaced.     *)

LEMMA ReplaceWorkersRests ==
  ASSUME NEW w, Good(w)
  PROVE  \A v \in ReplaceWorkers(w) :
           /\ v.launcher = w.launcher /\ v.st.current = w.st.current
           /\ v.err = "none" /\ v.st.target = w.st.target => NeedRestart(w, w.st.target) = {}
<1> DEFINE t     == w.st.target
           old   == NeedRestart(w, t)
           names == NextNames(t, MapThenSumSet(LAMBDA i : t[i], old))
           new   == Append(FilterOut(t, old), names)
           Done(v) == [v EXCEPT !.st.target = new]
           Made == createWorkers(w, names, NoScaler)
<1>1. w \in Worlds /\ w.st \in JobStatus /\ t \in [Worker -> Nat]
  BY DEF Good, Worlds, JobStatus
<1>2. ReplaceWorkers(w) = IF old = {} THEN {w} ELSE {IF v.err = "none" THEN Done(v) ELSE v : v \in Made}
  BY DEF ReplaceWorkers
<1>3. \A v \in Made : v \in Worlds /\ v.st = w.st /\ v.launcher = w.launcher
  <2> HIDE DEF names
  <2>1. Acts(Made, w) /\ SameLauncher(Made, w) BY <1>1, createWorkersActs, createWorkersLauncher
  <2>2. QED BY <2>1 DEF Acts, SameRest, SameLauncher
<1>4. old # {} => new # t
  <2>1. SUFFICES ASSUME NEW i \in old PROVE new[i] # t[i] OBVIOUS
  <2>2. i \in Members(t) /\ i \in Worker BY DEF NeedRestart, Members
  <2>3. i \notin names BY <1>1, <2>2, NamesAreNew
  <2> HIDE DEF names, old, t
  <2>4. FilterOut(t, old)[i] = 0 /\ BagOf(names)[i] = 0 BY <2>1, <2>2, <2>3 DEF FilterOut, BagOf
  <2>5. new[i] = 0 BY <2>2, <2>4 DEF Append
  <2>6. QED BY <1>1, <2>2, <2>5 DEF Members
<1> HIDE DEF old, new
<1>5. \A v \in Worlds : /\ Done(v).launcher = v.launcher /\ Done(v).st.current = v.st.current
                        /\ Done(v).st.target = new
  BY DEF Worlds, JobStatus
<1> HIDE DEF Done, Made
<1>6. ASSUME old # {}, NEW v \in Made
      PROVE  LET d == IF v.err = "none" THEN Done(v) ELSE v
             IN  /\ d.launcher = w.launcher /\ d.st.current = w.st.current
                 /\ ~(d.err = "none" /\ d.st.target = t)
  BY <1>3, <1>4, <1>5, <1>6
<1>7. QED BY <1>2, <1>6 DEF old

LEMMA handleWorkersFailedRests ==
  ASSUME NEW w, Good(w)
  PROVE  \A v \in handleWorkersFailed(w) :
           /\ v.launcher = w.launcher
           /\ v.err = "none" => v.st.current = Running(w.seen)
           /\ v.err = "none" /\ v.st = w.st => NeedRestart(w, w.st.target) = {}
<1> DEFINE running   == Running(w.seen)
           hostfile0 == IF running # w.st.current /\ "Running" \in w.st.conds
                        THEN WriteHostfile(w, running) ELSE {w}
           Bag(v)    == IF Members(v.st.target) = {} THEN BagOf(running) ELSE v.st.target
           Now(v)    == [v EXCEPT !.st.current = running]
           Record(v) == [v EXCEPT !.st.current = running,
                                  !.st.target = IF Members(@) = {} THEN BagOf(running) ELSE @]
<1>1. w \in Worlds /\ running \in SUBSET Worker BY RunningTypes DEF Good, Worlds
<1>2. \A v \in hostfile0 : Good(v) /\ v.st = w.st /\ v.seen = w.seen /\ v.launcher = w.launcher
  BY <1>1, WriteHostfileActs, WriteHostfileLauncher
  DEF Good, Acts, SameRest, SameView, SameLauncher
<1>3. ASSUME NEW v, Good(v)
      PROVE  /\ Good(Record(v)) /\ Record(v).st.current = running
             /\ Record(v).st.target = Bag(v)
             /\ Record(v).seen = v.seen /\ Record(v).launcher = v.launcher
  <2>1. v \in Worlds /\ v.st \in JobStatus BY <1>3 DEF Good, Worlds
  <2>2. Bag(v) \in [Worker -> Nat] BY <2>1, AppendIsBag DEF JobStatus
  <2>3. SameStage({Now(v)}, v) BY <1>1, <1>3, CurrentKeeps
  <2>4. SameStage({[Now(v) EXCEPT !.st.target = Bag(v)]}, Now(v))
    <3> HIDE DEF Now, Bag
    <3>1. QED BY <2>2, <2>3, TargetKeeps DEF SameStage
  <2>5. Record(v) = [Now(v) EXCEPT !.st.target = Bag(v)] BY <2>1 DEF Worlds, JobStatus
  <2>6. /\ Record(v).st.current = running /\ Record(v).st.target = Bag(v)
        /\ Record(v).seen = v.seen /\ Record(v).launcher = v.launcher
    BY <2>1 DEF Worlds, JobStatus
  <2> HIDE DEF Record, Now, Bag
  <2>7. QED BY <2>4, <2>5, <2>6 DEF SameStage
<1>4. handleWorkersFailed(w) =
        UNION {IF v.err = "none" THEN ReplaceWorkers(Record(v)) ELSE {v} : v \in hostfile0}
  BY DEF handleWorkersFailed
<1>5. \A v \in hostfile0 : Members(w.st.target) # {} => Bag(v) = w.st.target BY <1>2
<1> HIDE DEF Record, hostfile0, Bag, running
<1>6. ASSUME NEW v \in hostfile0, NEW u \in ReplaceWorkers(Record(v))
      PROVE  /\ u.launcher = w.launcher /\ u.st.current = running
             /\ u.err = "none" /\ u.st = w.st => NeedRestart(w, w.st.target) = {}
  <2>1. /\ u.launcher = w.launcher /\ u.st.current = running
        /\ u.err = "none" /\ u.st.target = Bag(v) => NeedRestart(Record(v), Bag(v)) = {}
    BY <1>2, <1>3, <1>6, ReplaceWorkersRests
  <2>2. NeedRestart(Record(v), w.st.target) = NeedRestart(w, w.st.target)
    BY <1>2, <1>3 DEF NeedRestart
  <2>3. CASE Members(w.st.target) = {} BY <2>1, <2>3 DEF NeedRestart
  <2>4. CASE Members(w.st.target) # {} BY <1>5, <2>1, <2>2, <2>4
  <2>5. QED BY <2>1, <2>3, <2>4
<1>7. QED BY <1>2, <1>4, <1>6 DEF running

\* The workers that the restart policy has replaced are those the properties name.
LEMMA NoneToReplace ==
  ASSUME NEW w, w.seen = pods, NEW t \in [Worker -> Nat], NeedRestart(w, t) = {}, IsPodMap(pods)
  PROVE  Members(t) \cap ToReplace = {}
<1>1. ASSUME NEW i \in Members(t), i \in ToReplace PROVE i \in NeedRestart(w, t)
  <2>1. i \in Worker BY <1>1 DEF Members
  <2>2. i \in DOMAIN pods => pods[i].phase \in PodPhase /\ pods[i].exit \in ExitCodes \cup {0}
    BY DEF IsPodMap, Pod
  <2>3. CASE WorkerPolicy = "Always"
    <3>1. jobRestartPolicy = "Always" BY <2>3 DEF jobRestartPolicy
    <3>2. i \in DOMAIN pods => pods[i].phase \in {"Failed", "Unknown", "Succeeded"}
      BY <1>1, <2>2, <2>3 DEF ToReplace, Alive, PodPhase
    <3>3. QED BY <1>1, <3>1, <3>2 DEF NeedRestart, podNeedRestart
  <2>4. CASE WorkerPolicy = "OnFailure"
    <3>1. jobRestartPolicy = "OnFailure" BY <2>4 DEF jobRestartPolicy
    <3>2. i \in DOMAIN pods /\ pods[i].phase = "Failed"
      BY <1>1, <2>4 DEF ToReplace, FailedWith
    <3>3. QED BY <1>1, <3>1, <3>2 DEF NeedRestart, podNeedRestart
  <2>5. CASE WorkerPolicy = "ExitCode"
    <3>1. jobRestartPolicy = "ExitCode" BY <2>5 DEF jobRestartPolicy
    <3>2. i \in DOMAIN pods /\ pods[i].phase = "Failed" /\ pods[i].exit \in 129..254
      BY <1>1, <2>5 DEF ToReplace, FailedWith
    <3>3. pods[i].exit > 128 /\ pods[i].exit < 255 BY <3>2
    <3>4. QED BY <1>1, <3>1, <3>2, <3>3 DEF NeedRestart, podNeedRestart
  <2>6. QED BY <1>1, <2>3, <2>4, <2>5 DEF ToReplace
<1>2. QED BY <1>1


-----------------------------------------------------------------------------
(* The handlers. One that leaves the newest state as it was has nothing to do. *)

\* The world shows the newest pods and scalers.
Newest(w) ==
    /\ w.pods = pods /\ w.seen = pods /\ w.launcher = launcher /\ w.seenLauncher = launcher
    /\ \A s \in DOMAIN scalers : s \in DOMAIN w.known /\ w.known[s] = scalers[s]
    /\ IsPodMap(pods) /\ DOMAIN w.update = {} /\ w.err = "none"

\* The handler has changed nothing that the caches do not show, and returns no
\* error.
Rests(v, w) ==
    /\ v.st = w.st /\ v.err = "none"
    /\ v.pods = w.pods /\ v.launcher = v.seenLauncher /\ v.seen = w.seen

\* What NoLostWakeup is proved under: a status that could not be written is not
\* tried again, and a launcher that is gone is noticed by these policies only.
Reliable == "apiError" \notin Faults /\ LauncherPolicy \in {"Always", "Never"}

LEMMA syncLauncherStateRests ==
  ASSUME Reliable, NEW w \in Worlds, Newest(w), w.st.phase \notin {"Succeeded", "Failed"},
         NEW v \in syncLauncherState(w), v.st = w.st, v.launcher = w.launcher
  PROVE  /\ launcher \in {"Pending", "Running"}
         /\ launcher = "Running" => "Running" \in w.st.conds \/ w.st.phase = "Running"
<1> DEFINE To(c) == [w EXCEPT !.st = updateStatus(w.st, c)]
<1>1. w.st \in JobStatus /\ w.seenLauncher = launcher /\ w.launcher = launcher
      /\ launcher \in LauncherState
  BY DEF Worlds, Newest
<1>2. ASSUME NEW c PROVE To(c).st.phase = c
  <2> DEFINE st == updateStatus(w.st, c)
  <2>1. st.phase = c BY <1>1 DEF updateStatus, updateJobConditions, JobStatus
  <2> HIDE DEF st
  <2>2. [w EXCEPT !.st = st].st = st BY StatusStore
  <2>3. QED BY <2>1, <2>2 DEF st
<1>3. ASSUME NEW u \in Worlds PROVE Failed(u).st.phase = "Failed"
  <2>1. Failed(u).st = updateStatus(u.st, "Failed") /\ u.st \in JobStatus
    BY <1>3, FailedDoes DEF Worlds
  <2>2. QED BY <2>1 DEF updateStatus, updateJobConditions, JobStatus
<1>4. launcher # "None"
  <2>1. SUFFICES ASSUME launcher = "None" PROVE FALSE OBVIOUS
  <2>2. v \in LauncherGone(w) BY <1>1, <2>1 DEF syncLauncherState
  <2>3. Fault(w, "apiError") = {} BY DEF Fault, Reliable
  <2>4. CreateLauncher(w) = {[w EXCEPT !.launcher = "Pending"]}
    BY <1>1, <2>1, <2>3 DEF CreateLauncher
  <2>5. [w EXCEPT !.launcher = "Pending"].launcher = "Pending"
        /\ [w EXCEPT !.launcher = "Pending"] \in Worlds
    BY DEF Worlds, LauncherState
  <2>6. v.launcher = "Pending" \/ v.st.phase = "Failed"
    BY <1>3, <2>2, <2>4, <2>5 DEF LauncherGone, Reliable
  <2>7. QED BY <1>1, <2>1, <2>6
<1>5. launcher = "Succeeded" => v = To("Succeeded") BY <1>1 DEF syncLauncherState
<1>6. launcher = "Failed" => v = To("Failed") BY <1>1 DEF syncLauncherState
<1>7. launcher = "Running" /\ "Running" \notin w.st.conds => v = To("Running")
  BY <1>1 DEF syncLauncherState
<1> HIDE DEF To
<1>8. QED BY <1>1, <1>2, <1>4, <1>5, <1>6, <1>7 DEF LauncherState

LEMMA waitWorkersRunningRests ==
  ASSUME NEW w, Good(w), Unfinished(w.st), "WorkersCreated" \in w.st.conds,
         "WorkersReady" \notin w.st.conds, Newest(w),
         NEW v \in waitWorkersRunning(w), Rests(v, w)
  PROVE  WaitsForWorkers(w.st)
<1> DEFINE Done(u) == [u EXCEPT !.st = updateJobConditions(u.st, "WorkersReady")]
           Ready(u) == u.err = "none" /\ Cardinality(u.st.current) >= Replicas
<1>1. w \in Worlds /\ w.st \in JobStatus BY DEF Good, Worlds
<1>2. PICK u \in handleWorkersFailed(w) : v = IF Ready(u) THEN Done(u) ELSE u
  BY DEF waitWorkersRunning
<1>3. /\ u.err = "none" => u.st.current = Running(w.seen)
      /\ u \in Worlds /\ u.st \in JobStatus /\ u.st.conds = w.st.conds
  BY handleWorkersFailedDoes, handleWorkersFailedRests DEF Good, Worlds, SameProgress
<1>4. ~Ready(u)
  <2>1. SUFFICES ASSUME Ready(u) PROVE FALSE OBVIOUS
  <2> DEFINE st == updateJobConditions(u.st, "WorkersReady")
  <2>2. st.conds = setCondition(u.st.conds, "WorkersReady")
    BY <1>3 DEF updateJobConditions, JobStatus
  <2>3. "WorkersReady" \in st.conds BY <1>3, <2>2 DEF setCondition, Unfinished
  <2> HIDE DEF st
  <2>4. [u EXCEPT !.st = st].st = st BY <1>3, StatusStore
  <2>5. v.st = st BY <1>2, <2>1, <2>4 DEF st
  <2>6. QED BY <2>3, <2>5 DEF Rests
<1>5. v = u /\ v.err = "none" /\ v.st = w.st BY <1>2, <1>4 DEF Rests
<1>6. v.st.current = Running(pods) BY <1>3, <1>5 DEF Newest
<1>7. ~(Cardinality(Running(pods)) >= Replicas) BY <1>4, <1>5, <1>6
<1>8. Cardinality(Running(pods)) \in Nat
  <2>1. Running(pods) \subseteq 0..MaxWorker BY <1>1, <1>5, <1>6 DEF JobStatus, Worker
  <2>2. 0 \in Int /\ MaxWorker \in Int BY NumbersAssumption
  <2>3. IsFiniteSet(0..MaxWorker) BY <2>2, FS_Interval
  <2>4. IsFiniteSet(Running(pods)) BY <2>1, <2>3, FS_Subset
  <2>5. QED BY <2>4, FS_CardinalityType
<1>9. QED BY <1>7, <1>8, NumbersAssumption DEF WaitsForWorkers

LEMMA TookChanges ==
  ASSUME NEW st \in JobStatus, NEW new, NEW c, Unfinished(st), st.phase # "Failed",
         c \notin st.conds, Took(new, st, c)
  PROVE  new # st
  BY DEF Took, Unfinished, setCondition

LEMMA doStepsRests ==
  ASSUME Reliable, NEW w, Good(w), Unfinished(w.st), w.st.phase = "Created", Early(w.st),
         Newest(w), NEW v \in doSteps(w), Rests(v, w)
  PROVE  WaitsForWorkers(w.st) \/ WaitsForLauncher(w.st)
<1>1. w \in Worlds /\ w.st \in JobStatus /\ v.st = w.st BY DEF Good, Worlds, Rests
<1>2. CASE "WorkersCreated" \notin w.st.conds
  <2>1. Took(v.st, w.st, "WorkersCreated")
    BY <1>2, createTrainingJobWorkersDoes DEF doSteps
  <2>2. QED BY <1>1, <1>2, <2>1, TookChanges
<1>3. CASE "WorkersCreated" \in w.st.conds /\ "WorkersReady" \notin w.st.conds
  BY <1>3, waitWorkersRunningRests DEF doSteps
<1>4. CASE /\ {"WorkersCreated", "WorkersReady"} \subseteq w.st.conds
           /\ "LauncherCreated" \notin w.st.conds
  <2>1. Took(v.st, w.st, "LauncherCreated") BY <1>4, createLauncherDoes DEF doSteps
  <2>2. QED BY <1>1, <1>4, <2>1, TookChanges
<1>5. CASE {"WorkersCreated", "WorkersReady", "LauncherCreated"} \subseteq w.st.conds
  <2>1. "Running" \notin w.st.conds BY DEF Early
  <2>2. v \in syncLauncherState(w) BY <1>5, <2>1 DEF doSteps
  <2>3. v.launcher = w.launcher
    BY <1>1, <2>2, syncLauncherStateDoes DEF Rests, SameView, Newest
  <2>4. launcher = "Pending" BY <1>1, <2>1, <2>2, <2>3, syncLauncherStateRests
  <2>5. QED BY <1>5, <2>4 DEF WaitsForLauncher
<1>6. QED BY <1>2, <1>3, <1>4, <1>5


LEMMA CreatedRests ==
  ASSUME Reliable, NEW w, Good(w), w.st.phase \in {"New", "Created"}, Early(w.st), Newest(w),
         NEW v \in doSteps(initializeJob(w)), Rests(v, w)
  PROVE  SameView(v, w) /\ (WaitsForWorkers(w.st) \/ WaitsForLauncher(w.st))
<1> DEFINE u == initializeJob(w)
<1>1. w \in Worlds /\ w.st \in JobStatus /\ v.st = w.st BY DEF Good, Worlds, Rests
<1>2. Good(u) /\ Unfinished(u.st) BY initializeJobGood
<1>3. SameView(v, w) BY <1>1, <1>2, doStepsDoes, initializeJobDoes DEF SameView
<1>4. CASE w.st.conds = {}
  <2>1. u.st.conds = {"Created"} BY <1>1, <1>4, initializeJobDoes
  <2> HIDE DEF u
  <2>2. v \in createTrainingJobWorkers(u) BY <2>1 DEF doSteps, u
  <2>3. Took(v.st, u.st, "WorkersCreated") BY <1>2, <2>2, createTrainingJobWorkersDoes
  <2>4. v.st.conds # {} BY <2>1, <2>3 DEF Took, setCondition
  <2>5. QED BY <1>1, <1>3, <1>4, <2>4
<1>5. CASE w.st.conds # {}
  <2>1. u = w BY <1>5 DEF initializeJob
  <2>2. w.st.phase = "Created" BY <1>5 DEF Early
  <2>3. QED BY <1>2, <1>3, <2>1, <2>2, doStepsRests
<1>6. QED BY <1>4, <1>5

LEMMA RunningRests ==
  ASSUME Reliable, NEW w, Good(w), w.st.phase = "Running", Newest(w),
         NEW v \in reconcileJobRunning(w), Rests(v, w)
  PROVE  SameView(v, w) /\ RunsOn(w.st)
<1>1. w \in Worlds /\ w.st \in JobStatus /\ v.st = w.st /\ v.err = "none" /\ DOMAIN w.update = {}
  BY DEF Good, Worlds, Rests, Newest
<1>2. Unfinished(w.st) /\ {"Running", "LauncherCreated"} \subseteq w.st.conds
  BY LivePhaseIsUnfinished DEF Good, Consistent, StepOrder
<1>3. PICK u \in syncLauncherState(w) : \E d \in handleWorkersFailed(u) :
        v \in IF d.err = "none" /\ d.st.phase = "Running" THEN setTrainingJobScaler(d) ELSE {d}
  BY DEF reconcileJobRunning
<1>4. PICK d \in handleWorkersFailed(u) :
        v \in IF d.err = "none" /\ d.st.phase = "Running" THEN setTrainingJobScaler(d) ELSE {d}
  BY <1>3
<1>5. /\ Good(u) /\ Synced(u.st, w.st) /\ SameStore(u, w) /\ SameView(u, w)
      /\ u.st = w.st \/ isFinished(u.st)
  BY <1>1, <1>2, syncLauncherStateGood, syncLauncherStateDoes
<1>6. /\ Good(d) /\ SameProgress(d, u) /\ SameStore(d, u) /\ SameView(d, u)
      /\ d.launcher = u.launcher
      /\ d.err = "none" => d.st.current = Running(u.seen)
      /\ d.err = "none" /\ d.st = u.st => NeedRestart(u, u.st.target) = {}
  BY <1>5, handleWorkersFailedDoes, handleWorkersFailedRests
<1>7. d.err = "none" /\ d.st.phase = "Running" BY <1>1, <1>4
<1>8. v \in setTrainingJobScaler(d) BY <1>4, <1>7
<1>9. v = d /\ availableScalers(d) = {}
  <2>1. Unfinished(d.st) /\ "Running" \in d.st.conds
    BY <1>6, <1>7, LivePhaseIsUnfinished DEF Good, Consistent, StepOrder
  <2>2. CanScale(d) /\ DOMAIN d.update = {} BY <1>1, <1>5, <1>6, <2>1 DEF CanScale, SameStore
  <2>3. QED BY <1>1, <1>8, <2>2, setTrainingJobScalerDoes
<1>10. d.st = w.st BY <1>1, <1>9
<1>11. u.st = w.st
  BY <1>2, <1>5, <1>6, <1>10 DEF SameProgress, isFinished, Unfinished
<1>12. SameView(v, w) /\ u.launcher = w.launcher
  BY <1>5, <1>6, <1>9 DEF Rests, SameView, Newest
<1>13. launcher = "Running" \/ launcher = "Pending"
  BY <1>1, <1>3, <1>11, <1>12, syncLauncherStateRests
<1>14. w.st.current = Running(pods)
  BY <1>5, <1>6, <1>7, <1>10 DEF SameView, Newest
<1>15. Members(w.st.target) \cap ToReplace = {}
  <2>1. NeedRestart(u, w.st.target) = {} BY <1>6, <1>7, <1>10, <1>11
  <2>2. u.seen = pods /\ IsPodMap(pods) BY <1>5 DEF SameView, Newest
  <2>3. w.st.target \in [Worker -> Nat] BY <1>1 DEF JobStatus
  <2>4. QED BY <2>1, <2>2, <2>3, NoneToReplace
<1>16. \A s \in DOMAIN scalers : isScaleFinished(scalers[s])
  BY <1>5, <1>6, <1>9 DEF availableScalers, SameStore, Newest
<1>17. QED BY <1>12, <1>13, <1>14, <1>15, <1>16 DEF RunsOn

LEMMA ScalingRests ==
  ASSUME Reliable, NEW w, Good(w), w.st.phase = "Scaling", Newest(w),
         NEW v \in executeScaling(w), Rests(v, w)
  PROVE  FALSE
<1>1. /\ w \in Worlds /\ w.st \in JobStatus /\ v.st = w.st /\ v.err = "none"
      /\ v.seen = w.seen /\ v.pods = w.pods /\ DOMAIN w.update = {}
  BY DEF Good, Worlds, Rests, Newest
<1>2. /\ Unfinished(w.st) /\ {"Running", "LauncherCreated"} \subseteq w.st.conds
      /\ w.st.scaler # NoScaler
  BY LivePhaseIsUnfinished DEF Good, Consistent, StepOrder, ScalingHasScaler
<1>3. PICK u \in syncLauncherState(w) : v \in ExecuteScaler(u) BY DEF executeScaling
<1>4. /\ Good(u) /\ SameStore(u, w) /\ SameView(u, w) /\ u.st.scaler = w.st.scaler
      /\ u.st = w.st \/ isFinished(u.st)
  BY <1>1, <1>2, syncLauncherStateGood, syncLauncherStateDoes
<1>5. \/ isFinished(u.st) /\ v = u
      \/ ScaledFrom(v, u, u.st.scaler)
      \/ v.st.phase = "Running"
  BY <1>1, <1>2, <1>3, <1>4, ExecuteScalerDoes DEF SameStore
<1>6. ~(isFinished(u.st) /\ v = u) BY <1>1, <1>2 DEF isFinished, Unfinished
<1>7. ~ScaledFrom(v, u, u.st.scaler)
  BY <1>1, <1>4 DEF ScaledFrom, Lasting, SameView, Newest, Reliable
<1>8. QED BY <1>1, <1>5, <1>6, <1>7

LEMMA DeletionRests ==
  ASSUME Reliable, NEW w \in Worlds, Newest(w), NEW v \in DeleteAllWorkerPods(w)
  PROVE  /\ v.launcher = launcher /\ v.seenLauncher = launcher
         /\ v.pods = w.pods => pods = EmptyMap
<1>1. v.pods = Without(w.pods, Worker \cap DOMAIN w.seen) /\ v.launcher = w.launcher
  BY DeletedAreGone DEF DeleteAllWorkerPods, Reliable
<1>2. SameView(v, w) BY DeleteAllWorkerPodsActs DEF Acts
<1>3. ASSUME v.pods = w.pods PROVE pods = EmptyMap
  <2>1. DOMAIN pods = DOMAIN pods \ (Worker \cap DOMAIN pods)
    BY <1>1, <1>3, WithoutDomain DEF Newest
  <2>2. DOMAIN pods \subseteq Worker /\ pods = [i \in DOMAIN pods |-> pods[i]]
    BY DEF Newest, IsPodMap
  <2>3. DOMAIN pods = {} BY <2>1, <2>2
  <2>4. QED BY <2>2, <2>3 DEF EmptyMap
<1>4. QED BY <1>1, <1>2, <1>3 DEF SameView, Newest

LEMMA cleanupRests ==
  ASSUME Reliable, NEW w, Good(w), Newest(w), NEW v \in cleanup(w), Rests(v, w)
  PROVE  SameView(v, w) /\ Cleaned
<1>1. w \in Worlds BY DEF Good
<1>2. SameView(v, w) BY <1>1, cleanupActs DEF Acts
<1>3. QED BY <1>1, <1>2, DeletionRests DEF cleanup, Cleaned, Rests

LEMMA restartJobRests ==
  ASSUME Reliable, NEW w, Good(w), Newest(w), NEW v \in restartJob(w), Rests(v, w)
  PROVE  SameView(v, w) /\ ~needRestartJob(w.st) /\ Cleaned
<1>1. w \in Worlds /\ w.st \in JobStatus BY DEF Good, Worlds
<1>2. ASSUME needRestartJob(w.st) PROVE FALSE
  <2>1. PICK d : Good(d) /\ d.st = resetJobStatus(w.st) /\ v \in doSteps(d)
    BY <1>2, restartJobDoes
  <2>2. v.st.restarts = w.st.restarts + 1 BY <1>1, <2>1, doStepsDoes, resetJobStatusIs
  <2>3. QED BY <1>1, <2>2 DEF Rests, JobStatus
<1>3. v \in cleanup(w) BY <1>2 DEF restartJob
<1>4. QED BY <1>2, <1>3, cleanupRests

LEMMA cleanupAllRests ==
  ASSUME Reliable, NEW w, Good(w), Newest(w), NEW v \in cleanupAll(w), Rests(v, w)
  PROVE  SameView(v, w) /\ TornDown
<1>1. w \in Worlds BY DEF Good
<1>2. PICK d \in DeleteAllWorkerPods(w) : v \in DeleteLauncher(d) BY DEF cleanupAll
<1>3. /\ d \in Worlds /\ d.launcher = launcher /\ d.seenLauncher = launcher
      /\ d.pods = w.pods => pods = EmptyMap
  BY <1>1, <1>2, DeletionRests, DeleteAllWorkerPodsActs DEF Acts
<1>4. Fault(d, "apiError") = {} BY DEF Fault, Reliable
<1>5. v.pods = d.pods /\ v.launcher = "None"
  <2>1. LET x == [d EXCEPT !.launcher = "None", !.hostfile = {}]
        IN  x.pods = d.pods /\ x.launcher = "None"
    BY <1>3 DEF Worlds
  <2>2. QED BY <1>2, <1>3, <1>4, <2>1 DEF DeleteLauncher
<1>6. SameView(v, w) BY <1>1, cleanupAllActs DEF Acts
<1>7. QED BY <1>3, <1>5, <1>6 DEF Rests, Newest, TornDown, SameView


-----------------------------------------------------------------------------
(* The inductive invariant. NoLostWakeup speaks of the controller at rest; the *)
(* reconcile before it has to remember that nothing was left undone.           *)

WakeInv ==
    /\ pc # "idle" /\ ~queued => read = jobCache.status
    /\ pc = "handle" => mine = read \/ mine = updateStatus(read, "Suspended")
    /\ pc = "writeScaler" /\ ~queued /\ lag = {} => DOMAIN update \subseteq DOMAIN scalers
    /\ pc = "writeJob" /\ mine = read /\ ~retry /\ ~queued /\ lag = {} => NothingToDo
    /\ NoLostWakeup

\* What there is to do depends on these alone.
LEMMA SameToDo == ASSUME UNCHANGED <<job, scalers, pods, launcher>> PROVE NothingToDo' <=> NothingToDo
  BY DEF NothingToDo, WaitsForWorkers, WaitsForLauncher, RunsOn, Cleaned, TornDown, ToReplace,
     FailedWith, Alive

LEMMA ObservedNewest ==
  ASSUME IInv, CachesAgree, lag = {}
  PROVE  Newest(Observed) /\ job = jobCache
<1>1. /\ podCache = pods /\ launcherCache = launcher /\ jobCache = job
      /\ \A s \in Scalers : ScalerAgrees(s)
  BY DEF CachesAgree
<1>2. DOMAIN scalers \subseteq Scalers /\ IsPodMap(pods) BY DEF IInv, TypeOK, IsScalerMap
<1>3. DOMAIN EmptyMap = {} BY DEF EmptyMap
<1>4. QED BY <1>1, <1>2, <1>3 DEF Newest, Observed, ScalerAgrees

\* A handler whose reconcile will write nothing and be followed by none.
Quiet == mine' = read' /\ ~retry' /\ ~queued' /\ lag' = {}

LEMMA LeaveRests ==
  ASSUME IInv, CachesAgree, NEW w, Leave(w), Quiet, w.st = mine
  PROVE  /\ Rests(w, Observed) /\ Newest(Observed)
         /\ ~queued /\ lag = {}
         /\ SameView(w, Observed) => UNCHANGED <<job, scalers, pods, launcher>>
<1>1. lag = {} /\ ~queued /\ w.err = "none" /\ w.seen = podCache
      /\ <<w.seen, w.seenLauncher>> = <<w.pods, w.launcher>>
  BY DEF Leave, Quiet
<1>2. Newest(Observed) BY <1>1, ObservedNewest
<1>3. podCache = pods /\ launcherCache = launcher BY <1>1 DEF CachesAgree
<1>4. w.seen = w.pods /\ w.seenLauncher = w.launcher BY <1>1
<1>5. Rests(w, Observed) BY <1>1, <1>3, <1>4 DEF Rests, Observed
<1>6. UNCHANGED <<job, scalers>> /\ pods' = w.pods /\ launcher' = w.launcher BY DEF Leave
<1>7. ASSUME SameView(w, Observed) PROVE UNCHANGED <<job, scalers, pods, launcher>>
  BY <1>1, <1>3, <1>4, <1>6, <1>7 DEF SameView, Observed
<1>8. QED BY <1>1, <1>2, <1>5, <1>7

LEMMA HandleQuiet ==
  ASSUME Reliable, IInv, CachesAgree, CopyInv, WakeInv, Handle, Quiet
  PROVE  NothingToDo'
<1> DEFINE o == Observed
<1>1. Good(o) /\ o.st = mine /\ Early(o.st) BY ObservedGood DEF Observed, CopyInv, Copies
<1>2. pc = "handle" /\ read' = read BY DEF Handle, HandleCreated, HandleRunning, HandleScaling,
         HandleSucceeded, HandleFailed, HandleSuspended, AtHandler, Leave
<1>3. mine = read \/ mine.phase = "Suspended"
  <2>1. read \in JobStatus BY DEF IInv, TypeOK
  <2>2. updateStatus(read, "Suspended").phase = "Suspended"
    BY <2>1 DEF updateStatus, updateJobConditions, JobStatus
  <2>3. QED BY <1>2, <2>2 DEF WakeInv
<1>4. ASSUME NEW w, Leave(w), mine.phase # "Suspended" PROVE w.st = mine
  BY <1>2, <1>3, <1>4 DEF Leave, Quiet
<1>5. ASSUME NEW w, Leave(w), w.st = mine
      PROVE  /\ Rests(w, o) /\ Newest(o) /\ mine = job.status
             /\ SameView(w, o) => UNCHANGED <<job, scalers, pods, launcher>>
  <2>1. /\ Rests(w, o) /\ Newest(o) /\ ~queued /\ lag = {}
        /\ SameView(w, o) => UNCHANGED <<job, scalers, pods, launcher>>
    BY <1>5, LeaveRests
  <2>2. mine = read BY <1>2, <1>5 DEF Leave, Quiet
  <2>3. read = jobCache.status /\ jobCache = job
    BY <1>2, <2>1, ObservedNewest DEF WakeInv
  <2>4. QED BY <2>1, <2>2, <2>3
<1> HIDE DEF o
<1>6. ASSUME NEW w, SameView(w, o), Leave(w), w.st = mine, NothingToDo PROVE NothingToDo'
  BY <1>5, <1>6, SameToDo
<1>7. ASSUME HandleCreated PROVE NothingToDo'
  <2>1. PICK w \in doSteps(initializeJob(o)) : Leave(w) BY <1>7 DEF HandleCreated, o
  <2>2. mine.phase \in {"New", "Created"} BY <1>7 DEF HandleCreated, AtHandler
  <2>3. w.st = mine BY <1>4, <2>1, <2>2
  <2>4. SameView(w, o) /\ (WaitsForWorkers(mine) \/ WaitsForLauncher(mine))
    BY <1>1, <1>5, <2>1, <2>2, <2>3, CreatedRests
  <2>5. NothingToDo BY <1>5, <2>1, <2>2, <2>3, <2>4 DEF NothingToDo
  <2>6. QED BY <1>6, <2>1, <2>3, <2>4, <2>5
<1>8. ASSUME HandleRunning PROVE NothingToDo'
  <2>1. PICK w \in reconcileJobRunning(o) : Leave(w) BY <1>8 DEF HandleRunning, o
  <2>2. mine.phase = "Running" BY <1>8 DEF HandleRunning, AtHandler
  <2>3. w.st = mine BY <1>4, <2>1, <2>2
  <2>4. SameView(w, o) /\ RunsOn(mine) BY <1>1, <1>5, <2>1, <2>2, <2>3, RunningRests
  <2>5. NothingToDo BY <1>5, <2>1, <2>2, <2>3, <2>4 DEF NothingToDo
  <2>6. QED BY <1>6, <2>1, <2>3, <2>4, <2>5
<1>9. ~HandleScaling
  <2>1. SUFFICES ASSUME HandleScaling PROVE FALSE OBVIOUS
  <2>2. PICK w \in executeScaling(o) : Leave(w) BY <2>1 DEF HandleScaling, o
  <2>3. mine.phase = "Scaling" BY <2>1 DEF HandleScaling, AtHandler
  <2>4. w.st = mine BY <1>4, <2>2, <2>3
  <2>5. QED BY <1>1, <1>5, <2>2, <2>3, <2>4, ScalingRests
<1>10. ASSUME HandleSucceeded PROVE NothingToDo'
  <2>1. PICK w \in cleanup(o) : Leave(w) BY <1>10 DEF HandleSucceeded, o
  <2>2. mine.phase = "Succeeded" BY <1>10 DEF HandleSucceeded, AtHandler
  <2>3. w.st = mine BY <1>4, <2>1, <2>2
  <2>4. SameView(w, o) /\ Cleaned BY <1>1, <1>5, <2>1, <2>3, cleanupRests
  <2>5. NothingToDo BY <1>5, <2>1, <2>2, <2>3, <2>4 DEF NothingToDo
  <2>6. QED BY <1>6, <2>1, <2>3, <2>4, <2>5
<1>11. ASSUME HandleFailed PROVE NothingToDo'
  <2>1. PICK w \in restartJob(o) : Leave(w) BY <1>11 DEF HandleFailed, o
  <2>2. mine.phase = "Failed" BY <1>11 DEF HandleFailed, AtHandler
  <2>3. w.st = mine BY <1>4, <2>1, <2>2
  <2>4. SameView(w, o) /\ ~needRestartJob(mine) /\ Cleaned
    BY <1>1, <1>5, <2>1, <2>3, restartJobRests
  <2>5. NothingToDo BY <1>5, <2>1, <2>2, <2>3, <2>4 DEF NothingToDo
  <2>6. QED BY <1>6, <2>1, <2>3, <2>4, <2>5
<1>12. ASSUME HandleSuspended PROVE NothingToDo'
  <2>1. PICK w \in cleanupAll(o) : Leave(w) BY <1>12 DEF HandleSuspended, o
  <2>2. mine.phase = "Suspended" BY <1>12 DEF HandleSuspended, AtHandler
  <2>3. w.st = mine BY <1>1, <2>1, cleanupAllActs DEF Acts, SameRest, Good
  <2>4. SameView(w, o) /\ TornDown BY <1>1, <1>5, <2>1, <2>3, cleanupAllRests
  <2>5. NothingToDo BY <1>5, <2>1, <2>2, <2>3, <2>4 DEF NothingToDo
  <2>6. QED BY <1>6, <2>1, <2>3, <2>4, <2>5
<1>13. QED BY <1>7, <1>8, <1>9, <1>10, <1>11, <1>12 DEF Handle


-----------------------------------------------------------------------------
(* The steps. Whatever changes the cluster is an event that queues the job, or *)
(* one that an informer still holds back.                                      *)

\* Another reconcile will follow.
Woken == queued' \/ (lag' # {} /\ jobCache' = jobCache /\ ~queued)

LEMMA OthersWake ==
  ASSUME IInv, Sync \/ Environment PROVE UNCHANGED local /\ Woken
<1>1. ASSUME NEW k, NEW s \in k, Publish(k) PROVE queued' \/ (lag' # {} /\ ~queued)
  BY <1>1 DEF Publish
<1>2. ASSUME PodsChanged PROVE Woken BY <1>1, <1>2 DEF PodsChanged, Woken
<1>3. ASSUME NEW s, ScalerChanged(s) PROVE Woken BY <1>1, <1>3 DEF ScalerChanged, Woken
<1>4. ASSUME JobChanged PROVE Woken BY <1>4 DEF JobChanged, Woken, Publish
<1>5. ASSUME Sync PROVE UNCHANGED local /\ Woken
  BY <1>5 DEF Sync, SyncJob, SyncPods, SyncScaler, Woken
<1>6. ASSUME NEW i \in Worker, WorkerRuns(i) \/ WorkerEnds(i) \/ WorkerLost(i)
      PROVE  UNCHANGED local /\ Woken
  BY <1>2, <1>6 DEF WorkerRuns, WorkerEnds, WorkerLost, ChangePods
<1>7. ASSUME LauncherRuns \/ LauncherEnds \/ LauncherLost PROVE UNCHANGED local /\ Woken
  BY <1>2, <1>7 DEF LauncherRuns, LauncherEnds, LauncherLost, ChangeLauncher
<1>8. ASSUME NEW s \in Scalers, SubmitScaler(s) \/ DeleteScaler(s) PROVE UNCHANGED local /\ Woken
  BY <1>3, <1>8 DEF SubmitScaler, DeleteScaler
<1>9. ASSUME Suspend PROVE UNCHANGED local /\ Woken BY <1>4, <1>9 DEF Suspend
<1>10. ASSUME OtherEvent PROVE UNCHANGED local /\ Woken BY <1>10 DEF OtherEvent, Woken
<1>11. QED BY <1>5, <1>6, <1>7, <1>8, <1>9, <1>10 DEF Environment

LEMMA HandleWake ==
  ASSUME Reliable, IInv, CachesAgree, CopyInv, WakeInv, Handle PROVE WakeInv'
<1>1. PICK w : Saves(w, Observed) /\ Leave(w) BY HandleLeaves
<1>2. /\ UNCHANGED <<scalers, jobCache, read>> /\ update' = w.update
      /\ pc' \in {"writeJob", "writeScaler"} /\ lag \subseteq lag' /\ (queued => queued')
  BY <1>1 DEF Leave
<1>3. pc = "handle" BY DEF Handle, HandleCreated, HandleRunning, HandleScaling, HandleSucceeded,
        HandleFailed, HandleSuspended, AtHandler
<1>4. ~queued' => read' = jobCache'.status BY <1>2, <1>3 DEF WakeInv
<1>5. ASSUME lag' = {} PROVE DOMAIN update' \subseteq DOMAIN scalers'
  <2>1. lag = {} BY <1>2, <1>5
  <2>2. w.known = scalerCache BY <1>1 DEF Saves, Observed
  <2>3. DOMAIN scalerCache \subseteq Scalers BY DEF IInv, TypeOK, IsScalerMap
  <2>4. \A s \in Scalers : s \in DOMAIN scalerCache <=> s \in DOMAIN scalers
    BY <2>1 DEF CachesAgree, ScalerAgrees
  <2>5. QED BY <1>1, <1>2, <2>2, <2>3, <2>4 DEF Saves
<1>6. mine' = read' /\ ~retry' /\ ~queued' /\ lag' = {} => NothingToDo'
  BY HandleQuiet DEF Quiet
<1>7. ~Quiescent' BY <1>2 DEF Quiescent
<1>8. pc' # "handle" BY <1>2
<1>9. QED BY <1>4, <1>5, <1>6, <1>7, <1>8 DEF WakeInv, NoLostWakeup

LEMMA WriteScalerWake ==
  ASSUME Reliable, IInv, WakeInv, WriteScaler PROVE WakeInv'
<1>1. pc = "writeScaler" /\ pc' = "writeJob" /\ UNCHANGED read BY DEF WriteScaler
<1>2. ~MayFail("apiError") BY DEF MayFail, Reliable
<1>3. PICK s \in DOMAIN update :
        \/ ScalerChanged(s)
        \/ s \notin DOMAIN scalers /\ UNCHANGED <<cache, queued>>
  BY <1>2 DEF WriteScaler
<1>4. queued' \/ lag' # {}
  <2>1. CASE ScalerChanged(s) BY <2>1 DEF ScalerChanged, Publish
  <2>2. CASE s \notin DOMAIN scalers /\ UNCHANGED <<cache, queued>>
    BY <1>1, <2>2 DEF WakeInv, cache
  <2>3. QED BY <1>3, <2>1, <2>2
<1>5. jobCache' = jobCache /\ (queued => queued')
  <2>1. ASSUME ScalerChanged(s) PROVE jobCache' = jobCache /\ (queued => queued')
    BY <2>1 DEF ScalerChanged, Publish
  <2>2. ASSUME UNCHANGED <<cache, queued>> PROVE jobCache' = jobCache /\ (queued => queued')
    BY <2>2 DEF cache
  <2>3. QED BY <1>3, <2>1, <2>2
<1>6. ~queued' => read' = jobCache'.status BY <1>1, <1>5 DEF WakeInv
<1>7. pc' # "handle" /\ pc' # "writeScaler" /\ ~Quiescent' BY <1>1 DEF Quiescent
<1>8. QED BY <1>4, <1>6, <1>7 DEF WakeInv, NoLostWakeup

LEMMA WriteJobWake ==
  ASSUME Reliable, IInv, WakeInv, WriteJob PROVE WakeInv'
<1>1. pc = "writeJob" /\ pc' = "idle" /\ UNCHANGED <<scalers, pods, launcher>>
  BY DEF WriteJob, EndReconcile
<1>2. ~MayFail("apiError") BY DEF MayFail, Reliable
<1>3. ASSUME ~queued', lag' = {} PROVE NothingToDo'
  <2>1. /\ mine = read \/ "job" \in lag
        /\ ~queued /\ ~retry /\ UNCHANGED <<job, lag>>
    BY <1>2, <1>3 DEF WriteJob
  <2>2. NothingToDo BY <1>1, <1>3, <2>1 DEF WakeInv
  <2>3. QED BY <1>1, <2>1, <2>2, SameToDo
<1>4. QED BY <1>1, <1>3 DEF WakeInv, NoLostWakeup, Quiescent

LEMMA WakeInit == Init => WakeInv
  BY DEF Init, WakeInv, NoLostWakeup, Quiescent

LEMMA WakeStep ==
  ASSUME Reliable
  PROVE  IInv /\ CachesAgree /\ CopyInv /\ WakeInv /\ [Next]_vars => WakeInv'
<1> SUFFICES ASSUME IInv, CachesAgree, CopyInv, WakeInv, [Next]_vars PROVE WakeInv' OBVIOUS
<1>1. ASSUME Start PROVE WakeInv'
  <2>1. pc' = "handle" /\ read' = jobCache'.status BY <1>1 DEF Start, cache
  <2>2. mine' = read' \/ mine' = updateStatus(read', "Suspended") BY <1>1 DEF Start
  <2>3. ~Quiescent' BY <2>1 DEF Quiescent
  <2>4. QED BY <2>1, <2>2, <2>3 DEF WakeInv, NoLostWakeup
<1>2. ASSUME Sync \/ Environment PROVE WakeInv'
  <2>1. pc' = pc /\ read' = read /\ mine' = mine /\ Woken BY <1>2, OthersWake DEF local
  <2>2. ~queued' => ~queued /\ jobCache' = jobCache /\ lag' # {} BY <2>1 DEF Woken
  <2>3. pc' # "idle" /\ ~queued' => read' = jobCache'.status BY <2>1, <2>2 DEF WakeInv
  <2>4. pc' = "handle" => mine' = read' \/ mine' = updateStatus(read', "Suspended")
    BY <2>1 DEF WakeInv
  <2>5. QED BY <2>2, <2>3, <2>4 DEF WakeInv, NoLostWakeup, Quiescent
<1>3. ASSUME Crash PROVE WakeInv'
  <2>1. pc' = "idle" /\ queued' BY <1>3 DEF Crash
  <2>2. QED BY <2>1 DEF WakeInv, NoLostWakeup, Quiescent
<1>4. ASSUME UNCHANGED vars PROVE WakeInv'
  <2>1. UNCHANGED <<job, scalers, pods, launcher, jobCache, lag, queued, pc, read, mine, update, retry>>
    BY <1>4 DEF vars, api, cache, local
  <2>2. NothingToDo' <=> NothingToDo BY <2>1, SameToDo
  <2>3. QED BY <2>1, <2>2 DEF WakeInv, NoLostWakeup, Quiescent
<1>5. QED BY <1>1, <1>2, <1>3, <1>4, HandleWake, WriteScalerWake, WriteJobWake
      DEF Next, Reconcile

\* A controller at rest has nothing to do, whatever its informers hold back, however
\* the reconciles, the pods and the users interleave, and through restarts of the
\* operator (trainingjob_controller.go:166-249, 450-462).
THEOREM NoWakeupIsLost == ASSUME Reliable PROVE Spec => []NoLostWakeup
<1>1. IInv /\ CachesAgree /\ CopyInv /\ WakeInv /\ [Next]_vars => WakeInv' BY WakeStep
<1>2. WakeInv => NoLostWakeup BY DEF WakeInv
<1>3. QED BY <1>1, <1>2, Inductive, CachesAreCurrent, CopiesKeep, WakeInit, PTL DEF Spec
=============================================================================
