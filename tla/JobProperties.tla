--------------------------- MODULE JobProperties ---------------------------
(***************************************************************************)
(* What the TrainingJob controller is to guarantee: about the job's status *)
(* in every copy of it, about the cluster when the controller has come to  *)
(* rest, about each step of a scaling, and about what must happen at last. *)
(***************************************************************************)
EXTENDS TrainingJob

-----------------------------------------------------------------------------
(* The status. It is computed from a copy that may be old and written over a *)
(* newer one, so what is said of it is said of every copy.                   *)

Copies == {job.status, jobCache.status, read, mine}

\* The steps of trainingjob_controller.go:390-423 are taken in their order, and
\* only a job that has taken them all runs or scales.
StepOrder(st) ==
    /\ "WorkersReady" \in st.conds => "WorkersCreated" \in st.conds
    /\ "LauncherCreated" \in st.conds => "WorkersReady" \in st.conds
    /\ "Running" \in st.conds => "LauncherCreated" \in st.conds
    /\ st.phase \in {"Running", "Scaling"} => "Running" \in st.conds

StepsInOrder == \A st \in Copies : StepOrder(st)

\* The phase, which picks the handler (trainingjob_controller.go:225-241), agrees
\* with the conditions that say the job is finished (status.go:67-79).
PhaseMatches(st) ==
    /\ "Succeeded" \in st.conds => st.phase \in {"Succeeded", "Suspended"}
    /\ "Failed" \in st.conds => st.phase \in {"Failed", "Suspended"}
    /\ st.phase = "Succeeded" => "Succeeded" \in st.conds
    /\ st.phase = "Failed" => "Failed" \in st.conds

PhasesMatch == \A st \in Copies : PhaseMatches(st)

\* A job that scales names the scaler it executes (scaler.go:208-226); the phase
\* without the name would be dropped by the next reconcile and the scaler lost.
ScalingHasScaler(st) == st.phase = "Scaling" => st.scaler # NoScaler

ScalingScaler == \A st \in Copies : ScalingHasScaler(st)

\* No copy of the status counts more restarts than the backoff limit
\* (trainingjob_controller.go:328-340), though the count may be taken from an
\* old copy.
RestartBound(st) == st.restarts <= BackoffLimit

RestartsBounded == \A st \in Copies : RestartBound(st)

\* What the users see of the job is the life cycle of JobLifecycle: phases in
\* their order, a restart only of a failed job and always counted, nothing after
\* Succeeded (trainingjob_controller.go:204-241, 328-374).
Lifecycle == INSTANCE JobLifecycle WITH
    phase <- job.status.phase, restarts <- job.status.restarts,
    Restartable <- JobPolicy = "OnFailure"

LifecycleSpec == Lifecycle!Spec

\* A job is not set to Failed while its launcher is alive: the errors that
\* worker.go:36-41 and launcher.go:55-60 turn into Failed are no such thing.
FailedByFailure ==
    [][job.status.phase # "Failed" /\ job'.status.phase = "Failed"
       => launcher = "Failed" \/ \E i \in DOMAIN pods : pods[i].phase = "Failed"]_vars

-----------------------------------------------------------------------------
(* The controller at rest: every event was delivered and no reconcile is due. *)

Quiescent == pc = "idle" /\ ~queued /\ lag = {}

Alive(ps) == {i \in DOMAIN ps : ps[i].phase \in {"Pending", "Running"}}

WaitsForWorkers(st) ==
    "WorkersCreated" \in st.conds /\ "WorkersReady" \notin st.conds
    /\ Cardinality(Running(pods)) < Replicas

WaitsForLauncher(st) == "LauncherCreated" \in st.conds /\ launcher = "Pending"

FailedWith(codes) == {i \in DOMAIN pods : pods[i].phase = "Failed" /\ pods[i].exit \in codes}

\* The workers whose restart policy has them replaced.
ToReplace ==
    CASE WorkerPolicy = "Always"    -> Worker \ Alive(pods)
      [] WorkerPolicy = "OnFailure" -> FailedWith(ExitCodes)
      [] WorkerPolicy = "ExitCode"  -> FailedWith(129..254)
      [] OTHER                      -> {}

RunsOn(st) ==
    /\ launcher \notin {"Succeeded", "Failed"}
    /\ LauncherPolicy \in {"Always", "Never"} => launcher # "None"
    /\ st.current = Running(pods)
    /\ Members(st.target) \cap ToReplace = {}
    /\ \A s \in DOMAIN scalers : isScaleFinished(scalers[s])

TornDown == pods = EmptyMap /\ launcher = "None"

Cleaned == CleanPodPolicy = "None" \/ pods = EmptyMap

NothingToDo ==
    LET st == job.status
    IN  CASE st.phase \in {"New", "Created"} -> WaitsForWorkers(st) \/ WaitsForLauncher(st)
          [] st.phase = "Running"   -> RunsOn(st)
          [] st.phase = "Scaling"   -> FALSE
          [] st.phase = "Succeeded" -> Cleaned
          [] st.phase = "Failed"    -> ~needRestartJob(st) /\ Cleaned
          [] st.phase = "Suspended" -> TornDown

\* The controller never rests while it has something to do: no interleaving of
\* reads of stale caches, refused writes and dropped events loses the wakeup of
\* a pending step (trainingjob_controller.go:166-249, which returns no error for
\* a status it could not write, 450-462).
NoLostWakeup == Quiescent => NothingToDo

\* The ConfigMap of the hostfile, made once (worker.go:442-458), lists as many
\* hosts as the job has workers: the launcher is not started on fewer.
HostsComplete == configMap.made => Cardinality(configMap.hosts) >= Replicas

\* Every worker that lives is recorded in TargetWorkers: a replacement or an added
\* worker that the status does not know would never be replaced, and its name
\* would be given again (worker.go:80-169, scaleout.go:92-130).
NoOrphans ==
    Quiescent /\ job.status.phase = "Running" => Alive(pods) \subseteq Members(job.status.target)

Scaled(kind) ==
    {s \in DOMAIN scalers : ScalerSpec[s].kind = kind /\ "ScaleSucceeded" \in scalers[s].conds}

\* With restart policy Always a job keeps its size: one worker for each replica,
\* one more for each ScaleOut of one worker that succeeded, one less for each
\* ScaleIn of one (worker.go:80-169).
FullStrength ==
    Quiescent /\ job.status.phase = "Running" /\ jobRestartPolicy = "Always" =>
        Cardinality(Alive(pods)) >= Replicas + Cardinality(Scaled("out")) - Cardinality(Scaled("in"))

\* The hostfile lists exactly the running workers: "update hostfile when find
\* workers state updated" (worker.go:116).
HostfileUpToDate ==
    Quiescent /\ job.status.phase = "Running" /\ launcher = "Running" => hostfile = Running(pods)

-----------------------------------------------------------------------------
(* Scaling *)

\* A scaler's status only grows, whatever copy a reconcile started from: no
\* condition is taken back, the workers it chose are never exchanged for others,
\* and once it ended it does not change (scaler.go:126-226).
ScalerProgress ==
    [][\A s \in DOMAIN scalers \cap DOMAIN scalers' :
         /\ scalers[s].conds \subseteq scalers'[s].conds
         /\ scalers[s].pods # {} => scalers'[s].pods = scalers[s].pods
         /\ isScaleFinished(scalers[s]) => scalers'[s] = scalers[s]]_vars

InProgress(s) == scalers[s].pods # {} /\ ~isScaleFinished(scalers[s])

\* The scalers of a job are executed one at a time: none starts on its workers
\* before the one that did has ended (scaler.go:18-91).
SerialScaling == \A r, s \in DOMAIN scalers : InProgress(r) /\ InProgress(s) => r = s

\* A step of the handler that executes the scaler s.
Scales(s) ==
    pc = "handle" /\ pc' \in {"writeScaler", "writeJob"} /\ mine.phase = "Scaling" /\ mine.scaler = s

\* "Firstly, it will update the host config": a ScaleIn deletes no worker that the
\* launcher's hostfile still lists (README.md:35-40, scalein.go:16-76).
ScaledInAfterHostfile ==
    [][\A s \in Scalers : Scales(s) /\ ScalerSpec[s].kind = "in" /\ launcher = "Running"
         => (DOMAIN pods \ DOMAIN pods') \cap hostfile' = {}]_vars

\* "After worker's resources ready, then update the hostFile": a ScaleOut adds no
\* worker to the hostfile that does not run (README.md:47-48, scaleout.go:15-67).
HostfileAfterRunning ==
    [][\A s \in Scalers : Scales(s) => hostfile' \ hostfile \subseteq Running(podCache)]_vars

\* A ScaleOut never has more workers than its count, though it is executed by many
\* reconciles that each create what they miss (README.md:45, scaleout.go:92-130).
ScaleOutAddsItsCount ==
    \A s \in DOMAIN scalers : ScalerSpec[s].kind = "out" =>
        Cardinality({i \in DOMAIN pods : pods[i].scaler = s}) <= ScalerSpec[s].count

\* A ScaleIn by names deletes workers of those names only (README.md:33,
\* scalein.go:136-167).
ScaleInTakesOnlyNamed ==
    [][\A s \in Scalers :
         Scales(s) /\ ScalerSpec[s].kind = "in" /\ ScalerSpec[s].by = "names"
         => DOMAIN pods \ DOMAIN pods' \subseteq ScalerSpec[s].names]_vars

-----------------------------------------------------------------------------
(* Liveness *)

\* A suspended job loses its pods and stays without, whatever was under way
\* (trainingjob_controller.go:251-259, 310-326).
SuspendedIsTornDown == job.suspended ~> []TornDown

\* The pods of a job that succeeded are cleaned up (trainingjob_controller.go:291-309).
SucceededIsCleaned ==
    job.status.phase = "Succeeded" ~> (Cleaned \/ job.status.phase # "Succeeded")

\* A job that was accepted gets on: its workers start, then its launcher, and it
\* runs, or ends (README.md:16-24, trainingjob_controller.go:390-423).
StartupEnds == job.status.phase = "Created" ~> job.status.phase # "Created"

\* A scaler of a job that goes on comes to its end (scaler.go:18-73).
ScalersEnd ==
    \A s \in Scalers : s \in DOMAIN scalers ~>
        \/ s \notin DOMAIN scalers \/ isScaleFinished(scalers[s])
        \/ isFinished(job.status) \/ job.suspended
=============================================================================
