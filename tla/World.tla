------------------------------- MODULE World -------------------------------
(***************************************************************************)
(* What one reconcile of a TrainingJob reads and writes: the parameters of *)
(* the job, the types of the objects it works on, and the World record     *)
(* that the handlers of Workers, Launcher and Scaling take and return.     *)
(*                                                                         *)
(* A worker is named by its index: getWorkerName and getWorkerIndex        *)
(* (worker.go:256-264) translate between the two without loss.             *)
(*                                                                         *)
(* An operator X_Y, where X is another operator, is X with one plausible   *)
(* mistake. No specification uses it: put in the place of X it breaks a    *)
(* property, which shows that the property notices the mistake.            *)
(***************************************************************************)
EXTENDS Integers, FiniteSets, Functions

CONSTANTS
    \* the specification of the job (trainingjob_types.go, types.go)
    Replicas,        \* etReplicaSpecs.worker.replicas
    JobPolicy,       \* restartPolicy of the job
    BackoffLimit,    \* backoffLimit of the job
    LauncherPolicy,  \* restartPolicy of the launcher
    WorkerPolicy,    \* restartPolicy of the workers
    CleanPodPolicy,  \* cleanPodPolicy of the job
    \* the scalers users may submit
    Scalers,         \* names of ScaleIn and ScaleOut resources
    ScalerSpec,      \* [Scalers -> ScalerSpecs]
    NoScaler,        \* an empty Status.CurrentScaler, a pod without the scaleout label
    \* the cluster
    Lagging,         \* the informers whose cache may be behind the API server
    Faults,          \* the kinds of fault that may happen
    WorkerFates,     \* how the process of a running worker may end
    ExitCodes,       \* the exit codes of a failed worker
    LauncherFates,   \* how the launcher may end
    CanSuspend,      \* may the job be suspended by its annotation?
    \* bounds
    MaxWorker,       \* highest index a worker may get
    MaxCopies,       \* most occurrences of a name in Status.TargetWorkers
    MaxFaults        \* number of faults in a behaviour

Policies == {"Unset", "Always", "OnFailure", "Never", "ExitCode"}

Worker == 0..MaxWorker

FaultKinds == {"crash", "apiError", "execError", "workerEnds", "workerLost",
               "launcherLost", "scalerDeleted"}

\* One ScaleIn or ScaleOut: the number of workers, or their names (of a ScaleIn
\* with PodNames), whether it brings a script of its own, and its creation time.
ScalerSpecs == [kind : {"in", "out"}, by : {"count", "names"}, count : Int,
                names : SUBSET Worker, script : BOOLEAN, created : Nat]

ASSUME NumbersAssumption ==
    /\ Replicas \in Nat \ {0}
    /\ BackoffLimit \in Nat
    /\ MaxWorker \in Nat /\ Replicas <= MaxWorker + 1
    /\ MaxCopies \in Nat \ {0}
    /\ MaxFaults \in Nat

ASSUME PolicyAssumption ==
    /\ JobPolicy \in {"Never", "OnFailure"}
    /\ LauncherPolicy \in Policies
    /\ WorkerPolicy \in Policies
    /\ CleanPodPolicy \in {"Unset", "All", "Running", "None"}

ASSUME ScalersAssumption ==
    /\ NoScaler \notin Scalers
    /\ ScalerSpec \in [Scalers -> ScalerSpecs]

ASSUME ClusterAssumption ==
    /\ {"job", "pods"} \cap Scalers = {}
    /\ Lagging \subseteq {"job", "pods"} \cup Scalers
    /\ Faults \subseteq FaultKinds
    /\ WorkerFates \subseteq {"Succeeded", "Failed", "Unknown"}
    /\ ExitCodes \subseteq Nat
    /\ LauncherFates \subseteq {"Succeeded", "Failed"}
    /\ CanSuspend \in BOOLEAN

-----------------------------------------------------------------------------
(* Types *)

Phase == {"New", "Created", "Running", "Scaling", "Succeeded", "Failed", "Suspended"}

\* The condition types some code reads, or whose presence makes the list of
\* conditions non-nil. A condition counts when its status is True.
JobCondition == {"Created", "WorkersCreated", "WorkersReady", "LauncherCreated",
                 "Running", "Succeeded", "Failed", "Suspended"}

\* The status of a TrainingJob. target is Status.TargetWorkers as a bag: no
\* code reads its order, but a name listed twice is replaced twice. current is
\* Status.CurrentWorkers, which is sorted and without duplicates.
JobStatus == [phase : Phase, conds : SUBSET JobCondition,
              target : [Worker -> Nat], current : SUBSET Worker,
              scaler : Scalers \cup {NoScaler}, restarts : Nat]

NewJob == [phase |-> "New", conds |-> {}, target |-> [i \in Worker |-> 0],
           current |-> {}, scaler |-> NoScaler, restarts |-> 0]

ScalerCondition == {"Scaling", "ScriptExecuted", "ScaleSucceeded", "ScaleFailed"}

\* The status of a ScaleIn or ScaleOut: pods is ToDeletePods or AddPods.
ScalerStatus == [conds : SUBSET ScalerCondition, pods : SUBSET Worker]

\* The scalers that exist, with their status.
IsScalerMap(m) == DOMAIN m \subseteq Scalers /\ m \in [DOMAIN m -> ScalerStatus]

PodPhase == {"Pending", "Running", "Succeeded", "Failed", "Unknown"}

\* A worker pod: exit is the exit code of a failed one, scaler its scaleout label.
Pod == [phase : PodPhase, exit : ExitCodes \cup {0}, scaler : Scalers \cup {NoScaler}]

\* The worker pods that exist.
IsPodMap(ps) == DOMAIN ps \subseteq Worker /\ ps \in [DOMAIN ps -> Pod]

\* The hostfile ConfigMap: whether it exists, and the hosts it lists.
ConfigMap == [made : BOOLEAN, hosts : SUBSET Worker]

LauncherState == {"None", "Pending", "Running", "Succeeded", "Failed"}

-----------------------------------------------------------------------------
(* The world of a handler is a record of the status it computes (st), the     *)
(* cluster it acts on (pods, launcher, configMap, hostfile), what its         *)
(* informers show it (seen, seenLauncher, known, and stale: the scalers of    *)
(* which known holds an old version), the scaler status it will write         *)
(* (update: a map of at most one scaler), the faults spent, and the error it  *)
(* returns (err: "none", "requeue" or "error").                               *)

\* The world after one more fault of this kind, if it may still happen.
Fault(w, kind) ==
    IF kind \in Faults /\ w.faults < MaxFaults THEN {[w EXCEPT !.faults = @ + 1]} ELSE {}

Error(w) == [w EXCEPT !.err = "error"]

\* The pods without those of ws, and with a new pending pod for each of ws.
Without(ps, ws) == Restrict(ps, DOMAIN ps \ ws)

WithNew(ps, ws, s) ==
    [i \in DOMAIN ps \cup ws |-> IF i \in DOMAIN ps THEN ps[i]
                                 ELSE [phase |-> "Pending", exit |-> 0, scaler |-> s]]

\* The pod informer may deliver the creation or deletion of any worker while
\* the handler is still running; one that does not lag delivers everything.
Refresh(old, new, D) ==
    [i \in (DOMAIN old \ D) \cup (DOMAIN new \cap D) |-> IF i \in D THEN new[i] ELSE old[i]]

CatchUp(w) ==
    LET gone == DOMAIN w.seen \ DOMAIN w.pods
        made == DOMAIN w.pods \ DOMAIN w.seen
    IN  IF "pods" \in Lagging
        THEN {[w EXCEPT !.seen = Refresh(@, w.pods, D)] : D \in SUBSET (gone \cup made)}
        ELSE {[w EXCEPT !.seen = w.pods, !.seenLauncher = w.launcher]}

-----------------------------------------------------------------------------
(* Conditions and phase (status.go) *)

\* A failed status takes no further condition; Failed and Succeeded turn the
\* Running condition to False.
setCondition(conds, c) ==
    IF "Failed" \in conds THEN conds
    ELSE (IF c \in {"Failed", "Succeeded"} THEN conds \ {"Running"} ELSE conds) \cup {c}

updateJobConditions(st, c) == [st EXCEPT !.conds = setCondition(@, c)]

updateStatus(st, c) == [updateJobConditions(st, c) EXCEPT !.phase = c]

isFinished(st) == {"Succeeded", "Failed"} \cap st.conds # {}

isScaleFinished(x) == {"ScaleSucceeded", "ScaleFailed"} \cap x.conds # {}

-----------------------------------------------------------------------------
(* Bags of worker names *)

Members(t) == {i \in Worker : t[i] > 0}

BagOf(ws) == [i \in Worker |-> IF i \in ws THEN 1 ELSE 0]

\* append(names, ws...)
Append(t, ws) == [i \in Worker |-> t[i] + BagOf(ws)[i]]

\* filterNames(names, ws, true) and workersAfterScaler of a ScaleIn
FilterOut(t, ws) == [i \in Worker |-> IF i \in ws THEN 0 ELSE t[i]]
=============================================================================
