------------------------------ MODULE Resources ------------------------------
(***************************************************************************)
(* The objects that the operator makes for its jobs: for each worker a pod *)
(* and a service, for the launcher its role and config map, and a secret   *)
(* (worker.go, launcher.go, trainingjob_controller.go:291-374).            *)
(*                                                                         *)
(* TrainingJob takes a reconcile in one step and follows the status of one *)
(* job. Here each call to the API server is a step, between which caches   *)
(* move and the operator may crash, and several jobs share the operator;   *)
(* of the status only the step that a job has reached is kept, and every   *)
(* pod runs once it is made.                                               *)
(***************************************************************************)
EXTENDS Integers, FiniteSets, Sequences, Functions

CONSTANTS
    Jobs,           \* the jobs: each is a name in a namespace
    Name,           \* [Jobs -> their names]
    MaxWorker,      \* bound: no worker has this index or a higher one
    Replicas,       \* Spec.ETReplicaSpecs.Worker.Replicas
    CleanPodPolicy, \* Spec.CleanPodPolicy: "None", "Running" or "All"
    BackoffLimit,   \* Spec.BackoffLimit, under the RestartPolicy "OnFailure"
    Lagging,        \* the kinds of which the cache may be behind
    Faults,         \* the kinds of fault that may happen
    MaxFaults       \* bound: the number of faults in a behaviour

Kinds == {"secret", "pod", "service", "role", "config", "launcher"}

ASSUME ResourcesAssumption ==
    /\ MaxWorker \in Nat /\ Replicas \in 1..MaxWorker
    /\ CleanPodPolicy \in {"None", "Running", "All"}
    /\ BackoffLimit \in Nat /\ MaxFaults \in Nat
    /\ Lagging \subseteq Kinds /\ Faults \subseteq {"crash", "apiError"}

VARIABLES
    exists,     \* the objects the API server has
    seen,       \* the objects in the operator's cache
    status,     \* the jobs' status
    suspended,  \* the jobs with the annotation that suspends them
    queue,      \* the work queue
    busy,       \* the reconcile under way: what it does and still has to do
    deleted,    \* the objects the operator ever deleted
    refused,    \* the objects of which it ignored an error of the API server
    faults      \* the number of faults so far

vars == <<exists, seen, status, suspended, queue, busy, deleted, refused, faults>>

Index == 0..(MaxWorker - 1)

\* "role" stands for the launcher's service account, role and role binding, which
\* are got or created alike. All but pods and services have the index 0.
Resource == [kind : Kinds, job : Jobs, index : Index]

\* What a pod mounts or runs as.
Needs(kind) ==
    CASE kind = "launcher" -> {"config", "role"}
      [] kind = "pod"      -> {"secret"}
      [] OTHER             -> {}

Phase == {"Created", "WorkersCreated", "WorkersReady", "Running", "Scaling",
          "Succeeded", "Failed", "Suspended"}

\* The step a job has reached, the workers it has, those that its current scaler
\* adds or takes away, and its restarts.
Status == [phase : Phase, workers : SUBSET Index, change : SUBSET Index,
           restarts : 0..BackoffLimit]

\* A loop of calls over the objects of some kinds and indexes.
Task == [op : {"ensure", "delete"}, kinds : SUBSET Kinds, of : SUBSET Index]

Reconciling == [op : {"ensure", "delete"}, left : SUBSET Resource,
                todo : Seq(Task), then : Status]

TypeOK ==
    /\ exists \subseteq Resource /\ seen \subseteq Resource
    /\ deleted \subseteq Resource /\ refused \subseteq Resource
    /\ status \in [Jobs -> Status]
    /\ suspended \subseteq Jobs /\ queue \subseteq Jobs
    /\ DOMAIN busy \subseteq Jobs /\ busy \in [DOMAIN busy -> Reconciling]
    /\ faults \in 0..MaxFaults

Idle == [j \in {} |-> j]

Init ==
    /\ exists = {} /\ seen = {} /\ deleted = {} /\ refused = {}
    /\ status = [j \in Jobs |->
                   [phase |-> "Created", workers |-> {}, change |-> {}, restarts |-> 0]]
    /\ suspended = {} /\ queue = Jobs /\ busy = Idle /\ faults = 0

-----------------------------------------------------------------------------
(* What a reconcile does *)

Ensure(kinds, of) == [op |-> "ensure", kinds |-> kinds, of |-> of]

Delete(kind, of) == [op |-> "delete", kinds |-> {kind}, of |-> of]

createTrainingJobWorkers(ws) == <<Ensure({"secret"}, {0}), Ensure({"pod", "service"}, ws)>>

createLauncher == <<Ensure({"role"}, {0}), Ensure({"config"}, {0}), Ensure({"launcher"}, {0})>>

cleanup ==
    IF CleanPodPolicy = "None" THEN <<>> ELSE <<Delete("pod", Index), Delete("service", Index)>>

cleanupAll == <<Delete("pod", Index), Delete("service", Index), Delete("launcher", Index)>>

DeleteForRestart == <<Delete("pod", Index), Delete("launcher", Index), Delete("service", Index)>>

DeleteWorkers(ws) == <<Delete("service", ws), Delete("pod", ws)>>

getJobReplicasWorkers(ws) == IF ws # {} THEN ws ELSE 0..(Replicas - 1)

needRestartJob_OneMore(s) == s.restarts <= BackoffLimit

needRestartJob(s) == s.restarts < BackoffLimit

\* Pods and services are listed by the labels of the job's name, in all
\* namespaces; the launcher is read by name and namespace.
Listed(j, kinds, of) ==
    {r \in seen : /\ r.kind \in kinds /\ r.index \in of
                  /\ IF r.kind = "launcher" THEN r.job = j ELSE Name[r.job] = Name[j]}

ScalesIn(s) == s.change \subseteq s.workers

Scaled(s) ==
    [s EXCEPT !.phase = "Running", !.change = {},
              !.workers = IF ScalesIn(s) THEN @ \ s.change ELSE @ \cup s.change]

\* The scalers a job may get next: one that takes its last worker away, or one
\* that adds a worker.
Scalers(s) ==
    {[s EXCEPT !.phase = "Scaling", !.change = {i}] :
       i \in {k \in Index : LET others == s.workers \ {k}
                            IN  /\ others # {}
                                /\ \A i \in others : i < k
                                /\ k \in s.workers \/ k - 1 \in s.workers}}

\* What a reconcile may do and the status it will write; what becomes of a
\* running job is decided by its launcher and its scalers.
Plans(j) ==
    LET s == status[j]
        At(phase) == [s EXCEPT !.phase = phase]
        ws == getJobReplicasWorkers(s.workers)
        Restarted == [At("WorkersCreated") EXCEPT !.workers = getJobReplicasWorkers({}),
                                                  !.restarts = @ + 1]
        Do(tasks, after) == [op |-> "ensure", left |-> {}, todo |-> tasks, then |-> after]
    IN  IF j \in suspended \/ s.phase = "Suspended" THEN {Do(cleanupAll, At("Suspended"))}
        ELSE CASE s.phase = "Created" ->
                    {Do(createTrainingJobWorkers(ws), [At("WorkersCreated") EXCEPT !.workers = ws])}
               [] s.phase = "WorkersCreated" ->
                    {Do(<<>>, IF Cardinality(Listed(j, {"pod"}, Index)) >= Replicas
                              THEN At("WorkersReady") ELSE s)}
               [] s.phase = "WorkersReady" -> {Do(createLauncher, At("Running"))}
               [] s.phase = "Running" ->
                    {Do(<<>>, x) : x \in {s, At("Succeeded"), At("Failed")} \cup Scalers(s)}
               [] s.phase = "Scaling" ->
                    {Do(IF ScalesIn(s) THEN DeleteWorkers(s.change)
                        ELSE <<Ensure({"pod", "service"}, s.change)>>, Scaled(s))}
               [] s.phase = "Succeeded" -> {Do(cleanup, s)}
               [] s.phase = "Failed" ->
                    {IF needRestartJob(s)
                     THEN Do(DeleteForRestart \o createTrainingJobWorkers(Restarted.workers), Restarted)
                     ELSE Do(cleanup, s)}

-----------------------------------------------------------------------------
(* The steps of the one reconcile that is under way *)

MayFail(kind) ==
    /\ kind \in Faults /\ faults < MaxFaults
    /\ faults' = faults + 1

Watched_NoServices == {"secret", "pod", "config", "launcher"}

\* The kinds whose events queue the job that owns the object.
Watched == {"secret", "pod", "service", "config", "launcher"}

\* The API server has the objects rs from now on. A cache that does not lag shows
\* them at once.
Store(rs) ==
    LET shown == {r \in (exists \ rs) \cup (rs \ exists) : r.kind \notin Lagging}
    IN  /\ exists' = rs
        /\ seen' = (seen \ shown) \cup (rs \cap shown)
        /\ queue' = queue \cup {r.job : r \in {q \in shown : q.kind \in Watched}}

Begin(j) ==
    /\ DOMAIN busy = {} /\ j \in queue
    /\ queue' = queue \ {j}
    /\ \E plan \in Plans(j) : busy' = [k \in {j} |-> plan]
    /\ UNCHANGED <<exists, seen, status, suspended, deleted, refused, faults>>

Wanted_PodDecides(j, task) ==
    {[kind |-> k, job |-> j, index |-> i] :
       k \in task.kinds, i \in {n \in task.of : [kind |-> "pod", job |-> j, index |-> n] \notin seen}}

Wanted(j, task) == {[kind |-> k, job |-> j, index |-> i] : k \in task.kinds, i \in task.of}

\* The next loop: over the objects it may make, or over those it finds in the
\* cache at this moment.
NextTask(j) ==
    /\ j \in DOMAIN busy /\ busy[j].left = {} /\ busy[j].todo # <<>>
    /\ LET task == Head(busy[j].todo)
       IN  busy' = [busy EXCEPT ![j].op = task.op, ![j].todo = Tail(@),
                      ![j].left = IF task.op = "ensure" THEN Wanted(j, task)
                                  ELSE Listed(j, task.kinds, task.of)]
    /\ UNCHANGED <<exists, seen, status, suspended, queue, deleted, refused, faults>>

\* What becomes of a reconcile that cannot make an object: the scaler fails and
\* its workers are deleted, or the job fails.
Fallback(j) ==
    LET s == status[j]
    IN  IF s.phase = "Scaling"
        THEN [busy[j] EXCEPT !.left = {}, !.todo = DeleteWorkers(s.change),
                             !.then = [s EXCEPT !.phase = "Running", !.change = {}]]
        ELSE [busy[j] EXCEPT !.left = {}, !.todo = <<>>,
                             !.then = [@ EXCEPT !.phase = "Failed"]]

ErrorIgnored_Config == {"secret", "role", "config"}

\* The objects whose creation may fail without the reconcile.
ErrorIgnored == {"secret", "role"}

\* Workers are made by ascending index, the pod before the service.
Comes(r, rs) ==
    \A q \in rs \ {r} : r.index < q.index \/ (r.index = q.index /\ r.kind = "pod")

\* One object is got from the cache and created if it is not there. The call
\* fails when the API server has it already, or before or after it made it.
EnsureOne(j, r) ==
    /\ j \in DOMAIN busy /\ busy[j].op = "ensure"
    /\ r \in busy[j].left /\ Comes(r, busy[j].left)
    /\ LET Ensured == busy' = [busy EXCEPT ![j].left = @ \ {r}]
           Failed  == IF r.kind \in ErrorIgnored THEN Ensured
                      ELSE busy' = [busy EXCEPT ![j] = Fallback(j)]
       IN  \/ /\ r \in seen
              /\ Ensured /\ UNCHANGED <<exists, seen, queue, refused, faults>>
           \/ /\ r \notin seen \cup exists
              /\ Store(exists \cup {r}) /\ Ensured /\ UNCHANGED <<refused, faults>>
           \/ /\ r \in exists \ seen
              /\ Failed /\ UNCHANGED <<exists, seen, queue, refused, faults>>
           \/ /\ r \notin seen /\ MayFail("apiError")
              /\ Store(exists \cup {r}) \/ UNCHANGED <<exists, seen, queue>>
              /\ refused' = IF r.kind \in ErrorIgnored THEN refused \cup {r} ELSE refused
              /\ Failed
    /\ UNCHANGED <<status, suspended, deleted>>

\* A deletion that the API server refuses is reported as an event and forgotten.
DeleteOne(j, r) ==
    /\ j \in DOMAIN busy /\ busy[j].op = "delete" /\ r \in busy[j].left
    /\ busy' = [busy EXCEPT ![j].left = @ \ {r}]
    /\ \/ /\ Store(exists \ {r}) /\ deleted' = deleted \cup {r}
          /\ UNCHANGED <<refused, faults>>
       \/ /\ MayFail("apiError") /\ refused' = refused \cup {r}
          /\ UNCHANGED <<exists, seen, queue, deleted>>
    /\ UNCHANGED <<status, suspended>>

Done(j) == j \in DOMAIN busy /\ busy[j].left = {} /\ busy[j].todo = <<>>

\* The pods of a ScaleIn are still there, or those of a ScaleOut do not run yet.
Waits(j) ==
    LET s    == status[j]
        pods == {[kind |-> "pod", job |-> j, index |-> i] : i \in s.change}
    IN  /\ s.phase = "Scaling" /\ busy[j].then = Scaled(s)
        /\ IF ScalesIn(s) THEN pods \cap seen # {} ELSE ~(pods \subseteq seen)

\* A ScaleIn waits for an event, a ScaleOut polls, and fails after its timeout.
Wait(j) ==
    /\ Done(j) /\ Waits(j)
    /\ \/ busy' = Idle /\ queue' = IF ScalesIn(status[j]) THEN queue ELSE queue \cup {j}
       \/ /\ ~ScalesIn(status[j])
          /\ busy' = [busy EXCEPT ![j] = Fallback(j)] /\ UNCHANGED queue
    /\ UNCHANGED <<exists, seen, status, suspended, deleted, refused, faults>>

\* The status is written if it changed. An error of that write is ignored.
Finish(j) ==
    /\ Done(j) /\ ~Waits(j) /\ busy' = Idle
    /\ \/ /\ status' = [status EXCEPT ![j] = busy[j].then]
          /\ queue' = IF busy[j].then = status[j] THEN queue ELSE queue \cup {j}
          /\ UNCHANGED faults
       \/ /\ busy[j].then # status[j] /\ MayFail("apiError")
          /\ UNCHANGED <<status, queue>>
    /\ UNCHANGED <<exists, seen, suspended, deleted, refused>>

-----------------------------------------------------------------------------
(* The cluster *)

Deliver(r) ==
    /\ r \in (exists \ seen) \cup (seen \ exists)
    /\ seen' = (seen \ {r}) \cup (exists \cap {r})
    /\ queue' = IF r.kind \in Watched THEN queue \cup {r.job} ELSE queue
    /\ UNCHANGED <<exists, status, suspended, busy, deleted, refused, faults>>

\* The launcher ends, or a scaler of the job is submitted.
Event(j) ==
    /\ status[j].phase = "Running" /\ j \notin queue
    /\ queue' = queue \cup {j}
    /\ UNCHANGED <<exists, seen, status, suspended, busy, deleted, refused, faults>>

Suspend(j) ==
    /\ j \notin suspended
    /\ suspended' = suspended \cup {j} /\ queue' = queue \cup {j}
    /\ UNCHANGED <<exists, seen, status, busy, deleted, refused, faults>>

\* The operator restarts with a cache filled from the API server.
Crash ==
    /\ MayFail("crash")
    /\ busy' = Idle /\ seen' = exists /\ queue' = Jobs
    /\ UNCHANGED <<exists, status, suspended, deleted, refused>>

-----------------------------------------------------------------------------

Next ==
    \/ \E j \in Jobs :
         \/ Begin(j) \/ NextTask(j) \/ Wait(j) \/ Finish(j) \/ Event(j) \/ Suspend(j)
         \/ \E r \in Resource : EnsureOne(j, r) \/ DeleteOne(j, r)
    \/ \E r \in Resource : Deliver(r)
    \/ Crash

Spec == Init /\ [][Next]_vars

-----------------------------------------------------------------------------
(* Properties *)

\* A reconcile makes and deletes the objects of its own job only, though the
\* lists it works through are found by the job's name (worker.go:334-425).
JobsApart ==
    [][\A r \in Resource : (r \in exists) # (r \in exists') => r.job \in DOMAIN busy]_vars

\* A job does not get past the creation of its workers before each of them has
\* its pod and its service, through stale reads, crashes between the two calls and
\* calls that fail (worker.go:237-307); what was deleted on purpose, under a name
\* that is used again, is not meant.
Serviced ==
    \A j \in Jobs, k \in {"pod", "service"} :
        status[j].phase \notin {"Failed", "Suspended"} =>
            \A i \in status[j].workers :
                [kind |-> k, job |-> j, index |-> i] \in exists \cup deleted

\* No pod is without what it mounts or runs as: the launcher comes after its
\* config map and its role, a worker after the secret, unless the error that
\* made it miss was ignored, which that of a config map never is
\* (launcher.go:22-66, 211-261, worker.go:23-46, 428-440).
Equipped ==
    \A r \in exists : \A k \in Needs(r.kind) :
        LET needed == [kind |-> k, job |-> r.job, index |-> 0]
        IN  needed \in exists \/ (k # "config" /\ needed \in refused)

Rest == queue = {} /\ DOMAIN busy = {} /\ seen = exists

\* When nothing is left to do a suspended job has no pods and no services, nor has
\* one that succeeded unless its policy keeps them, but for those whose deletion
\* was refused: nothing comes back to them (trainingjob_controller.go:291-326,
\* worker.go:374-425, launcher.go:276-293).
CleanedUp ==
    Rest => \A r \in exists \ refused :
        /\ r.job \in suspended => r.kind \notin {"pod", "service", "launcher"}
        /\ status[r.job].phase = "Succeeded" /\ CleanPodPolicy # "None"
             => r.kind \notin {"pod", "service"}
=============================================================================
