# et-operator in TLA+

`et-operator` is a Kubernetes operator for elastic training jobs. A `TrainingJob`
has a launcher pod and a set of worker pods; the operator starts them, follows
them, restarts the job, and changes its number of workers while it runs, when a
user submits a `ScaleIn` or a `ScaleOut`. Paths below are relative to
`src/pkg/controllers/` unless they start with `src/`.

## The system

### Parts

| part | state | operations | what makes it correct |
|---|---|---|---|
| reconcile loop (`trainingjob_controller.go`) | none of its own: the job's status, read from a cache and written back at the end | pick the handler of the phase, start-up steps, restart, cleanup, suspension, deferred status write | the status is consistent however old the copy it was computed from; the job follows its life cycle; no pending step is forgotten |
| status (`status.go`, `api/v1/types.go`) | phase, conditions | set and query conditions | phase and conditions agree |
| workers (`worker.go`) | worker pods, their services, the SSH secret; `TargetWorkers`, `CurrentWorkers` | create, delete, replace, record, wait | every worker is recorded and has its service, the job keeps its size, the hostfile follows; what is not needed any more goes |
| launcher (`launcher.go`) | launcher pod, its role, hostfile ConfigMap, the hostfile in the pod | create, delete, run a command, take over its result | it starts on a complete hostfile; its end is the job's end |
| scalers (`scaler.go`, `scalein.go`, `scaleout.go`) | status of each ScaleIn and ScaleOut; `CurrentScaler` | choose a scaler, execute it over several reconciles, end it | one at a time, hostfile and workers in the right order, the right workers, it ends |
| scaler controllers (`scalein_controller.go`, `scaleout_controller.go`) | owner reference and first condition of a scaler | make the job the owner, in two writes | every scaler submitted to a job gets it as its owner, once, and never a job that the operator knew to be gone |
| requeue helpers (`common.go`) | none | | |
| resource builders (`resource.go`) | none | format Kubernetes objects | |
| `src/pkg/util`, `src/main.go`, generated code | none | exec, keys, wiring | |

### How they interact

Everything happens in one goroutine per controller (`MaxConcurrentReconciles` is not
set), one key at a time, so a job is never reconciled twice at once. The three
controllers meet in the objects they write: the scaler controllers and the job's
both write the status of a scaler. What makes the code hard is what is around it:

- the handler reads the job, its pods and the scalers from informer caches, each
  of which may be behind the API server, by a different amount;
- it creates and deletes pods at once, but writes the scaler's status and the
  job's status only at its end, in two calls that may each be refused or be cut
  off by a restart of the operator;
- the deferred write of the job (`trainingjob_controller.go:204-217`) reads the
  job again and puts the new status on top of the newest object the cache has, so
  that a status computed from an old copy is accepted;
- the error of that write is dropped, so nothing is retried unless an event
  follows;
- pods start, end and disappear meanwhile, and users submit and delete scalers.

The hazards that follow from this are listed with their lines in `PROJECT.json`.

## The modules

| module | models | extends |
|---|---|---|
| `World` | parameters and their assumptions; the types of statuses, pods and scalers; `status.go`; the world record the handlers work on | |
| `Launcher` | `launcher.go`, the ConfigMap, commands in the launcher | `World` |
| `Workers` | `worker.go` | `Launcher` |
| `Scaling` | `scaler.go`, `scalein.go`, `scaleout.go` | `Workers` |
| `TrainingJob` | the state machine: the reconcile, the caches, the cluster and its users | `Scaling` |
| `JobLifecycle` | abstract specification: phase and restart count as users see them | |
| `JobProperties` | all properties, and the refinement of `JobLifecycle` | `TrainingJob` |
| `MCTrainingJob` | values of the constants for TLC | `JobProperties` |
| `JobProofs` | the types and the status: theorems and their proofs | `JobProperties` |
| `JobFrameProofs` | what each handler changes and leaves alone; the caches | `JobProofs` |
| `JobLifecycleProofs` | the ConfigMap's hosts; the refinement of `JobLifecycle`; no wakeup is lost | `JobFrameProofs` |
| `JobScalerProofs` | the status of the scalers, one scaler at a time, the count of a ScaleOut | `JobLifecycleProofs` |
| `JobWorkersProofs` | the workers and the hostfile of a job without scalers; a ScaleIn and the hostfile | `JobScalerProofs` |
| `ScalerBinding` | abstract specification: a scaler as its users see it, owned once and executed to its end | |
| `ScalerOwner` | `scalein_controller.go`, `scaleout_controller.go`, and the writes of the job's controller to the same objects; its properties | |
| `MCScalerOwner`, `ScalerOwnerProofs` | its constants for TLC; its theorems | `ScalerOwner` |
| `Resources` | the objects made for each job, call by call, for several jobs; its properties | |
| `MCResources` | its constants for TLC | `Resources` |
| `ResourcesProofs` | types, and the separation of jobs | `Resources` |
| `ResourcesSafetyProofs` | the other safety properties | `ResourcesProofs` |

The three state machines look at the same program from three sides.
`TrainingJob` follows the status of one job in full and takes a handler in one step.
`ScalerOwner` keeps of a scaler only what two controllers write, and of the job its
identity and its current scaler, but every write and its version. `Resources`
keeps of the status only the step the job has reached, but every call a handler
makes to the API server, with a crash or an error between any two.

An operator named `X_Y`, where `X` is another operator, is `X` with one plausible
mistake. No specification uses it: put in the place of `X` it breaks the property
`PROJECT.json` names for it, which shows that the property notices such a mistake.

### State and actions

A handler is an operator from a *world* to the set of worlds it may leave. The
world (described in `World.tla`) holds the status being computed, the cluster the
handler changes, what its caches show, the scaler update it will write, and its
error. Operators have the names of the Go functions where there is one.

A reconcile is split where other steps can come between with an effect:

1. `Start` reads the job from the cache (and suspends it if it is annotated);
2. one of `HandleCreated`, `HandleRunning`, `HandleScaling`, `HandleSucceeded`,
   `HandleFailed`, `HandleSuspended` reads the other caches and acts. It is one
   step: no other client changes these objects in a way the handler could notice
   between two of its calls, except that its own creations and deletions may be
   delivered to the cache while it runs; `CatchUp` is that choice, made where the
   code reads the cache again (`restartJob`, the end of a ScaleIn, a failed
   ScaleOut);
3. `WriteScaler` and `WriteJob` are the deferred status updates.

| variable | stands for |
|---|---|
| `job`, `scalers`, `pods`, `launcher`, `configMap` | objects in the API server |
| `hostfile` | the hostfile in the launcher's container; it goes with the container |
| `jobCache`, `scalerCache`, `podCache`, `launcherCache` | the informers' caches |
| `lag` | informers that have undelivered events; only those of `Lagging` can |
| `queued` | the job's key is in the work queue |
| `pc`, `read`, `mine`, `update`, `retry` | the reconcile: where it is, the status it read and the one it computed, the scaler update, whether it returns an error |
| `faults` | the faults so far, at most `MaxFaults` |

An informer that does not lag delivers in the same step. One that lags delivers
everything it held back at once (`SyncJob`, `SyncPods`, `SyncScaler`); a delivery
of a part of the changes is modelled for the handler's own changes (`CatchUp`).

In `Resources` a reconcile is `Begin` (read the status, choose what to do), a
`NextTask` for each loop over objects, which is where the code lists them,
`EnsureOne` and `DeleteOne` for each object, and `Wait` or `Finish` with the status
write. `exists` is the API server, `seen` the cache; `Deliver` brings one object of
the cache up to date. An object is made only when the *cache* does not show it,
and the call fails when the API server has it. `deleted` and `refused` are history:
what was ever deleted, and what is missing or left because the code dropped an
error.

In `ScalerOwner` a reconcile of a scaler is `Start`, `WriteStatus` and `WriteOwner`,
one of the job `JobReads` and `JobWrites`. `held` has the copy each controller works
on; a write is refused unless that copy has the newest version. A job is its uid:
deleted and created again under its name, it is another one.

### Abstractions

In `TrainingJob`:


- A worker is its index: its name is made from the index and read back from it.
- `TargetWorkers` is a bag, since its order is never read but a name listed twice
  is replaced twice; `CurrentWorkers` is sorted and without duplicates: a set.
- Only conditions some code reads are kept. A condition is there or not: no code
  reads the order, reasons or times. Conditions on the progress of a scaler that
  `updateScalerState` adds to the job (`scaler.go:217`) are read by nobody.
- Counters of replicas and evictions and times are left out. They can make a
  status differ that is equal here, so `WriteJob` may write an equal status in
  the phases whose handlers touch them (`MayEqual`), which produces an event.
- The write of the job succeeds exactly when the cache it reads last is up to
  date (resource version). The write of a scaler carries the version read at the
  handler: it is dropped if the cache was stale then.
- `OtherEvent` stands for events of services, ConfigMaps and the resync; it is
  not fair, so no property relies on it.
- The timeout of a ScaleOut and the shutdown of the worker processes of a ScaleIn
  are choices.
- `setScalingOwner` is collapsed with the submission of a scaler: before its job
  owns it, `filterAvailableScaler` passes it over. `ScalerOwner` has its steps.
- A failed creation comes before or after the pod was made: the service of a
  worker is created second, and that error is the same to the caller. `Resources`
  has both calls.

In `ScalerOwner`: the job's work on a scaler is any of the sets of conditions that
`scaler.go` may add in one reconcile (`ExecutionSteps`); reads that fail are left
out, since they only requeue. `seen` and
`gone` are history: the job the operator's cache showed when the scaler was submitted,
and the newest job it had seen to be gone. The cache shows the creations and deletions
of jobs in their order (`passed` counts them), so that it may show a job that is gone
and not yet the one after it; a restart fills it with what is there.

In `Resources`:

- `"role"` stands for service account, role and role binding, which are got or
  created alike and whose errors are dropped alike.
- A worker pod runs once it is made, and the launcher's end is a choice of the
  reconcile that reads it: which pods fail and are replaced is the subject of
  `TrainingJob`.
- A ScaleIn brings a script, so that it does not wait for processes to stop; a
  scaler adds or takes away the highest worker.
- The status is read as it is in the API server (the job's own cache does not lag)
  and its annotation is never taken back; the faults of old copies are checked in
  `TrainingJob`.
- The job always uses SSH and the flag that creates the secret is set.

### Fairness

`FairSpec` gives weak fairness to `Start` (the work queue hands out a queued key),
`Handle`, `WriteScaler` and `WriteJob` (the calls of a reconcile return), the
`Sync` actions (informers deliver) and `WorkerRuns`, `LauncherRuns` (the kubelet
starts a container of a pod that can run). In `TrainingJob` nothing is assumed of users, faults,
`OtherEvent`, `LauncherEnds` or the choices above; this is why the ScaleIn of the
run `ends` brings its own script: that a worker process ever stops is up to the
training program.

In `ScalerOwner` the calls and deliveries are weakly fair and `Start` is strongly
fair for each key: a controller handles one key at a time, so that another key
takes its turn and disables it, but a work queue is first in, first out and passes
over none. Resync is not fair: it comes every ten hours. `Resources` has safety
properties only.

## The runs

All but `owner`, `resources` and `same_names` use `MCTrainingJob`; the constants are
in the `.cfg` of the same name. One worker suffices for the life cycle; two are needed for a partial loss and for
scaling; `MaxWorker` leaves names for every replacement the faults can cause
(behaviours that would need another one end there, which is why `stale_pods`,
where restarted jobs may use them up, does not check for deadlock). Two faults let
a second one hit the repair of the first, a third the recovery from that. No symmetry is used: workers are
numbers and the two scalers differ.

| run | question | size |
|---|---|---|
| `stale_caches` | With lagging job and pod caches, one restart and a suspension: is the status consistent in every copy (`StepsInOrder`, `PhasesMatch`, `RestartsBounded`), and does the controller never rest with work left (`NoLostWakeup`)? | 374 000 states |
| `stale_pods` | With a lagging pod cache, a crash or a lost or ended pod, and one restart: does the job refine its life cycle (`LifecycleSpec`), and does the launcher start on a complete hostfile (`HostsComplete`)? | 2 016 000 |
| `churn` | Two workers under policy Always, three faults (ended or lost workers, failed commands), a suspension: are replacements made, counted and recorded, and does the hostfile follow (`NoOrphans`, `FullStrength`, `HostfileUpToDate`)? | 814 000 |
| `scaling` | A ScaleOut and a later ScaleIn among two lost or ended workers and failing commands: one at a time, right order, right size (`SerialScaling`, `ScaledInAfterHostfile`, `HostfileAfterRunning`, `ScaleOutAddsItsCount`, `FullStrength`, `NoLostWakeup`)? | 793 000 |
| `stale_scalers` | The same scalers through lagging caches, with a crash, an API error, a failed command or a deleted scaler: does the status of a scaler never go back (`ScalerProgress`), and does a scaling job know its scaler (`ScalingScaler`)? | 372 000 |
| `policies` | Exit codes, a launcher that is always recreated, no cleanup, a ScaleIn by name (`ScaleInTakesOnlyNamed`, `NoLostWakeup`). | 74 000 |
| `ends` | Liveness, with a lagging pod cache, two scalers and a suspension: `StartupEnds`, `ScalersEnd`, `SucceededIsCleaned`, `SuspendedIsTornDown`. | 16 000 |
| `owner` | One scaler name, three writes under it, two jobs one after the other, one crash or failing write: do the two writes of the owner controllers and those of the job look like one atomic object (`BindingSpec`), does no job that the operator knew to be gone when a scaler was submitted become its owner (`OwnedByItsJob`), and does a scaler submitted to a job the operator knows get its owner (`SubmittedIsOwned`, under `FairSpec`)? | 241 000 |
| `resources` | One job with two possible workers, one restart, scalers, a suspension, lagging pod and service caches, one crash or failing call: has each worker pod and service (`Serviced`), each pod what it mounts (`Equipped`), and do no pods, services or (suspended) launcher remain that were to be deleted (`CleanedUp`)? | 2 227 000 |

`OwnedByItsJob` compares the owner with what the operator knew at the submission, not
with what was true then, because a submission does not wait for its caches: the
departures below say what may happen in between.

For `owner` one name is enough, since controllers hold one scaler at a time; that
it is used again, for a scaler submitted after the first was deleted, is what
matters, as is a second job of the same name. Three versions are submission,
status and owner, or a second submission. For `resources` two indexes
give a worker beside the one that a scaler adds or takes away, and one fault hits
each single call; the theorems below cover all sizes. It does not check for
deadlock: a suspended job whose objects are gone is done.

`NoLostWakeup` is about the controller at rest: no reconcile is under way or queued
and all events are delivered. Then nothing may be left to do for the phase the
job is in. It is a safety property that says what liveness needs and that does not
depend on fairness.

### Where the code departs from what it says

Three runs expect a violation; each checks one sentence of the repository.

| run | shows |
|---|---|
| `failed_by_cache` | A reconcile from an old copy of the job creates a worker again, and the AlreadyExists error fails the job though no pod failed. |
| `scale_in_takes_all` | A ScaleIn whose named workers are gone (after a crash between its deletion and its status write) deletes all workers: its list is nil, and nil means all to `DeleteWorkerPods`. |
| `same_names` | Two jobs of one name in two namespaces: workers are listed by the name alone, so that one job, suspended, deletes the running worker of the other. |

The following were met while modelling and bound what the passing runs assume;
they can be reproduced by changing the constants of a run.

- `restartJob` deletes the workers and takes the creating step at once. If the pod
  cache still has them they count as created, and the job waits for ever:
  `StartupEnds` fails with `Lagging = {"pods"}` and `BackoffLimit = 1`.
- A status computed from an older copy may overwrite `Succeeded`: `LifecycleSpec`
  fails with `Lagging = {"job", "pods"}`.
- The command that rewrites the hostfile comes before the status that records what
  it wrote (`worker.go:116-124`). If the operator restarts in between, and the
  workers become again those that the status records, the hostfile is not
  rewritten: `HostfileUpToDate` fails with `"crash"` in `Faults` and
  `MaxFaults = 3`. This is why `churn` has no crash; the theorems about
  `NoOrphans` and `FullStrength` below include it.
- With a lagging job cache, too, the hostfile is written from an old status and
  `HostfileUpToDate` fails, and replacements get names from old targets, so that
  `NoOrphans` fails; it also fails with lagging pods, with `apiError`, and under
  policy OnFailure or ExitCode if a worker whose replacement is created but not yet
  recorded disappears: it is not replaced any more.
- A launcher under policy Always that is lost starts again from the ConfigMap made
  for the first one: `HostfileUpToDate` fails with `LauncherPolicy = "Always"` and
  `"launcherLost"`.
- The ConfigMap survives a restart of the job, so that the new launcher starts on
  the old hosts: `HostfileUpToDate` fails with `BackoffLimit = 1` and a worker
  that is replaced.
- A worker whose name is used again, by a restart or a ScaleOut after a ScaleIn,
  gets no service if the service cache still shows the old one (`worker.go:298`):
  `Serviced` says nothing of what was deleted.
- A scaler submitted while the job cache still shows a job that was deleted may get
  that job as its owner: `setScalingOwner` takes the uid from the cache
  (`scalein_controller.go:114-142`), and the garbage collector then deletes the
  scaler with it, also if a new job of the name is there. `OwnedByItsJob`
  excludes only the jobs whose deletion the operator had seen.
- `cleanupAll` of a suspended job leaves its config map, secret and role objects
  (`trainingjob_controller.go:311-326`), though `api/v1/types.go:150` says "clean all
  subresource"; `CleanedUp` is about pods, services and the launcher.
- A scaler submitted before its job is seen waits for the next resync
  (`scalein_controller.go:121`), which `SubmittedIsOwned` leaves out.
- Executed from an old copy of its own status (`Lagging = {Out}`, `MaxCopies = 2`),
  a ScaleOut names its workers a second time after `TargetWorkers` has grown, and
  `ScaleOutAddsItsCount` fails (`scaleout.go:92-109`). With `Lagging = {In}` a
  ScaleIn chooses again and `FullStrength` and `ScaledInAfterHostfile` fail
  (`scalein.go:136-167`). This is why `scaling` has scaler caches that do not lag.
- With a stale job cache a second scaler may be started while the first is under
  way: `SerialScaling` fails; also after a restart of the job, which keeps its
  current scaler (`trainingjob_controller.go:277-289`).
- A ScaleOut writes to the hostfile the current workers as recorded before its
  wait (`scaleout.go:54`): with one worker that ends meanwhile `HostfileUpToDate`
  fails. `HostfileUpToDate` is therefore checked without scalers.
- A deleted ScaleOut, or a crash between the two status writes of one that
  succeeds, leaves workers nobody records: `NoOrphans` is checked without scalers.
- An API error in the deferred status write is dropped (`:216`): `NoLostWakeup`
  fails until the next event, so its runs have no API errors. A refused deletion
  of a pod is dropped too.
- The exit codes 128 and 255 are not retryable in `worker.go:194`, though
  `api/v1/types.go:179` says "128-255: retryable error".
- A launcher without a restart policy that is lost is neither replaced nor fails
  the job (`launcher.go:92-110`), while `api/v1/types.go:88` says "Default to
  Never." and `api/v1/types.go:166-167` that the default is Always.
- `src/api/v1alpha1/trainingjob_types.go:34` says that the clean pod policy
  "Defaults to None."; without one, `cleanup` deletes the workers as for Running
  (`trainingjob_controller.go:291-309`).

## The proofs

### The job

Proved about `Spec` for all values of the constants that the assumptions of `World`
allow, and that satisfy the hypothesis in the last column:

| module | theorem | property | if |
|---|---|---|---|
| `JobProofs` | `Typing` | `TypeOK` | |
| | `StepsAreInOrder` | `StepsInOrder` | |
| | `PhasesAgree` | `PhasesMatch` | |
| | `ScalingNamesItsScaler` | `ScalingScaler` | |
| | `RestartsAreBounded` | `RestartsBounded` | |
| `JobFrameProofs` | `CachesAreCurrent` | (`CachesAgree`) | |
| `JobLifecycleProofs` | `LauncherHasItsHosts` | `HostsComplete` | |
| | `ImplementsLifecycle` | `LifecycleSpec` | the informer of the job does not lag |
| | `NoWakeupIsLost` | `NoLostWakeup` | `Reliable` |
| `JobScalerProofs` | `ScalersOnlyGrow` | `ScalerProgress` | |
| | `OneScalerAtATime` | `SerialScaling` | `Steady` |
| | `ScaleOutsAddTheirCount` | `ScaleOutAddsItsCount` | `Steady`, `Counted` |
| `JobWorkersProofs` | `JobsKeepTheirSize` | `FullStrength` | `Reliable`, no scalers |
| | `NoWorkerIsOrphaned` | `NoOrphans` | `Reliable`, `Tracked`, no scalers |
| | `HostfileFollows` | `HostfileUpToDate` | `Undisturbed`, no scalers |
| | `ScaleInsFollowTheHostfile` | `ScaledInAfterHostfile` | `Steady`, `Rewriting`, launcher policy Never |

The hypotheses stand for what the code does not handle; the behaviours that break
a property without them are listed in the section above.

- `Reliable`: no API errors, because the error of the deferred status write is
  dropped (`trainingjob_controller.go:216`), and the launcher's policy is Always or
  Never, because nothing answers the loss of a launcher with another one. Any
  informers may lag, and the operator may restart.
- `Steady`: only the informer of the pods may lag, there are no API errors, and a
  failed job is not restarted. The job and its scaler are bound by two status
  writes, the scaler's first, and neither is taken back if the other is lost.
  `OneScalerAtATime` needs each part: TLC finds `SerialScaling` violated with a
  lagging job or scaler, with `apiError`, and with `BackoffLimit = 1`.
  `ScaleOutsAddTheirCount` is known to need current scalers and the writes; that it
  needs the other two is not known: they come from the proof, which says what a
  reconcile may do to the ScaleOut the job *holds*.
- `Counted`: no count is negative (none has that many workers), and no ScaleOut is
  deleted: its workers stay, and count for the next ScaleOut of its name.
- `Tracked`: the operator sees the job and its pods as they are, its writes arrive,
  and its workers' policy treats one that disappears like one that ends (Always
  replaces both, Never neither), or none disappears. It may restart anywhere.
- `Undisturbed`: `Steady`, no restart of the operator, and a launcher that is lost
  fails the job. Pods may be seen late.
- `Rewriting`: every ScaleIn says how many workers to delete, and has no script of its
  own. A script is trusted with the hostfile, and named workers may all be gone,
  in which case the code deletes every worker (`scale_in_takes_all`). The operator
  may restart, commands may fail and scalers may be deleted.

The theorems of `JobProofs` follow from `Inductive`, that `IInv` is an inductive invariant: `TypeOK`, and
`Consistent(st)` (the conjunction of the four status predicates) for *every* copy
of the status: in the API server, in the cache, and the one a reconcile read and
the one it computed. All copies are needed because a reconcile may start from an
old one and its result becomes the newest. The predicates need each other: a
status with the Failed condition takes no further condition (`setCondition`), so
that setting its phase to Running would leave a running job without the Running
condition; `StepOrder` is kept only because `PhaseMatches` says that the handlers
of live jobs never see such a status. The caches, the pods and the scalers are left unconstrained but for their
types, so the theorems hold whatever the caches show.

The argument goes in layers: operations on pods and the launcher keep the types
and the status (`Keeps`); operations on the status keep it consistent
(`...Consistent`); each handler leaves only good worlds from a good one (`Good`,
`AllGood`); `LeaveIInv` turns that into the invariant of the step; then one lemma
for each remaining action, and `StepIInv`.

Each of the other theorems has an inductive invariant of its own on top of `IInv`.
TLC checked each one on small instances before it was proved.

- `CachesAgree`: a cache differs from the API server only where `lag` says that
  events are still to be delivered. It is what makes a decision taken from a cache
  a decision about the cluster.
- `CopyInv`: every copy of the status that waits for the launcher (WorkersReady,
  not LauncherCreated) records a worker for each replica (`Manned`), and the phases New
  and Created say what was not done yet (`Early`). `HostsComplete` alone is not
  inductive, since the ConfigMap is filled from the status a reconcile holds, which
  may come from an old copy.
- `LifeInv`: with a current job cache, the status a reconcile read is still the
  job's when it is written, and the one it writes is a move of `JobLifecycle` from it.
- `WakeInv`: `NoLostWakeup` speaks of the controller at rest, so the reconcile before
  has to remember it: if it ends with the status it began with, without an
  error, without an event and with nothing undelivered, there is nothing to do. The
  lemmas on the handlers say that each of them then left everything as it was *because*
  there was nothing to do, which uses the bags of names (`HighestMember` and what
  follows it: the next names are new ones).
- `UpdateInv`: a status carried to the scaler's write goes on from the one the
  API server has. This holds for lagging caches too, because of the version.
- `SerialInv`: a scaler that has workers and no end is the one the job holds, in the
  API server, and in the status the reconcile will write once the scaler's status is
  written. It is stated for both writes, because the property is about the
  states between them.
- `LabelInv`: a pod has the label of a ScaleOut only if its name is one of those
  the ScaleOut may claim (`Claim`): those in its status, or, as long as it has none and
  the job holds it, the next names after the job's targets. Reconciles that begin
  again therefore claim the same names, whatever their pod cache shows.

- `StaffInv`: a copy of the status that says the workers were created records
  members, and one that records any records at least `Replicas` (`Staffed`). With
  `NoLostWakeup` no member of the targets needs a replacement at rest, so they all live.
  That a replacement gives as many new names as it takes old ones is a fact
  about a sum over a bag (`MapThenSumSet`). The prover cannot do induction over sets;
  `SumIsCount` shows that the fold of the library is a recursive function
  `CountOf(t)`, and what is needed of it (`CountGrows`, `CountIsEnough`) follows
  from a set of least size for which it would fail.
- `OrphanInv`: a worker that lives is a member of the targets or has one of the names
  the next replacement will take (`Names`), in the job's status and in the one being
  written. So whatever a reconcile made before it was lost, the next one
  finds it under the names it is about to give. It uses that new names only follow
  the members, and that with time more workers need a replacement, never fewer (`Aged`).
- `HostInv`: what the status records as current, as it is or will be once it is
  written (`Due`), is what the hostfile lists while the launcher runs, and what the
  ConfigMap lists until then. The ConfigMap and the status that counts the workers
  ready have the same workers because no reconcile comes between them.

- `ShownInv` and `LaunchInv`: a ScaleIn whose script was executed has workers, and no
  hostfile of a running launcher lists them (`Shown`), in the API server and in the
  status on its way there. Only two hands could list them again: a reconcile of a
  running job, and the launcher's init container. The first is excluded by
  `SerialInv`, since the job holds a scaler that has workers; the second because a job
  that runs, or has a scaler, has seen its launcher run (`Settled`), and a
  launcher is created once.

The layers below them are in `JobFrameProofs`: what an operation on pods or the
launcher leaves alone (`SameRest`, `SameStore`, `SameView`), and one summary for
each handler (`...Does`), of which the step lemmas are consequences.

The assumptions are the named `ASSUME`s of `World`: numbers are natural, there is
at least one replica and its name is within `MaxWorker`, policies and faults are
among those known, scalers are well formed. TLC evaluates them in every run.

### The owner of a scaler

`ScalerOwnerProofs` proves about `Spec`, for all values of the constants: `Typing`
(`TypeOK`), `Ownership` (`OwnedByItsJob`) and `Implements` (`BindingSpec`). They
follow from `Inductive`. What has to be said beside the property is about *copies*:
every copy, in a cache or in the hands of a reconcile, has a version that was
written under its name; a copy with the newest version *is* the object; the uid a reconcile holds is one that exists or
existed, newer than the jobs that were known to be gone when the copy's scaler was
submitted. That the cache never goes back to such a job needs `InformerInv`: a job
that exists is in the cache or has an event to come. With that an accepted write is
a step of `ScalerBinding` from the object as it is, though it was computed from a
copy, and a refused one is a stutter.

### The objects of a job

`ResourcesProofs` proves `Typing` (`TypeOK`) and `Apart`: if no two jobs have the
same name, `JobsApart` holds. The run `same_names` shows that the hypothesis is
needed, the theorem that nothing else is. The invariant is that the objects a
reconcile still has to work through belong to its job.

`ResourcesSafetyProofs` proves `Served` (`Serviced`), `Furnished` (`Equipped`) and
`Removed` (`CleanedUp`: worker pods, services, and the launcher of a suspended job)
for any number of jobs, workers and faults and any lagging caches. Each needs an invariant about a reconcile under way, because the property
is promised by a status that is written only at its end: `ServicedInv`, what the
status will promise exists, was deleted, or is still on the list;
`EquippedInv`, each thing a pod needs exists, or its error was dropped, or its
creation is on the list *before* the pod's; `CleanedUpInv`, for a job that is
not queued, each unwanted object that the cache shows is on the list of deletions
of the reconcile under way, and that reconcile makes nothing. They rest on `Tidy`:
the shape of a reconcile, what it may do in which phase. `CleanedUpInv` is where
watches matter: an object that the cache does not show yet is not claimed, since its
delivery queues the job. All were checked by TLC on the instance of `resources`
before they were proved.

### Only model-checked

Liveness (`SubmittedIsOwned` and the run `ends`), which is out of the prover's reach;
`FullStrength` with scalers (the theorem is about jobs without); and the step of a
scaling `HostfileAfterRunning`. `FailedByFailure` and
`ScaleInTakesOnlyNamed` are violated by the runs above; the second is also checked
where it holds.

## Not modelled

- Counters of replicas and evictions, times, reasons and events: written, never
  read.
- The deletion of a job while it is reconciled (`Reconcile` returns at once; the
  garbage collector does the rest), and jobs that appear or go in `Resources`.
- `src/pkg/util` (executing a command in a pod, which is an outcome of
  `executeOnLauncher`; key generation; paths), `src/main.go` (flags and wiring: what
  matters of it, no namespace and one worker per controller, is in the models),
  `src/hack` and generated code: pure I/O or no state.
- The attachment by kubexec instead of SSH, and a secret named by an annotation:
  without a secret to make, fewer steps.

## Plan

Done: the reconcile loop with workers, launcher and scaling, their composition,
the life cycle refinement, and the theorems on the status, the caches, the wakeups,
the scalers, the workers and the hostfile; the owner controllers with
their abstract specification; the objects of a job call by call, with two jobs of
one name, and the theorems on both. Next, in this order:

1. Proofs about `TrainingJob`: `HostfileAfterRunning`, with an invariant that says
   in each phase of a scaling which recorded workers the hostfile lists beside
   those of the scaler; then `FullStrength` with scalers.
2. `StatusWriter`: optimistic locking and the deferred write as a component, with
   an abstract register, and `TrainingJob`'s writes shown to implement it.
3. `ScalerLifecycle`: an abstract specification of a scaler (waiting, bound,
   executed, ended) that `Scaling` implements, for stale caches too.
4. The condition list of `status.go` as a sequence, with the set used here as its
   refinement.
