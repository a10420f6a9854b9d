----------------------------- MODULE ScalerOwner -----------------------------
(***************************************************************************)
(* The controllers of ScaleIns and ScaleOuts (scalein_controller.go,       *)
(* scaleout_controller.go), which make the job a scaler names its owner,   *)
(* beside the controller of the job, which executes the scalers it owns.   *)
(*                                                                         *)
(* All of them read one cache, which may be behind the API server, and     *)
(* write with the version they read: the API server refuses a write whose  *)
(* version is not the newest. Scalers are created and deleted by users,    *)
(* and a name may be used again; so may the name of the job.               *)
(***************************************************************************)
EXTENDS Naturals, Functions

CONSTANTS
    Scalers,        \* names of ScaleIn and ScaleOut resources
    Kind,           \* [Scalers -> {"in", "out"}]
    NoScaler,       \* an empty Status.CurrentScaler
    MaxJobs,        \* bound: the jobs created, one after the other, under one name
    MaxVersion,     \* bound: no scaler is submitted under a name written so often
    Faults,         \* the kinds of fault that may happen
    MaxFaults       \* bound: the number of faults in a behaviour

ASSUME OwnerAssumption ==
    /\ Kind \in [Scalers -> {"in", "out"}]
    /\ NoScaler \notin Scalers
    /\ MaxJobs \in Nat /\ MaxVersion \in Nat /\ MaxFaults \in Nat
    /\ Faults \subseteq {"crash", "apiError"}

VARIABLES
    \* the API server
    job,        \* the uid of the job of the name the scalers select, or NoJob
    uids,       \* the number of jobs created under this name
    current,    \* the job's Status.CurrentScaler
    scalers,    \* the scalers that exist
    version,    \* the number of writes made under each name
    \* the operator
    jobCache,   \* the job in the informer's cache
    passed,     \* the newest job of which the informer of the job has had an event
    cache,      \* the scalers in the informers' caches
    queue,      \* the keys in the work queues of the two scaler controllers
    held,       \* what each controller under way has read and will write next
    faults      \* the number of faults so far

vars == <<job, uids, current, scalers, version, jobCache, passed, cache, queue, held,
          faults>>

NoJob == 0

Jobs == 1..MaxJobs

ExecutionCondition == {"Scaling", "ScriptExecuted", "ScaleSucceeded", "ScaleFailed"}

\* A ScaleIn or ScaleOut: its resource version, the uid in its owner reference,
\* its conditions and whether it has a deletion timestamp. The last two fields are
\* history, what the operator knew when the scaler was submitted: the job in its
\* cache, and the newest job that it had seen to be gone.
Scaler == [ver : Nat, owner : {NoJob} \cup Jobs,
           conds : SUBSET ({"Created"} \cup ExecutionCondition),
           deleting : BOOLEAN,
           seen : {NoJob} \cup Jobs, gone : {NoJob} \cup Jobs]

IsScalerMap(m) == DOMAIN m \subseteq Scalers /\ m \in [DOMAIN m -> Scaler]

isScaleFinished(x) == {"ScaleSucceeded", "ScaleFailed"} \cap x.conds # {}

\* A reconcile under way: the copy it read, the job it will write or has read,
\* and its next write.
Reconciling == [scaler : Scalers, obj : Scaler, uid : Jobs,
                next : {"status", "owner", "execution"}]

TypeOK ==
    /\ uids \in 0..MaxJobs
    /\ job \in {NoJob, uids}
    /\ passed \in 0..uids /\ jobCache \in {NoJob, passed}
    /\ current \in Scalers \cup {NoScaler}
    /\ IsScalerMap(scalers) /\ IsScalerMap(cache)
    /\ version \in [Scalers -> Nat]
    /\ queue \subseteq Scalers
    /\ DOMAIN held \subseteq {"in", "out", "job"}
    /\ held \in [DOMAIN held -> Reconciling]
    /\ faults \in 0..MaxFaults

None == [s \in {} |-> NoJob]

Init ==
    /\ job = NoJob /\ uids = 0 /\ current = NoScaler
    /\ scalers = None /\ version = [s \in Scalers |-> 0]
    /\ jobCache = NoJob /\ passed = NoJob /\ cache = None
    /\ queue = {} /\ held = None
    /\ faults = 0

-----------------------------------------------------------------------------
(* The API server *)

\* The object x replaces the scaler s. A write that changes nothing makes no
\* new version.
Put(s, x) ==
    IF x = scalers[s] THEN UNCHANGED <<scalers, version>>
    ELSE /\ version' = [version EXCEPT ![s] = @ + 1]
         /\ scalers' = [scalers EXCEPT ![s] = [x EXCEPT !.ver = version[s] + 1]]

UpToDate_AnyVersion(h) == h.scaler \in DOMAIN scalers

\* The copy a reconcile holds has the newest version.
UpToDate(h) == h.scaler \in DOMAIN scalers /\ scalers[h.scaler].ver = h.obj.ver

\* A status update leaves the metadata alone; an update leaves the status alone.
PutStatus(h, conds) == Put(h.scaler, [scalers[h.scaler] EXCEPT !.conds = conds])

PutOwner(h) == Put(h.scaler, [scalers[h.scaler] EXCEPT !.owner = h.uid])

MayFail(kind) ==
    /\ kind \in Faults /\ faults < MaxFaults
    /\ faults' = faults + 1

-----------------------------------------------------------------------------
(* The reconcile of a scaler: Reconcile and setScalingOwner. c is "in" or      *)
(* "out": each controller has one worker.                                      *)

Hold(c, h) == held' = [d \in DOMAIN held \cup {c} |-> IF d = c THEN h ELSE held[d]]

Release(c) == held' = Restrict(held, DOMAIN held \ {c})

NeedsOwner_JobUnknown(s) ==
    /\ s \in DOMAIN cache
    /\ ~cache[s].deleting /\ ~isScaleFinished(cache[s])
    /\ cache[s].owner = NoJob

\* No reconcile is needed for a scaler that is gone, being deleted, finished or
\* owned, and none is made for one whose job is not there: the key is dropped.
NeedsOwner(s) ==
    /\ s \in DOMAIN cache
    /\ ~cache[s].deleting /\ ~isScaleFinished(cache[s])
    /\ cache[s].owner = NoJob /\ jobCache # NoJob

Start(c, s) ==
    /\ c \notin DOMAIN held /\ s \in queue /\ Kind[s] = c
    /\ queue' = queue \ {s}
    /\ IF NeedsOwner(s)
       THEN Hold(c, [scaler |-> s, obj |-> cache[s], uid |-> jobCache, next |-> "status"])
       ELSE UNCHANGED held
    /\ UNCHANGED <<job, uids, current, scalers, version, jobCache, passed, cache, faults>>

Requeued_Dropped(c) == UNCHANGED queue

Requeued(c) == queue' = queue \cup {held[c].scaler}

\* A write the API server refuses, or that fails before or after it was made.
Refused(h) == ~UpToDate(h) /\ UNCHANGED <<scalers, version, faults>>

Fails(Write) == MayFail("apiError") /\ (Write \/ UNCHANGED <<scalers, version>>)

\* After an error the reconcile ends and is repeated after an interval.
WriteStatus(c) ==
    LET h     == held[c]
        Write == UpToDate(h) /\ PutStatus(h, h.obj.conds \cup {"Created"})
    IN  /\ c \in DOMAIN held /\ h.next = "status"
        /\ \/ /\ Write /\ UNCHANGED <<queue, faults>>
              /\ held' = [held EXCEPT ![c].next = "owner", ![c].obj = scalers'[h.scaler]]
           \/ /\ Refused(h) \/ Fails(Write)
              /\ Release(c) /\ Requeued(c)
        /\ UNCHANGED <<job, uids, current, jobCache, passed, cache>>

WriteOwner_AnyVersion(c) ==
    LET h     == held[c]
        Write == h.scaler \in DOMAIN scalers /\ PutOwner(h)
    IN  /\ c \in DOMAIN held /\ h.next = "owner"
        /\ Write /\ Release(c)
        /\ UNCHANGED <<job, uids, current, jobCache, passed, cache, queue, faults>>

\* The second write carries the version that the first one returned.
WriteOwner(c) ==
    LET h     == held[c]
        Write == UpToDate(h) /\ PutOwner(h)
    IN  /\ c \in DOMAIN held /\ h.next = "owner"
        /\ \/ Write /\ UNCHANGED <<queue, faults>>
           \/ (Refused(h) \/ Fails(Write)) /\ Requeued(c)
        /\ Release(c)
        /\ UNCHANGED <<job, uids, current, jobCache, passed, cache>>

-----------------------------------------------------------------------------
(* The controller of the job, as far as it concerns its scalers: scaler.go.    *)
(* TrainingJob models it in full, with scalers that have their owner.          *)

\* The conditions a reconcile of the job adds to the scaler it executes.
ExecutionSteps ==
    {{}, {"Scaling"}, {"ScriptExecuted"}, {"ScriptExecuted", "ScaleSucceeded"},
     {"ScaleSucceeded"}, {"ScaleFailed"}}

\* A job without a current scaler chooses among those it controls; it finds the
\* one it executes by its name.
JobReads(s) ==
    /\ "job" \notin DOMAIN held /\ jobCache # NoJob
    /\ s \in DOMAIN cache /\ ~isScaleFinished(cache[s])
    /\ \/ current = NoScaler /\ cache[s].owner = jobCache
       \/ current = s /\ ~cache[s].deleting
    /\ Hold("job", [scaler |-> s, obj |-> cache[s], uid |-> jobCache, next |-> "execution"])
    /\ UNCHANGED <<job, uids, current, scalers, version, jobCache, passed, cache, queue, faults>>

\* An error of the scaler's status update is dropped, and so may be that of the
\* job's.
JobWrites ==
    LET h == held["job"]
        s == h.scaler
    IN  /\ "job" \in DOMAIN held /\ Release("job")
        /\ \E added \in IF current = NoScaler THEN {{"Scaling"}} ELSE ExecutionSteps :
             LET Write == UpToDate(h) /\ PutStatus(h, h.obj.conds \cup added)
                 after == IF isScaleFinished([conds |-> added]) THEN NoScaler ELSE s
             IN  /\ (Write /\ UNCHANGED faults) \/ Refused(h) \/ Fails(Write)
                 /\ current' \in {current, IF h.uid = job THEN after ELSE current}
        /\ UNCHANGED <<job, uids, jobCache, passed, cache, queue>>

\* A current scaler that is gone or finished is given up.
JobDrops ==
    /\ "job" \notin DOMAIN held /\ current # NoScaler
    /\ current \in DOMAIN cache => isScaleFinished(cache[current])
    /\ current' = NoScaler
    /\ UNCHANGED <<job, uids, scalers, version, jobCache, passed, cache, queue, held, faults>>

-----------------------------------------------------------------------------
(* The informers, the cluster and its users *)

\* The scaler controllers watch their own kind only: no event of a job queues one
\* of their keys. Jobs are created and deleted in the cache in the order of the API
\* server: it may show one that was created and deleted long ago.
DeliverJob ==
    /\ \/ /\ jobCache # NoJob /\ jobCache # job
          /\ jobCache' = NoJob /\ UNCHANGED passed
       \/ /\ jobCache = NoJob /\ passed < uids
          /\ passed' = passed + 1 /\ jobCache' = passed + 1
    /\ UNCHANGED <<job, uids, current, scalers, version, cache, queue, held, faults>>

Deliver(s) ==
    /\ \/ (s \in DOMAIN scalers) # (s \in DOMAIN cache)
       \/ s \in DOMAIN scalers /\ s \in DOMAIN cache /\ scalers[s] # cache[s]
    /\ cache' = [r \in (DOMAIN cache \ {s}) \cup (DOMAIN scalers \cap {s}) |->
                   IF r = s THEN scalers[s] ELSE cache[r]]
    /\ queue' = queue \cup {s}
    /\ UNCHANGED <<job, uids, current, scalers, version, jobCache, passed, held, faults>>

\* The periodic resync of an informer, far too rare to wait for.
Resync(s) ==
    /\ s \in DOMAIN cache /\ s \notin queue
    /\ queue' = queue \cup {s}
    /\ UNCHANGED <<job, uids, current, scalers, version, jobCache, passed, cache, held, faults>>

\* The operator restarts with caches filled from the API server, which has no
\* event left of the jobs before.
Crash ==
    /\ MayFail("crash")
    /\ held' = None
    /\ jobCache' = job /\ passed' = uids /\ cache' = scalers /\ queue' = DOMAIN scalers
    /\ UNCHANGED <<job, uids, current, scalers, version>>

CreateJob ==
    /\ job = NoJob /\ uids < MaxJobs
    /\ uids' = uids + 1 /\ job' = uids + 1
    /\ UNCHANGED <<current, scalers, version, jobCache, passed, cache, queue, held, faults>>

DeleteJob ==
    /\ job # NoJob /\ job' = NoJob /\ current' = NoScaler
    /\ UNCHANGED <<uids, scalers, version, jobCache, passed, cache, queue, held, faults>>

\* The newest job that is gone as far as the operator knows.
SeenGone == IF jobCache = NoJob THEN passed ELSE passed - 1

SubmitScaler(s) ==
    /\ s \notin DOMAIN scalers /\ version[s] < MaxVersion
    /\ version' = [version EXCEPT ![s] = @ + 1]
    /\ scalers' = [r \in DOMAIN scalers \cup {s} |->
                     IF r # s THEN scalers[r]
                     ELSE [ver |-> version[s] + 1, owner |-> NoJob, conds |-> {},
                           deleting |-> FALSE,
                           seen |-> jobCache, gone |-> SeenGone]]
    /\ UNCHANGED <<job, uids, current, jobCache, passed, cache, queue, held, faults>>

Remove(s) ==
    /\ scalers' = Restrict(scalers, DOMAIN scalers \ {s})
    /\ UNCHANGED <<job, uids, current, version, jobCache, passed, cache, queue, held, faults>>

\* A deletion in the foreground first sets the deletion timestamp.
DeleteScaler(s) == s \in DOMAIN scalers /\ Remove(s)

MarkDeleted(s) ==
    /\ s \in DOMAIN scalers /\ ~scalers[s].deleting
    /\ Put(s, [scalers[s] EXCEPT !.deleting = TRUE])
    /\ UNCHANGED <<job, uids, current, jobCache, passed, cache, queue, held, faults>>

\* The garbage collector removes a scaler whose owner does not exist.
Collect(s) ==
    /\ s \in DOMAIN scalers /\ scalers[s].owner \notin {NoJob, job}
    /\ Remove(s)

-----------------------------------------------------------------------------

Next ==
    \/ \E s \in Scalers :
         \/ Start(Kind[s], s) \/ JobReads(s) \/ Deliver(s) \/ Resync(s)
         \/ SubmitScaler(s) \/ DeleteScaler(s) \/ MarkDeleted(s) \/ Collect(s)
    \/ \E c \in {"in", "out"} : WriteStatus(c) \/ WriteOwner(c)
    \/ JobWrites \/ JobDrops \/ DeliverJob \/ Crash \/ CreateJob \/ DeleteJob

Spec == Init /\ [][Next]_vars

\* The work queues hand out their keys in turn, the calls of a reconcile return
\* and the informers deliver.
Fairness ==
    /\ \A s \in Scalers : SF_vars(Start(Kind[s], s)) /\ WF_vars(Deliver(s))
    /\ \A c \in {"in", "out"} : WF_vars(WriteStatus(c)) /\ WF_vars(WriteOwner(c))
    /\ WF_vars(DeliverJob)

FairSpec == Spec /\ Fairness

-----------------------------------------------------------------------------
(* Properties *)

\* Through stale copies, two writers and retries the users see the object of
\* ScalerBinding: nothing a controller added to a scaler is taken back, it gets
\* one owner, after its Created condition and before its end
\* (scalein_controller.go:112-150, scaler.go:183-226).
Binding == INSTANCE ScalerBinding WITH bound <-
    [s \in DOMAIN scalers |-> [owner |-> scalers[s].owner, conds |-> scalers[s].conds]]

BindingSpec == Binding!Spec

\* A scaler is never owned by a job that was gone, as far as the operator knew, when
\* the scaler was submitted: not by an older object of either name, whatever old
\* copies are read, held and written later (scalein_controller.go:114-142). A
\* deletion the operator had not seen yet is none to it: such a job may get the
\* scaler, and the garbage collector deletes both.
OwnedByItsJob ==
    \A s \in DOMAIN scalers :
        scalers[s].owner # NoJob => scalers[s].owner > scalers[s].gone

\* A scaler that waits for the job it was submitted to, which the operator knew.
Waiting(s) ==
    /\ s \in DOMAIN scalers /\ job # NoJob /\ scalers[s].seen = job
    /\ scalers[s].owner = NoJob
    /\ ~scalers[s].deleting /\ ~isScaleFinished(scalers[s])

\* A scaler submitted to a job that the operator knows does not wait for ever,
\* though no event but its own starts a reconcile and each write may be refused
\* (scalein_controller.go:80-150). One submitted before its job does.
SubmittedIsOwned == \A s \in Scalers : Waiting(s) ~> ~Waiting(s)
=============================================================================
