-------------------------- MODULE JobScalerProofs --------------------------
(***************************************************************************)
(* Proofs about TrainingJob: the status of a scaler only grows, the        *)
(* scalers of a job are executed one at a time, and a ScaleOut has no more *)
(* workers than its count.                                                 *)
(***************************************************************************)
EXTENDS JobLifecycleProofs

-----------------------------------------------------------------------------
(* A reconcile carries at most one status of a scaler to its write, and that   *)
(* status goes on from the one the API server has.                             *)

UpdateInv ==
    /\ pc # "writeScaler" => DOMAIN update = {}
    /\ \A s \in DOMAIN update \cap DOMAIN scalers : Extends(scalers[s], update[s])

\* What a step may do to the scaler s, if it is there before and after.
Grows(s) ==
    /\ scalers[s].conds \subseteq scalers'[s].conds
    /\ scalers[s].pods # {} => scalers'[s].pods = scalers[s].pods
    /\ isScaleFinished(scalers[s]) => scalers'[s] = scalers[s]

ScalersGrow == \A s \in DOMAIN scalers \cap DOMAIN scalers' : Grows(s)

LEMMA SameGrows == ASSUME UNCHANGED scalers PROVE ScalersGrow
  BY DEF ScalersGrow, Grows

LEMMA HandleUpdates ==
  ASSUME IInv, CachesAgree, Handle PROVE UpdateInv' /\ UNCHANGED scalers
<1>1. PICK w : Saves(w, Observed) /\ Leave(w) BY HandleLeaves
<1>2. /\ update' = w.update /\ UNCHANGED scalers
      /\ pc' = IF DOMAIN w.update = {} THEN "writeJob" ELSE "writeScaler"
  BY <1>1 DEF Leave
<1>3. /\ DOMAIN scalerCache \subseteq Scalers /\ w.known = scalerCache
      /\ w.stale = lag \cap Scalers
  BY <1>1 DEF Saves, Observed, IInv, TypeOK, IsScalerMap
<1>4. ASSUME NEW s \in DOMAIN w.update, s \in DOMAIN scalers
      PROVE  Extends(scalers[s], w.update[s])
  <2>1. s \in DOMAIN scalerCache /\ s \notin lag /\ Extends(scalerCache[s], w.update[s])
    BY <1>1, <1>3 DEF Saves
  <2>2. scalerCache[s] = scalers[s] BY <1>3, <1>4, <2>1 DEF CachesAgree, ScalerAgrees
  <2>3. QED BY <2>1, <2>2
<1>5. QED BY <1>2, <1>4 DEF UpdateInv

LEMMA WriteScalerGrows ==
  ASSUME IInv, UpdateInv, WriteScaler PROVE UpdateInv' /\ ScalersGrow
<1>1. pc' = "writeJob" /\ DOMAIN update' = {} BY DEF WriteScaler, EmptyMap
<1>2. UpdateInv' BY <1>1 DEF UpdateInv
<1>3. PICK s \in DOMAIN update :
        \/ s \in DOMAIN scalers /\ scalers' = [scalers EXCEPT ![s] = update[s]]
        \/ UNCHANGED scalers
  BY DEF WriteScaler
<1>4. CASE s \in DOMAIN scalers /\ scalers' = [scalers EXCEPT ![s] = update[s]]
  <2>1. Extends(scalers[s], update[s]) BY <1>4 DEF UpdateInv
  <2>2. scalers'[s] = update[s] /\ \A r \in DOMAIN scalers \ {s} : scalers'[r] = scalers[r]
    BY <1>4
  <2>3. Grows(s) BY <2>1, <2>2 DEF Grows, Extends
  <2>4. \A r \in DOMAIN scalers \ {s} : Grows(r) BY <2>2 DEF Grows
  <2>5. QED BY <1>2, <2>3, <2>4 DEF ScalersGrow
<1>5. QED BY <1>2, <1>3, <1>4, SameGrows

LEMMA ScalersChangeGrows ==
  ASSUME UpdateInv, NEW s, SubmitScaler(s) \/ DeleteScaler(s)
  PROVE  UpdateInv' /\ ScalersGrow
<1>1. UNCHANGED <<pc, update>> BY DEF SubmitScaler, DeleteScaler, local
<1>2. \A r \in DOMAIN scalers' :
        \/ r \in DOMAIN scalers /\ scalers'[r] = scalers[r]
        \/ r \notin DOMAIN scalers /\ r \notin DOMAIN update
  <2>1. CASE SubmitScaler(s) BY <2>1 DEF SubmitScaler
  <2>2. CASE DeleteScaler(s) BY <2>2 DEF DeleteScaler, Restrict
  <2>3. QED BY <2>1, <2>2
<1>3. UpdateInv' BY <1>1, <1>2 DEF UpdateInv
<1>4. ScalersGrow BY <1>2 DEF ScalersGrow, Grows
<1>5. QED BY <1>3, <1>4

LEMMA UpdateInit == Init => UpdateInv
  BY DEF Init, UpdateInv, EmptyMap

\* The steps that leave the scalers and what is to be written of them alone.
LEMMA OthersUpdate ==
  ASSUME UpdateInv, UNCHANGED <<pc, update, scalers>> \/ (DOMAIN update' = {} /\ UNCHANGED scalers)
  PROVE  UpdateInv' /\ ScalersGrow
  BY SameGrows DEF UpdateInv

LEMMA UpdateStep ==
  IInv /\ CachesAgree /\ UpdateInv /\ [Next]_vars => UpdateInv' /\ ScalersGrow
<1> SUFFICES ASSUME IInv, CachesAgree, UpdateInv, [Next]_vars PROVE UpdateInv' /\ ScalersGrow
  OBVIOUS
<1>1. ASSUME Start PROVE DOMAIN update' = {} /\ UNCHANGED scalers
  BY <1>1 DEF Start, UpdateInv, api
<1>2. ASSUME WriteJob PROVE DOMAIN update' = {} /\ UNCHANGED scalers
  BY <1>2 DEF WriteJob, EndReconcile, UpdateInv
<1>3. ASSUME Crash PROVE DOMAIN update' = {} /\ UNCHANGED scalers
  BY <1>3 DEF Crash, EmptyMap, api
<1>4. ASSUME Sync PROVE UNCHANGED <<pc, update, scalers>>
  BY <1>4 DEF Sync, SyncJob, SyncPods, SyncScaler, api, local
<1>5. ASSUME NEW i, WorkerRuns(i) \/ WorkerEnds(i) \/ WorkerLost(i)
      PROVE  UNCHANGED <<pc, update, scalers>>
  BY <1>5 DEF WorkerRuns, WorkerEnds, WorkerLost, ChangePods, local
<1>6. ASSUME LauncherRuns \/ LauncherEnds \/ LauncherLost \/ Suspend \/ OtherEvent
      PROVE  UNCHANGED <<pc, update, scalers>>
  BY <1>6 DEF LauncherRuns, LauncherEnds, LauncherLost, ChangeLauncher, Suspend, OtherEvent, api, local
<1>7. ASSUME UNCHANGED vars PROVE UNCHANGED <<pc, update, scalers>>
  BY <1>7 DEF vars, api, local
<1>8. ASSUME Environment PROVE UpdateInv' /\ ScalersGrow
  BY <1>5, <1>6, <1>8, OthersUpdate, ScalersChangeGrows DEF Environment
<1>9. ASSUME Reconcile PROVE UpdateInv' /\ ScalersGrow
  BY <1>1, <1>2, <1>9, HandleUpdates, SameGrows, WriteScalerGrows, OthersUpdate DEF Reconcile
<1>10. QED BY <1>3, <1>4, <1>7, <1>8, <1>9, OthersUpdate DEF Next

\* The conditions and the chosen workers of a ScaleIn or ScaleOut are never taken
\* back: the status a reconcile writes was computed from the version the write
\* replaces (scaler.go:126-226; the API server refuses any other).
THEOREM ScalersOnlyGrow == Spec => ScalerProgress
<1>1. IInv /\ CachesAgree /\ UpdateInv /\ [Next]_vars => UpdateInv' BY UpdateStep
<1>2. IInv /\ CachesAgree /\ UpdateInv /\ [Next]_vars => [ScalersGrow]_vars BY UpdateStep
<1>3. Spec => []UpdateInv BY <1>1, Inductive, CachesAreCurrent, UpdateInit, PTL DEF Spec
<1>4. Spec => [][ScalersGrow]_vars BY <1>2, <1>3, Inductive, CachesAreCurrent, PTL DEF Spec
<1>5. QED BY <1>4 DEF ScalerProgress, ScalersGrow, Grows

-----------------------------------------------------------------------------
(* One scaler at a time. The job and the scaler it executes are bound by two    *)
(* writes, the scaler's first: the hypotheses keep the second from being lost,  *)
(* or taken back, once the first has shown that the scaler has its workers.     *)

\* The operator reads the job and its scalers as they are, the API server takes
\* every write, and a failed job does not start again. The view of the pods may
\* be of any age, and the operator may restart between any two steps.
Steady ==
    /\ Lagging \subseteq {"pods"}
    /\ "apiError" \notin Faults
    /\ JobPolicy = "Never" \/ BackoffLimit = 0

\* The job is at r, or was when it ended.
Holds(st, r) == st.scaler = r /\ st.phase \in {"Scaling", "Succeeded", "Failed", "Suspended"}

\* The scaler's status x has workers and no end.
Underway(x) == x.pods # {} /\ ~isScaleFinished(x)

\* The status of s once the reconcile's update is written.
After(s) == IF s \in DOMAIN update THEN update[s] ELSE scalers[s]

SerialInv ==
    /\ \A s \in DOMAIN scalers : InProgress(s) => Holds(job.status, s)
    /\ pc \in {"writeScaler", "writeJob"} =>
         \A s \in DOMAIN scalers : Underway(After(s)) => Holds(mine, s)
    /\ \A s \in DOMAIN update : Underway(update[s]) => Holds(job.status, s)
    /\ \A r, s \in DOMAIN update : r = s

\* What a handler does to the scalers in the world w: its update is of one, which
\* gets its workers only from a job that is at it, and the job turns away from
\* one only when it has ended.
Tends(v, w) ==
    /\ \A r, s \in DOMAIN v.update : r = s
    /\ \A s \in DOMAIN v.update : Underway(v.update[s]) =>
         \/ w.st.phase = "Scaling" /\ w.st.scaler = s
         \/ s \in DOMAIN w.known /\ Underway(w.known[s])
    /\ \A s \in DOMAIN w.known : Holds(w.st, s) =>
         \/ Holds(v.st, s) \/ s \in w.stale
         \/ s \notin DOMAIN v.update /\ isScaleFinished(w.known[s])
         \/ s \in DOMAIN v.update /\ isScaleFinished(v.update[s])

AllTend(S, w) == \A v \in S : Tends(v, w)

LEMMA NoUpdateTends ==
  ASSUME NEW w, NEW v, DOMAIN v.update = {},
         \A s : Holds(w.st, s) => Holds(v.st, s)
  PROVE  Tends(v, w)
  BY DEF Tends

LEMMA ActsTend ==
  ASSUME NEW w, NEW S, Acts(S, w), DOMAIN w.update = {} PROVE AllTend(S, w)
  BY NoUpdateTends DEF AllTend, Acts, SameRest, SameStore

LEMMA CreatedTends ==
  ASSUME NEW w, Good(w), w.st.phase \in {"New", "Created"}, DOMAIN w.update = {}
  PROVE  AllTend(doSteps(initializeJob(w)), w)
<1> DEFINE u == initializeJob(w)
<1>1. Good(u) /\ SameStore(u, w)
  BY LivePhaseIsUnfinished, initializeJobGood, initializeJobDoes DEF Good
<1> HIDE DEF u
<1>2. \A v \in doSteps(u) : v.update = w.update
  BY <1>1, doStepsDoes DEF SameStore, SameScalers
<1>3. \A s : ~Holds(w.st, s) BY DEF Holds
<1>4. QED BY <1>2, <1>3, NoUpdateTends DEF AllTend, u

\* A scaler that is taken up keeps the workers it has.
LEMMA StartScalerTends ==
  ASSUME NEW w \in Worlds, NEW s \in DOMAIN w.known, DOMAIN w.update = {}
  PROVE  LET v == StartScaler(w, s)
         IN  /\ DOMAIN v.update \subseteq {s}
             /\ s \in DOMAIN v.update /\ Underway(v.update[s]) => Underway(w.known[s])
<1> DEFINE u == [w EXCEPT !.st.phase = "Scaling", !.st.scaler = s]
           y == [w.known[s] EXCEPT !.conds = @ \cup {"Scaling"}]
           m == [r \in {s} |-> y]
<1>1. s \in Scalers /\ w.known[s] \in ScalerStatus BY KnownTypes DEF Worlds
<1>2. Underway(y) => Underway(w.known[s])
  BY <1>1 DEF Underway, isScaleFinished, ScalerStatus
<1>3. u.update = w.update /\ u.known = w.known /\ u.stale = w.stale BY DEF Worlds
<1>4. DOMAIN m = {s} /\ m[s] = y OBVIOUS
<1>5. StartScaler(w, s) = IF s \in u.stale \/ u.known[s] = y THEN u ELSE [u EXCEPT !.update = m]
  BY DEF StartScaler, SaveScaler
<1> HIDE DEF y, m
<1>6. [u EXCEPT !.update = m].update = m BY DEF Worlds
<1> HIDE DEF u
<1>7. QED BY <1>2, <1>3, <1>4, <1>5, <1>6

LEMMA RunningTends ==
  ASSUME NEW w, Good(w), w.st.phase = "Running", DOMAIN w.update = {}
  PROVE  AllTend(reconcileJobRunning(w), w)
<1> DEFINE Looked == UNION {handleWorkersFailed(u) : u \in syncLauncherState(w)}
<1>1. w \in Worlds /\ Unfinished(w.st) /\ "LauncherCreated" \in w.st.conds
  BY LivePhaseIsUnfinished DEF Good, Consistent, StepOrder
<1>2. \A u \in syncLauncherState(w) : Good(u) /\ SameStore(u, w)
  BY <1>1, syncLauncherStateGood, syncLauncherStateDoes
<1>3. \A v \in Looked : Good(v) /\ SameStore(v, w)
  BY <1>2, handleWorkersFailedDoes DEF SameStore
<1>4. reconcileJobRunning(w) =
        UNION {IF v.err = "none" /\ v.st.phase = "Running" THEN setTrainingJobScaler(v) ELSE {v} :
                 v \in Looked}
  BY DEF reconcileJobRunning
<1> HIDE DEF Looked
<1>5. \A s : ~Holds(w.st, s) BY DEF Holds
<1>6. ASSUME NEW v \in Looked, NEW x \in setTrainingJobScaler(v) PROVE Tends(x, w)
  <2>1. v \in Worlds /\ v.known = w.known /\ DOMAIN v.update = {}
    BY <1>3 DEF Good, SameStore
  <2>2. x = v \/ \E s \in availableScalers(v) : x = StartScaler(v, s)
    BY DEF setTrainingJobScaler, latestScalers
  <2>3. CASE x = v BY <1>5, <2>1, <2>3 DEF Tends
  <2>4. ASSUME NEW s \in availableScalers(v), x = StartScaler(v, s) PROVE Tends(x, w)
    <3>1. s \in DOMAIN v.known BY DEF availableScalers
    <3>2. /\ DOMAIN x.update \subseteq {s}
          /\ s \in DOMAIN x.update /\ Underway(x.update[s]) => Underway(w.known[s])
      BY <2>1, <2>4, <3>1, StartScalerTends
    <3>3. QED BY <1>5, <2>1, <3>1, <3>2 DEF Tends
  <2>5. QED BY <2>2, <2>3, <2>4
<1>7. \A v \in Looked : Tends(v, w) BY <1>3, <1>5 DEF Tends, SameStore
<1>8. QED BY <1>4, <1>6, <1>7 DEF AllTend

LEMMA ScalingTends ==
  ASSUME NEW w, Good(w), w.st.phase = "Scaling", DOMAIN w.update = {}
  PROVE  AllTend(executeScaling(w), w)
<1> DEFINE t == w.st.scaler
<1>1. /\ w \in Worlds /\ w.st \in JobStatus /\ Unfinished(w.st)
      /\ {"Running", "LauncherCreated"} \subseteq w.st.conds /\ t # NoScaler
  BY LivePhaseIsUnfinished DEF Good, Worlds, Consistent, StepOrder, ScalingHasScaler
<1>2. ASSUME NEW u \in syncLauncherState(w)
      PROVE  /\ Good(u) /\ SameStore(u, w) /\ u.st.scaler = t
             /\ isFinished(u.st) \/ "Running" \in u.st.conds
             /\ u.st.phase \in {"Scaling", "Succeeded", "Failed"}
  <2>1. /\ Good(u) /\ u.st.scaler = t
        /\ u.st = w.st \/ isFinished(u.st)
    BY <1>1, syncLauncherStateGood
  <2>2. Synced(u.st, w.st) /\ SameStore(u, w) BY <1>1, syncLauncherStateDoes
  <2>3. u.st.phase \in {"Scaling", "Succeeded", "Failed"}
    BY <1>1, <2>2 DEF Synced, updateStatus, updateJobConditions, JobStatus
  <2>4. QED BY <1>1, <2>1, <2>2, <2>3, syncLauncherStateGood
<1>3. ASSUME NEW u \in syncLauncherState(w), NEW v \in ExecuteScaler(u) PROVE Tends(v, w)
  <2>1. /\ Good(u) /\ SameStore(u, w) /\ u.st.scaler = t
        /\ isFinished(u.st) \/ "Running" \in u.st.conds
        /\ u.st.phase \in {"Scaling", "Succeeded", "Failed"}
    BY <1>2
  <2>2. DOMAIN u.update = {} /\ u.known = w.known BY <2>1 DEF SameStore
  <2>3. \/ isFinished(u.st) /\ v = u
        \/ ScaledFrom(v, u, t)
        \/ SameStore(v, u) /\ (t \in DOMAIN u.known => isScaleFinished(u.known[t]))
    BY <1>1, <2>1, <2>2, ExecuteScalerDoes
  <2>4. CASE v = u BY <2>1, <2>2, <2>4 DEF Tends, Holds
  <2>5. CASE ScaledFrom(v, u, t)
    <3>1. DOMAIN v.update \subseteq {t} BY <2>5 DEF ScaledFrom, Handles, Records
    <3>2. \/ Holds(v.st, t) \/ t \in w.stale
          \/ t \in DOMAIN v.update /\ isScaleFinished(v.update[t])
      BY <2>1, <2>5 DEF ScaledFrom, Holds, Ended, SameStore
    <3>3. QED BY <3>1, <3>2 DEF Tends, Holds
  <2>6. CASE SameStore(v, u) /\ (t \in DOMAIN u.known => isScaleFinished(u.known[t]))
    <3>1. DOMAIN v.update = {} BY <2>2, <2>6 DEF SameStore
    <3>2. QED BY <2>2, <2>6, <3>1 DEF Tends, Holds
  <2>7. QED BY <2>3, <2>4, <2>5, <2>6
<1>4. QED BY <1>3 DEF executeScaling, AllTend

\* What is left: the job has ended, and does not start again.
LEMMA HandleTends ==
  ASSUME IInv, Handle, Steady
  PROVE  \E w : Leave(w) /\ Tends(w, Observed)
<1> DEFINE o == Observed
<1>1. Good(o) /\ o \in Worlds /\ o.st = mine /\ DOMAIN o.update = {}
  BY ObservedGood DEF Observed, EmptyMap, Good
<1>2. ~needRestartJob(o.st)
  <2>1. o.st.restarts \in Nat BY <1>1 DEF Worlds, JobStatus
  <2>2. QED BY <2>1 DEF needRestartJob, Steady
<1> HIDE DEF o
<1>3. HandleCreated => AllTend(doSteps(initializeJob(o)), o)
  BY <1>1, CreatedTends DEF HandleCreated, AtHandler
<1>4. HandleRunning => AllTend(reconcileJobRunning(o), o)
  BY <1>1, RunningTends DEF HandleRunning, AtHandler
<1>5. HandleScaling => AllTend(executeScaling(o), o)
  BY <1>1, ScalingTends DEF HandleScaling, AtHandler
<1>6. AllTend(cleanup(o), o) /\ AllTend(cleanupAll(o), o)
  BY <1>1, cleanupActs, cleanupAllActs, ActsTend
<1>7. AllTend(restartJob(o), o) BY <1>2, <1>6 DEF restartJob
<1>8. \/ HandleCreated /\ \E w \in doSteps(initializeJob(o)) : Leave(w)
      \/ HandleRunning /\ \E w \in reconcileJobRunning(o) : Leave(w)
      \/ HandleScaling /\ \E w \in executeScaling(o) : Leave(w)
      \/ \E w \in cleanup(o) : Leave(w)
      \/ \E w \in restartJob(o) : Leave(w)
      \/ \E w \in cleanupAll(o) : Leave(w)
  BY DEF Handle, HandleCreated, HandleRunning, HandleScaling, HandleSucceeded, HandleFailed,
     HandleSuspended, o
<1>9. \E w : Leave(w) /\ Tends(w, o) BY <1>3, <1>4, <1>5, <1>6, <1>7, <1>8 DEF AllTend
<1>10. QED BY <1>9 DEF o

\* What a reconcile holds of the job: the status as it is, or suspended.
LEMMA MineHolds ==
  ASSUME IInv, LifeInv, pc = "handle", NEW s
  PROVE  /\ Holds(job.status, s) => Holds(mine, s)
         /\ mine.phase = "Scaling" /\ mine.scaler = s => Holds(job.status, s)
<1>1. job.status \in JobStatus /\ read = job.status BY DEF IInv, TypeOK, Job, LifeInv
<1>2. mine = job.status \/ mine = updateStatus(job.status, "Suspended") BY <1>1 DEF LifeInv
<1>3. CASE mine = job.status BY <1>3 DEF Holds
<1>4. CASE mine = updateStatus(job.status, "Suspended")
  <2>1. mine.phase = "Suspended" /\ mine.scaler = job.status.scaler
    BY <1>1, <1>4 DEF updateStatus, updateJobConditions, JobStatus
  <2>2. QED BY <2>1 DEF Holds
<1>5. QED BY <1>2, <1>3, <1>4

LEMMA HandleSerial ==
  ASSUME IInv, CachesAgree, LifeInv, SerialInv, Handle, Steady PROVE SerialInv'
<1>1. PICK w : Leave(w) /\ Tends(w, Observed) BY HandleTends
<1>2. /\ UNCHANGED <<job, scalers>> /\ mine' = w.st /\ update' = w.update
  BY <1>1 DEF Leave
<1>3. pc = "handle"
  BY DEF Handle, HandleCreated, HandleRunning, HandleScaling, HandleSucceeded, HandleFailed,
     HandleSuspended, AtHandler
<1>4. lag \cap Scalers = {} /\ DOMAIN scalerCache \subseteq Scalers /\ DOMAIN scalers \subseteq Scalers
  BY ClusterAssumption DEF IInv, TypeOK, IsScalerMap, Steady
<1>5. \A s \in DOMAIN scalers : s \in DOMAIN scalerCache /\ scalerCache[s] = scalers[s]
  BY <1>4 DEF CachesAgree, ScalerAgrees
<1>6. DOMAIN scalerCache \subseteq DOMAIN scalers
  BY <1>4 DEF CachesAgree, ScalerAgrees
<1>7. /\ Observed.st = mine /\ Observed.known = scalerCache
      /\ Observed.stale = lag \cap Scalers
  BY DEF Observed
<1>8. \A r, s \in DOMAIN update' : r = s BY <1>1, <1>2 DEF Tends
<1>9. ASSUME NEW s \in DOMAIN w.update, Underway(w.update[s]) PROVE Holds(job.status, s)
  <2>1. \/ mine.phase = "Scaling" /\ mine.scaler = s
        \/ s \in DOMAIN scalerCache /\ Underway(scalerCache[s])
    BY <1>1, <1>7, <1>9 DEF Tends
  <2>2. QED
    BY <1>3, <1>5, <1>6, <2>1, MineHolds DEF SerialInv, InProgress, Underway
<1>10. ASSUME NEW s \in DOMAIN scalers, Underway(After(s)') PROVE Holds(w.st, s)
  <2>1. s \in DOMAIN scalerCache /\ scalerCache[s] = scalers[s] /\ s \notin lag \cap Scalers
    BY <1>4, <1>5
  <2>2. IF s \in DOMAIN w.update THEN Underway(w.update[s]) ELSE Underway(scalers[s])
    BY <1>2, <1>10 DEF After
  <2>3. Holds(mine, s)
    BY <1>3, <1>9, <2>2, MineHolds DEF SerialInv, InProgress, Underway
  <2>4. \/ Holds(w.st, s)
        \/ s \notin DOMAIN w.update /\ isScaleFinished(scalers[s])
        \/ s \in DOMAIN w.update /\ isScaleFinished(w.update[s])
    BY <1>1, <1>7, <2>1, <2>3 DEF Tends
  <2>5. QED BY <2>2, <2>4 DEF Underway
<1>11. QED BY <1>2, <1>8, <1>9, <1>10 DEF SerialInv, InProgress

LEMMA WriteScalerSerial ==
  ASSUME SerialInv, WriteScaler, Steady PROVE SerialInv'
<1>1. /\ pc = "writeScaler" /\ pc' = "writeJob" /\ UNCHANGED <<job, mine>>
      /\ update' = EmptyMap /\ DOMAIN update' = {}
  BY DEF WriteScaler, EmptyMap
<1>2. PICK s \in DOMAIN update :
        \/ s \in DOMAIN scalers /\ scalers' = [scalers EXCEPT ![s] = update[s]]
        \/ s \notin DOMAIN scalers /\ scalers' = scalers
  BY DEF WriteScaler, MayFail, Steady
<1>3. \A r \in DOMAIN update : r = s BY DEF SerialInv
<1>4. ASSUME NEW r \in DOMAIN scalers' PROVE r \in DOMAIN scalers /\ scalers'[r] = After(r)
  BY <1>2, <1>3 DEF After
<1>5. \A r \in DOMAIN scalers' : Underway(scalers'[r]) => Holds(mine, r) /\ Holds(job.status, r)
  BY <1>1, <1>4 DEF SerialInv, After, InProgress, Underway
<1>6. \A r \in DOMAIN scalers' : After(r)' = scalers'[r] BY <1>1 DEF After
<1>7. QED BY <1>1, <1>5, <1>6 DEF SerialInv, InProgress, Underway

\* The status a reconcile ends with is the job's.
LEMMA WrittenStatus == ASSUME IInv, LifeInv, WriteJob, Steady PROVE job'.status = mine
<1>1. pc = "writeJob" BY DEF WriteJob
<1>2. job \in Job /\ "job" \notin lag BY ClusterAssumption DEF IInv, TypeOK, Steady
<1>3. ~MayFail("apiError") BY DEF MayFail, Steady
<1>4. job' = [job EXCEPT !.status = mine] \/ (job' = job /\ (mine = read \/ "job" \in lag))
  BY <1>3 DEF WriteJob
<1>5. QED BY <1>1, <1>2, <1>4 DEF Job, LifeInv

LEMMA WriteJobSerial ==
  ASSUME IInv, UpdateInv, SerialInv, LifeInv, WriteJob, Steady PROVE SerialInv'
<1>1. pc = "writeJob" /\ pc' = "idle" /\ update' = update /\ scalers' = scalers
  BY DEF WriteJob, EndReconcile
<1>2. DOMAIN update = {} BY <1>1 DEF UpdateInv
<1>3. job'.status = mine BY WrittenStatus
<1>4. \A s \in DOMAIN scalers : InProgress(s) => Holds(mine, s)
  BY <1>1, <1>2 DEF SerialInv, After, InProgress, Underway
<1>5. QED BY <1>1, <1>2, <1>3, <1>4 DEF SerialInv, InProgress

\* Users submit a scaler without workers, and delete any.
LEMMA OthersSerial ==
  ASSUME IInv, SerialInv, Sync \/ Environment \/ UNCHANGED vars PROVE SerialInv'
<1>1. UNCHANGED <<pc, mine>> /\ job'.status = job.status BY OthersLive
<1>2. UNCHANGED update
  BY DEF Sync, SyncJob, SyncPods, SyncScaler, Environment, WorkerRuns, WorkerEnds, WorkerLost,
     LauncherRuns, LauncherEnds, LauncherLost, SubmitScaler, DeleteScaler, Suspend, OtherEvent,
     ChangePods, ChangeLauncher, local, vars
<1>3. \/ UNCHANGED scalers
      \/ \E s : SubmitScaler(s) \/ DeleteScaler(s)
  BY DEF Sync, SyncJob, SyncPods, SyncScaler, Environment, WorkerRuns, WorkerEnds, WorkerLost,
     LauncherRuns, LauncherEnds, LauncherLost, Suspend, OtherEvent, ChangePods, ChangeLauncher,
     api, vars
<1>4. \A s \in DOMAIN scalers' :
        \/ s \in DOMAIN scalers /\ scalers'[s] = scalers[s]
        \/ s \notin DOMAIN update /\ scalers'[s].pods = {}
  <2>1. ASSUME NEW r, SubmitScaler(r), NEW s \in DOMAIN scalers'
        PROVE  \/ s \in DOMAIN scalers /\ scalers'[s] = scalers[s]
               \/ s \notin DOMAIN update /\ scalers'[s].pods = {}
    BY <2>1 DEF SubmitScaler
  <2>2. ASSUME NEW r, DeleteScaler(r), NEW s \in DOMAIN scalers'
        PROVE  s \in DOMAIN scalers /\ scalers'[s] = scalers[s]
    BY <2>2 DEF DeleteScaler, Restrict
  <2>3. QED BY <1>3, <2>1, <2>2
<1>5. ASSUME NEW s \in DOMAIN scalers', Underway(After(s)')
      PROVE  s \in DOMAIN scalers /\ Underway(After(s))
  BY <1>2, <1>4, <1>5 DEF After, Underway
<1>6. ASSUME NEW s \in DOMAIN scalers', InProgress(s)'
      PROVE  s \in DOMAIN scalers /\ InProgress(s)
  BY <1>4, <1>6 DEF InProgress
<1>7. pc' = pc /\ mine' = mine /\ update' = update BY <1>1, <1>2
<1>8. QED BY <1>1, <1>5, <1>6, <1>7 DEF SerialInv

LEMMA SerialInit == Init => SerialInv
  BY DEF Init, SerialInv, EmptyMap

LEMMA SerialStep ==
  ASSUME Steady
  PROVE  IInv /\ CachesAgree /\ UpdateInv /\ LifeInv /\ SerialInv /\ [Next]_vars => SerialInv'
<1> SUFFICES ASSUME IInv, CachesAgree, UpdateInv, LifeInv, SerialInv, [Next]_vars PROVE SerialInv'
  OBVIOUS
<1>1. ASSUME Start PROVE SerialInv'
  <2>1. pc' = "handle" /\ update' = update /\ scalers' = scalers /\ job' = job
    BY <1>1 DEF Start, api
  <2>2. QED BY <2>1 DEF SerialInv, InProgress
<1>2. ASSUME Crash PROVE SerialInv'
  <2>1. pc' = "idle" /\ DOMAIN update' = {} /\ scalers' = scalers /\ job' = job
    BY <1>2 DEF Crash, EmptyMap, api
  <2>2. QED BY <2>1 DEF SerialInv, InProgress
<1>3. QED
  BY <1>1, <1>2, HandleSerial, WriteScalerSerial, WriteJobSerial, OthersSerial DEF Next, Reconcile

\* A job executes its ScaleIns and ScaleOuts one after the other (scaler.go:18-91),
\* though the scaler is chosen, and gets and loses its workers, in reconciles that
\* each decide from what they read: none has its workers before the one that had
\* them has ended. The two writes that bind the job and the scaler must arrive for
\* that, and the job must not be restarted in between (trainingjob_controller.go:328-374).
THEOREM OneScalerAtATime ==
  ASSUME Steady
  PROVE  Spec => []SerialScaling
<1>1. Lagging \subseteq {"pods"} BY DEF Steady
<1>2. "job" \notin Lagging BY <1>1
<1>3. Init => UpdateInv /\ LifeInv /\ SerialInv
  BY UpdateInit, SerialInit DEF Init, LifeInv
<1>4. IInv /\ CachesAgree /\ CopyInv /\ UpdateInv /\ LifeInv /\ SerialInv /\ [Next]_vars
      => UpdateInv' /\ LifeInv' /\ SerialInv'
  BY <1>2, UpdateStep, LifeStep, SerialStep
<1>5. SerialInv => SerialScaling BY DEF SerialInv, SerialScaling, Holds
<1>6. QED BY <1>3, <1>4, <1>5, Inductive, CachesAreCurrent, CopiesKeep, PTL DEF Spec

-----------------------------------------------------------------------------
(* The scaleout labels of the pods: only the execution of a ScaleOut gives a   *)
(* pod its label, and only to workers of the names the ScaleOut has.           *)

Labelled(ps, s) == {i \in DOMAIN ps : ps[i].scaler = s}

\* In none of the worlds of S a scaler has a pod that it does not have in w.
Sheds(S, w) ==
    \A v \in S : v \in Worlds /\ \A s \in Scalers : Labelled(v.pods, s) \subseteq Labelled(w.pods, s)

SamePods(S, w) == \A v \in S : v \in Worlds /\ v.pods = w.pods

LEMMA SameSheds == ASSUME NEW w, NEW S, SamePods(S, w) PROVE Sheds(S, w)
  BY DEF SamePods, Sheds

LEMMA ShedsTwice ==
  ASSUME NEW w, NEW u, NEW S, Sheds({u}, w), Sheds(S, u) PROVE Sheds(S, w)
  BY DEF Sheds

LEMMA FaultPods == ASSUME NEW w \in Worlds, NEW kind PROVE SamePods(Fault(w, kind), w)
  BY NumbersAssumption DEF Fault, SamePods, Worlds

LEMMA ErrorPods == ASSUME NEW w \in Worlds PROVE SamePods({Error(w)}, w)
  BY DEF Error, SamePods, Worlds

LEMMA FailedPods == ASSUME NEW w \in Worlds PROVE Failed(w).pods = w.pods
<1> DEFINE st == updateStatus(w.st, "Failed")
<1>1. Failed(w) = [w EXCEPT !.st = st, !.err = "none"] BY DEF Failed
<1> HIDE DEF st
<1>2. QED BY <1>1 DEF Worlds

LEMMA StatusPods == ASSUME NEW w \in Worlds, NEW st PROVE [w EXCEPT !.st = st].pods = w.pods
  BY DEF Worlds

LEMMA CreateLauncherPods == ASSUME NEW w \in Worlds PROVE SamePods(CreateLauncher(w), w)
<1>1. \A v \in CreateLauncher(w) : v \in Worlds BY CreateLauncherActs DEF Acts
<1>2. [w EXCEPT !.launcher = "Pending"].pods = w.pods BY DEF Worlds
<1>3. \A v \in Fault(w, "apiError") : v \in Worlds /\ v.pods = w.pods BY FaultPods DEF SamePods
<1>4. \A v \in Worlds : Error(v).pods = v.pods BY ErrorPods DEF SamePods
<1>5. \A v \in CreateLauncher(w) : v.pods = w.pods BY <1>2, <1>3, <1>4 DEF CreateLauncher
<1>6. QED BY <1>1, <1>5 DEF SamePods

LEMMA DeleteLauncherPods == ASSUME NEW w \in Worlds PROVE SamePods(DeleteLauncher(w), w)
<1>1. \A v \in DeleteLauncher(w) : v \in Worlds BY DeleteLauncherActs DEF Acts
<1>2. [w EXCEPT !.launcher = "None", !.hostfile = {}].pods = w.pods BY DEF Worlds
<1>3. QED BY <1>1, <1>2, FaultPods DEF DeleteLauncher, SamePods

LEMMA executeOnLauncherPods == ASSUME NEW w \in Worlds PROVE SamePods(executeOnLauncher(w), w)
<1>1. \A v \in executeOnLauncher(w) : v \in Worlds BY executeOnLauncherActs DEF Acts
<1>2. QED BY <1>1, FaultPods, ErrorPods DEF executeOnLauncher, SamePods

LEMMA WriteHostfilePods ==
  ASSUME NEW w \in Worlds, NEW ws \in SUBSET Worker PROVE SamePods(WriteHostfile(w, ws), w)
<1> DEFINE Written(v) == [v EXCEPT !.hostfile = ws]
<1>1. \A v \in Worlds : Written(v).pods = v.pods BY DEF Worlds
<1>2. \A v \in executeOnLauncher(w) : v \in Worlds /\ v.pods = w.pods
  BY executeOnLauncherPods DEF SamePods
<1>3. WriteHostfile(w, ws) = {IF v.err = "none" /\ w.seenLauncher # "None" THEN Written(v) ELSE v :
                               v \in executeOnLauncher(w)}
  BY DEF WriteHostfile
<1> HIDE DEF Written
<1>4. \A v \in WriteHostfile(w, ws) : v.pods = w.pods BY <1>1, <1>2, <1>3
<1>5. QED BY <1>4, WriteHostfileActs DEF Acts, SamePods

LEMMA executeScaleScriptPods ==
  ASSUME NEW w \in Worlds, NEW s, NEW x, NEW hosts \in SUBSET Worker
  PROVE  SamePods(executeScaleScript(w, s, x, hosts), w)
  BY executeOnLauncherPods, WriteHostfilePods DEF executeScaleScript, SamePods

LEMMA checkWorkerShutdownPods ==
  ASSUME NEW w \in Worlds, NEW s, NEW ws
  PROVE  SamePods({d[1] : d \in checkWorkerShutdown(w, s, ws)}, w)
<1> DEFINE Down(v) == IF v.err = "none" THEN {<<v, D>> : D \in SUBSET ws} ELSE {<<v, {}>>}
<1>1. ASSUME NEW v, NEW d \in Down(v) PROVE d[1] = v
  <2>1. PICK D : d = <<v, D>> BY <1>1
  <2>2. QED BY <2>1
<1>2. CASE ScalerSpec[s].script \/ w.seenLauncher = "None"
  BY <1>2 DEF checkWorkerShutdown, SamePods
<1>3. CASE ~(ScalerSpec[s].script \/ w.seenLauncher = "None")
  <2>1. checkWorkerShutdown(w, s, ws) = UNION {Down(v) : v \in executeOnLauncher(w)}
    BY <1>3 DEF checkWorkerShutdown
  <2> HIDE DEF Down
  <2>2. \A d \in checkWorkerShutdown(w, s, ws) : d[1] \in executeOnLauncher(w) BY <1>1, <2>1
  <2>3. QED BY <2>2, executeOnLauncherPods DEF SamePods
<1>4. QED BY <1>2, <1>3

LEMMA WithoutLabels ==
  ASSUME NEW ps, NEW ws, NEW s PROVE Labelled(Without(ps, ws), s) \subseteq Labelled(ps, s)
  BY DEF Labelled, Without, Restrict

LEMMA WithNewLabels ==
  ASSUME NEW ps, NEW ws, NEW r, NEW s
  PROVE  Labelled(WithNew(ps, ws, r), s) \subseteq Labelled(ps, s) \cup (IF r = s THEN ws ELSE {})
  BY DEF Labelled, WithNew

LEMMA DeleteWorkerPodsSheds ==
  ASSUME NEW w \in Worlds, NEW ws PROVE Sheds(DeleteWorkerPods(w, ws), w)
<1> DEFINE listed == ws \cap DOMAIN w.seen
           All(v) == [v EXCEPT !.pods = Without(v.pods, listed)]
           AllBut(v, i) == [v EXCEPT !.pods = Without(v.pods, listed \ {i})]
<1>1. \A v \in Worlds : All(v).pods = Without(v.pods, listed) BY DEF Worlds
<1>2. \A v \in Worlds : \A i : AllBut(v, i).pods = Without(v.pods, listed \ {i}) BY DEF Worlds
<1>3. DeleteWorkerPods(w, ws) =
        {All(w)} \cup {AllBut(v, i) : v \in Fault(w, "apiError"), i \in listed \cap DOMAIN w.pods}
  BY DEF DeleteWorkerPods
<1> HIDE DEF All, AllBut, listed
<1>4. ASSUME NEW x \in DeleteWorkerPods(w, ws) PROVE \E gone : x.pods = Without(w.pods, gone)
  <2>1. CASE x = All(w) BY <1>1, <2>1
  <2>2. CASE \E v \in Fault(w, "apiError"), i \in listed : x = AllBut(v, i)
    <3>1. PICK v \in Fault(w, "apiError"), i \in listed : x = AllBut(v, i) BY <2>2
    <3>2. v \in Worlds /\ v.pods = w.pods BY FaultPods DEF SamePods
    <3>3. x.pods = Without(w.pods, listed \ {i}) BY <1>2, <3>1, <3>2
    <3>4. QED BY <3>3
  <2>3. QED BY <1>3, <2>1, <2>2
<1>5. \A x \in DeleteWorkerPods(w, ws) : x \in Worlds BY DeleteWorkerPodsActs DEF Acts
<1>6. QED BY <1>4, <1>5, WithoutLabels DEF Sheds

\* The workers made for the scaler s are of the names in ws.
LEMMA createWorkersLabels ==
  ASSUME NEW w \in Worlds, NEW ws, NEW r \in Scalers \cup {NoScaler}
  PROVE  \A v \in createWorkers(w, ws, r) : \A s \in Scalers :
           Labelled(v.pods, s) \subseteq Labelled(w.pods, s) \cup (IF r = s THEN ws ELSE {})
<1>1. CASE ~(ws \subseteq Worker) BY <1>1 DEF createWorkers
<1>2. CASE ws \subseteq Worker
  <2> DEFINE missing == ws \ DOMAIN w.seen
             clash   == missing \cap DOMAIN w.pods
             Reached(i) == \A j \in clash : i <= j
             Below(i) == {j \in missing : j < i}
             All(v) == [v EXCEPT !.pods = WithNew(v.pods, missing, r)]
             StopAt(v, i) == Error([v EXCEPT !.pods = WithNew(v.pods, Below(i), r)])
  <2>1. ASSUME NEW v \in Worlds, NEW ps
        PROVE  [v EXCEPT !.pods = ps].pods = ps /\ Error([v EXCEPT !.pods = ps]).pods = ps
    BY DEF Worlds, Error
  <2>2. \A v \in Worlds : All(v).pods = WithNew(v.pods, missing, r) BY <2>1
  <2>3. \A v \in Worlds : \A i : StopAt(v, i).pods = WithNew(v.pods, Below(i), r) BY <2>1
  <2>4. createWorkers(w, ws, r) =
          (IF clash = {} THEN {All(w)} ELSE {})
          \cup {StopAt(w, i) : i \in {j \in clash : Reached(j)}}
          \cup {StopAt(v, i + made) :
                  v \in Fault(w, "apiError"), i \in {j \in ws : Reached(j)}, made \in {0, 1}}
    BY <1>2 DEF createWorkers
  <2>5. missing \subseteq ws /\ \A i : Below(i) \subseteq ws OBVIOUS
  <2>6. \A v \in Fault(w, "apiError") : v \in Worlds /\ v.pods = w.pods BY FaultPods DEF SamePods
  <2> HIDE DEF All, StopAt, missing, clash, Reached, Below
  <2>7. ASSUME NEW v \in createWorkers(w, ws, r)
        PROVE  \E new : new \subseteq ws /\ v.pods = WithNew(w.pods, new, r)
    <3>1. \/ v = All(w)
          \/ \E i \in clash : v = StopAt(w, i)
          \/ \E u \in Fault(w, "apiError"), i \in ws, made \in {0, 1} : v = StopAt(u, i + made)
      BY <2>4
    <3>2. QED BY <2>2, <2>3, <2>5, <2>6, <3>1
  <2>8. ASSUME NEW v \in createWorkers(w, ws, r), NEW s \in Scalers
        PROVE  Labelled(v.pods, s) \subseteq Labelled(w.pods, s) \cup (IF r = s THEN ws ELSE {})
    BY <2>7, WithNewLabels
  <2>9. QED BY <2>8
<1>3. QED BY <1>1, <1>2

LEMMA UnlabelledWorkers ==
  ASSUME NEW w \in Worlds, NEW ws PROVE Sheds(createWorkers(w, ws, NoScaler), w)
<1>1. \A s \in Scalers : s # NoScaler BY ScalersAssumption
<1>2. \A v \in createWorkers(w, ws, NoScaler) : v \in Worlds BY createWorkersActs DEF Acts
<1>3. QED BY <1>1, <1>2, createWorkersLabels DEF Sheds


\* What every handler but that of a scaling does to the labels: nothing.
LEMMA ReplaceWorkersSheds == ASSUME NEW w, Good(w) PROVE Sheds(ReplaceWorkers(w), w)
<1> DEFINE t     == w.st.target
           old   == NeedRestart(w, t)
           names == NextNames(t, MapThenSumSet(LAMBDA i : t[i], old))
           new   == Append(FilterOut(t, old), names)
           Done(v) == [v EXCEPT !.st.target = new]
           Made == createWorkers(w, names, NoScaler)
<1>1. w \in Worlds BY DEF Good
<1>2. Sheds(Made, w)
  <2> HIDE DEF names
  <2>1. QED BY <1>1, UnlabelledWorkers
<1>3. ReplaceWorkers(w) = IF old = {} THEN {w} ELSE {IF v.err = "none" THEN Done(v) ELSE v : v \in Made}
  BY DEF ReplaceWorkers
<1>4. \A v \in ReplaceWorkers(w) : v \in Worlds BY ReplaceWorkersKeeps DEF SameStage, Good
<1> HIDE DEF old, names, new, Made, t
<1>5. \A v \in Worlds : Done(v).pods = v.pods BY DEF Worlds
<1> HIDE DEF Done
<1>6. QED BY <1>2, <1>3, <1>4, <1>5 DEF Sheds

LEMMA handleWorkersFailedSheds == ASSUME NEW w, Good(w) PROVE Sheds(handleWorkersFailed(w), w)
<1> DEFINE running   == Running(w.seen)
           hostfile0 == IF running # w.st.current /\ "Running" \in w.st.conds
                        THEN WriteHostfile(w, running) ELSE {w}
           bag(v)    == IF Members(v.st.target) = {} THEN BagOf(running) ELSE v.st.target
           now(v)    == [v EXCEPT !.st.current = running]
           Record(v) == [v EXCEPT !.st.current = running,
                                  !.st.target = IF Members(@) = {} THEN BagOf(running) ELSE @]
<1>1. w \in Worlds /\ running \in SUBSET Worker BY RunningTypes DEF Good, Worlds
<1>2. \A v \in hostfile0 : v \in Worlds /\ v.st = w.st /\ v.pods = w.pods
  BY <1>1, WriteHostfileActs, WriteHostfilePods DEF Acts, SameRest, SamePods
<1>3. ASSUME NEW v \in hostfile0 PROVE Good(Record(v)) /\ Record(v).pods = w.pods
  <2>1. Good(v) /\ v \in Worlds /\ v.st \in JobStatus BY <1>2 DEF Good, Worlds
  <2>2. bag(v) \in [Worker -> Nat] BY <2>1, AppendIsBag DEF JobStatus
  <2>3. Good(now(v)) BY <1>1, <2>1, CurrentKeeps DEF SameStage
  <2>4. Record(v) = [now(v) EXCEPT !.st.target = bag(v)] BY <2>1 DEF Worlds, JobStatus
  <2>5. Record(v).pods = v.pods BY <2>1 DEF Worlds
  <2> HIDE DEF now, bag, Record
  <2>6. QED BY <1>2, <2>2, <2>3, <2>4, <2>5, TargetKeeps DEF SameStage
<1>4. handleWorkersFailed(w) =
        UNION {IF v.err = "none" THEN ReplaceWorkers(Record(v)) ELSE {v} : v \in hostfile0}
  BY DEF handleWorkersFailed
<1> HIDE DEF Record, hostfile0, running, bag, now
<1>5. QED BY <1>2, <1>3, <1>4, ReplaceWorkersSheds DEF Sheds

LEMMA createTrainingJobWorkersSheds ==
  ASSUME NEW w, Good(w) PROVE
    \A v \in createTrainingJobWorkers(w) : \A s \in Scalers :
      Labelled(v.pods, s) \subseteq Labelled(w.pods, s)
<1> DEFINE t == getJobReplicasWorkers(w.st.target)
           u == [w EXCEPT !.st.target = t]
           S == createWorkers(u, Members(t), NoScaler)
           Done(v) == IF v.err = "none" THEN [v EXCEPT !.st = updateJobConditions(v.st, "WorkersCreated")]
                      ELSE Failed(v)
<1>1. w \in Worlds /\ w.st \in JobStatus BY DEF Good, Worlds
<1>2. t \in [Worker -> Nat] BY <1>1 DEF getJobReplicasWorkers, BagOf, JobStatus
<1>3. createTrainingJobWorkers(w) = {Done(v) : v \in S} BY DEF createTrainingJobWorkers
<1> HIDE DEF t
<1>4. u \in Worlds BY <1>2, TargetKeeps DEF SameStage, Good
<1>5. u.pods = w.pods BY <1>1 DEF Worlds
<1> HIDE DEF u
<1>6. Sheds(S, u) BY <1>4, UnlabelledWorkers
<1> HIDE DEF S
<1>7. \A v \in Worlds : Done(v).pods = v.pods BY FailedPods, StatusPods
<1> HIDE DEF Done
<1>8. QED BY <1>3, <1>5, <1>6, <1>7 DEF Sheds

LEMMA createLauncherPods ==
  ASSUME NEW w, Good(w) PROVE \A v \in createLauncher(w) : v.pods = w.pods
<1> DEFINE GetOrCreate(v) == IF v.err = "none" /\ v.seenLauncher = "None"
                             THEN CreateLauncher(v) ELSE {v}
           Got == UNION {GetOrCreate(u) : u \in CreateHostConfigMap(w)}
           Done(v) == IF v.err = "none" THEN [v EXCEPT !.st = updateJobConditions(v.st, "LauncherCreated")]
                      ELSE Failed(v)
<1>1. w \in Worlds BY DEF Good
<1>2. \A u \in CreateHostConfigMap(w) : u \in Worlds /\ u.pods = w.pods
  <2> DEFINE m == [made |-> TRUE, hosts |-> w.st.current]
             Made == [w EXCEPT !.configMap = m]
  <2>1. Made.pods = w.pods BY <1>1 DEF Worlds
  <2>2. \A v \in Fault(w, "apiError") : v \in Worlds /\ v.pods = w.pods
    BY <1>1, FaultPods DEF SamePods
  <2>3. \A v \in Fault(w, "apiError") : Error(v).pods = w.pods BY <2>2, ErrorPods DEF SamePods
  <2>4. CreateHostConfigMap(w) = IF w.configMap.made THEN {w}
                                 ELSE {Made} \cup {Error(v) : v \in Fault(w, "apiError")}
    BY DEF CreateHostConfigMap
  <2>5. \A u \in CreateHostConfigMap(w) : u \in Worlds BY <1>1, CreateHostConfigMapKeeps DEF Keeps
  <2> HIDE DEF Made
  <2>6. QED BY <2>1, <2>3, <2>4, <2>5
<1>3. \A u \in Worlds : \A v \in GetOrCreate(u) : v \in Worlds /\ v.pods = u.pods
  BY CreateLauncherPods DEF SamePods
<1> HIDE DEF GetOrCreate
<1>4. \A v \in Got : v \in Worlds /\ v.pods = w.pods BY <1>2, <1>3
<1>5. createLauncher(w) = {Done(v) : v \in Got} BY DEF createLauncher, GetOrCreate
<1> HIDE DEF Got
<1>6. \A v \in Worlds : Done(v).pods = v.pods BY FailedPods, StatusPods
<1> HIDE DEF Done
<1>7. QED BY <1>4, <1>5, <1>6

LEMMA syncLauncherStatePods ==
  ASSUME NEW w \in Worlds PROVE \A v \in syncLauncherState(w) : v.pods = w.pods
<1> DEFINE To(c) == [w EXCEPT !.st = updateStatus(w.st, c)]
<1>1. \A c : To(c).pods = w.pods BY StatusPods
<1>2. \A v \in CreateLauncher(w) : v \in Worlds /\ v.pods = w.pods BY CreateLauncherPods DEF SamePods
<1>3. \A v \in LauncherGone(w) : v.pods = w.pods BY <1>2, FailedPods DEF LauncherGone
<1>4. ASSUME NEW v \in syncLauncherState(w)
      PROVE  v \in LauncherGone(w) \/ v = w \/ \E c : v = To(c)
  BY <1>4 DEF syncLauncherState
<1> HIDE DEF To
<1>5. QED BY <1>1, <1>3, <1>4

LEMMA waitWorkersRunningSheds ==
  ASSUME NEW w, Good(w) PROVE
    \A v \in waitWorkersRunning(w) : \A s \in Scalers :
      Labelled(v.pods, s) \subseteq Labelled(w.pods, s)
<1> DEFINE Done(v) == [v EXCEPT !.st = updateJobConditions(v.st, "WorkersReady")]
           Ready(v) == v.err = "none" /\ Cardinality(v.st.current) >= Replicas
<1>1. Sheds(handleWorkersFailed(w), w) BY handleWorkersFailedSheds
<1>2. waitWorkersRunning(w) = {IF Ready(v) THEN Done(v) ELSE v : v \in handleWorkersFailed(w)}
  BY DEF waitWorkersRunning
<1>3. \A v \in Worlds : Done(v).pods = v.pods BY StatusPods
<1> HIDE DEF Done, Ready
<1>4. QED BY <1>1, <1>2, <1>3 DEF Sheds

LEMMA doStepsSheds ==
  ASSUME NEW w, Good(w) PROVE
    \A v \in doSteps(w) : \A s \in Scalers : Labelled(v.pods, s) \subseteq Labelled(w.pods, s)
<1>1. w \in Worlds BY DEF Good
<1>2. ASSUME NEW v \in doSteps(w)
      PROVE  \/ v \in createTrainingJobWorkers(w) \/ v \in waitWorkersRunning(w)
             \/ v \in createLauncher(w) \/ v \in syncLauncherState(w) \/ v = w
  BY <1>2 DEF doSteps
<1>3. QED
  BY <1>1, <1>2, createTrainingJobWorkersSheds, waitWorkersRunningSheds, createLauncherPods,
     syncLauncherStatePods

LEMMA initializeJobPods == ASSUME NEW w \in Worlds PROVE initializeJob(w).pods = w.pods
  BY StatusPods DEF initializeJob

LEMMA cleanupSheds == ASSUME NEW w \in Worlds PROVE Sheds(cleanup(w), w)
  BY DeleteWorkerPodsSheds DEF cleanup, DeleteAllWorkerPods, Sheds

LEMMA cleanupAllSheds == ASSUME NEW w \in Worlds PROVE Sheds(cleanupAll(w), w)
<1>1. Sheds(DeleteAllWorkerPods(w), w) BY DeleteWorkerPodsSheds DEF DeleteAllWorkerPods
<1>2. \A v \in Worlds : SamePods(DeleteLauncher(v), v) BY DeleteLauncherPods
<1>3. QED BY <1>1, <1>2 DEF cleanupAll, Sheds, SamePods


LEMMA SaveScalerPods ==
  ASSUME NEW w \in Worlds, NEW s, NEW x PROVE SaveScaler(w, s, x).pods = w.pods
<1> DEFINE m == [r \in {s} |-> x]
<1>1. SaveScaler(w, s, x) = w \/ SaveScaler(w, s, x) = [w EXCEPT !.update = m] BY DEF SaveScaler
<1> HIDE DEF m
<1>2. QED BY <1>1 DEF Worlds

LEMMA FinishScalerPods ==
  ASSUME NEW w, CanScale(w), NEW s, NEW x, NEW c PROVE FinishScaler(w, s, x, c).pods = w.pods
<1> DEFINE u == [w EXCEPT !.st.phase = "Running", !.st.scaler = NoScaler]
           y == [x EXCEPT !.conds = @ \cup {c}]
<1>1. u \in Worlds BY StopScalingGood DEF Good
<1>2. w \in Worlds BY DEF CanScale, Good
<1>3. u.pods = w.pods BY <1>2 DEF Worlds
<1>4. FinishScaler(w, s, x, c) = SaveScaler(u, s, y) BY DEF FinishScaler
<1> HIDE DEF u, y
<1>5. QED BY <1>1, <1>3, <1>4, SaveScalerPods

\* A ScaleIn labels no pod.
LEMMA DeleteScaledInSheds ==
  ASSUME NEW w, NEW s, Scaler(w, s), NEW x, NEW hosts \in SUBSET Worker, NEW down
  PROVE  \A v \in DeleteScaledIn(w, s, x, hosts, down) : \A r \in Scalers :
           Labelled(v.pods, r) \subseteq Labelled(w.pods, r)
<1> DEFINE ws == IF x.pods = {} THEN Worker ELSE down
           Left == UNION {CatchUp(u) : u \in DeleteWorkerPods(w, ws)}
           Smaller(v) == [v EXCEPT !.st.target = FilterOut(@, x.pods), !.st.current = hosts]
           e == IF down = x.pods THEN "none" ELSE "requeue"
           Wait(v) == [SaveScaler(v, s, x) EXCEPT !.err = e]
           Done(v) == FinishScaler(Smaller(v), s, x, "ScaleSucceeded")
<1>1. w \in Worlds BY ScalerTypes
<1>2. ASSUME NEW v \in Left
      PROVE  /\ v \in Worlds /\ SameRest(v, w)
             /\ \A r \in Scalers : Labelled(v.pods, r) \subseteq Labelled(w.pods, r)
  <2>1. PICK u \in DeleteWorkerPods(w, ws) : v \in CatchUp(u) OBVIOUS
  <2>2. /\ u \in Worlds /\ SameRest(u, w)
        /\ \A r \in Scalers : Labelled(u.pods, r) \subseteq Labelled(w.pods, r)
    BY <1>1, DeleteWorkerPodsActs, DeleteWorkerPodsSheds DEF Acts, Sheds
  <2>3. v \in Worlds /\ SameRest(v, u) /\ v.pods = u.pods BY <2>1, <2>2, CatchUpRest, CatchUpPods
  <2>4. QED BY <2>2, <2>3 DEF SameRest, SameStore
<1>3. ASSUME NEW v \in Left PROVE Done(v).pods = v.pods
  <2> DEFINE t == FilterOut(v.st.target, x.pods)
             u == [v EXCEPT !.st.target = t]
             z == [u EXCEPT !.st.current = hosts]
  <2>1. v \in Worlds /\ v.st \in JobStatus /\ CanScale(v)
    <3>1. v \in Worlds /\ SameRest(v, w) BY <1>2
    <3>2. Scaler(v, s) BY <3>1, ActsScaler
    <3>3. QED BY <3>1, <3>2 DEF Scaler, Worlds
  <2>2. t \in [Worker -> Nat] BY <2>1 DEF FilterOut, JobStatus
  <2>3. Smaller(v) = z /\ z.pods = v.pods BY <2>1 DEF Worlds, JobStatus
  <2> HIDE DEF t
  <2>4. CanScale(u) BY <2>1, <2>2, TargetKeeps, CanScaleSameStage DEF CanScale
  <2> HIDE DEF u
  <2>5. CanScale(z) BY <2>4, CurrentKeeps, CanScaleSameStage DEF CanScale
  <2> HIDE DEF z
  <2>6. FinishScaler(z, s, x, "ScaleSucceeded").pods = z.pods BY <2>5, FinishScalerPods
  <2> HIDE DEF Smaller
  <2>7. QED BY <2>3, <2>6
<1>4. ASSUME NEW v \in Left PROVE Wait(v).pods = v.pods
  <2> DEFINE d == SaveScaler(v, s, x)
             m == [r \in {s} |-> x]
  <2>1. v \in Worlds BY <1>2
  <2>2. d = v \/ d = [v EXCEPT !.update = m] BY DEF SaveScaler
  <2> HIDE DEF m, e
  <2>3. [v EXCEPT !.err = e].pods = v.pods
        /\ [[v EXCEPT !.update = m] EXCEPT !.err = e].pods = v.pods
    BY <2>1 DEF Worlds
  <2>4. QED BY <2>2, <2>3
<1>5. DeleteScaledIn(w, s, x, hosts, down) =
        {IF x.pods \cap DOMAIN v.seen = {} THEN Done(v) ELSE Wait(v) : v \in Left}
  BY DEF DeleteScaledIn
<1> HIDE DEF Left, Done, Wait
<1>6. QED BY <1>2, <1>3, <1>4, <1>5

LEMMA ScaleInWorkersSheds ==
  ASSUME NEW w, NEW s, Scaler(w, s), NEW x
  PROVE  \A v \in ScaleInWorkers(w, s, x) : \A r \in Scalers :
           Labelled(v.pods, r) \subseteq Labelled(w.pods, r)
<1> DEFINE hosts   == w.st.current \ x.pods
           After0(d) == IF d[1].err = "none" THEN DeleteScaledIn(d[1], s, Executed(x), hosts, d[2])
                                             ELSE {SaveScaler(d[1], s, Executed(x))}
           Wait(v) == UNION {After0(d) : d \in checkWorkerShutdown(v, s, x.pods)}
           Fail(v) == FinishScaler([v EXCEPT !.err = "none"], s, x, "ScaleFailed")
           Ran     == executeScaleScript(w, s, x, hosts)
<1>1. w \in Worlds /\ hosts \in SUBSET Worker BY ScalerTypes DEF JobStatus
<1>2. ScaleInWorkers(w, s, x) = UNION {IF v.err = "none" THEN Wait(v) ELSE {Fail(v)} : v \in Ran}
  BY DEF ScaleInWorkers
<1> HIDE DEF hosts
<1>3. \A v \in Ran : v \in Worlds /\ Scaler(v, s) /\ v.pods = w.pods
  BY <1>1, executeScaleScriptActs, executeScaleScriptPods, ScalerActs DEF SamePods
<1> HIDE DEF Ran
<1>4. ASSUME NEW v \in Ran PROVE Fail(v).pods = w.pods
  <2> DEFINE u == [v EXCEPT !.err = "none"]
  <2>1. u.pods = v.pods BY <1>3 DEF Worlds
  <2>2. CanScale(u) BY <1>3, ErrScaler DEF Scaler
  <2> HIDE DEF u
  <2>3. FinishScaler(u, s, x, "ScaleFailed").pods = u.pods BY <2>2, FinishScalerPods
  <2>4. QED BY <1>3, <2>1, <2>3 DEF u
<1>5. ASSUME NEW v \in Ran, NEW d \in checkWorkerShutdown(v, s, x.pods), NEW u \in After0(d)
      PROVE  \A r \in Scalers : Labelled(u.pods, r) \subseteq Labelled(w.pods, r)
  <2> DEFINE Of == {c[1] : c \in checkWorkerShutdown(v, s, x.pods)}
  <2>1. d[1] \in Of OBVIOUS
  <2>2. Acts(Of, v) /\ SamePods(Of, v) BY <1>3, checkWorkerShutdownActs, checkWorkerShutdownPods
  <2> HIDE DEF Of
  <2>3. d[1] \in Worlds /\ Scaler(d[1], s) /\ d[1].pods = w.pods
    BY <1>3, <2>1, <2>2, ScalerActs DEF SamePods
  <2>4. SaveScaler(d[1], s, Executed(x)).pods = d[1].pods BY <2>3, SaveScalerPods
  <2>5. CASE d[1].err = "none"
    <3>1. u \in DeleteScaledIn(d[1], s, Executed(x), hosts, d[2]) BY <1>5, <2>5
    <3> HIDE DEF After0
    <3>2. \A r \in Scalers : Labelled(u.pods, r) \subseteq Labelled(d[1].pods, r)
      BY <1>1, <2>3, <3>1, DeleteScaledInSheds
    <3>3. QED BY <2>3, <3>2
  <2>6. CASE d[1].err # "none" BY <1>5, <2>3, <2>4, <2>6
  <2>7. QED BY <2>5, <2>6
<1> HIDE DEF After0, Fail
<1>6. QED BY <1>2, <1>4, <1>5

LEMMA executeScaleInSheds ==
  ASSUME NEW w, NEW s, Scaler(w, s)
  PROVE  \A v \in executeScaleIn(w, s) : \A r \in Scalers :
           Labelled(v.pods, r) \subseteq Labelled(w.pods, r)
<1>1. \A v \in executeScaleIn(w, s) :
        \/ \E x : v \in ScaleInWorkers(w, s, x)
        \/ v = FinishScaler(w, s, w.known[s], "ScaleFailed")
  BY DEF executeScaleIn
<1>2. QED BY <1>1, ScaleInWorkersSheds, FinishScalerPods DEF Scaler


\* The status of s that the world v writes, or leaves as it is, has the workers ws.
Named(v, s, ws) ==
    s \in v.stale \/ ws = IF s \in DOMAIN v.update THEN v.update[s].pods ELSE v.known[s].pods

\* The worlds of S after work on s that labels no further pod.
AllNamed(S, w, s, ws) ==
    \A v \in S : /\ Named(v, s, ws)
                 /\ \A r \in Scalers : Labelled(v.pods, r) \subseteq Labelled(w.pods, r)

LEMMA NamedLater ==
  ASSUME NEW v, NEW w, NEW s, NEW ws, SameRest(v, w), Named(w, s, ws) PROVE Named(v, s, ws)
  BY DEF Named, SameRest, SameStore

LEMMA SaveScalerNames ==
  ASSUME NEW w \in Worlds, NEW s, NEW x, DOMAIN w.update = {}
  PROVE  Named(SaveScaler(w, s, x), s, x.pods)
<1> DEFINE m == [r \in {s} |-> x]
<1>1. DOMAIN m = {s} /\ m[s] = x OBVIOUS
<1>2. SaveScaler(w, s, x) = IF s \in w.stale \/ w.known[s] = x THEN w ELSE [w EXCEPT !.update = m]
  BY DEF SaveScaler
<1> HIDE DEF m
<1>3. [w EXCEPT !.update = m].update = m BY DEF Worlds
<1>4. QED BY <1>1, <1>2, <1>3 DEF Named

LEMMA FinishScalerNames ==
  ASSUME NEW w, CanScale(w), NEW s, NEW x \in ScalerStatus, NEW c, DOMAIN w.update = {}
  PROVE  Named(FinishScaler(w, s, x, c), s, x.pods)
<1> DEFINE u == [w EXCEPT !.st.phase = "Running", !.st.scaler = NoScaler]
           y == [x EXCEPT !.conds = @ \cup {c}]
<1>1. w \in Worlds BY DEF CanScale, Good
<1>2. u \in Worlds BY StopScalingGood DEF Good
<1>3. u.update = w.update BY <1>1 DEF Worlds
<1>4. y.pods = x.pods BY DEF ScalerStatus
<1>5. FinishScaler(w, s, x, c) = SaveScaler(u, s, y) BY DEF FinishScaler
<1> HIDE DEF u, y
<1>6. Named(SaveScaler(u, s, y), s, y.pods) BY <1>2, <1>3, SaveScalerNames
<1>7. QED BY <1>4, <1>5, <1>6

LEMMA ScaleOutFailedNames ==
  ASSUME NEW w, NEW s, Scaler(w, s), NEW x \in ScalerStatus, DOMAIN w.update = {},
         NEW err \in {"none", "requeue", "error"}
  PROVE  AllNamed(ScaleOutFailed(w, s, x, err), w, s, x.pods)
<1> DEFINE End(v)  == FinishScaler(v, s, x, "ScaleFailed")
           Fail(v) == [End(v) EXCEPT !.err = err]
<1>1. w \in Worlds /\ s \in Scalers BY ScalerTypes
<1>2. ASSUME NEW v \in CatchUp(w)
      PROVE  v \in Worlds /\ Scaler(v, s) /\ DOMAIN v.update = {} /\ v.pods = w.pods
  BY <1>1, CatchUpRest, CatchUpPods, ActsScaler DEF SameRest, SameStore
<1>3. ASSUME NEW v \in CatchUp(w)
      PROVE  End(v) \in Worlds /\ Named(End(v), s, x.pods) /\ End(v).pods = w.pods
  <2>1. CanScale(v) BY <1>2 DEF Scaler
  <2>2. End(v) \in Worlds BY <1>1, <2>1, FinishScalerGood DEF Good, ScalerCondition
  <2>3. QED BY <1>2, <2>1, <2>2, FinishScalerNames, FinishScalerPods
<1> HIDE DEF End
<1>4. ASSUME NEW v \in CatchUp(w)
      PROVE  Fail(v) \in Worlds /\ Named(Fail(v), s, x.pods) /\ Fail(v).pods = w.pods
  <2>1. Fail(v) \in Worlds /\ SameRest(Fail(v), End(v)) /\ Fail(v).pods = End(v).pods
    BY <1>3, ErrDoes
  <2> HIDE DEF Fail
  <2>2. QED BY <1>3, <2>1, NamedLater
<1>5. ScaleOutFailed(w, s, x, err) = UNION {DeleteWorkerPods(Fail(v), x.pods) : v \in CatchUp(w)}
  BY DEF ScaleOutFailed, End
<1> HIDE DEF Fail
<1>6. ASSUME NEW v \in CatchUp(w), NEW u \in DeleteWorkerPods(Fail(v), x.pods)
      PROVE  /\ Named(u, s, x.pods)
             /\ \A r \in Scalers : Labelled(u.pods, r) \subseteq Labelled(w.pods, r)
  <2>1. SameRest(u, Fail(v)) BY <1>4, DeleteWorkerPodsActs DEF Acts
  <2>2. \A r \in Scalers : Labelled(u.pods, r) \subseteq Labelled(Fail(v).pods, r)
    BY <1>4, DeleteWorkerPodsSheds DEF Sheds
  <2>3. QED BY <1>4, <2>1, <2>2, NamedLater
<1>7. QED BY <1>5, <1>6 DEF AllNamed

LEMMA AwaitWorkersNames ==
  ASSUME NEW w, NEW s, Scaler(w, s), NEW x \in ScalerStatus, DOMAIN w.update = {}
  PROVE  AllNamed(AwaitWorkers(w, s, x), w, s, x.pods)
<1> DEFINE d == SaveScaler(w, s, x)
           v == [d EXCEPT !.err = "requeue"]
<1>1. w \in Worlds /\ s \in Scalers BY ScalerTypes
<1>2. d \in Worlds /\ d.pods = w.pods /\ Named(d, s, x.pods)
  BY <1>1, SaveScalerKeeps, SaveScalerPods, SaveScalerNames
<1> HIDE DEF d
<1>3. SameRest(v, d) /\ v.pods = d.pods BY <1>2, ErrDoes
<1>4. Named(v, s, x.pods) /\ v.pods = w.pods BY <1>2, <1>3, NamedLater
<1>5. AllNamed(ScaleOutFailed(w, s, x, "requeue"), w, s, x.pods) BY ScaleOutFailedNames
<1>6. AwaitWorkers(w, s, x)
        = {v} \cup (IF "Scaling" \in x.conds THEN ScaleOutFailed(w, s, x, "requeue") ELSE {})
  BY DEF AwaitWorkers, d
<1> HIDE DEF v
<1>7. QED BY <1>4, <1>5, <1>6 DEF AllNamed

LEMMA AddWorkersNames ==
  ASSUME NEW w, NEW s, Scaler(w, s), NEW x \in ScalerStatus, DOMAIN w.update = {}
  PROVE  AllNamed(AddWorkers(w, s, x), w, s, x.pods)
<1> DEFINE t       == Append(w.st.target, x.pods)
           Full    == \E i \in Worker : t[i] > MaxCopies
           More(v) == [v EXCEPT !.st.target = t]
           Done(v) == FinishScaler(More(v), s, Executed(x), "ScaleSucceeded")
           After0(v) == CASE v.err # "none" -> ScaleOutFailed(v, s, x, "error")
                          [] v.err = "none" /\ Full -> {}
                          [] OTHER -> {Done(v)}
           Ran     == executeScaleScript(w, s, x, w.st.current \cup x.pods)
<1>1. w \in Worlds /\ w.st \in JobStatus /\ s \in Scalers BY ScalerTypes
<1>2. t \in [Worker -> Nat] BY <1>1, AppendIsBag DEF JobStatus
<1>3. w.st.current \cup x.pods \in SUBSET Worker BY <1>1 DEF JobStatus, ScalerStatus
<1>4. AddWorkers(w, s, x) = UNION {After0(v) : v \in Ran} BY DEF AddWorkers
<1> HIDE DEF t, Full
<1>5. \A v \in Ran : v \in Worlds /\ Scaler(v, s) /\ DOMAIN v.update = {} /\ v.pods = w.pods
  BY <1>1, <1>3, executeScaleScriptActs, executeScaleScriptPods, ScalerActs
  DEF SamePods, SameRest, SameStore
<1> HIDE DEF Ran
<1>6. Executed(x) \in ScalerStatus /\ Executed(x).pods = x.pods
  BY ExecutedTypes DEF Executed, ScalerStatus
<1>7. ASSUME NEW v \in Ran PROVE Named(Done(v), s, x.pods) /\ Done(v).pods = w.pods
  <2>1. v \in Worlds /\ CanScale(v) BY <1>5 DEF Scaler
  <2>2. CanScale(More(v)) BY <1>2, <2>1, TargetKeeps, CanScaleSameStage DEF CanScale
  <2>3. More(v).update = v.update /\ More(v).pods = v.pods BY <2>1 DEF Worlds
  <2> HIDE DEF More
  <2>4. QED BY <1>5, <1>6, <2>2, <2>3, FinishScalerNames, FinishScalerPods
<1> HIDE DEF Done
<1>8. ASSUME NEW v \in Ran PROVE AllNamed(After0(v), w, s, x.pods)
  <2>1. AllNamed(ScaleOutFailed(v, s, x, "error"), v, s, x.pods) BY <1>5, ScaleOutFailedNames
  <2>2. QED BY <1>5, <1>7, <2>1 DEF AllNamed
<1> HIDE DEF After0
<1>9. QED BY <1>4, <1>8 DEF AllNamed

\* The worlds of S after the execution of the ScaleOut s with the workers ws.
AllAdd(S, w, s, ws) ==
    \A v \in S :
      /\ Named(v, s, ws)
      /\ \A r \in Scalers :
           Labelled(v.pods, r) \subseteq Labelled(w.pods, r) \cup (IF s = r THEN ws ELSE {})

LEMMA ScaleOutWorkersAdds ==
  ASSUME NEW w, NEW s, Scaler(w, s), NEW x \in ScalerStatus, DOMAIN w.update = {}
  PROVE  AllAdd(ScaleOutWorkers(w, s, x), w, s, x.pods)
<1> DEFINE Waits(v) == Cardinality(Active(v, s)) < ScalerSpec[s].count
           After0(v) == CASE v.err # "none" -> ScaleOutFailed(v, s, x, "error")
                          [] v.err = "none" /\ Waits(v) -> AwaitWorkers(v, s, x)
                          [] OTHER -> AddWorkers(v, s, x)
           Made     == createWorkers(w, x.pods, s)
<1>1. ScaleOutWorkers(w, s, x) = UNION {After0(v) : v \in Made} BY DEF ScaleOutWorkers
<1>2. w \in Worlds /\ s \in Scalers \cup {NoScaler} BY ScalerTypes
<1>3. \A v \in Made : Scaler(v, s) /\ DOMAIN v.update = {}
  BY <1>2, createWorkersActs, ScalerActs DEF SameRest, SameStore
<1>4. \A v \in Made : \A r \in Scalers :
        Labelled(v.pods, r) \subseteq Labelled(w.pods, r) \cup (IF s = r THEN x.pods ELSE {})
  BY <1>2, createWorkersLabels
<1> HIDE DEF Waits, Made
<1>5. ASSUME NEW v \in Made PROVE AllNamed(After0(v), v, s, x.pods)
  BY <1>3, ScaleOutFailedNames, AwaitWorkersNames, AddWorkersNames
<1> HIDE DEF After0
<1>6. ASSUME NEW v \in Made, NEW u \in After0(v), NEW r \in Scalers
      PROVE  /\ Named(u, s, x.pods)
             /\ Labelled(u.pods, r) \subseteq Labelled(w.pods, r) \cup (IF s = r THEN x.pods ELSE {})
  <2>1. Named(u, s, x.pods) /\ Labelled(u.pods, r) \subseteq Labelled(v.pods, r)
    BY <1>5, <1>6 DEF AllNamed
  <2>2. QED BY <1>4, <2>1
<1>7. ASSUME NEW u \in ScaleOutWorkers(w, s, x) PROVE Named(u, s, x.pods)
  BY <1>1, <1>5 DEF AllNamed
<1>8. QED BY <1>1, <1>6, <1>7 DEF AllAdd

\* The workers of the ScaleOut s: those it has, or the next names.
WorkersOf(w, s) ==
    IF w.known[s].pods # {} THEN w.known[s].pods ELSE NextNames(w.st.target, ScalerSpec[s].count)

LEMMA executeScaleOutAdds ==
  ASSUME NEW w, NEW s, Scaler(w, s), DOMAIN w.update = {}, ScalerSpec[s].count >= 0
  PROVE  AllAdd(executeScaleOut(w, s), w, s, WorkersOf(w, s))
<1> DEFINE x == w.known[s]
           names == WorkersOf(w, s)
           y == [x EXCEPT !.pods = names]
           z == FinishScaler(w, s, x, "ScaleFailed")
<1>1. w \in Worlds /\ w.st \in JobStatus /\ s \in Scalers /\ x \in ScalerStatus BY ScalerTypes
<1>2. executeScaleOut(w, s) = IF ScalerSpec[s].count <= 0 THEN {Error(z)}
                              ELSE ScaleOutWorkers(w, s, y)
  BY DEF executeScaleOut, WorkersOf
<1>3. y.pods = names /\ (names \subseteq Worker => y \in ScalerStatus) BY <1>1 DEF ScalerStatus
<1>4. ScalerSpec[s].count <= 0 => names = x.pods
  <2>1. getWorkerPodsMaxIndex(w.st.target) \in Int
    <3>1. \A i \in Members(w.st.target) : getWorkerPodsMaxIndex(w.st.target) \in Members(w.st.target)
      BY <1>1, HighestMember DEF JobStatus
    <3>2. Members(w.st.target) = {} => getWorkerPodsMaxIndex(w.st.target) = -1
      BY DEF getWorkerPodsMaxIndex
    <3>3. Members(w.st.target) \subseteq Int BY NumbersAssumption DEF Members, Worker
    <3>4. QED BY <3>1, <3>2, <3>3
  <2>2. ScalerSpec[s].count \in Int BY <1>1, ScalersAssumption DEF ScalerSpecs
  <2> HIDE DEF getWorkerPodsMaxIndex
  <2>3. ScalerSpec[s].count <= 0 => NextNames(w.st.target, ScalerSpec[s].count) = {}
    BY <2>1, <2>2 DEF NextNames
  <2>4. QED BY <2>3 DEF WorkersOf
<1>5. CanScale(w) BY DEF Scaler
<1>6. Named(Error(z), s, x.pods) /\ Error(z).pods = w.pods
  <2>1. z \in Worlds BY <1>1, <1>5, FinishScalerGood DEF Good, ScalerCondition
  <2>2. Named(z, s, x.pods) /\ z.pods = w.pods BY <1>1, <1>5, FinishScalerNames, FinishScalerPods
  <2> HIDE DEF z
  <2>3. QED BY <2>1, <2>2, ErrorActs, ErrorPods, NamedLater DEF SamePods
<1> HIDE DEF x, y, z, names
<1>7. CASE ScalerSpec[s].count <= 0 BY <1>2, <1>4, <1>6, <1>7 DEF AllAdd, names
<1>8. CASE ~(ScalerSpec[s].count <= 0) /\ names \subseteq Worker
  <2>1. AllAdd(ScaleOutWorkers(w, s, y), w, s, y.pods) BY <1>3, <1>8, ScaleOutWorkersAdds
  <2>2. QED BY <1>2, <1>3, <1>8, <2>1 DEF names
<1>9. CASE ~(ScalerSpec[s].count <= 0) /\ ~(names \subseteq Worker)
  <2>1. createWorkers(w, y.pods, s) = {} BY <1>3, <1>9 DEF createWorkers
  <2>2. ScaleOutWorkers(w, s, y) = {} BY <2>1 DEF ScaleOutWorkers
  <2>3. QED BY <1>2, <1>9, <2>2 DEF AllAdd
<1>10. QED BY <1>7, <1>8, <1>9


-----------------------------------------------------------------------------
(* A ScaleOut has no more workers than its count. *)

Outs == {s \in Scalers : ScalerSpec[s].kind = "out"}

\* What a handler that began in w does to the pods of the ScaleOut s and to its
\* status: nothing, as long as the job holds it; takes it up; or executes it.
Adds(v, w, s) ==
    \/ /\ Labelled(v.pods, s) \subseteq Labelled(w.pods, s)
       /\ s \notin DOMAIN v.update
       /\ s \in DOMAIN w.known /\ Holds(w.st, s) /\ ~isScaleFinished(w.known[s]) =>
            Holds(v.st, s) /\ v.st.target = w.st.target
    \/ /\ Labelled(v.pods, s) \subseteq Labelled(w.pods, s)
       /\ s \in DOMAIN w.known /\ s \in DOMAIN v.update
       /\ v.update[s].pods = w.known[s].pods /\ ~Holds(w.st, s)
    \/ /\ w.st.phase = "Scaling" /\ w.st.scaler = s
       /\ s \in DOMAIN w.known /\ ~isScaleFinished(w.known[s])
       /\ Labelled(v.pods, s) \subseteq Labelled(w.pods, s) \cup WorkersOf(w, s)
       /\ Named(v, s, WorkersOf(w, s)) /\ v.stale = w.stale /\ v.known = w.known

AllAdds(S, w) == \A v \in S : \A s \in Outs : Adds(v, w, s)

LEMMA ActsAdd ==
  ASSUME NEW w, NEW S, Acts(S, w), Sheds(S, w), DOMAIN w.update = {} PROVE AllAdds(S, w)
<1>1. ASSUME NEW v \in S, NEW s \in Outs PROVE Adds(v, w, s)
  <2>1. v.st = w.st /\ v.update = w.update BY DEF Acts, SameRest, SameStore
  <2>2. Labelled(v.pods, s) \subseteq Labelled(w.pods, s) BY DEF Sheds, Outs
  <2>3. QED BY <2>1, <2>2 DEF Adds
<1>2. QED BY <1>1 DEF AllAdds

LEMMA CreatedAdds ==
  ASSUME NEW w, Good(w), w.st.phase \in {"New", "Created"}, DOMAIN w.update = {}
  PROVE  AllAdds(doSteps(initializeJob(w)), w)
<1> DEFINE u == initializeJob(w)
<1>1. Good(u) /\ SameStore(u, w) /\ u.pods = w.pods
  BY LivePhaseIsUnfinished, initializeJobGood, initializeJobDoes, initializeJobPods DEF Good
<1> HIDE DEF u
<1>2. ASSUME NEW v \in doSteps(u), NEW s \in Outs PROVE Adds(v, w, s)
  <2>1. v.update = w.update BY <1>1, doStepsDoes DEF SameStore, SameScalers
  <2>2. Labelled(v.pods, s) \subseteq Labelled(w.pods, s) BY <1>1, doStepsSheds DEF Outs
  <2>3. QED BY <2>1, <2>2 DEF Adds, Holds
<1>3. QED BY <1>2 DEF AllAdds, u

LEMMA StartScalerAdds ==
  ASSUME NEW w \in Worlds, NEW s \in DOMAIN w.known, DOMAIN w.update = {}
  PROVE  LET v == StartScaler(w, s)
         IN  /\ v.pods = w.pods /\ DOMAIN v.update \subseteq {s}
             /\ s \in DOMAIN v.update => v.update[s].pods = w.known[s].pods
<1> DEFINE u == [w EXCEPT !.st.phase = "Scaling", !.st.scaler = s]
           y == [w.known[s] EXCEPT !.conds = @ \cup {"Scaling"}]
           m == [r \in {s} |-> y]
<1>1. w.known[s] \in ScalerStatus BY KnownTypes DEF Worlds
<1>2. y.pods = w.known[s].pods BY <1>1 DEF ScalerStatus
<1>3. u.update = w.update /\ u.pods = w.pods BY DEF Worlds
<1>4. DOMAIN m = {s} /\ m[s] = y OBVIOUS
<1>5. StartScaler(w, s) = IF s \in u.stale \/ u.known[s] = y THEN u ELSE [u EXCEPT !.update = m]
  BY DEF StartScaler, SaveScaler
<1> HIDE DEF y, m
<1>6. [u EXCEPT !.update = m].update = m /\ [u EXCEPT !.update = m].pods = w.pods BY DEF Worlds
<1> HIDE DEF u
<1>7. QED BY <1>2, <1>3, <1>4, <1>5, <1>6

LEMMA RunningAdds ==
  ASSUME NEW w, Good(w), w.st.phase = "Running", DOMAIN w.update = {}
  PROVE  AllAdds(reconcileJobRunning(w), w)
<1> DEFINE Looked == UNION {handleWorkersFailed(u) : u \in syncLauncherState(w)}
<1>1. w \in Worlds /\ Unfinished(w.st) /\ "LauncherCreated" \in w.st.conds
  BY LivePhaseIsUnfinished DEF Good, Consistent, StepOrder
<1>2. \A u \in syncLauncherState(w) : Good(u) /\ SameStore(u, w) /\ u.pods = w.pods
  BY <1>1, syncLauncherStateGood, syncLauncherStateDoes, syncLauncherStatePods
<1>3. \A v \in Looked : /\ v \in Worlds /\ SameStore(v, w)
                        /\ \A s \in Scalers : Labelled(v.pods, s) \subseteq Labelled(w.pods, s)
  BY <1>2, handleWorkersFailedDoes, handleWorkersFailedSheds DEF SameStore, Sheds
<1>4. reconcileJobRunning(w) =
        UNION {IF v.err = "none" /\ v.st.phase = "Running" THEN setTrainingJobScaler(v) ELSE {v} :
                 v \in Looked}
  BY DEF reconcileJobRunning
<1> HIDE DEF Looked
<1>5. \A s : ~Holds(w.st, s) BY DEF Holds
<1>6. \A v \in Looked : \A s \in Outs : Adds(v, w, s) BY <1>3, <1>5 DEF Adds, SameStore, Outs
<1>7. ASSUME NEW v \in Looked, NEW x \in setTrainingJobScaler(v), NEW s \in Outs PROVE Adds(x, w, s)
  <2>1. v \in Worlds /\ v.known = w.known /\ DOMAIN v.update = {} BY <1>3 DEF SameStore
  <2>2. x = v \/ \E r \in availableScalers(v) : x = StartScaler(v, r)
    BY DEF setTrainingJobScaler, latestScalers
  <2>3. ASSUME NEW r \in availableScalers(v), x = StartScaler(v, r) PROVE Adds(x, w, s)
    <3>1. r \in DOMAIN v.known BY DEF availableScalers
    <3>2. /\ x.pods = v.pods /\ DOMAIN x.update \subseteq {r}
          /\ r \in DOMAIN x.update => x.update[r].pods = v.known[r].pods
      BY <2>1, <2>3, <3>1, StartScalerAdds
    <3>3. Labelled(x.pods, s) \subseteq Labelled(w.pods, s) BY <1>3, <3>2 DEF Outs
    <3>4. QED BY <1>5, <2>1, <3>1, <3>2, <3>3 DEF Adds
  <2>4. QED BY <1>6, <2>2, <2>3
<1>8. QED BY <1>4, <1>6, <1>7 DEF AllAdds

LEMMA ScalingAdds ==
  ASSUME NEW w, Good(w), w.st.phase = "Scaling", DOMAIN w.update = {},
         \A s \in Outs : ScalerSpec[s].count >= 0
  PROVE  AllAdds(executeScaling(w), w)
<1> DEFINE t == w.st.scaler
<1>1. /\ w \in Worlds /\ w.st \in JobStatus /\ Unfinished(w.st)
      /\ {"Running", "LauncherCreated"} \subseteq w.st.conds /\ t # NoScaler /\ t \in Scalers
  BY LivePhaseIsUnfinished DEF Good, Worlds, Consistent, StepOrder, ScalingHasScaler, JobStatus
<1>2. ASSUME NEW u \in syncLauncherState(w)
      PROVE  /\ Good(u) /\ SameStore(u, w) /\ u.pods = w.pods
             /\ u.st.scaler = t /\ u.st.target = w.st.target
             /\ isFinished(u.st) \/ "Running" \in u.st.conds
             /\ u.st.phase \in {"Scaling", "Succeeded", "Failed"}
  <2>1. /\ Good(u) /\ u.st.scaler = t
        /\ u.st = w.st \/ isFinished(u.st)
    BY <1>1, syncLauncherStateGood
  <2>2. Synced(u.st, w.st) /\ SameStore(u, w) /\ u.pods = w.pods
    BY <1>1, syncLauncherStateDoes, syncLauncherStatePods
  <2>3. u.st.phase \in {"Scaling", "Succeeded", "Failed"} /\ u.st.target = w.st.target
    BY <1>1, <2>2 DEF Synced, updateStatus, updateJobConditions, JobStatus
  <2>4. QED BY <1>1, <2>1, <2>2, <2>3
<1>3. \A s : s # t => ~Holds(w.st, s) BY DEF Holds
<1>4. ASSUME NEW u \in syncLauncherState(w), NEW v \in ExecuteScaler(u), NEW s \in Outs
      PROVE  Adds(v, w, s)
  <2>1. /\ Good(u) /\ u \in Worlds /\ SameStore(u, w) /\ u.pods = w.pods
        /\ u.st.scaler = t /\ u.st.target = w.st.target
        /\ isFinished(u.st) \/ "Running" \in u.st.conds
        /\ u.st.phase \in {"Scaling", "Succeeded", "Failed"}
    BY <1>2 DEF Good
  <2>2. /\ DOMAIN u.update = {} /\ u.known = w.known /\ u.stale = w.stale
        /\ s \in Scalers
    BY <2>1 DEF SameStore, Outs
  <2>3. CASE isFinished(u.st)
    <3>1. v = u BY <1>1, <2>1, <2>3 DEF ExecuteScaler
    <3>2. QED BY <2>1, <2>2, <3>1 DEF Adds, Holds
  <2>4. CASE ~isFinished(u.st) /\ (t \notin DOMAIN u.known \/ isScaleFinished(u.known[t]))
    <3>1. v = [u EXCEPT !.st.phase = "Running", !.st.scaler = NoScaler]
      BY <1>1, <2>1, <2>4 DEF ExecuteScaler
    <3>2. v.update = u.update /\ v.pods = u.pods BY <2>1, <3>1 DEF Worlds
    <3>3. QED BY <1>3, <2>1, <2>2, <2>4, <3>2 DEF Adds
  <2>5. CASE ~isFinished(u.st) /\ t \in DOMAIN u.known /\ ~isScaleFinished(u.known[t])
    <3>1. IF ScalerSpec[t].kind = "in" THEN v \in executeScaleIn(u, t) ELSE v \in executeScaleOut(u, t)
      BY <1>1, <2>1, <2>5 DEF ExecuteScaler
    <3>2. Scaler(u, t)
      BY <2>1, <2>2, <2>5 DEF Scaler, CanScale, isFinished, Unfinished, Handles, Records
    <3>3. ScaledFrom(v, u, t)
      BY <3>1, <3>2, executeScaleInScaled, executeScaleOutScaled DEF AllScaled
    <3>4. DOMAIN v.update \subseteq {t} /\ v.stale = w.stale /\ v.known = w.known
      BY <2>2, <3>3 DEF ScaledFrom, Handles, Records
    <3>5. CASE ScalerSpec[t].kind = "in"
      <4>1. Labelled(v.pods, s) \subseteq Labelled(w.pods, s)
        BY <2>1, <2>2, <3>1, <3>2, <3>5, executeScaleInSheds
      <4>2. s # t BY <3>5 DEF Outs
      <4>3. QED BY <1>3, <3>4, <4>1, <4>2 DEF Adds
    <3>6. CASE ScalerSpec[t].kind # "in"
      <4>1. ScalerSpec[t].kind = "out" BY <1>1, <3>6, ScalersAssumption DEF ScalerSpecs
      <4>2. ScalerSpec[t].count >= 0 BY <1>1, <4>1 DEF Outs
      <4>3. AllAdd(executeScaleOut(u, t), u, t, WorkersOf(u, t))
        BY <2>2, <3>2, <4>2, executeScaleOutAdds
      <4>4. WorkersOf(u, t) = WorkersOf(w, t) BY <2>1, <2>2 DEF WorkersOf
      <4>5. /\ Named(v, t, WorkersOf(w, t))
            /\ Labelled(v.pods, s) \subseteq Labelled(w.pods, s) \cup (IF t = s THEN WorkersOf(w, t) ELSE {})
        BY <2>1, <2>2, <3>1, <3>6, <4>3, <4>4 DEF AllAdd
      <4>6. QED BY <1>3, <2>2, <2>5, <3>4, <4>5 DEF Adds
    <3>7. QED BY <3>5, <3>6
  <2>6. QED BY <2>3, <2>4, <2>5
<1>5. QED BY <1>4 DEF executeScaling, AllAdds

LEMMA HandleAdds ==
  ASSUME IInv, Handle, Steady, \A s \in Outs : ScalerSpec[s].count >= 0
  PROVE  \E w : Leave(w) /\ \A s \in Outs : Adds(w, Observed, s)
<1> DEFINE o == Observed
<1>1. Good(o) /\ o \in Worlds /\ o.st = mine /\ DOMAIN o.update = {}
  BY ObservedGood DEF Observed, EmptyMap, Good
<1>2. ~needRestartJob(o.st)
  <2>1. o.st.restarts \in Nat BY <1>1 DEF Worlds, JobStatus
  <2>2. QED BY <2>1 DEF needRestartJob, Steady
<1> HIDE DEF o
<1>3. HandleCreated => AllAdds(doSteps(initializeJob(o)), o)
  BY <1>1, CreatedAdds DEF HandleCreated, AtHandler
<1>4. HandleRunning => AllAdds(reconcileJobRunning(o), o)
  BY <1>1, RunningAdds DEF HandleRunning, AtHandler
<1>5. HandleScaling => AllAdds(executeScaling(o), o)
  BY <1>1, ScalingAdds DEF HandleScaling, AtHandler
<1>6. AllAdds(cleanup(o), o) /\ AllAdds(cleanupAll(o), o)
  BY <1>1, cleanupActs, cleanupAllActs, cleanupSheds, cleanupAllSheds, ActsAdd
<1>7. AllAdds(restartJob(o), o) BY <1>2, <1>6 DEF restartJob
<1>8. \/ HandleCreated /\ \E w \in doSteps(initializeJob(o)) : Leave(w)
      \/ HandleRunning /\ \E w \in reconcileJobRunning(o) : Leave(w)
      \/ HandleScaling /\ \E w \in executeScaling(o) : Leave(w)
      \/ \E w \in cleanup(o) : Leave(w)
      \/ \E w \in restartJob(o) : Leave(w)
      \/ \E w \in cleanupAll(o) : Leave(w)
  BY DEF Handle, HandleCreated, HandleRunning, HandleScaling, HandleSucceeded, HandleFailed,
     HandleSuspended, o
<1>9. \E w : Leave(w) /\ \A s \in Outs : Adds(w, o, s)
  BY <1>3, <1>4, <1>5, <1>6, <1>7, <1>8 DEF AllAdds
<1>10. QED BY <1>9 DEF o


\* The workers that the ScaleOut s may have given its label to: those its status
\* x names, or, while the job holds it, those it will name.
Claim(x, st, s) ==
    IF x.pods # {} THEN x.pods
    ELSE IF Holds(st, s) /\ ~isScaleFinished(x) THEN NextNames(st.target, ScalerSpec[s].count)
    ELSE {}

LabelInv ==
    /\ \A s \in Outs \ DOMAIN scalers : Labelled(pods, s) = {}
    /\ \A s \in Outs \cap DOMAIN scalers :
         /\ Labelled(pods, s) \subseteq Claim(scalers[s], job.status, s)
         /\ Cardinality(scalers[s].pods) <= ScalerSpec[s].count
    /\ pc \in {"writeScaler", "writeJob"} =>
         \A s \in Outs \cap DOMAIN scalers : Labelled(pods, s) \subseteq Claim(After(s), mine, s)
    /\ \A s \in Outs \cap DOMAIN update :
         /\ Labelled(pods, s) \subseteq Claim(update[s], job.status, s)
         /\ Cardinality(update[s].pods) <= ScalerSpec[s].count

\* A count is not negative, and no ScaleOut is deleted: its workers would stay,
\* and add to those of another one of its name.
Counted ==
    /\ \A s \in Outs : ScalerSpec[s].count >= 0
    /\ "scalerDeleted" \notin Faults

LEMMA CountsAreIntegers == ASSUME NEW s \in Scalers PROVE ScalerSpec[s].count \in Int
  BY ScalersAssumption DEF ScalerSpecs

LEMMA NextNamesCount ==
  ASSUME NEW t \in [Worker -> Nat], NEW n \in Nat
  PROVE  IsFiniteSet(NextNames(t, n)) /\ Cardinality(NextNames(t, n)) = n
<1>1. getWorkerPodsMaxIndex(t) \in Int
  <2>1. \A i \in Members(t) : getWorkerPodsMaxIndex(t) \in Members(t) BY HighestMember
  <2>2. Members(t) = {} => getWorkerPodsMaxIndex(t) = -1 BY DEF getWorkerPodsMaxIndex
  <2>3. Members(t) \subseteq Int BY NumbersAssumption DEF Members, Worker
  <2>4. QED BY <2>1, <2>2, <2>3
<1> DEFINE a == getWorkerPodsMaxIndex(t) + 1
           b == getWorkerPodsMaxIndex(t) + n
<1>2. a \in Int /\ b \in Int /\ (a > b <=> n = 0) /\ b - a + 1 = n BY <1>1
<1>3. NextNames(t, n) = a..b BY DEF NextNames
<1> HIDE DEF a, b
<1>4. IsFiniteSet(a..b) /\ Cardinality(a..b) = IF a > b THEN 0 ELSE b - a + 1
  BY <1>2, FS_Interval
<1>5. QED BY <1>2, <1>3, <1>4

\* What a reconcile holds of the job while it handles it: the status as it is,
\* or suspended.
LEMMA MineTarget ==
  ASSUME IInv, LifeInv, pc = "handle" PROVE mine.target = job.status.target
<1>1. job.status \in JobStatus /\ read = job.status BY DEF IInv, TypeOK, Job, LifeInv
<1>2. mine = job.status \/ mine = updateStatus(job.status, "Suspended") BY <1>1 DEF LifeInv
<1>3. updateStatus(job.status, "Suspended").target = job.status.target
  BY <1>1 DEF updateStatus, updateJobConditions, JobStatus
<1>4. QED BY <1>2, <1>3

\* The executed ScaleOut s may claim what it creates.
LEMMA WorkersOfClaim ==
  ASSUME NEW w, NEW st, NEW s, w.st.target = st.target, Holds(st, s), ~isScaleFinished(w.known[s])
  PROVE  WorkersOf(w, s) = Claim(w.known[s], st, s)
  BY DEF WorkersOf, Claim


\* What one ScaleOut the API server has, with status x, keeps in a handler that
\* leaves the world w.
LEMMA AddsClaim ==
  ASSUME NEW s \in Outs, NEW o, NEW w, NEW x, NEW st,
         Adds(w, o, s), s \in DOMAIN o.known, o.known[s] = x, o.stale = {},
         o.st.target = st.target, Holds(st, s) => Holds(o.st, s),
         o.st.phase = "Scaling" /\ o.st.scaler = s => Holds(st, s),
         Labelled(o.pods, s) \subseteq Claim(x, st, s),
         x.pods \subseteq Worker, Cardinality(x.pods) <= ScalerSpec[s].count,
         ScalerSpec[s].count >= 0, st.target \in [Worker -> Nat]
  PROVE  LET y == IF s \in DOMAIN w.update THEN w.update[s] ELSE x
         IN  /\ Labelled(w.pods, s) \subseteq Claim(x, st, s)
             /\ Labelled(w.pods, s) \subseteq Claim(y, w.st, s)
             /\ s \in DOMAIN w.update =>
                  /\ Labelled(w.pods, s) \subseteq Claim(y, st, s)
                  /\ Cardinality(y.pods) <= ScalerSpec[s].count
<1> DEFINE y == IF s \in DOMAIN w.update THEN w.update[s] ELSE x
           A == Labelled(o.pods, s)
           B == Labelled(w.pods, s)
<1>1. (s \in DOMAIN w.update => y = w.update[s]) /\ (s \notin DOMAIN w.update => y = x) OBVIOUS
<1> HIDE DEF y, A, B
<1>2. CASE B \subseteq A /\ s \notin DOMAIN w.update
           /\ (Holds(o.st, s) /\ ~isScaleFinished(x) => Holds(w.st, s) /\ w.st.target = o.st.target)
  BY <1>1, <1>2 DEF Claim, A, B, y
<1>3. CASE B \subseteq A /\ s \in DOMAIN w.update /\ y.pods = x.pods /\ ~Holds(o.st, s)
  BY <1>1, <1>3 DEF Claim, A, B, y
<1>4. CASE /\ Holds(st, s) /\ ~isScaleFinished(x) /\ B \subseteq A \cup WorkersOf(o, s)
           /\ Named(w, s, WorkersOf(o, s)) /\ w.stale = {} /\ w.known = o.known
  <2> DEFINE W == WorkersOf(o, s)
  <2>1. W = Claim(x, st, s) BY <1>4, WorkersOfClaim
  <2>2. y.pods = W BY <1>1, <1>4 DEF Named
  <2>3. W = IF x.pods # {} THEN x.pods ELSE NextNames(st.target, ScalerSpec[s].count)
    BY DEF WorkersOf
  <2>4. ScalerSpec[s].count \in Nat BY CountsAreIntegers DEF Outs
  <2>5. Cardinality(W) <= ScalerSpec[s].count BY <2>3, <2>4, NextNamesCount
  <2> HIDE DEF W
  <2>6. B \subseteq W BY <1>4, <2>1 DEF A, W
  <2>7. \A z : Claim(y, z, s) = W \/ W = {} BY <2>2 DEF Claim
  <2>8. QED BY <1>1, <2>1, <2>2, <2>5, <2>6, <2>7 DEF B, y
<1>5. \/ B \subseteq A /\ s \notin DOMAIN w.update
         /\ (Holds(o.st, s) /\ ~isScaleFinished(x) => Holds(w.st, s) /\ w.st.target = o.st.target)
      \/ B \subseteq A /\ s \in DOMAIN w.update /\ y.pods = x.pods /\ ~Holds(o.st, s)
      \/ /\ Holds(st, s) /\ ~isScaleFinished(x) /\ B \subseteq A \cup WorkersOf(o, s)
         /\ Named(w, s, WorkersOf(o, s)) /\ w.stale = {} /\ w.known = o.known
  BY <1>1 DEF Adds, A, B
<1>6. QED BY <1>2, <1>3, <1>4, <1>5 DEF B, y

LEMMA HandleLabels ==
  ASSUME IInv, CachesAgree, LifeInv, LabelInv, Handle, Steady, Counted PROVE LabelInv'
<1>1. PICK w : Leave(w) /\ \A s \in Outs : Adds(w, Observed, s) BY HandleAdds DEF Counted
<1>2. /\ UNCHANGED <<job, scalers>> /\ mine' = w.st /\ update' = w.update /\ pods' = w.pods
      /\ pc' \in {"writeScaler", "writeJob"}
  BY <1>1 DEF Leave
<1>3. pc = "handle"
  BY DEF Handle, HandleCreated, HandleRunning, HandleScaling, HandleSucceeded, HandleFailed,
     HandleSuspended, AtHandler
<1>4. lag \cap Scalers = {} /\ DOMAIN scalerCache \subseteq Scalers /\ DOMAIN scalers \subseteq Scalers
  BY ClusterAssumption DEF IInv, TypeOK, IsScalerMap, Steady
<1>5. \A s \in DOMAIN scalers : s \in DOMAIN scalerCache /\ scalerCache[s] = scalers[s]
  BY <1>4 DEF CachesAgree, ScalerAgrees
<1>6. DOMAIN scalerCache \subseteq DOMAIN scalers BY <1>4 DEF CachesAgree, ScalerAgrees
<1>7. /\ Observed.st = mine /\ Observed.known = scalerCache /\ Observed.pods = pods
      /\ Observed.stale = {}
  BY <1>4 DEF Observed
<1> DEFINE o == Observed
           y(s) == IF s \in DOMAIN w.update THEN w.update[s] ELSE scalers[s]
<1> HIDE DEF o
<1>8. ASSUME NEW s \in Outs \cap DOMAIN scalers
      PROVE  /\ Labelled(w.pods, s) \subseteq Claim(scalers[s], job.status, s)
             /\ Labelled(w.pods, s) \subseteq Claim(y(s), w.st, s)
             /\ s \in DOMAIN w.update =>
                  /\ Labelled(w.pods, s) \subseteq Claim(w.update[s], job.status, s)
                  /\ Cardinality(w.update[s].pods) <= ScalerSpec[s].count
  <2>1. /\ Labelled(pods, s) \subseteq Claim(scalers[s], job.status, s)
        /\ Cardinality(scalers[s].pods) <= ScalerSpec[s].count
    BY DEF LabelInv
  <2>2. scalers[s].pods \subseteq Worker /\ job.status.target \in [Worker -> Nat]
    BY DEF IInv, TypeOK, IsScalerMap, ScalerStatus, Job, JobStatus
  <2>3. /\ o.st = mine /\ o.pods = pods /\ o.stale = {}
        /\ s \in DOMAIN o.known /\ o.known[s] = scalers[s] /\ Adds(w, o, s)
    BY <1>1, <1>5, <1>7 DEF o
  <2>4. /\ o.st.target = job.status.target /\ (Holds(job.status, s) => Holds(o.st, s))
        /\ o.st.phase = "Scaling" /\ o.st.scaler = s => Holds(job.status, s)
    BY <1>3, <2>3, MineTarget, MineHolds
  <2>5. ScalerSpec[s].count >= 0 BY DEF Counted
  <2>6. QED BY <2>1, <2>2, <2>3, <2>4, <2>5, AddsClaim
<1>9. ASSUME NEW s \in Outs \ DOMAIN scalers
      PROVE  Labelled(w.pods, s) = {} /\ s \notin DOMAIN w.update
  <2>1. Labelled(pods, s) = {} BY DEF LabelInv
  <2>2. Adds(w, Observed, s) /\ s \notin DOMAIN Observed.known BY <1>1, <1>6, <1>7
  <2>3. QED BY <1>7, <2>1, <2>2 DEF Adds
<1>10. \A s \in Outs \cap DOMAIN scalers : After(s)' = y(s) BY <1>2 DEF After
<1>11. \A s \in Outs \cap DOMAIN scalers : Cardinality(scalers[s].pods) <= ScalerSpec[s].count
  BY DEF LabelInv
<1> HIDE DEF y
<1>12. QED BY <1>2, <1>8, <1>9, <1>10, <1>11 DEF LabelInv


LEMMA WriteScalerLabels ==
  ASSUME UpdateInv, LabelInv, SerialInv, WriteScaler, Steady PROVE LabelInv'
<1>1. /\ pc = "writeScaler" /\ pc' = "writeJob" /\ UNCHANGED <<job, mine, pods>>
      /\ update' = EmptyMap /\ DOMAIN update' = {}
  BY DEF WriteScaler, EmptyMap
<1>2. PICK s \in DOMAIN update :
        \/ s \in DOMAIN scalers /\ scalers' = [scalers EXCEPT ![s] = update[s]]
        \/ s \notin DOMAIN scalers /\ scalers' = scalers
  BY DEF WriteScaler, MayFail, Steady
<1>3. \A r \in DOMAIN update : r = s BY DEF SerialInv
<1>4. /\ DOMAIN scalers' = DOMAIN scalers
      /\ \A r \in DOMAIN scalers : scalers'[r] = After(r) /\ After(r)' = After(r)
  BY <1>1, <1>2, <1>3 DEF After
<1>5. ASSUME NEW r \in Outs \cap DOMAIN scalers
      PROVE  /\ Labelled(pods, r) \subseteq Claim(After(r), job.status, r)
             /\ Labelled(pods, r) \subseteq Claim(After(r), mine, r)
             /\ Cardinality(After(r).pods) <= ScalerSpec[r].count
  BY <1>1 DEF LabelInv, After
<1>6. \A r \in Outs \ DOMAIN scalers : Labelled(pods, r) = {} BY DEF LabelInv
<1>7. QED BY <1>1, <1>4, <1>5, <1>6 DEF LabelInv

LEMMA WriteJobLabels ==
  ASSUME IInv, UpdateInv, LabelInv, LifeInv, WriteJob, Steady PROVE LabelInv'
<1>1. /\ pc = "writeJob" /\ pc' = "idle"
      /\ update' = update /\ scalers' = scalers /\ pods' = pods
  BY DEF WriteJob, EndReconcile
<1>2. DOMAIN update = {} BY <1>1 DEF UpdateInv
<1>3. job'.status = mine BY WrittenStatus
<1>4. \A s \in Outs \cap DOMAIN scalers : Labelled(pods, s) \subseteq Claim(scalers[s], mine, s)
  BY <1>1, <1>2 DEF LabelInv, After
<1>5. QED BY <1>1, <1>2, <1>3, <1>4 DEF LabelInv

\* Pods lose their label only with their life; a ScaleOut is submitted before any
\* pod has its label.
LEMMA OthersLabels ==
  ASSUME IInv, LabelInv, Counted, Sync \/ Environment \/ UNCHANGED vars PROVE LabelInv'
<1>1. pc' = pc /\ mine' = mine /\ job'.status = job.status BY OthersLive
<1>2. UNCHANGED update
  BY DEF Sync, SyncJob, SyncPods, SyncScaler, Environment, WorkerRuns, WorkerEnds, WorkerLost,
     LauncherRuns, LauncherEnds, LauncherLost, SubmitScaler, DeleteScaler, Suspend, OtherEvent,
     ChangePods, ChangeLauncher, local, vars
<1>3. \A s \in Outs : Labelled(pods', s) \subseteq Labelled(pods, s)
  <2>1. \/ UNCHANGED pods
        \/ \E i \in Worker : WorkerRuns(i) \/ WorkerEnds(i) \/ WorkerLost(i)
    BY DEF Sync, SyncJob, SyncPods, SyncScaler, Environment, LauncherRuns, LauncherEnds,
       LauncherLost, SubmitScaler, DeleteScaler, Suspend, OtherEvent, ChangeLauncher, api, vars
  <2>2. IsPodMap(pods) BY DEF IInv, TypeOK
  <2>3. ASSUME NEW i \in Worker, WorkerRuns(i), NEW s
        PROVE  Labelled(pods', s) \subseteq Labelled(pods, s)
    <3>1. pods' = [pods EXCEPT ![i].phase = "Running"] BY <2>3 DEF WorkerRuns, ChangePods
    <3>2. DOMAIN pods' = DOMAIN pods /\ \A j \in DOMAIN pods : pods'[j].scaler = pods[j].scaler
      BY <2>2, <3>1 DEF IsPodMap, Pod
    <3>3. QED BY <3>2 DEF Labelled
  <2>4. ASSUME NEW i \in Worker, WorkerEnds(i), NEW s
        PROVE  Labelled(pods', s) \subseteq Labelled(pods, s)
    <3>1. PICK fate, n : pods' = [pods EXCEPT ![i].phase = fate, ![i].exit = n]
      BY <2>4 DEF WorkerEnds, ChangePods
    <3>2. DOMAIN pods' = DOMAIN pods /\ \A j \in DOMAIN pods : pods'[j].scaler = pods[j].scaler
      BY <2>2, <3>1 DEF IsPodMap, Pod
    <3>3. QED BY <3>2 DEF Labelled
  <2>5. ASSUME NEW i \in Worker, WorkerLost(i), NEW s
        PROVE  Labelled(pods', s) \subseteq Labelled(pods, s)
    BY <2>5, WithoutLabels DEF WorkerLost, ChangePods
  <2>6. QED BY <2>1, <2>3, <2>4, <2>5
<1>4. \/ UNCHANGED scalers
      \/ \E s \in Scalers : SubmitScaler(s)
  BY DEF Sync, SyncJob, SyncPods, SyncScaler, Environment, WorkerRuns, WorkerEnds, WorkerLost,
     LauncherRuns, LauncherEnds, LauncherLost, Suspend, OtherEvent, ChangePods, ChangeLauncher,
     DeleteScaler, MayFail, Counted, api, vars
<1>5. CASE UNCHANGED scalers
  BY <1>1, <1>2, <1>3, <1>5 DEF LabelInv, After
<1>6. ASSUME NEW r \in Scalers, SubmitScaler(r) PROVE LabelInv'
  <2>1. /\ r \notin DOMAIN scalers /\ r \notin DOMAIN update
        /\ DOMAIN scalers' = DOMAIN scalers \cup {r} /\ scalers'[r].pods = {}
        /\ \A s \in DOMAIN scalers : scalers'[s] = scalers[s]
    BY <1>6 DEF SubmitScaler
  <2>2. r \in Outs => Labelled(pods', r) = {} BY <1>3, <2>1 DEF LabelInv
  <2>3. Cardinality({}) = 0 BY FS_EmptySet
  <2>4. r \in Outs => Cardinality(scalers'[r].pods) <= ScalerSpec[r].count
    BY <2>1, <2>3 DEF Counted
  <2>5. \A s \in Outs \cap DOMAIN scalers' : s = r \/ s \in Outs \cap DOMAIN scalers BY <2>1
  <2>6. \A s \in DOMAIN scalers : After(s)' = After(s) BY <1>2, <2>1 DEF After
  <2>7. QED BY <1>1, <1>2, <1>3, <2>1, <2>2, <2>4, <2>5, <2>6 DEF LabelInv
<1>7. QED BY <1>4, <1>5, <1>6

LEMMA LabelInit == Init => LabelInv
  BY DEF Init, LabelInv, Labelled, EmptyMap

LEMMA LabelStep ==
  ASSUME Steady, Counted
  PROVE  IInv /\ CachesAgree /\ UpdateInv /\ LifeInv /\ SerialInv /\ LabelInv /\ [Next]_vars
         => LabelInv'
<1> SUFFICES ASSUME IInv, CachesAgree, UpdateInv, LifeInv, SerialInv, LabelInv, [Next]_vars
             PROVE  LabelInv'
  OBVIOUS
<1>1. ASSUME Start PROVE LabelInv'
  <2>1. pc' = "handle" /\ update' = update /\ UNCHANGED <<scalers, job, pods>>
    BY <1>1 DEF Start, api
  <2>2. QED BY <2>1 DEF LabelInv
<1>2. ASSUME Crash PROVE LabelInv'
  <2>1. pc' = "idle" /\ DOMAIN update' = {} /\ UNCHANGED <<scalers, job, pods>>
    BY <1>2 DEF Crash, EmptyMap, api
  <2>2. QED BY <2>1 DEF LabelInv
<1>3. QED
  BY <1>1, <1>2, HandleLabels, WriteScalerLabels, WriteJobLabels, OthersLabels
  DEF Next, Reconcile

LEMMA LabelsAreCounted ==
  ASSUME IInv, LabelInv, Counted PROVE ScaleOutAddsItsCount
<1>1. ASSUME NEW s \in DOMAIN scalers, ScalerSpec[s].kind = "out"
      PROVE  Cardinality(Labelled(pods, s)) <= ScalerSpec[s].count
  <2>1. /\ s \in Scalers /\ s \in Outs /\ scalers[s].pods \subseteq Worker
        /\ job.status.target \in [Worker -> Nat]
    BY <1>1 DEF IInv, TypeOK, IsScalerMap, ScalerStatus, Job, JobStatus, Outs
  <2> DEFINE c == ScalerSpec[s].count
             C == Claim(scalers[s], job.status, s)
  <2>2. c \in Nat BY <2>1, CountsAreIntegers DEF Counted
  <2>3. Cardinality(scalers[s].pods) <= c /\ Labelled(pods, s) \subseteq C
    BY <1>1, <2>1 DEF LabelInv
  <2>4. IsFiniteSet(scalers[s].pods)
    <3>1. IsFiniteSet(Worker) BY NumbersAssumption, FS_Interval DEF Worker
    <3>2. QED BY <2>1, <3>1, FS_Subset
  <2>5. IsFiniteSet(NextNames(job.status.target, c)) /\ Cardinality(NextNames(job.status.target, c)) = c
    BY <2>1, <2>2, NextNamesCount
  <2> HIDE DEF c
  <2>6. IsFiniteSet(C) /\ Cardinality(C) <= c
    BY <2>2, <2>3, <2>4, <2>5, FS_EmptySet DEF Claim, c
  <2> HIDE DEF C
  <2>7. Cardinality(Labelled(pods, s)) <= Cardinality(C) BY <2>3, <2>6, FS_Subset
  <2>8. Cardinality(Labelled(pods, s)) \in Nat /\ Cardinality(C) \in Nat
    BY <2>3, <2>6, FS_Subset, FS_CardinalityType
  <2>9. QED BY <2>2, <2>6, <2>7, <2>8 DEF c
<1>2. QED BY <1>1 DEF ScaleOutAddsItsCount, Labelled

\* A ScaleOut never has more workers than its count (README.md:45), though each of
\* the reconciles that execute it creates the workers its view of the pods does not
\* show (scaleout.go:92-130): they all take the same names, those in the ScaleOut's
\* status, or, until that write arrives, those after the highest of the job's
\* targets, which do not change as long as the job holds the ScaleOut.
THEOREM ScaleOutsAddTheirCount ==
  ASSUME Steady, Counted
  PROVE  Spec => []ScaleOutAddsItsCount
<1>1. Lagging \subseteq {"pods"} BY DEF Steady
<1>2. "job" \notin Lagging BY <1>1
<1>3. Init => UpdateInv /\ LifeInv /\ SerialInv /\ LabelInv
  BY UpdateInit, SerialInit, LabelInit DEF Init, LifeInv
<1>4. IInv /\ CachesAgree /\ CopyInv /\ UpdateInv /\ LifeInv /\ SerialInv /\ LabelInv /\ [Next]_vars
      => UpdateInv' /\ LifeInv' /\ SerialInv' /\ LabelInv'
  BY <1>2, UpdateStep, LifeStep, SerialStep, LabelStep
<1>5. IInv /\ LabelInv => ScaleOutAddsItsCount BY LabelsAreCounted
<1>6. QED BY <1>3, <1>4, <1>5, Inductive, CachesAreCurrent, CopiesKeep, PTL DEF Spec
=============================================================================
