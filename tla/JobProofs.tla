----------------------------- MODULE JobProofs -----------------------------
(***************************************************************************)
(* Proofs about TrainingJob, for every value of its constants: its types,  *)
(* and that every copy of the job's status is consistent.                  *)
(***************************************************************************)
EXTENDS JobProperties, TLAPS

PodMap == UNION {[D -> Pod] : D \in SUBSET Worker}

ScalerMap == UNION {[D -> ScalerStatus] : D \in SUBSET Scalers}

Worlds == [st : JobStatus, pods : PodMap, launcher : LauncherState,
          configMap : ConfigMap, hostfile : SUBSET Worker,
          seen : PodMap, seenLauncher : LauncherState,
          known : ScalerMap, stale : SUBSET Scalers,
          update : ScalerMap, faults : 0..MaxFaults,
          err : {"none", "requeue", "error"}]

\* The worlds of S keep the types, and the status of w.
Keeps(S, w) == \A v \in S : v \in Worlds /\ v.st = w.st

LEMMA PodMapIs == ASSUME NEW ps PROVE ps \in PodMap <=> IsPodMap(ps)
  BY DEF PodMap, IsPodMap

LEMMA ScalerMapIs == ASSUME NEW m PROVE m \in ScalerMap <=> IsScalerMap(m)
  BY DEF ScalerMap, IsScalerMap

LEMMA FaultKeeps ==
  ASSUME NEW w \in Worlds, NEW kind
  PROVE  Keeps(Fault(w, kind), w)
  BY NumbersAssumption DEF Fault, Keeps, Worlds

LEMMA ErrorKeeps == ASSUME NEW w \in Worlds PROVE Error(w) \in Worlds /\ Error(w).st = w.st
  BY DEF Error, Worlds

LEMMA WithoutIsPodMap == ASSUME NEW ps \in PodMap, NEW ws PROVE Without(ps, ws) \in PodMap
<1>1. DOMAIN ps \subseteq Worker /\ ps \in [DOMAIN ps -> Pod] BY PodMapIs DEF IsPodMap
<1>2. Without(ps, ws) \in [DOMAIN ps \ (DOMAIN ps \cap ws) -> Pod] BY <1>1 DEF Without, Restrict
<1>3. QED BY <1>1, <1>2 DEF PodMap

LEMMA WithNewIsPodMap ==
  ASSUME NEW ps \in PodMap, NEW ws \in SUBSET Worker, NEW s \in Scalers \cup {NoScaler}
  PROVE  WithNew(ps, ws, s) \in PodMap
<1>1. DOMAIN ps \subseteq Worker /\ ps \in [DOMAIN ps -> Pod] BY PodMapIs DEF IsPodMap
<1>2. [phase |-> "Pending", exit |-> 0, scaler |-> s] \in Pod BY DEF Pod, PodPhase
<1>3. WithNew(ps, ws, s) \in [DOMAIN ps \cup ws -> Pod] BY <1>1, <1>2 DEF WithNew
<1>4. QED BY <1>1, <1>3 DEF PodMap

LEMMA RefreshIsPodMap ==
  ASSUME NEW old \in PodMap, NEW new \in PodMap, NEW D
  PROVE  Refresh(old, new, D) \in PodMap
<1>1. DOMAIN old \subseteq Worker /\ old \in [DOMAIN old -> Pod] BY PodMapIs DEF IsPodMap
<1>2. DOMAIN new \subseteq Worker /\ new \in [DOMAIN new -> Pod] BY PodMapIs DEF IsPodMap
<1>3. Refresh(old, new, D) \in [(DOMAIN old \ D) \cup (DOMAIN new \cap D) -> Pod]
  BY <1>1, <1>2 DEF Refresh
<1>4. QED BY <1>1, <1>2, <1>3 DEF PodMap

LEMMA CatchUpKeeps ==
  ASSUME NEW w \in Worlds PROVE Keeps(CatchUp(w), w)
<1>1. ASSUME NEW D PROVE /\ [w EXCEPT !.seen = Refresh(@, w.pods, D)] \in Worlds
                         /\ [w EXCEPT !.seen = Refresh(@, w.pods, D)].st = w.st
  <2>1. Refresh(w.seen, w.pods, D) \in PodMap BY RefreshIsPodMap DEF Worlds
  <2>2. QED BY <2>1 DEF Worlds
<1>2. /\ [w EXCEPT !.seen = w.pods, !.seenLauncher = w.launcher] \in Worlds
      /\ [w EXCEPT !.seen = w.pods, !.seenLauncher = w.launcher].st = w.st
  BY DEF Worlds
<1>3. QED BY <1>1, <1>2 DEF CatchUp, Keeps

-----------------------------------------------------------------------------
(* The operations on the cluster keep the types and leave the status alone. *)

LEMMA ErrorsKeep ==
  ASSUME NEW w \in Worlds, NEW kind
  PROVE  Keeps({Error(v) : v \in Fault(w, kind)}, w)
  BY FaultKeeps, ErrorKeeps DEF Keeps

LEMMA CreateLauncherKeeps == ASSUME NEW w \in Worlds PROVE Keeps(CreateLauncher(w), w)
<1>1. LET v == [w EXCEPT !.launcher = "Pending"] IN v \in Worlds /\ v.st = w.st
  BY DEF Worlds, LauncherState
<1>2. QED BY <1>1, ErrorKeeps, ErrorsKeep DEF CreateLauncher, Keeps

LEMMA DeleteLauncherKeeps == ASSUME NEW w \in Worlds PROVE Keeps(DeleteLauncher(w), w)
<1>1. LET v == [w EXCEPT !.launcher = "None", !.hostfile = {}] IN v \in Worlds /\ v.st = w.st
  BY DEF Worlds, LauncherState
<1>2. QED BY <1>1, FaultKeeps DEF DeleteLauncher, Keeps

LEMMA executeOnLauncherKeeps == ASSUME NEW w \in Worlds PROVE Keeps(executeOnLauncher(w), w)
  BY ErrorKeeps, ErrorsKeep DEF executeOnLauncher, Keeps

LEMMA WriteHostfileKeeps ==
  ASSUME NEW w \in Worlds, NEW ws \in SUBSET Worker PROVE Keeps(WriteHostfile(w, ws), w)
<1>1. ASSUME NEW v \in Worlds
      PROVE  [v EXCEPT !.hostfile = ws] \in Worlds /\ [v EXCEPT !.hostfile = ws].st = v.st
  BY DEF Worlds
<1>2. QED BY <1>1, executeOnLauncherKeeps DEF WriteHostfile, Keeps

LEMMA CreateHostConfigMapKeeps ==
  ASSUME NEW w \in Worlds PROVE Keeps(CreateHostConfigMap(w), w)
<1>1. LET v == [w EXCEPT !.configMap = [made |-> TRUE, hosts |-> w.st.current]]
      IN  v \in Worlds /\ v.st = w.st
  BY DEF Worlds, ConfigMap, JobStatus
<1>2. QED BY <1>1, ErrorsKeep DEF CreateHostConfigMap, Keeps

LEMMA PodsKeep ==
  ASSUME NEW w \in Worlds, NEW ps \in PodMap
  PROVE  [w EXCEPT !.pods = ps] \in Worlds /\ [w EXCEPT !.pods = ps].st = w.st
  BY DEF Worlds

LEMMA createWorkersKeeps ==
  ASSUME NEW w \in Worlds, NEW ws, NEW s \in Scalers \cup {NoScaler}
  PROVE  Keeps(createWorkers(w, ws, s), w)
<1>1. CASE ~(ws \subseteq Worker) BY <1>1 DEF createWorkers, Keeps
<1>2. CASE ws \subseteq Worker
  <2> DEFINE missing == ws \ DOMAIN w.seen
             clash   == missing \cap DOMAIN w.pods
             Reached(i) == \A j \in clash : i <= j
             All(v) == [v EXCEPT !.pods = WithNew(v.pods, missing, s)]
             StopAt(v, i) == Error([v EXCEPT !.pods = WithNew(v.pods, {j \in missing : j < i}, s)])
  <2>1. All(w) \in Worlds /\ All(w).st = w.st
    <3>1. WithNew(w.pods, missing, s) \in PodMap BY <1>2, WithNewIsPodMap DEF Worlds
    <3>2. QED BY <3>1, PodsKeep
  <2>2. ASSUME NEW v \in Worlds, NEW i
        PROVE  StopAt(v, i) \in Worlds /\ StopAt(v, i).st = v.st
    <3> DEFINE new == {j \in missing : j < i}
    <3>1. WithNew(v.pods, new, s) \in PodMap BY <1>2, WithNewIsPodMap DEF Worlds
    <3> HIDE DEF new
    <3>2. /\ [v EXCEPT !.pods = WithNew(v.pods, new, s)] \in Worlds
          /\ [v EXCEPT !.pods = WithNew(v.pods, new, s)].st = v.st
      BY <3>1, PodsKeep
    <3>3. QED BY <3>2, ErrorKeeps DEF new
  <2>3. createWorkers(w, ws, s) =
          (IF clash = {} THEN {All(w)} ELSE {})
          \cup {StopAt(w, i) : i \in {j \in clash : Reached(j)}}
          \cup {StopAt(v, i + made) :
                  v \in Fault(w, "apiError"), i \in {j \in ws : Reached(j)}, made \in {0, 1}}
    BY <1>2 DEF createWorkers
  <2>4. \A v \in Fault(w, "apiError") : v \in Worlds /\ v.st = w.st BY FaultKeeps DEF Keeps
  <2> HIDE DEF All, StopAt, missing, clash, Reached
  <2>5. ASSUME NEW x \in createWorkers(w, ws, s) PROVE x \in Worlds /\ x.st = w.st
    <3>1. \/ x = All(w)
          \/ \E i \in clash : x = StopAt(w, i)
          \/ \E v \in Fault(w, "apiError"), i \in ws, made \in {0, 1} : x = StopAt(v, i + made)
      BY <2>3
    <3>2. QED BY <2>1, <2>2, <2>4, <3>1
  <2>6. QED BY <2>5 DEF Keeps
<1>3. QED BY <1>1, <1>2

LEMMA DeleteWorkerPodsKeeps ==
  ASSUME NEW w \in Worlds, NEW ws PROVE Keeps(DeleteWorkerPods(w, ws), w)
<1> DEFINE listed == ws \cap DOMAIN w.seen
           All(v) == [v EXCEPT !.pods = Without(v.pods, listed)]
           AllBut(v, i) == [v EXCEPT !.pods = Without(v.pods, listed \ {i})]
<1>1. \A v \in Worlds : All(v) \in Worlds /\ All(v).st = v.st
  <2>1. \A v \in Worlds : Without(v.pods, listed) \in PodMap BY WithoutIsPodMap DEF Worlds
  <2>2. QED BY <2>1, PodsKeep
<1>2. \A v \in Worlds : \A i : AllBut(v, i) \in Worlds /\ AllBut(v, i).st = v.st
  <2>1. \A v \in Worlds : \A i : Without(v.pods, listed \ {i}) \in PodMap BY WithoutIsPodMap DEF Worlds
  <2>2. QED BY <2>1, PodsKeep
<1>3. DeleteWorkerPods(w, ws) =
        {All(w)} \cup {AllBut(v, i) : v \in Fault(w, "apiError"), i \in listed \cap DOMAIN w.pods}
  BY DEF DeleteWorkerPods
<1>4. \A v \in Fault(w, "apiError") : v \in Worlds /\ v.st = w.st BY FaultKeeps DEF Keeps
<1> HIDE DEF All, AllBut, listed
<1>5. ASSUME NEW x \in DeleteWorkerPods(w, ws) PROVE x \in Worlds /\ x.st = w.st
  <2>1. x = All(w) \/ \E v \in Fault(w, "apiError"), i \in listed : x = AllBut(v, i)
    BY <1>3
  <2>2. QED BY <1>1, <1>2, <1>4, <2>1
<1>6. QED BY <1>5 DEF Keeps

LEMMA DeleteAllWorkerPodsKeeps ==
  ASSUME NEW w \in Worlds PROVE Keeps(DeleteAllWorkerPods(w), w)
  BY DeleteWorkerPodsKeeps DEF DeleteAllWorkerPods

LEMMA cleanupAllKeeps == ASSUME NEW w \in Worlds PROVE Keeps(cleanupAll(w), w)
  BY DeleteAllWorkerPodsKeeps, DeleteLauncherKeeps DEF cleanupAll, Keeps

LEMMA cleanupKeeps == ASSUME NEW w \in Worlds PROVE Keeps(cleanup(w), w)
  BY DeleteAllWorkerPodsKeeps DEF cleanup, Keeps

-----------------------------------------------------------------------------
(* The changes of the job's status keep it consistent. *)

\* What holds of every copy of the job's status.
Consistent(st) ==
    StepOrder(st) /\ PhaseMatches(st) /\ ScalingHasScaler(st) /\ RestartBound(st)

Good(w) == w \in Worlds /\ Consistent(w.st)

AllGood(S) == \A v \in S : Good(v)

Unfinished(st) == "Succeeded" \notin st.conds /\ "Failed" \notin st.conds

LEMMA StatusTypes ==
  ASSUME NEW st \in JobStatus, NEW c \in JobCondition
  PROVE  /\ updateJobConditions(st, c) \in JobStatus
         /\ c \in Phase => updateStatus(st, c) \in JobStatus
  BY DEF updateJobConditions, updateStatus, setCondition, JobStatus, Phase, JobCondition

LEMMA StatusKeeps ==
  ASSUME NEW w \in Worlds, NEW st \in JobStatus
  PROVE  [w EXCEPT !.st = st] \in Worlds /\ [w EXCEPT !.st = st].st = st
  BY DEF Worlds

LEMMA NewJobConsistent == NewJob \in JobStatus /\ Consistent(NewJob)
  BY NumbersAssumption DEF NewJob, JobStatus, Consistent, StepOrder, PhaseMatches, ScalingHasScaler,
     RestartBound, Phase

LEMMA FailedConsistent ==
  ASSUME NEW st \in JobStatus, Consistent(st), "Succeeded" \notin st.conds
  PROVE  Consistent(updateStatus(st, "Failed"))
  BY DEF Consistent, StepOrder, PhaseMatches, ScalingHasScaler, RestartBound,
     updateStatus, updateJobConditions, setCondition, JobStatus

LEMMA SucceededConsistent ==
  ASSUME NEW st \in JobStatus, Consistent(st), Unfinished(st)
  PROVE  Consistent(updateStatus(st, "Succeeded"))
  BY DEF Consistent, StepOrder, PhaseMatches, ScalingHasScaler, RestartBound, Unfinished,
     updateStatus, updateJobConditions, setCondition, JobStatus

LEMMA SuspendedConsistent ==
  ASSUME NEW st \in JobStatus, Consistent(st)
  PROVE  Consistent(updateStatus(st, "Suspended"))
  BY DEF Consistent, StepOrder, PhaseMatches, ScalingHasScaler, RestartBound,
     updateStatus, updateJobConditions, setCondition, JobStatus

LEMMA RunningConsistent ==
  ASSUME NEW st \in JobStatus, Consistent(st), Unfinished(st), "LauncherCreated" \in st.conds
  PROVE  Consistent(updateStatus(st, "Running"))
  BY DEF Consistent, StepOrder, PhaseMatches, ScalingHasScaler, RestartBound, Unfinished,
     updateStatus, updateJobConditions, setCondition, JobStatus

\* The conditions of the first three steps.
LEMMA StepConsistent ==
  ASSUME NEW st \in JobStatus, Consistent(st), NEW c,
         \/ c = "WorkersCreated"
         \/ c = "WorkersReady" /\ "WorkersCreated" \in st.conds
         \/ c = "LauncherCreated" /\ "WorkersReady" \in st.conds
  PROVE  Consistent(updateJobConditions(st, c))
  BY DEF Consistent, StepOrder, PhaseMatches, ScalingHasScaler, RestartBound,
     updateJobConditions, setCondition, JobStatus

\* A status that differs in its workers only.
LEMMA WorkersConsistent ==
  ASSUME NEW st \in JobStatus, NEW new \in JobStatus, Consistent(st),
         new.phase = st.phase, new.conds = st.conds,
         new.scaler = st.scaler, new.restarts = st.restarts
  PROVE  Consistent(new)
  BY DEF Consistent, StepOrder, PhaseMatches, ScalingHasScaler, RestartBound

-----------------------------------------------------------------------------
(* The handlers' operations keep the worlds good. *)

LEMMA FailedGood ==
  ASSUME NEW w, Good(w), "Succeeded" \notin w.st.conds PROVE Good(Failed(w))
<1>1. w \in Worlds /\ w.st \in JobStatus BY DEF Good, Worlds
<1>2. updateStatus(w.st, "Failed") \in JobStatus
  BY <1>1, StatusTypes DEF JobCondition, Phase
<1>3. Consistent(updateStatus(w.st, "Failed")) BY <1>1, FailedConsistent DEF Good
<1>4. Failed(w) \in Worlds /\ Failed(w).st = updateStatus(w.st, "Failed")
  <2> DEFINE st == updateStatus(w.st, "Failed")
  <2>1. Failed(w) = [w EXCEPT !.st = st, !.err = "none"] BY DEF Failed
  <2> HIDE DEF st
  <2>2. QED BY <1>1, <1>2, <2>1 DEF Worlds, st
<1>5. QED BY <1>3, <1>4 DEF Good

\* The operation keeps the status: what it leaves is as good as what it got.
LEMMA KeepsGood ==
  ASSUME NEW w, Good(w), NEW S, Keeps(S, w)
  PROVE  \A v \in S : Good(v) /\ v.st = w.st
  BY DEF Keeps, Good

LEMMA StatusGood ==
  ASSUME NEW w \in Worlds, NEW st \in JobStatus, Consistent(st)
  PROVE  Good([w EXCEPT !.st = st])
  BY StatusKeeps DEF Good

LEMMA StepGood ==
  ASSUME NEW w, Good(w), NEW c,
         \/ c = "WorkersCreated"
         \/ c = "WorkersReady" /\ "WorkersCreated" \in w.st.conds
         \/ c = "LauncherCreated" /\ "WorkersReady" \in w.st.conds
  PROVE  Good([w EXCEPT !.st = updateJobConditions(w.st, c)])
<1>1. w \in Worlds /\ w.st \in JobStatus /\ c \in JobCondition BY DEF Good, Worlds, JobCondition
<1>2. updateJobConditions(w.st, c) \in JobStatus BY <1>1, StatusTypes
<1>3. Consistent(updateJobConditions(w.st, c)) BY <1>1, StepConsistent DEF Good
<1>4. QED BY <1>1, <1>2, <1>3, StatusGood

LEMMA createLauncherGood ==
  ASSUME NEW w, Good(w), "Succeeded" \notin w.st.conds, "WorkersReady" \in w.st.conds
  PROVE  AllGood(createLauncher(w))
<1> DEFINE GetOrCreate(v) == IF v.err = "none" /\ v.seenLauncher = "None"
                             THEN CreateLauncher(v) ELSE {v}
           Got == UNION {GetOrCreate(u) : u \in CreateHostConfigMap(w)}
           Done(v) == [v EXCEPT !.st = updateJobConditions(v.st, "LauncherCreated")]
<1>1. \A u \in CreateHostConfigMap(w) : Good(u) /\ u.st = w.st
  BY CreateHostConfigMapKeeps, KeepsGood DEF Good
<1>2. \A u \in CreateHostConfigMap(w) : \A v \in GetOrCreate(u) : Good(v) /\ v.st = u.st
  BY <1>1, CreateLauncherKeeps, KeepsGood DEF Good
<1>3. \A v \in Got : Good(v) /\ v.st = w.st BY <1>1, <1>2
<1>4. \A v \in Got : Good(Done(v)) BY <1>3, StepGood
<1>5. \A v \in Got : Good(Failed(v)) BY <1>3, FailedGood
<1>6. createLauncher(w) = {IF v.err = "none" THEN Done(v) ELSE Failed(v) : v \in Got}
  BY DEF createLauncher
<1> HIDE DEF Got, Done
<1>7. QED BY <1>4, <1>5, <1>6 DEF AllGood

LEMMA LauncherGoneGood ==
  ASSUME NEW w, Good(w), "Succeeded" \notin w.st.conds
  PROVE  \A v \in LauncherGone(w) : Good(v) /\ (v.st = w.st \/ v.st = updateStatus(w.st, "Failed"))
<1>1. \A v \in CreateLauncher(w) : Good(v) /\ v.st = w.st
  BY CreateLauncherKeeps, KeepsGood DEF Good
<1>2. ASSUME NEW v, Good(v), v.st = w.st
      PROVE  Good(Failed(v)) /\ Failed(v).st = updateStatus(w.st, "Failed")
  <2>1. Good(Failed(v)) BY <1>2, FailedGood
  <2> DEFINE st == updateStatus(w.st, "Failed")
  <2>2. Failed(v) = [v EXCEPT !.st = st, !.err = "none"] BY <1>2 DEF Failed
  <2> HIDE DEF st
  <2>3. Failed(v).st = st BY <1>2, <2>2 DEF Good, Worlds
  <2>4. QED BY <2>1, <2>3 DEF st
<1>3. QED BY <1>1, <1>2 DEF LauncherGone

\* What the launcher's state does to the status of a job with a launcher.
LEMMA syncLauncherStateGood ==
  ASSUME NEW w, Good(w), Unfinished(w.st), "LauncherCreated" \in w.st.conds
  PROVE  \A v \in syncLauncherState(w) :
           /\ Good(v) /\ v.st.scaler = w.st.scaler
           /\ v.st = w.st \/ isFinished(v.st) \/ "Running" \notin w.st.conds
<1> DEFINE To(c) == [w EXCEPT !.st = updateStatus(w.st, c)]
<1>1. w \in Worlds /\ w.st \in JobStatus /\ Consistent(w.st) BY DEF Good, Worlds
<1>2. ASSUME NEW c \in {"Running", "Succeeded", "Failed"}
      PROVE  Good(To(c)) /\ To(c).st = updateStatus(w.st, c)
  <2>1. updateStatus(w.st, c) \in JobStatus BY <1>1, StatusTypes DEF JobCondition, Phase
  <2>2. Consistent(updateStatus(w.st, c))
    BY <1>1, RunningConsistent, SucceededConsistent, FailedConsistent DEF Unfinished
  <2>3. QED BY <1>1, <2>1, <2>2, StatusGood, StatusKeeps
<1>3. ASSUME NEW c \in {"Succeeded", "Failed"}
      PROVE  isFinished(updateStatus(w.st, c)) /\ updateStatus(w.st, c).scaler = w.st.scaler
  BY <1>1 DEF isFinished, updateStatus, updateJobConditions, setCondition, JobStatus
<1>4. updateStatus(w.st, "Running").scaler = w.st.scaler
  BY <1>1 DEF updateStatus, updateJobConditions, JobStatus
<1>5. ASSUME NEW v \in LauncherGone(w)
      PROVE  Good(v) /\ v.st.scaler = w.st.scaler /\ (v.st = w.st \/ isFinished(v.st))
  BY <1>3, LauncherGoneGood DEF Unfinished
<1>6. ASSUME NEW v \in syncLauncherState(w)
      PROVE  \/ v \in LauncherGone(w) \/ v = w
             \/ v = To("Succeeded") \/ v = To("Failed")
             \/ "Running" \notin w.st.conds /\ v = To("Running")
  BY <1>6 DEF syncLauncherState
<1> HIDE DEF To
<1>7. QED BY <1>2, <1>3, <1>4, <1>5, <1>6

-----------------------------------------------------------------------------
(* The workers of the job *)

\* The worlds of S are good, and their status differs from w's in its workers only.
SameStage(S, w) ==
    \A v \in S : /\ Good(v)
                 /\ v.st.phase = w.st.phase /\ v.st.conds = w.st.conds
                 /\ v.st.scaler = w.st.scaler /\ v.st.restarts = w.st.restarts

LEMMA TargetKeeps ==
  ASSUME NEW w, Good(w), NEW t \in [Worker -> Nat]
  PROVE  SameStage({[w EXCEPT !.st.target = t]}, w)
<1> DEFINE st == [w.st EXCEPT !.target = t]
<1>1. w \in Worlds /\ w.st \in JobStatus /\ Consistent(w.st) BY DEF Good, Worlds
<1>2. st \in JobStatus /\ st.phase = w.st.phase /\ st.conds = w.st.conds
      /\ st.scaler = w.st.scaler /\ st.restarts = w.st.restarts
  BY <1>1 DEF JobStatus
<1>3. Consistent(st) BY <1>1, <1>2, WorkersConsistent
<1>4. [w EXCEPT !.st.target = t] = [w EXCEPT !.st = st] BY <1>1 DEF Worlds
<1> HIDE DEF st
<1>5. QED BY <1>1, <1>2, <1>3, <1>4, StatusGood, StatusKeeps DEF SameStage

LEMMA CurrentKeeps ==
  ASSUME NEW w, Good(w), NEW ws \in SUBSET Worker
  PROVE  SameStage({[w EXCEPT !.st.current = ws]}, w)
<1> DEFINE st == [w.st EXCEPT !.current = ws]
<1>1. w \in Worlds /\ w.st \in JobStatus /\ Consistent(w.st) BY DEF Good, Worlds
<1>2. st \in JobStatus /\ st.phase = w.st.phase /\ st.conds = w.st.conds
      /\ st.scaler = w.st.scaler /\ st.restarts = w.st.restarts
  BY <1>1 DEF JobStatus
<1>3. Consistent(st) BY <1>1, <1>2, WorkersConsistent
<1>4. [w EXCEPT !.st.current = ws] = [w EXCEPT !.st = st] BY <1>1 DEF Worlds
<1> HIDE DEF st
<1>5. QED BY <1>1, <1>2, <1>3, <1>4, StatusGood, StatusKeeps DEF SameStage

LEMMA AppendIsBag ==
  ASSUME NEW t \in [Worker -> Nat], NEW ws, NEW us
  PROVE  /\ BagOf(ws) \in [Worker -> Nat]
         /\ Append(t, ws) \in [Worker -> Nat]
         /\ FilterOut(t, us) \in [Worker -> Nat]
<1>1. BagOf(ws) \in [Worker -> Nat] BY DEF BagOf
<1>2. Append(t, ws) \in [Worker -> Nat] BY <1>1 DEF Append
<1>3. FilterOut(t, us) \in [Worker -> Nat] BY DEF FilterOut
<1>4. QED BY <1>1, <1>2, <1>3

LEMMA RunningTypes == ASSUME NEW ps \in PodMap PROVE Running(ps) \in SUBSET Worker
  BY PodMapIs DEF IsPodMap, Running

LEMMA ReplaceWorkersKeeps ==
  ASSUME NEW w, Good(w)
  PROVE  SameStage(ReplaceWorkers(w), w)
<1> DEFINE t     == w.st.target
           old   == NeedRestart(w, t)
           names == NextNames(t, MapThenSumSet(LAMBDA i : t[i], old))
           new   == Append(FilterOut(t, old), names)
           Done(v) == [v EXCEPT !.st.target = new]
<1>1. w \in Worlds /\ w.st \in JobStatus BY DEF Good, Worlds
<1>2. new \in [Worker -> Nat]
  <2>1. FilterOut(t, old) \in [Worker -> Nat] BY <1>1, AppendIsBag DEF JobStatus
  <2> HIDE DEF t, old, names
  <2>2. QED BY <2>1, AppendIsBag
<1>3. \A v \in createWorkers(w, names, NoScaler) : Good(v) /\ v.st = w.st
  <2> HIDE DEF names
  <2>1. Keeps(createWorkers(w, names, NoScaler), w) BY <1>1, createWorkersKeeps
  <2>2. QED BY <2>1, KeepsGood
<1>4. ReplaceWorkers(w) = IF old = {} THEN {w}
                          ELSE {IF v.err = "none" THEN Done(v) ELSE v :
                                  v \in createWorkers(w, names, NoScaler)}
  BY DEF ReplaceWorkers
<1> HIDE DEF old, names, new
<1>5. \A v : Good(v) => SameStage({Done(v)}, v) BY <1>2, TargetKeeps
<1> HIDE DEF Done
<1>6. QED BY <1>3, <1>4, <1>5 DEF SameStage

LEMMA handleWorkersFailedKeeps ==
  ASSUME NEW w, Good(w)
  PROVE  SameStage(handleWorkersFailed(w), w)
<1> DEFINE running   == Running(w.seen)
           hostfile0 == IF running # w.st.current /\ "Running" \in w.st.conds
                        THEN WriteHostfile(w, running) ELSE {w}
           Bag(v)    == IF Members(v.st.target) = {} THEN BagOf(running) ELSE v.st.target
           Now(v)    == [v EXCEPT !.st.current = running]
           Record(v) == [v EXCEPT !.st.current = running,
                                  !.st.target = IF Members(@) = {} THEN BagOf(running) ELSE @]
<1>1. w \in Worlds /\ running \in SUBSET Worker BY RunningTypes DEF Good, Worlds
<1>2. \A v \in hostfile0 : Good(v) /\ v.st = w.st BY <1>1, WriteHostfileKeeps, KeepsGood
<1>3. ASSUME NEW v, Good(v) PROVE SameStage({Record(v)}, v)
  <2>1. v \in Worlds /\ v.st \in JobStatus BY <1>3 DEF Good, Worlds
  <2>2. Bag(v) \in [Worker -> Nat] BY <2>1, AppendIsBag DEF JobStatus
  <2>3. SameStage({Now(v)}, v) BY <1>1, <1>3, CurrentKeeps
  <2>4. SameStage({[Now(v) EXCEPT !.st.target = Bag(v)]}, Now(v))
    <3> HIDE DEF Now, Bag
    <3>1. QED BY <2>2, <2>3, TargetKeeps DEF SameStage
  <2>5. Record(v) = [Now(v) EXCEPT !.st.target = Bag(v)] BY <2>1 DEF Worlds, JobStatus
  <2> HIDE DEF Record, Now, Bag
  <2>6. QED BY <2>3, <2>4, <2>5 DEF SameStage
<1>4. handleWorkersFailed(w) =
        UNION {IF v.err = "none" THEN ReplaceWorkers(Record(v)) ELSE {v} : v \in hostfile0}
  BY DEF handleWorkersFailed
<1> HIDE DEF Record, hostfile0
<1>5. \A v \in hostfile0 : SameStage(ReplaceWorkers(Record(v)), v)
  BY <1>2, <1>3, ReplaceWorkersKeeps DEF SameStage
<1>6. QED BY <1>2, <1>4, <1>5 DEF SameStage

LEMMA createTrainingJobWorkersGood ==
  ASSUME NEW w, Good(w), "Succeeded" \notin w.st.conds
  PROVE  AllGood(createTrainingJobWorkers(w))
<1> DEFINE t == getJobReplicasWorkers(w.st.target)
           u == [w EXCEPT !.st.target = t]
           Done(v) == [v EXCEPT !.st = updateJobConditions(v.st, "WorkersCreated")]
           S == createWorkers(u, Members(t), NoScaler)
<1>1. w \in Worlds /\ w.st \in JobStatus BY DEF Good, Worlds
<1>2. t \in [Worker -> Nat] BY <1>1 DEF getJobReplicasWorkers, BagOf, JobStatus
<1>3. SameStage({u}, w)
  <2> HIDE DEF t
  <2>1. QED BY <1>2, TargetKeeps
<1>4. \A v \in S : Good(v) /\ v.st = u.st
  <2> HIDE DEF u, t
  <2>1. Good(u) BY <1>3 DEF SameStage
  <2>2. QED BY <2>1, createWorkersKeeps, KeepsGood DEF Good
<1>5. createTrainingJobWorkers(w) = {IF v.err = "none" THEN Done(v) ELSE Failed(v) : v \in S}
  BY DEF createTrainingJobWorkers
<1> HIDE DEF t, u, S
<1>6. \A v \in S : Good(Done(v)) BY <1>4, StepGood
<1> HIDE DEF Done
<1>7. \A v \in S : Good(Failed(v)) BY <1>3, <1>4, FailedGood DEF SameStage
<1>8. QED BY <1>5, <1>6, <1>7 DEF AllGood

LEMMA waitWorkersRunningGood ==
  ASSUME NEW w, Good(w), "WorkersCreated" \in w.st.conds
  PROVE  AllGood(waitWorkersRunning(w))
<1> DEFINE Done(v) == [v EXCEPT !.st = updateJobConditions(v.st, "WorkersReady")]
           Ready(v) == v.err = "none" /\ Cardinality(v.st.current) >= Replicas
<1>1. \A v \in handleWorkersFailed(w) : Good(v) /\ v.st.conds = w.st.conds
  BY handleWorkersFailedKeeps DEF SameStage
<1>2. \A v \in handleWorkersFailed(w) : Good(Done(v)) BY <1>1, StepGood
<1>3. waitWorkersRunning(w) = {IF Ready(v) THEN Done(v) ELSE v : v \in handleWorkersFailed(w)}
  BY DEF waitWorkersRunning
<1> HIDE DEF Done, Ready
<1>4. QED BY <1>1, <1>2, <1>3 DEF AllGood

-----------------------------------------------------------------------------
(* The steps of a job that is not running, and its restart *)

LEMMA doStepsGood ==
  ASSUME NEW w, Good(w), Unfinished(w.st)
  PROVE  AllGood(doSteps(w))
<1>1. CASE "WorkersCreated" \notin w.st.conds
  BY <1>1, createTrainingJobWorkersGood DEF doSteps, Unfinished
<1>2. CASE "WorkersCreated" \in w.st.conds /\ "WorkersReady" \notin w.st.conds
  BY <1>2, waitWorkersRunningGood DEF doSteps
<1>3. CASE /\ {"WorkersCreated", "WorkersReady"} \subseteq w.st.conds
           /\ "LauncherCreated" \notin w.st.conds
  BY <1>3, createLauncherGood DEF doSteps, Unfinished
<1>4. CASE /\ {"WorkersCreated", "WorkersReady", "LauncherCreated"} \subseteq w.st.conds
           /\ "Running" \notin w.st.conds
  BY <1>4, syncLauncherStateGood DEF doSteps, AllGood
<1>5. CASE {"WorkersCreated", "WorkersReady", "LauncherCreated", "Running"} \subseteq w.st.conds
  BY <1>5 DEF doSteps, AllGood
<1>6. QED BY <1>1, <1>2, <1>3, <1>4, <1>5

LEMMA LivePhaseIsUnfinished ==
  ASSUME NEW st, Consistent(st), st.phase \in {"New", "Created", "Running", "Scaling"}
  PROVE  Unfinished(st)
  BY DEF Consistent, PhaseMatches, Unfinished

LEMMA initializeJobGood ==
  ASSUME NEW w, Good(w), w.st.phase \in {"New", "Created"}
  PROVE  Good(initializeJob(w)) /\ Unfinished(initializeJob(w).st)
<1>1. w \in Worlds /\ w.st \in JobStatus /\ Consistent(w.st) BY DEF Good, Worlds
<1>2. CASE w.st.conds # {} BY <1>1, <1>2, LivePhaseIsUnfinished DEF initializeJob
<1>3. CASE w.st.conds = {}
  <2> DEFINE st == updateStatus(w.st, "Created")
  <2>1. st \in JobStatus BY <1>1, StatusTypes DEF JobCondition, Phase
  <2>2. Consistent(st) /\ Unfinished(st)
    BY <1>1, <1>3 DEF updateStatus, updateJobConditions, setCondition, JobStatus, Unfinished,
       Consistent, StepOrder, PhaseMatches, ScalingHasScaler, RestartBound
  <2>3. initializeJob(w) = [w EXCEPT !.st = st] BY <1>3 DEF initializeJob
  <2> HIDE DEF st
  <2>4. QED BY <1>1, <2>1, <2>2, <2>3, StatusGood, StatusKeeps
<1>4. QED BY <1>2, <1>3

LEMMA resetJobStatusConsistent ==
  ASSUME NEW st \in JobStatus, Consistent(st), needRestartJob(st)
  PROVE  /\ resetJobStatus(st) \in JobStatus
         /\ Consistent(resetJobStatus(st)) /\ Unfinished(resetJobStatus(st))
<1> DEFINE new == [NewJob EXCEPT !.restarts = st.restarts + 1, !.scaler = st.scaler]
<1>1. new \in JobStatus
  <2>1. NewJob \in JobStatus BY NewJobConsistent
  <2>2. st.restarts + 1 \in Nat /\ st.scaler \in Scalers \cup {NoScaler} BY DEF JobStatus
  <2>3. QED BY <2>1, <2>2 DEF JobStatus
<1>2. new.conds = {} /\ new.restarts = st.restarts + 1 BY DEF NewJob
<1>3. resetJobStatus(st) = updateStatus(new, "Created") BY DEF resetJobStatus
<1>4. st.restarts + 1 <= BackoffLimit BY NumbersAssumption DEF needRestartJob, JobStatus
<1> HIDE DEF new
<1>5. updateStatus(new, "Created") \in JobStatus BY <1>1, StatusTypes DEF JobCondition, Phase
<1>6. Consistent(updateStatus(new, "Created")) /\ Unfinished(updateStatus(new, "Created"))
  BY <1>1, <1>2, <1>4 DEF updateStatus, updateJobConditions, setCondition, JobStatus, Unfinished,
     Consistent, StepOrder, PhaseMatches, ScalingHasScaler, RestartBound
<1>7. QED BY <1>3, <1>5, <1>6

LEMMA restartJobGood == ASSUME NEW w, Good(w) PROVE AllGood(restartJob(w))
<1>1. w \in Worlds /\ w.st \in JobStatus /\ Consistent(w.st) BY DEF Good, Worlds
<1>2. CASE ~needRestartJob(w.st)
  BY <1>1, <1>2, cleanupKeeps, KeepsGood DEF restartJob, AllGood
<1>3. CASE needRestartJob(w.st)
  <2> DEFINE st == resetJobStatus(w.st)
             u  == [w EXCEPT !.st = st]
             Deleted == UNION {DeleteLauncher(d) : d \in DeleteAllWorkerPods(u)}
             Shown   == UNION {CatchUp(d) : d \in Deleted}
  <2>1. restartJob(w) = UNION {doSteps(v) : v \in Shown} BY <1>3 DEF restartJob
  <2>2. st \in JobStatus /\ Consistent(st) /\ Unfinished(st)
    BY <1>1, <1>3, resetJobStatusConsistent
  <2> HIDE DEF st
  <2>3. Good(u) /\ Unfinished(u.st) BY <1>1, <2>2, StatusGood, StatusKeeps
  <2> HIDE DEF u
  <2>4. \A d \in DeleteAllWorkerPods(u) : Good(d) /\ d.st = u.st
    BY <2>3, DeleteAllWorkerPodsKeeps, KeepsGood DEF Good
  <2>5. \A d \in Deleted : Good(d) /\ d.st = u.st
    BY <2>4, DeleteLauncherKeeps, KeepsGood DEF Good
  <2> HIDE DEF Deleted
  <2>6. \A d \in Shown : Good(d) /\ d.st = u.st BY <2>5, CatchUpKeeps, KeepsGood DEF Good
  <2> HIDE DEF Shown
  <2>7. QED BY <2>1, <2>3, <2>6, doStepsGood DEF AllGood
<1>4. QED BY <1>2, <1>3

-----------------------------------------------------------------------------
(* Scaling *)

\* A job that may take up a scaler, or go on with one.
CanScale(w) == Good(w) /\ Unfinished(w.st) /\ "Running" \in w.st.conds

LEMMA ScalerUpdates ==
  ASSUME NEW s \in Scalers, NEW x \in ScalerStatus
  PROVE  [r \in {s} |-> x] \in ScalerMap
<1>1. [r \in {s} |-> x] \in [{s} -> ScalerStatus] OBVIOUS
<1>2. {s} \in SUBSET Scalers OBVIOUS
<1>3. QED BY <1>1, <1>2 DEF ScalerMap

LEMMA KnownTypes ==
  ASSUME NEW m \in ScalerMap, NEW s \in DOMAIN m
  PROVE  s \in Scalers /\ m[s] \in ScalerStatus
  BY ScalerMapIs DEF IsScalerMap

LEMMA ExtendTypes ==
  ASSUME NEW x \in ScalerStatus, NEW c \in ScalerCondition
  PROVE  [x EXCEPT !.conds = @ \cup {c}] \in ScalerStatus
  BY DEF ScalerStatus

LEMMA SaveScalerKeeps ==
  ASSUME NEW w \in Worlds, NEW s \in Scalers, NEW x \in ScalerStatus
  PROVE  SaveScaler(w, s, x) \in Worlds /\ SaveScaler(w, s, x).st = w.st
<1> DEFINE m == [r \in {s} |-> x]
<1>1. m \in ScalerMap BY ScalerUpdates
<1>2. SaveScaler(w, s, x) = w \/ SaveScaler(w, s, x) = [w EXCEPT !.update = m] BY DEF SaveScaler
<1> HIDE DEF m
<1>3. QED BY <1>1, <1>2 DEF Worlds

LEMMA StopScalingGood ==
  ASSUME NEW w, CanScale(w)
  PROVE  LET u == [w EXCEPT !.st.phase = "Running", !.st.scaler = NoScaler]
         IN  Good(u) /\ u.st.phase = "Running"
<1> DEFINE st == [w.st EXCEPT !.phase = "Running", !.scaler = NoScaler]
           u  == [w EXCEPT !.st.phase = "Running", !.st.scaler = NoScaler]
<1>1. w \in Worlds /\ w.st \in JobStatus /\ Consistent(w.st) BY DEF CanScale, Good, Worlds
<1>2. st \in JobStatus BY <1>1 DEF JobStatus, Phase
<1>3. Consistent(st)
  BY <1>1 DEF JobStatus, CanScale, Unfinished, Consistent, StepOrder, PhaseMatches,
     ScalingHasScaler, RestartBound
<1>4. u = [w EXCEPT !.st = st] BY <1>1 DEF Worlds, JobStatus
<1>5. st.phase = "Running" BY <1>1 DEF JobStatus
<1> HIDE DEF st, u
<1>6. Good(u) /\ u.st = st BY <1>1, <1>2, <1>3, <1>4, StatusGood, StatusKeeps
<1>7. QED BY <1>5, <1>6 DEF u

LEMMA FinishScalerGood ==
  ASSUME NEW w, CanScale(w), NEW s \in Scalers, NEW x \in ScalerStatus, NEW c \in ScalerCondition
  PROVE  Good(FinishScaler(w, s, x, c))
<1> DEFINE u == [w EXCEPT !.st.phase = "Running", !.st.scaler = NoScaler]
           y == [x EXCEPT !.conds = @ \cup {c}]
<1>1. Good(u) BY StopScalingGood
<1>2. y \in ScalerStatus BY ExtendTypes
<1>3. FinishScaler(w, s, x, c) = SaveScaler(u, s, y) BY DEF FinishScaler
<1> HIDE DEF u, y
<1>4. QED BY <1>1, <1>2, <1>3, SaveScalerKeeps DEF Good

LEMMA StartScalerGood ==
  ASSUME NEW w, CanScale(w), NEW s \in DOMAIN w.known
  PROVE  Good(StartScaler(w, s))
<1> DEFINE st == [w.st EXCEPT !.phase = "Scaling", !.scaler = s]
           u  == [w EXCEPT !.st.phase = "Scaling", !.st.scaler = s]
           y  == [w.known[s] EXCEPT !.conds = @ \cup {"Scaling"}]
<1>1. w \in Worlds /\ w.st \in JobStatus /\ Consistent(w.st) BY DEF CanScale, Good, Worlds
<1>2. s \in Scalers /\ w.known[s] \in ScalerStatus BY <1>1, KnownTypes DEF Worlds
<1>3. st \in JobStatus BY <1>1, <1>2 DEF JobStatus, Phase
<1>4. Consistent(st)
  BY <1>1, <1>2, ScalersAssumption DEF JobStatus, CanScale, Unfinished, Consistent, StepOrder,
     PhaseMatches, ScalingHasScaler, RestartBound
<1>5. u = [w EXCEPT !.st = st] BY <1>1 DEF Worlds, JobStatus
<1>6. y \in ScalerStatus BY <1>2, ExtendTypes DEF ScalerCondition
<1>7. StartScaler(w, s) = SaveScaler(u, s, y) BY DEF StartScaler
<1> HIDE DEF st, u, y
<1>8. Good(u) BY <1>1, <1>3, <1>4, <1>5, StatusGood
<1>9. QED BY <1>2, <1>6, <1>7, <1>8, SaveScalerKeeps DEF Good

LEMMA setTrainingJobScalerGood ==
  ASSUME NEW w, CanScale(w) PROVE AllGood(setTrainingJobScaler(w))
<1>1. latestScalers(availableScalers(w)) \subseteq DOMAIN w.known
  BY DEF latestScalers, availableScalers
<1>2. \A s \in latestScalers(availableScalers(w)) : Good(StartScaler(w, s))
  BY <1>1, StartScalerGood
<1>3. QED BY <1>2 DEF setTrainingJobScaler, AllGood, CanScale

LEMMA executeScaleScriptKeeps ==
  ASSUME NEW w \in Worlds, NEW s, NEW x, NEW hosts \in SUBSET Worker
  PROVE  Keeps(executeScaleScript(w, s, x, hosts), w)
<1>1. CASE "ScriptExecuted" \in x.conds
  <2>1. executeScaleScript(w, s, x, hosts) = {w} BY <1>1 DEF executeScaleScript
  <2>2. QED BY <2>1 DEF Keeps
<1>2. CASE "ScriptExecuted" \notin x.conds /\ ScalerSpec[s].script
  BY <1>2, executeOnLauncherKeeps DEF executeScaleScript
<1>3. CASE "ScriptExecuted" \notin x.conds /\ ~ScalerSpec[s].script
  BY <1>3, WriteHostfileKeeps DEF executeScaleScript
<1>4. QED BY <1>1, <1>2, <1>3

LEMMA checkWorkerShutdownKeeps ==
  ASSUME NEW w \in Worlds, NEW s, NEW ws
  PROVE  \A d \in checkWorkerShutdown(w, s, ws) : d[1] \in Worlds /\ d[1].st = w.st
<1> DEFINE Down(v) == IF v.err = "none" THEN {<<v, D>> : D \in SUBSET ws} ELSE {<<v, {}>>}
<1>1. \A v \in executeOnLauncher(w) : v \in Worlds /\ v.st = w.st
  BY executeOnLauncherKeeps DEF Keeps
<1>2. ASSUME NEW v, NEW d \in Down(v) PROVE d[1] = v
  <2>1. PICK D : d = <<v, D>> BY <1>2
  <2>2. QED BY <2>1
<1>3. CASE ScalerSpec[s].script \/ w.seenLauncher = "None" BY <1>3 DEF checkWorkerShutdown
<1>4. CASE ~(ScalerSpec[s].script \/ w.seenLauncher = "None")
  <2>1. checkWorkerShutdown(w, s, ws) = UNION {Down(v) : v \in executeOnLauncher(w)}
    BY <1>4 DEF checkWorkerShutdown
  <2> HIDE DEF Down
  <2>2. QED BY <1>1, <1>2, <2>1
<1>5. QED BY <1>3, <1>4

LEMMA CanScaleKeeps ==
  ASSUME NEW w, CanScale(w), NEW S, Keeps(S, w)
  PROVE  \A v \in S : CanScale(v) /\ v.st = w.st
  BY DEF Keeps, CanScale, Good

LEMMA CanScaleSameStage ==
  ASSUME NEW w, CanScale(w), NEW S, SameStage(S, w)
  PROVE  \A v \in S : CanScale(v)
  BY DEF SameStage, CanScale, Unfinished

LEMMA SaveScalerGood ==
  ASSUME NEW w, CanScale(w), NEW s \in Scalers, NEW x \in ScalerStatus
  PROVE  Good(SaveScaler(w, s, x))
  BY SaveScalerKeeps DEF CanScale, Good

LEMMA ErrGood ==
  ASSUME NEW w, Good(w), NEW e \in {"none", "requeue", "error"}
  PROVE  Good([w EXCEPT !.err = e])
  BY DEF Good, Worlds

LEMMA ErrCanScale ==
  ASSUME NEW w, CanScale(w), NEW e \in {"none", "requeue", "error"}
  PROVE  CanScale([w EXCEPT !.err = e])
<1>1. [w EXCEPT !.err = e].st = w.st BY DEF CanScale, Good, Worlds
<1>2. Good([w EXCEPT !.err = e]) BY ErrGood DEF CanScale
<1>3. QED BY <1>1, <1>2 DEF CanScale

LEMMA ExecutedTypes == ASSUME NEW x \in ScalerStatus PROVE Executed(x) \in ScalerStatus
  BY ExtendTypes DEF Executed, ScalerCondition

LEMMA DeleteScaledInGood ==
  ASSUME NEW w, CanScale(w), NEW s \in Scalers, NEW x \in ScalerStatus,
         NEW hosts \in SUBSET Worker, NEW down
  PROVE  AllGood(DeleteScaledIn(w, s, x, hosts, down))
<1> DEFINE ws == IF x.pods = {} THEN Worker ELSE down
           Left == UNION {CatchUp(u) : u \in DeleteWorkerPods(w, ws)}
           Smaller(v) == [v EXCEPT !.st.target = FilterOut(@, x.pods), !.st.current = hosts]
           Wait(v) == [SaveScaler(v, s, x) EXCEPT !.err = IF down = x.pods THEN "none" ELSE "requeue"]
<1>1. \A u \in DeleteWorkerPods(w, ws) : CanScale(u)
  BY DeleteWorkerPodsKeeps, CanScaleKeeps DEF CanScale, Good
<1>2. \A v \in Left : CanScale(v)
  BY <1>1, CatchUpKeeps, CanScaleKeeps DEF CanScale, Good
<1>3. ASSUME NEW v, CanScale(v) PROVE CanScale(Smaller(v))
  <2> DEFINE t == FilterOut(v.st.target, x.pods)
             u == [v EXCEPT !.st.target = t]
             z == [u EXCEPT !.st.current = hosts]
  <2>1. v \in Worlds /\ v.st \in JobStatus BY <1>3 DEF CanScale, Good, Worlds
  <2>2. t \in [Worker -> Nat] BY <2>1, AppendIsBag DEF JobStatus
  <2>3. Smaller(v) = z BY <2>1 DEF Worlds, JobStatus
  <2> HIDE DEF t
  <2>4. CanScale(u) BY <1>3, <2>2, TargetKeeps, CanScaleSameStage DEF CanScale
  <2> HIDE DEF u
  <2>5. CanScale(z) BY <2>4, CurrentKeeps, CanScaleSameStage DEF CanScale
  <2>6. QED BY <2>3, <2>5
<1>4. \A v \in Left : Good(FinishScaler(Smaller(v), s, x, "ScaleSucceeded"))
  <2> HIDE DEF Smaller, Left
  <2>1. QED BY <1>2, <1>3, FinishScalerGood DEF ScalerCondition
<1>5. \A v \in Left : Good(Wait(v))
  <2> HIDE DEF Left
  <2>1. QED BY <1>2, SaveScalerGood, ErrGood
<1>6. DeleteScaledIn(w, s, x, hosts, down) =
        {IF x.pods \cap DOMAIN v.seen = {} THEN FinishScaler(Smaller(v), s, x, "ScaleSucceeded")
         ELSE Wait(v) : v \in Left}
  BY DEF DeleteScaledIn
<1> HIDE DEF Left, Smaller, Wait
<1>7. QED BY <1>4, <1>5, <1>6 DEF AllGood

LEMMA ScaleInWorkersGood ==
  ASSUME NEW w, CanScale(w), NEW s \in Scalers, NEW x \in ScalerStatus
  PROVE  AllGood(ScaleInWorkers(w, s, x))
<1> DEFINE hosts   == w.st.current \ x.pods
           After(d) == IF d[1].err = "none" THEN DeleteScaledIn(d[1], s, Executed(x), hosts, d[2])
                                            ELSE {SaveScaler(d[1], s, Executed(x))}
           Wait(v) == UNION {After(d) : d \in checkWorkerShutdown(v, s, x.pods)}
           Fail(v) == FinishScaler([v EXCEPT !.err = "none"], s, x, "ScaleFailed")
           Ran     == executeScaleScript(w, s, x, hosts)
<1>1. w \in Worlds /\ hosts \in SUBSET Worker BY DEF CanScale, Good, Worlds, JobStatus
<1>2. ScaleInWorkers(w, s, x) = UNION {IF v.err = "none" THEN Wait(v) ELSE {Fail(v)} : v \in Ran}
  BY DEF ScaleInWorkers
<1> HIDE DEF hosts
<1>3. \A v \in Ran : CanScale(v) BY <1>1, executeScaleScriptKeeps, CanScaleKeeps
<1>4. \A v \in Ran : Good(Fail(v))
  <2> HIDE DEF Ran
  <2>1. QED BY <1>3, ErrCanScale, FinishScalerGood DEF ScalerCondition
<1>5. ASSUME NEW v \in Ran PROVE AllGood(Wait(v))
  <2>1. \A d \in checkWorkerShutdown(v, s, x.pods) : d[1] \in Worlds /\ d[1].st = v.st
    BY <1>3, checkWorkerShutdownKeeps DEF CanScale, Good
  <2>2. \A d \in checkWorkerShutdown(v, s, x.pods) : CanScale(d[1])
    BY <1>3, <2>1 DEF CanScale, Good
  <2>3. \A d \in checkWorkerShutdown(v, s, x.pods) : AllGood(After(d))
    BY <1>1, <2>2, ExecutedTypes, DeleteScaledInGood, SaveScalerGood DEF AllGood
  <2> HIDE DEF After
  <2>4. QED BY <2>3 DEF AllGood
<1> HIDE DEF Wait, Fail, Ran
<1>6. QED BY <1>2, <1>4, <1>5 DEF AllGood

LEMMA executeScaleInGood ==
  ASSUME NEW w, CanScale(w), NEW s \in DOMAIN w.known
  PROVE  AllGood(executeScaleIn(w, s))
<1> DEFINE x == w.known[s]
           y == [x EXCEPT !.pods = setsSaleInToDelete(s, w)]
<1>1. s \in Scalers /\ x \in ScalerStatus BY KnownTypes DEF CanScale, Good, Worlds
<1>2. DOMAIN w.seen \subseteq Worker BY PodMapIs DEF CanScale, Good, Worlds, IsPodMap
<1>3. setsSaleInToDelete(s, w) \subseteq Worker BY <1>2 DEF setsSaleInToDelete, Highest
<1>4. y \in ScalerStatus BY <1>1, <1>3 DEF ScalerStatus
<1>5. \/ executeScaleIn(w, s) = ScaleInWorkers(w, s, x)
      \/ executeScaleIn(w, s) = ScaleInWorkers(w, s, y)
      \/ executeScaleIn(w, s) = {FinishScaler(w, s, x, "ScaleFailed")}
  BY DEF executeScaleIn
<1> HIDE DEF x, y
<1>6. QED BY <1>1, <1>4, <1>5, ScaleInWorkersGood, FinishScalerGood DEF AllGood, ScalerCondition

LEMMA ScaleOutFailedGood ==
  ASSUME NEW w, CanScale(w), NEW s \in Scalers, NEW x \in ScalerStatus,
         NEW err \in {"none", "requeue", "error"}
  PROVE  AllGood(ScaleOutFailed(w, s, x, err))
<1> DEFINE Fail(v) == [FinishScaler(v, s, x, "ScaleFailed") EXCEPT !.err = err]
<1>1. \A v \in CatchUp(w) : CanScale(v) BY CatchUpKeeps, CanScaleKeeps DEF CanScale, Good
<1>2. \A v \in CatchUp(w) : Good(Fail(v))
  BY <1>1, FinishScalerGood, ErrGood DEF ScalerCondition
<1>3. ScaleOutFailed(w, s, x, err) = UNION {DeleteWorkerPods(Fail(v), x.pods) : v \in CatchUp(w)}
  BY DEF ScaleOutFailed
<1> HIDE DEF Fail
<1>4. \A v \in CatchUp(w) : AllGood(DeleteWorkerPods(Fail(v), x.pods))
  BY <1>2, DeleteWorkerPodsKeeps, KeepsGood DEF Good, AllGood
<1>5. QED BY <1>3, <1>4 DEF AllGood

LEMMA AwaitWorkersGood ==
  ASSUME NEW w, CanScale(w), NEW s \in Scalers, NEW x \in ScalerStatus
  PROVE  AllGood(AwaitWorkers(w, s, x))
<1>1. Good([SaveScaler(w, s, x) EXCEPT !.err = "requeue"]) BY SaveScalerGood, ErrGood
<1>2. AllGood(ScaleOutFailed(w, s, x, "requeue")) BY ScaleOutFailedGood
<1>3. QED BY <1>1, <1>2 DEF AwaitWorkers, AllGood

LEMMA AddWorkersGood ==
  ASSUME NEW w, CanScale(w), NEW s \in Scalers, NEW x \in ScalerStatus
  PROVE  AllGood(AddWorkers(w, s, x))
<1> DEFINE t       == Append(w.st.target, x.pods)
           Full    == \E i \in Worker : t[i] > MaxCopies
           More(v) == [v EXCEPT !.st.target = t]
           Done(v) == FinishScaler(More(v), s, Executed(x), "ScaleSucceeded")
           After(v) == CASE v.err # "none" -> ScaleOutFailed(v, s, x, "error")
                         [] v.err = "none" /\ Full -> {}
                         [] OTHER -> {Done(v)}
           Ran     == executeScaleScript(w, s, x, w.st.current \cup x.pods)
<1>1. w \in Worlds /\ w.st \in JobStatus BY DEF CanScale, Good, Worlds
<1>2. t \in [Worker -> Nat] BY <1>1, AppendIsBag DEF JobStatus
<1>3. w.st.current \cup x.pods \in SUBSET Worker BY <1>1 DEF JobStatus, ScalerStatus
<1>4. AddWorkers(w, s, x) = UNION {After(v) : v \in Ran} BY DEF AddWorkers
<1> HIDE DEF t, Full
<1>5. \A v \in Ran : CanScale(v) BY <1>1, <1>3, executeScaleScriptKeeps, CanScaleKeeps
<1> HIDE DEF Ran
<1>6. \A v \in Ran : CanScale(More(v))
  BY <1>2, <1>5, TargetKeeps, CanScaleSameStage DEF CanScale
<1> HIDE DEF More
<1>7. \A v \in Ran : Good(Done(v)) BY <1>6, ExecutedTypes, FinishScalerGood DEF ScalerCondition
<1> HIDE DEF Done
<1>8. \A v \in Ran : AllGood(After(v)) BY <1>5, <1>7, ScaleOutFailedGood DEF AllGood
<1> HIDE DEF After
<1>9. QED BY <1>4, <1>8 DEF AllGood

LEMMA ScaleOutWorkersGood ==
  ASSUME NEW w, CanScale(w), NEW s \in Scalers, NEW x \in ScalerStatus
  PROVE  AllGood(ScaleOutWorkers(w, s, x))
<1> DEFINE Waits(v) == Cardinality(Active(v, s)) < ScalerSpec[s].count
           After(v) == CASE v.err # "none" -> ScaleOutFailed(v, s, x, "error")
                         [] v.err = "none" /\ Waits(v) -> AwaitWorkers(v, s, x)
                         [] OTHER -> AddWorkers(v, s, x)
           Made     == createWorkers(w, x.pods, s)
<1>1. ScaleOutWorkers(w, s, x) = UNION {After(v) : v \in Made} BY DEF ScaleOutWorkers
<1>2. \A v \in Made : CanScale(v) BY createWorkersKeeps, CanScaleKeeps DEF CanScale, Good
<1> HIDE DEF Waits, Made
<1>3. \A v \in Made : AllGood(After(v))
  BY <1>2, ScaleOutFailedGood, AwaitWorkersGood, AddWorkersGood
<1> HIDE DEF After
<1>4. QED BY <1>1, <1>3 DEF AllGood

LEMMA executeScaleOutGood ==
  ASSUME NEW w, CanScale(w), NEW s \in DOMAIN w.known
  PROVE  AllGood(executeScaleOut(w, s))
<1> DEFINE x == w.known[s]
           names == IF x.pods # {} THEN x.pods ELSE NextNames(w.st.target, ScalerSpec[s].count)
           y == [x EXCEPT !.pods = names]
<1>1. s \in Scalers /\ x \in ScalerStatus BY KnownTypes DEF CanScale, Good, Worlds
<1>2. executeScaleOut(w, s) = IF ScalerSpec[s].count <= 0
                              THEN {Error(FinishScaler(w, s, x, "ScaleFailed"))}
                              ELSE ScaleOutWorkers(w, s, y)
  BY DEF executeScaleOut
<1> HIDE DEF x, names
<1>3. Good(Error(FinishScaler(w, s, x, "ScaleFailed")))
  BY <1>1, FinishScalerGood, ErrorKeeps DEF ScalerCondition, Good
<1>4. CASE names \subseteq Worker
  <2>1. y \in ScalerStatus BY <1>1, <1>4 DEF ScalerStatus
  <2> HIDE DEF y
  <2>2. QED BY <1>1, <1>2, <1>3, <2>1, ScaleOutWorkersGood DEF AllGood
\* Names beyond MaxWorker are not created.
<1>5. CASE ~(names \subseteq Worker)
  <2>1. y.pods = names BY <1>1 DEF ScalerStatus
  <2> HIDE DEF y
  <2>2. createWorkers(w, y.pods, s) = {} BY <1>5, <2>1 DEF createWorkers
  <2>3. ScaleOutWorkers(w, s, y) = {} BY <2>2 DEF ScaleOutWorkers
  <2>4. QED BY <1>2, <1>3, <2>3 DEF AllGood
<1>6. QED BY <1>4, <1>5

LEMMA ExecuteScalerGood ==
  ASSUME NEW w, Good(w), w.st.scaler # NoScaler,
         isFinished(w.st) \/ "Running" \in w.st.conds
  PROVE  AllGood(ExecuteScaler(w))
<1> DEFINE s == w.st.scaler
           GivenUp == [w EXCEPT !.st.phase = "Running", !.st.scaler = NoScaler]
<1>1. CASE isFinished(w.st) BY <1>1 DEF ExecuteScaler, AllGood
<1>2. CASE ~isFinished(w.st)
  <2>1. CanScale(w) BY <1>2 DEF CanScale, isFinished, Unfinished
  <2>2. CASE s \notin DOMAIN w.known \/ isScaleFinished(w.known[s])
    <3>1. ExecuteScaler(w) = {GivenUp} BY <1>2, <2>2 DEF ExecuteScaler
    <3>2. Good(GivenUp) BY <2>1, StopScalingGood
    <3> HIDE DEF GivenUp
    <3>3. QED BY <3>1, <3>2 DEF AllGood
  <2>3. CASE s \in DOMAIN w.known /\ ~isScaleFinished(w.known[s])
    <3>1. \/ ExecuteScaler(w) = executeScaleIn(w, s)
          \/ ExecuteScaler(w) = executeScaleOut(w, s)
      BY <1>2, <2>3 DEF ExecuteScaler
    <3>2. QED BY <2>1, <2>3, <3>1, executeScaleInGood, executeScaleOutGood
  <2>4. QED BY <2>2, <2>3
<1>3. QED BY <1>1, <1>2

LEMMA executeScalingGood ==
  ASSUME NEW w, Good(w), w.st.phase = "Scaling"
  PROVE  AllGood(executeScaling(w))
<1>1. /\ Unfinished(w.st) /\ "Running" \in w.st.conds /\ "LauncherCreated" \in w.st.conds
      /\ w.st.scaler # NoScaler
  BY LivePhaseIsUnfinished DEF Good, Consistent, StepOrder, ScalingHasScaler
<1>2. \A v \in syncLauncherState(w) :
        /\ Good(v) /\ v.st.scaler # NoScaler
        /\ isFinished(v.st) \/ "Running" \in v.st.conds
  BY <1>1, syncLauncherStateGood
<1>3. \A v \in syncLauncherState(w) : AllGood(ExecuteScaler(v)) BY <1>2, ExecuteScalerGood
<1>4. QED BY <1>3 DEF executeScaling, AllGood

LEMMA reconcileJobRunningGood ==
  ASSUME NEW w, Good(w), w.st.phase = "Running"
  PROVE  AllGood(reconcileJobRunning(w))
<1> DEFINE Looked == UNION {handleWorkersFailed(u) : u \in syncLauncherState(w)}
<1>1. Unfinished(w.st) /\ "LauncherCreated" \in w.st.conds
  BY LivePhaseIsUnfinished DEF Good, Consistent, StepOrder
<1>2. \A u \in syncLauncherState(w) : Good(u) BY <1>1, syncLauncherStateGood
<1>3. \A v \in Looked : Good(v) BY <1>2, handleWorkersFailedKeeps DEF SameStage
<1> HIDE DEF Looked
<1>4. ASSUME NEW v \in Looked, v.st.phase = "Running" PROVE AllGood(setTrainingJobScaler(v))
  <2>1. CanScale(v)
    BY <1>3, <1>4, LivePhaseIsUnfinished DEF CanScale, Good, Consistent, StepOrder
  <2>2. QED BY <2>1, setTrainingJobScalerGood
<1>5. reconcileJobRunning(w) =
        UNION {IF v.err = "none" /\ v.st.phase = "Running" THEN setTrainingJobScaler(v) ELSE {v} :
                 v \in Looked}
  BY DEF reconcileJobRunning, Looked
<1>6. QED BY <1>3, <1>4, <1>5 DEF AllGood

-----------------------------------------------------------------------------
(* The inductive invariant: the types, and the consistency of every copy of   *)
(* the status. Neither holds of one copy alone: a reconcile may start from an *)
(* old copy, and what it computes is written over the newest one.             *)

IInv == TypeOK /\ \A st \in Copies : Consistent(st)

LEMMA EmptyMaps == IsPodMap(EmptyMap) /\ IsScalerMap(EmptyMap)
<1>1. DOMAIN EmptyMap = {} BY DEF EmptyMap
<1>2. EmptyMap \in [{} -> Pod] /\ EmptyMap \in [{} -> ScalerStatus] BY DEF EmptyMap
<1>3. QED BY <1>1, <1>2 DEF IsPodMap, IsScalerMap

LEMMA InitIInv == Init => IInv
<1> SUFFICES ASSUME Init PROVE IInv OBVIOUS
<1>1. TypeOK
  <2>1. job \in Job /\ jobCache \in Job BY NewJobConsistent DEF Init, Job
  <2>2. read \in JobStatus /\ mine \in JobStatus BY NewJobConsistent DEF Init
  <2>3. /\ IsScalerMap(scalers) /\ IsScalerMap(scalerCache) /\ IsScalerMap(update)
        /\ IsPodMap(pods) /\ IsPodMap(podCache)
    BY EmptyMaps DEF Init
  <2>4. /\ launcher \in LauncherState /\ launcherCache \in LauncherState
        /\ configMap \in ConfigMap /\ hostfile \in SUBSET Worker
    BY DEF Init, LauncherState, ConfigMap
  <2>5. lag \subseteq Lagging /\ pc = "idle" BY DEF Init
  <2>6. queued \in BOOLEAN /\ retry \in BOOLEAN BY Zenon DEF Init
  <2>7. faults \in 0..MaxFaults BY NumbersAssumption DEF Init
  <2>8. QED BY <2>1, <2>2, <2>3, <2>4, <2>5, <2>6, <2>7 DEF TypeOK
<1>2. \A st \in Copies : Consistent(st) BY NewJobConsistent DEF Init, Copies
<1>3. QED BY <1>1, <1>2 DEF IInv

LEMMA ObservedGood == ASSUME IInv PROVE Good(Observed)
<1>1. Observed \in Worlds
  <2>1. EmptyMap \in ScalerMap BY EmptyMaps, ScalerMapIs
  <2>2. pods \in PodMap /\ podCache \in PodMap /\ scalerCache \in ScalerMap
    BY PodMapIs, ScalerMapIs DEF IInv, TypeOK
  <2>3. QED BY <2>1, <2>2 DEF IInv, TypeOK, Observed, Worlds
<1>2. Observed.st = mine BY DEF Observed
<1>3. QED BY <1>1, <1>2 DEF Good, IInv, Copies

LEMMA LeaveIInv ==
  ASSUME IInv, NEW w, Good(w), Leave(w)
  PROVE  IInv'
<1>1. w \in Worlds BY DEF Good
<1>2. /\ IsPodMap(w.pods) /\ IsPodMap(w.seen) /\ IsScalerMap(w.update)
  BY <1>1, PodMapIs, ScalerMapIs DEF Worlds
<1>3. /\ job' = job /\ scalers' = scalers /\ jobCache' = jobCache
      /\ scalerCache' = scalerCache /\ read' = read
      /\ mine' = w.st /\ update' = w.update /\ pods' = w.pods
      /\ launcher' = w.launcher /\ configMap' = w.configMap /\ hostfile' = w.hostfile
      /\ faults' = w.faults /\ pc' \in {"writeJob", "writeScaler"}
      /\ podCache' = w.seen \/ podCache' = w.pods
      /\ launcherCache' = w.seenLauncher \/ launcherCache' = w.launcher
  BY DEF Leave
<1>4. lag' \subseteq Lagging BY DEF Leave, IInv, TypeOK
<1>5. queued' \in BOOLEAN /\ retry' \in BOOLEAN BY DEF Leave, IInv, TypeOK
<1>6. TypeOK'
  BY <1>1, <1>2, <1>3, <1>4, <1>5 DEF IInv, TypeOK, Worlds
<1>7. \A st \in Copies' : Consistent(st) BY <1>3 DEF Good, IInv, Copies
<1>8. QED BY <1>6, <1>7 DEF IInv

LEMMA StartIInv == ASSUME IInv, Start PROVE IInv'
<1>1. jobCache.status \in JobStatus /\ Consistent(jobCache.status)
  BY DEF IInv, TypeOK, Job, Copies
<1>2. mine' \in JobStatus /\ Consistent(mine')
  BY <1>1, StatusTypes, SuspendedConsistent DEF Start, JobCondition, Phase
<1>3. TypeOK'
  BY <1>1, <1>2 DEF Start, IInv, TypeOK, api, cache
<1>4. \A st \in Copies' : Consistent(st)
  BY <1>1, <1>2 DEF Start, IInv, Copies, api, cache
<1>5. QED BY <1>3, <1>4 DEF IInv

LEMMA HandleIInv == ASSUME IInv, Handle PROVE IInv'
<1>1. Good(Observed) /\ Observed.st = mine BY ObservedGood DEF Observed
<1>2. ASSUME HandleCreated PROVE IInv'
  <2>1. AllGood(doSteps(initializeJob(Observed)))
    BY <1>1, <1>2, initializeJobGood, doStepsGood DEF HandleCreated, AtHandler
  <2>2. QED BY <1>2, <2>1, LeaveIInv DEF HandleCreated, AllGood
<1>3. ASSUME HandleRunning PROVE IInv'
  <2>1. AllGood(reconcileJobRunning(Observed))
    BY <1>1, <1>3, reconcileJobRunningGood DEF HandleRunning, AtHandler
  <2>2. QED BY <1>3, <2>1, LeaveIInv DEF HandleRunning, AllGood
<1>4. ASSUME HandleScaling PROVE IInv'
  <2>1. AllGood(executeScaling(Observed))
    BY <1>1, <1>4, executeScalingGood DEF HandleScaling, AtHandler
  <2>2. QED BY <1>4, <2>1, LeaveIInv DEF HandleScaling, AllGood
<1>5. ASSUME HandleSucceeded PROVE IInv'
  <2>1. AllGood(cleanup(Observed)) BY <1>1, cleanupKeeps, KeepsGood DEF Good, AllGood
  <2>2. QED BY <1>5, <2>1, LeaveIInv DEF HandleSucceeded, AllGood
<1>6. ASSUME HandleFailed PROVE IInv'
  <2>1. AllGood(restartJob(Observed)) BY <1>1, restartJobGood
  <2>2. QED BY <1>6, <2>1, LeaveIInv DEF HandleFailed, AllGood
<1>7. ASSUME HandleSuspended PROVE IInv'
  <2>1. AllGood(cleanupAll(Observed)) BY <1>1, cleanupAllKeeps, KeepsGood DEF Good, AllGood
  <2>2. QED BY <1>7, <2>1, LeaveIInv DEF HandleSuspended, AllGood
<1>8. QED BY <1>2, <1>3, <1>4, <1>5, <1>6, <1>7 DEF Handle

-----------------------------------------------------------------------------
(* The writes, the events and the environment *)

LEMMA PublishTypes == ASSUME TypeOK, NEW k, Publish(k) PROVE lag' \subseteq Lagging /\ queued' \in BOOLEAN
  BY DEF Publish, TypeOK

LEMMA DeliveredTypes ==
  ASSUME NEW s, NEW m, IsScalerMap(m), IsScalerMap(scalerCache)
  PROVE  IsScalerMap(Delivered(s, m))
<1>1. Delivered(s, m) \in [(DOMAIN scalerCache \ {s}) \cup (DOMAIN m \cap {s}) -> ScalerStatus]
  BY DEF IsScalerMap, Delivered
<1>2. QED BY <1>1 DEF IsScalerMap

\* What the events of one informer may change.
LEMMA ScalerChangedTypes ==
  ASSUME TypeOK, NEW s, ScalerChanged(s), IsScalerMap(scalers')
  PROVE  /\ lag' \subseteq Lagging /\ queued' \in BOOLEAN /\ IsScalerMap(scalerCache')
         /\ jobCache' = jobCache /\ podCache' = podCache /\ launcherCache' = launcherCache
  BY PublishTypes, DeliveredTypes DEF ScalerChanged, TypeOK

LEMMA PodsChangedTypes ==
  ASSUME TypeOK, PodsChanged, IsPodMap(pods'), launcher' \in LauncherState
  PROVE  /\ lag' \subseteq Lagging /\ queued' \in BOOLEAN
         /\ IsPodMap(podCache') /\ launcherCache' \in LauncherState
         /\ jobCache' = jobCache /\ scalerCache' = scalerCache
  BY PublishTypes DEF PodsChanged, TypeOK

\* An action that leaves the copies of the status alone keeps the invariant when
\* it keeps the types.
LEMMA SameCopies ==
  ASSUME IInv, TypeOK', job'.status = job.status, jobCache'.status = jobCache.status,
         read' = read, mine' = mine
  PROVE  IInv'
  BY DEF IInv, Copies

LEMMA WriteScalerIInv == ASSUME IInv, WriteScaler PROVE IInv'
<1>1. PICK s \in DOMAIN update :
         \/ /\ s \in DOMAIN scalers
            /\ scalers' = [scalers EXCEPT ![s] = update[s]]
            /\ ScalerChanged(s) /\ UNCHANGED faults
         \/ /\ s \notin DOMAIN scalers
            /\ UNCHANGED <<scalers, cache, queued, faults>>
         \/ /\ MayFail("apiError")
            /\ UNCHANGED <<scalers, cache, queued>>
  BY DEF WriteScaler
<1>2. TypeOK BY DEF IInv
<1>3. /\ pc' = "writeJob" /\ IsScalerMap(update')
      /\ UNCHANGED <<job, pods, launcher, configMap, hostfile, read, mine, retry>>
  BY EmptyMaps DEF WriteScaler
<1>4. CASE /\ s \in DOMAIN scalers
           /\ scalers' = [scalers EXCEPT ![s] = update[s]]
           /\ ScalerChanged(s) /\ UNCHANGED faults
  <2>1. IsScalerMap(scalers')
    BY <1>2, <1>4 DEF TypeOK, IsScalerMap
  <2>2. /\ lag' \subseteq Lagging /\ queued' \in BOOLEAN /\ IsScalerMap(scalerCache')
        /\ jobCache' = jobCache /\ podCache' = podCache /\ launcherCache' = launcherCache
    BY <1>2, <1>4, <2>1, ScalerChangedTypes
  <2>3. TypeOK' BY <1>2, <1>3, <1>4, <2>1, <2>2 DEF TypeOK
  <2>4. QED BY <1>3, <2>2, <2>3, SameCopies
<1>5. MayFail("apiError") => faults' \in 0..MaxFaults
  BY <1>2, NumbersAssumption DEF MayFail, TypeOK
<1>6. CASE UNCHANGED <<scalers, cache, queued>> /\ faults' \in 0..MaxFaults
  <2>1. TypeOK' BY <1>2, <1>3, <1>6 DEF TypeOK, cache
  <2>2. QED BY <1>3, <1>6, <2>1, SameCopies DEF cache
<1>7. QED BY <1>1, <1>2, <1>4, <1>5, <1>6 DEF TypeOK

LEMMA MayFailTypes == ASSUME TypeOK, NEW kind, MayFail(kind) PROVE faults' \in 0..MaxFaults
  BY NumbersAssumption DEF MayFail, TypeOK

LEMMA WriteJobIInv == ASSUME IInv, WriteJob PROVE IInv'
<1>1. TypeOK BY DEF IInv
<1>2. /\ pc' = "idle" /\ read' = NewJob /\ mine' = NewJob /\ retry' = FALSE
      /\ UNCHANGED <<update, scalers, pods, launcher, configMap, hostfile,
                     scalerCache, podCache, launcherCache>>
  BY DEF WriteJob, EndReconcile
<1>3. /\ job' = job \/ job' = [job EXCEPT !.status = mine]
      /\ jobCache' = jobCache \/ jobCache' = job'
      /\ queued' \in BOOLEAN /\ lag' \subseteq Lagging
  BY <1>1 DEF WriteJob, TypeOK
<1>4. faults' \in 0..MaxFaults BY <1>1, MayFailTypes DEF WriteJob, TypeOK
<1>5. /\ job' \in Job /\ jobCache' \in Job
      /\ job'.status \in {job.status, mine}
      /\ jobCache'.status \in {jobCache.status, job'.status}
  BY <1>1, <1>3 DEF TypeOK, Job
<1>6. TypeOK' BY <1>1, <1>2, <1>3, <1>4, <1>5, NewJobConsistent DEF TypeOK
<1>7. \A st \in Copies' : Consistent(st) BY <1>2, <1>5, NewJobConsistent DEF IInv, Copies
<1>8. QED BY <1>6, <1>7 DEF IInv

LEMMA SyncIInv == ASSUME IInv, Sync PROVE IInv'
<1>1. TypeOK BY DEF IInv
<1>2. ASSUME SyncJob PROVE IInv'
  <2>1. TypeOK' BY <1>1, <1>2 DEF SyncJob, TypeOK, api, local
  <2>2. \A st \in Copies' : Consistent(st) BY <1>2 DEF SyncJob, IInv, Copies, api, local
  <2>3. QED BY <2>1, <2>2 DEF IInv
<1>3. ASSUME SyncPods PROVE IInv'
  <2>1. TypeOK' BY <1>1, <1>3 DEF SyncPods, TypeOK, api, local
  <2>2. QED BY <1>3, <2>1, SameCopies DEF SyncPods, api, local
<1>4. ASSUME NEW s \in Scalers, SyncScaler(s) PROVE IInv'
  <2>1. IsScalerMap(scalerCache') BY <1>1, <1>4, DeliveredTypes DEF SyncScaler, TypeOK
  <2>2. TypeOK' BY <1>1, <1>4, <2>1 DEF SyncScaler, TypeOK, api, local
  <2>3. QED BY <1>4, <2>2, SameCopies DEF SyncScaler, api, local
<1>5. QED BY <1>2, <1>3, <1>4 DEF Sync

LEMMA CrashIInv == ASSUME IInv, Crash PROVE IInv'
<1>1. TypeOK BY DEF IInv
<1>2. faults' \in 0..MaxFaults BY <1>1, MayFailTypes DEF Crash
<1>3. TypeOK' BY <1>1, <1>2, NewJobConsistent, EmptyMaps DEF Crash, TypeOK, api
<1>4. \A st \in Copies' : Consistent(st) BY NewJobConsistent DEF Crash, IInv, Copies, api
<1>5. QED BY <1>3, <1>4 DEF IInv

\* The pods changed, or the launcher with the hostfile in it.
LEMMA ChangePodsIInv ==
  ASSUME IInv, NEW ps, IsPodMap(ps), ChangePods(ps), faults' \in 0..MaxFaults
  PROVE  IInv'
<1>1. TypeOK BY DEF IInv
<1>2. /\ UNCHANGED <<job, scalers, launcher, configMap, hostfile, local>>
      /\ pods' = ps /\ PodsChanged
  BY DEF ChangePods
<1>3. /\ lag' \subseteq Lagging /\ queued' \in BOOLEAN
      /\ IsPodMap(podCache') /\ launcherCache' \in LauncherState
      /\ jobCache' = jobCache /\ scalerCache' = scalerCache
  BY <1>1, <1>2, PodsChangedTypes DEF TypeOK
<1>4. TypeOK' BY <1>1, <1>2, <1>3 DEF TypeOK, local
<1>5. QED BY <1>2, <1>3, <1>4, SameCopies DEF local

LEMMA ChangeLauncherIInv ==
  ASSUME IInv, NEW state \in LauncherState, NEW hosts \in SUBSET Worker,
         ChangeLauncher(state, hosts), faults' \in 0..MaxFaults
  PROVE  IInv'
<1>1. TypeOK BY DEF IInv
<1>2. /\ UNCHANGED <<job, scalers, pods, configMap, local>>
      /\ launcher' = state /\ hostfile' = hosts /\ PodsChanged
  BY DEF ChangeLauncher
<1>3. /\ lag' \subseteq Lagging /\ queued' \in BOOLEAN
      /\ IsPodMap(podCache') /\ launcherCache' \in LauncherState
      /\ jobCache' = jobCache /\ scalerCache' = scalerCache
  BY <1>1, <1>2, PodsChangedTypes DEF TypeOK
<1>4. TypeOK' BY <1>1, <1>2, <1>3 DEF TypeOK, local
<1>5. QED BY <1>2, <1>3, <1>4, SameCopies DEF local

LEMMA WorkersIInv ==
  ASSUME IInv, NEW i \in Worker, WorkerRuns(i) \/ WorkerEnds(i) \/ WorkerLost(i)
  PROVE  IInv'
<1>1. TypeOK BY DEF IInv
<1>2. ASSUME NEW p \in PodPhase, NEW code \in ExitCodes \cup {0}, i \in DOMAIN pods
      PROVE  /\ IsPodMap([pods EXCEPT ![i].phase = p])
             /\ IsPodMap([pods EXCEPT ![i].phase = p, ![i].exit = code])
  <2>1. pods[i] \in Pod BY <1>1, <1>2 DEF TypeOK, IsPodMap
  <2>2. /\ [pods[i] EXCEPT !.phase = p] \in Pod
        /\ [pods[i] EXCEPT !.phase = p, !.exit = code] \in Pod
    BY <2>1 DEF Pod
  <2>3. /\ [pods EXCEPT ![i] = [pods[i] EXCEPT !.phase = p]] \in [DOMAIN pods -> Pod]
        /\ [pods EXCEPT ![i] = [pods[i] EXCEPT !.phase = p, !.exit = code]] \in [DOMAIN pods -> Pod]
    BY <1>1, <2>2 DEF TypeOK, IsPodMap
  <2>4. /\ [pods EXCEPT ![i].phase = p] = [pods EXCEPT ![i] = [pods[i] EXCEPT !.phase = p]]
        /\ [pods EXCEPT ![i].phase = p, ![i].exit = code]
             = [pods EXCEPT ![i] = [pods[i] EXCEPT !.phase = p, !.exit = code]]
    BY <1>1, <1>2 DEF TypeOK, IsPodMap
  <2>5. QED BY <1>1, <2>3, <2>4 DEF TypeOK, IsPodMap
<1>3. ASSUME WorkerRuns(i) PROVE IInv'
  <2>1. IsPodMap([pods EXCEPT ![i].phase = "Running"]) BY <1>2, <1>3 DEF WorkerRuns, PodPhase
  <2>2. faults' \in 0..MaxFaults BY <1>1, <1>3 DEF WorkerRuns, TypeOK
  <2>3. QED BY <1>3, <2>1, <2>2, ChangePodsIInv DEF WorkerRuns
<1>4. ASSUME WorkerEnds(i) PROVE IInv'
  <2>1. PICK fate \in WorkerFates, code \in ExitCodes :
          ChangePods([pods EXCEPT ![i].phase = fate,
                                  ![i].exit = IF fate = "Failed" THEN code ELSE 0])
    BY <1>4 DEF WorkerEnds
  <2> DEFINE exit == IF fate = "Failed" THEN code ELSE 0
  <2>2. fate \in PodPhase /\ exit \in ExitCodes \cup {0} BY ClusterAssumption DEF PodPhase
  <2>3. ChangePods([pods EXCEPT ![i].phase = fate, ![i].exit = exit]) BY <2>1
  <2>4. faults' \in 0..MaxFaults BY <1>1, <1>4, MayFailTypes DEF WorkerEnds
  <2> HIDE DEF exit
  <2>5. IsPodMap([pods EXCEPT ![i].phase = fate, ![i].exit = exit])
    BY <1>2, <1>4, <2>2 DEF WorkerEnds
  <2>6. QED BY <2>3, <2>4, <2>5, ChangePodsIInv
<1>5. ASSUME WorkerLost(i) PROVE IInv'
  <2>1. IsPodMap(Without(pods, {i})) BY <1>1, PodMapIs, WithoutIsPodMap DEF TypeOK
  <2>2. faults' \in 0..MaxFaults BY <1>1, <1>5, MayFailTypes DEF WorkerLost
  <2>3. QED BY <1>5, <2>1, <2>2, ChangePodsIInv DEF WorkerLost
<1>6. QED BY <1>3, <1>4, <1>5

LEMMA LauncherIInv ==
  ASSUME IInv, LauncherRuns \/ LauncherEnds \/ LauncherLost
  PROVE  IInv'
<1>1. TypeOK BY DEF IInv
<1>2. ASSUME LauncherRuns PROVE IInv'
  <2>1. configMap.hosts \in SUBSET Worker /\ "Running" \in LauncherState
    BY <1>1 DEF TypeOK, ConfigMap, LauncherState
  <2>2. faults' \in 0..MaxFaults BY <1>1, <1>2 DEF LauncherRuns, TypeOK
  <2>3. QED BY <1>2, <2>1, <2>2, ChangeLauncherIInv DEF LauncherRuns
<1>3. ASSUME LauncherEnds PROVE IInv'
  <2>1. PICK fate \in LauncherFates : ChangeLauncher(fate, {}) BY <1>3 DEF LauncherEnds
  <2>2. fate \in LauncherState BY ClusterAssumption DEF LauncherState
  <2>3. faults' \in 0..MaxFaults BY <1>1, <1>3 DEF LauncherEnds, TypeOK
  <2>4. QED BY <2>1, <2>2, <2>3, ChangeLauncherIInv
<1>4. ASSUME LauncherLost PROVE IInv'
  <2>1. "None" \in LauncherState BY DEF LauncherState
  <2>2. faults' \in 0..MaxFaults BY <1>1, <1>4, MayFailTypes DEF LauncherLost
  <2>3. QED BY <1>4, <2>1, <2>2, ChangeLauncherIInv DEF LauncherLost
<1>5. QED BY <1>2, <1>3, <1>4

LEMMA ScalersIInv ==
  ASSUME IInv, NEW s \in Scalers, SubmitScaler(s) \/ DeleteScaler(s)
  PROVE  IInv'
<1>1. TypeOK BY DEF IInv
<1>2. /\ UNCHANGED <<job, pods, launcher, configMap, hostfile, local>>
      /\ ScalerChanged(s)
  BY DEF SubmitScaler, DeleteScaler
<1>3. faults' \in 0..MaxFaults BY <1>1, MayFailTypes DEF SubmitScaler, DeleteScaler, TypeOK
<1>4. IsScalerMap(scalers')
  <2>1. CASE SubmitScaler(s)
    <3>1. [conds |-> {}, pods |-> {}] \in ScalerStatus BY DEF ScalerStatus
    <3>2. scalers' \in [DOMAIN scalers \cup {s} -> ScalerStatus]
      BY <1>1, <2>1, <3>1 DEF SubmitScaler, TypeOK, IsScalerMap
    <3>3. QED BY <1>1, <3>2 DEF TypeOK, IsScalerMap
  <2>2. CASE DeleteScaler(s)
    <3>1. scalers' \in [DOMAIN scalers \cap (DOMAIN scalers \ {s}) -> ScalerStatus]
      BY <1>1, <2>2 DEF DeleteScaler, Restrict, TypeOK, IsScalerMap
    <3>2. QED BY <1>1, <3>1 DEF TypeOK, IsScalerMap
  <2>3. QED BY <2>1, <2>2
<1>5. /\ lag' \subseteq Lagging /\ queued' \in BOOLEAN /\ IsScalerMap(scalerCache')
      /\ jobCache' = jobCache /\ podCache' = podCache /\ launcherCache' = launcherCache
  BY <1>1, <1>2, <1>4, ScalerChangedTypes
<1>6. TypeOK' BY <1>1, <1>2, <1>3, <1>4, <1>5 DEF TypeOK, local
<1>7. QED BY <1>2, <1>5, <1>6, SameCopies DEF local

LEMMA SuspendIInv == ASSUME IInv, Suspend PROVE IInv'
<1>1. TypeOK BY DEF IInv
<1>2. /\ job' \in Job /\ job'.status = job.status BY <1>1 DEF Suspend, TypeOK, Job
<1>3. lag' \subseteq Lagging /\ queued' \in BOOLEAN
  BY <1>1, PublishTypes DEF Suspend, JobChanged
<1>4. /\ jobCache' = jobCache \/ jobCache' = job'
      /\ UNCHANGED <<scalers, pods, launcher, configMap, hostfile, local, faults,
                     scalerCache, podCache, launcherCache>>
  BY DEF Suspend, JobChanged
<1>5. TypeOK' BY <1>1, <1>2, <1>3, <1>4 DEF TypeOK, local
<1>6. \A st \in Copies' : Consistent(st) BY <1>2, <1>4 DEF IInv, Copies, local
<1>7. QED BY <1>5, <1>6 DEF IInv

LEMMA OtherEventIInv == ASSUME IInv, OtherEvent PROVE IInv'
<1>1. TypeOK BY DEF IInv
<1>2. UNCHANGED <<api, cache, local, faults>> /\ queued' \in BOOLEAN BY DEF OtherEvent
<1>3. TypeOK' BY <1>1, <1>2 DEF TypeOK, api, cache, local
<1>4. QED BY <1>2, <1>3, SameCopies DEF api, cache, local

LEMMA StepIInv == IInv /\ [Next]_vars => IInv'
<1> SUFFICES ASSUME IInv, [Next]_vars PROVE IInv' OBVIOUS
<1>1. ASSUME Reconcile PROVE IInv'
  BY <1>1, StartIInv, HandleIInv, WriteScalerIInv, WriteJobIInv DEF Reconcile
<1>2. ASSUME Sync PROVE IInv' BY <1>2, SyncIInv
<1>3. ASSUME Environment PROVE IInv'
  BY <1>3, WorkersIInv, LauncherIInv, ScalersIInv, SuspendIInv, OtherEventIInv DEF Environment
<1>4. ASSUME Crash PROVE IInv' BY <1>4, CrashIInv
<1>5. ASSUME UNCHANGED vars PROVE IInv'
  <2>1. UNCHANGED <<api, cache, local, queued, faults>> BY <1>5 DEF vars
  <2>2. TypeOK' BY <2>1 DEF IInv, TypeOK, api, cache, local
  <2>3. QED BY <2>1, <2>2, SameCopies DEF api, cache, local
<1>6. QED BY <1>1, <1>2, <1>3, <1>4, <1>5 DEF Next

-----------------------------------------------------------------------------

\* The inductive invariant holds in every behaviour of the controller.
THEOREM Inductive == Spec => []IInv
BY InitIInv, StepIInv, PTL DEF Spec

\* Every variable has its type: the handlers of trainingjob_controller.go:200-249
\* compute a status, pods and scaler updates of the shape the next one expects.
THEOREM Typing == Spec => []TypeOK
<1>1. IInv => TypeOK BY DEF IInv
<1>2. QED BY <1>1, Inductive, PTL

\* The steps of trainingjob_controller.go:390-423 are taken in their order in every
\* copy of the status, whatever the caches show and whichever write is lost.
THEOREM StepsAreInOrder == Spec => []StepsInOrder
<1>1. IInv => StepsInOrder BY DEF IInv, StepsInOrder, Consistent
<1>2. QED BY <1>1, Inductive, PTL

\* The phase that picks the handler (trainingjob_controller.go:225-241) agrees with
\* the conditions that say how the job ended, in every copy of the status.
THEOREM PhasesAgree == Spec => []PhasesMatch
<1>1. IInv => PhasesMatch BY DEF IInv, PhasesMatch, Consistent
<1>2. QED BY <1>1, Inductive, PTL

\* A job that scales names its scaler (scaler.go:208-226), also after a restart of
\* the job or of the operator.
THEOREM ScalingNamesItsScaler == Spec => []ScalingScaler
<1>1. IInv => ScalingScaler BY DEF IInv, ScalingScaler, Consistent
<1>2. QED BY <1>1, Inductive, PTL

\* No copy of the status counts more restarts than the backoff limit
\* (trainingjob_controller.go:328-340), for every limit.
THEOREM RestartsAreBounded == Spec => []RestartsBounded
<1>1. IInv => RestartsBounded BY DEF IInv, RestartsBounded, Consistent
<1>2. QED BY <1>1, Inductive, PTL
=============================================================================
