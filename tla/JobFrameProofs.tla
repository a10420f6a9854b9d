--------------------------- MODULE JobFrameProofs ---------------------------
(***************************************************************************)
(* Proofs about TrainingJob: what the operations of a handler leave alone, *)
(* which copy of the cluster a reconcile may trust, and that no launcher   *)
(* is started on too few hosts.                                            *)
(***************************************************************************)
EXTENDS JobProofs

-----------------------------------------------------------------------------
(* The operations on pods and launcher change pods, launcher, hostfile, the *)
(* faults and the error of a world, and nothing else.                       *)

SameStore(v, w) ==
    /\ v.configMap = w.configMap
    /\ v.known = w.known /\ v.stale = w.stale /\ v.update = w.update

SameRest(v, w) == v.st = w.st /\ SameStore(v, w)

SameView(v, w) == v.seen = w.seen /\ v.seenLauncher = w.seenLauncher

Acts(S, w) == \A v \in S : v \in Worlds /\ SameRest(v, w) /\ SameView(v, w)

LEMMA ActsTwice ==
  ASSUME NEW w, NEW v, NEW S, v \in Worlds, SameRest(v, w), SameView(v, w), Acts(S, v)
  PROVE  Acts(S, w)
  BY DEF Acts, SameRest, SameStore, SameView

LEMMA FaultActs ==
  ASSUME NEW w \in Worlds, NEW kind PROVE Acts(Fault(w, kind), w)
  BY NumbersAssumption DEF Fault, Acts, SameRest, SameStore, SameView, Worlds

LEMMA ErrorActs ==
  ASSUME NEW w \in Worlds
  PROVE  Error(w) \in Worlds /\ SameRest(Error(w), w) /\ SameView(Error(w), w)
  BY DEF Error, SameRest, SameStore, SameView, Worlds

LEMMA ErrorsAct ==
  ASSUME NEW w \in Worlds, NEW kind
  PROVE  Acts({Error(v) : v \in Fault(w, kind)}, w)
  BY FaultActs, ErrorActs DEF Acts, SameRest, SameStore, SameView

LEMMA PodsAct ==
  ASSUME NEW w \in Worlds, NEW ps \in PodMap
  PROVE  /\ [w EXCEPT !.pods = ps] \in Worlds
         /\ SameRest([w EXCEPT !.pods = ps], w) /\ SameView([w EXCEPT !.pods = ps], w)
  BY DEF Worlds, SameRest, SameStore, SameView

LEMMA CreateLauncherActs == ASSUME NEW w \in Worlds PROVE Acts(CreateLauncher(w), w)
<1>1. LET v == [w EXCEPT !.launcher = "Pending"]
      IN  v \in Worlds /\ SameRest(v, w) /\ SameView(v, w)
  BY DEF Worlds, LauncherState, SameRest, SameStore, SameView
<1>2. QED BY <1>1, ErrorActs, ErrorsAct DEF CreateLauncher, Acts

LEMMA DeleteLauncherActs == ASSUME NEW w \in Worlds PROVE Acts(DeleteLauncher(w), w)
<1>1. LET v == [w EXCEPT !.launcher = "None", !.hostfile = {}]
      IN  v \in Worlds /\ SameRest(v, w) /\ SameView(v, w)
  BY DEF Worlds, LauncherState, SameRest, SameStore, SameView
<1>2. SameRest(w, w) /\ SameView(w, w) BY DEF SameRest, SameStore, SameView
<1>3. QED BY <1>1, <1>2, FaultActs DEF DeleteLauncher, Acts

LEMMA executeOnLauncherActs == ASSUME NEW w \in Worlds PROVE Acts(executeOnLauncher(w), w)
<1>1. SameRest(w, w) /\ SameView(w, w) BY DEF SameRest, SameStore, SameView
<1>2. QED BY <1>1, ErrorActs, ErrorsAct DEF executeOnLauncher, Acts

LEMMA WriteHostfileActs ==
  ASSUME NEW w \in Worlds, NEW ws \in SUBSET Worker PROVE Acts(WriteHostfile(w, ws), w)
<1> DEFINE Written(v) == [v EXCEPT !.hostfile = ws]
<1>1. ASSUME NEW v \in Worlds
      PROVE  Written(v) \in Worlds /\ SameRest(Written(v), v) /\ SameView(Written(v), v)
  BY DEF Worlds, SameRest, SameStore, SameView
<1>2. \A v \in executeOnLauncher(w) : v \in Worlds /\ SameRest(v, w) /\ SameView(v, w)
  BY executeOnLauncherActs DEF Acts
<1>3. WriteHostfile(w, ws) = {IF v.err = "none" /\ w.seenLauncher # "None" THEN Written(v) ELSE v :
                               v \in executeOnLauncher(w)}
  BY DEF WriteHostfile
<1> HIDE DEF Written
<1>4. ASSUME NEW v \in executeOnLauncher(w)
      PROVE  Written(v) \in Worlds /\ SameRest(Written(v), w) /\ SameView(Written(v), w)
  BY <1>1, <1>2 DEF SameRest, SameStore, SameView
<1>5. QED BY <1>2, <1>3, <1>4 DEF Acts

LEMMA createWorkersActs ==
  ASSUME NEW w \in Worlds, NEW ws, NEW s \in Scalers \cup {NoScaler}
  PROVE  Acts(createWorkers(w, ws, s), w)
<1>1. CASE ~(ws \subseteq Worker) BY <1>1 DEF createWorkers, Acts
<1>2. CASE ws \subseteq Worker
  <2> DEFINE missing == ws \ DOMAIN w.seen
             clash   == missing \cap DOMAIN w.pods
             Reached(i) == \A j \in clash : i <= j
             All(v) == [v EXCEPT !.pods = WithNew(v.pods, missing, s)]
             StopAt(v, i) == Error([v EXCEPT !.pods = WithNew(v.pods, {j \in missing : j < i}, s)])
  <2>1. All(w) \in Worlds /\ SameRest(All(w), w) /\ SameView(All(w), w)
    <3>1. WithNew(w.pods, missing, s) \in PodMap BY <1>2, WithNewIsPodMap DEF Worlds
    <3>2. QED BY <3>1, PodsAct
  <2>2. ASSUME NEW v \in Worlds, NEW i
        PROVE  StopAt(v, i) \in Worlds /\ SameRest(StopAt(v, i), v) /\ SameView(StopAt(v, i), v)
    <3> DEFINE new == {j \in missing : j < i}
               u   == [v EXCEPT !.pods = WithNew(v.pods, new, s)]
    <3>1. WithNew(v.pods, new, s) \in PodMap BY <1>2, WithNewIsPodMap DEF Worlds
    <3> HIDE DEF new
    <3>2. u \in Worlds /\ SameRest(u, v) /\ SameView(u, v) BY <3>1, PodsAct
    <3> HIDE DEF u
    <3>3. Error(u) \in Worlds /\ SameRest(Error(u), v) /\ SameView(Error(u), v)
      BY <3>2, ErrorActs DEF SameRest, SameStore, SameView
    <3>4. QED BY <3>3 DEF new, u
  <2>3. createWorkers(w, ws, s) =
          (IF clash = {} THEN {All(w)} ELSE {})
          \cup {StopAt(w, i) : i \in {j \in clash : Reached(j)}}
          \cup {StopAt(v, i + made) :
                  v \in Fault(w, "apiError"), i \in {j \in ws : Reached(j)}, made \in {0, 1}}
    BY <1>2 DEF createWorkers
  <2>4. \A v \in Fault(w, "apiError") : v \in Worlds /\ SameRest(v, w) /\ SameView(v, w)
    BY FaultActs DEF Acts
  <2> HIDE DEF All, StopAt, missing, clash, Reached
  <2>5. ASSUME NEW x \in createWorkers(w, ws, s)
        PROVE  x \in Worlds /\ SameRest(x, w) /\ SameView(x, w)
    <3>1. \/ x = All(w)
          \/ \E i \in clash : x = StopAt(w, i)
          \/ \E v \in Fault(w, "apiError"), i \in ws, made \in {0, 1} : x = StopAt(v, i + made)
      BY <2>3
    <3>2. ASSUME NEW v \in Fault(w, "apiError"), NEW i, x = StopAt(v, i)
          PROVE  x \in Worlds /\ SameRest(x, w) /\ SameView(x, w)
      BY <2>2, <2>4, <3>2 DEF SameRest, SameStore, SameView
    <3>3. QED BY <2>1, <2>2, <3>1, <3>2
  <2>6. QED BY <2>5 DEF Acts
<1>3. QED BY <1>1, <1>2

LEMMA DeleteWorkerPodsActs ==
  ASSUME NEW w \in Worlds, NEW ws PROVE Acts(DeleteWorkerPods(w, ws), w)
<1> DEFINE listed == ws \cap DOMAIN w.seen
           All(v) == [v EXCEPT !.pods = Without(v.pods, listed)]
           AllBut(v, i) == [v EXCEPT !.pods = Without(v.pods, listed \ {i})]
<1>1. \A v \in Worlds : All(v) \in Worlds /\ SameRest(All(v), v) /\ SameView(All(v), v)
  <2>1. \A v \in Worlds : Without(v.pods, listed) \in PodMap BY WithoutIsPodMap DEF Worlds
  <2>2. QED BY <2>1, PodsAct
<1>2. \A v \in Worlds : \A i :
        AllBut(v, i) \in Worlds /\ SameRest(AllBut(v, i), v) /\ SameView(AllBut(v, i), v)
  <2>1. \A v \in Worlds : \A i : Without(v.pods, listed \ {i}) \in PodMap BY WithoutIsPodMap DEF Worlds
  <2>2. QED BY <2>1, PodsAct
<1>3. DeleteWorkerPods(w, ws) =
        {All(w)} \cup {AllBut(v, i) : v \in Fault(w, "apiError"), i \in listed \cap DOMAIN w.pods}
  BY DEF DeleteWorkerPods
<1>4. \A v \in Fault(w, "apiError") : v \in Worlds /\ SameRest(v, w) /\ SameView(v, w)
  BY FaultActs DEF Acts
<1> HIDE DEF All, AllBut, listed
<1>5. ASSUME NEW x \in DeleteWorkerPods(w, ws)
      PROVE  x \in Worlds /\ SameRest(x, w) /\ SameView(x, w)
  <2>1. x = All(w) \/ \E v \in Fault(w, "apiError"), i \in listed : x = AllBut(v, i)
    BY <1>3
  <2>2. QED BY <1>1, <1>2, <1>4, <2>1 DEF SameRest, SameStore, SameView
<1>6. QED BY <1>5 DEF Acts

LEMMA DeleteAllWorkerPodsActs ==
  ASSUME NEW w \in Worlds PROVE Acts(DeleteAllWorkerPods(w), w)
  BY DeleteWorkerPodsActs DEF DeleteAllWorkerPods

LEMMA cleanupActs == ASSUME NEW w \in Worlds PROVE Acts(cleanup(w), w)
<1>1. SameRest(w, w) /\ SameView(w, w) BY DEF SameRest, SameStore, SameView
<1>2. QED BY <1>1, DeleteAllWorkerPodsActs DEF cleanup, Acts

LEMMA cleanupAllActs == ASSUME NEW w \in Worlds PROVE Acts(cleanupAll(w), w)
<1>1. ASSUME NEW v \in DeleteAllWorkerPods(w) PROVE Acts(DeleteLauncher(v), w)
  BY DeleteAllWorkerPodsActs, DeleteLauncherActs, ActsTwice DEF Acts
<1>2. QED BY <1>1 DEF cleanupAll, Acts

\* Only the view of the pods is brought up to date.
LEMMA CatchUpRest ==
  ASSUME NEW w \in Worlds, NEW v \in CatchUp(w) PROVE v \in Worlds /\ SameRest(v, w)
<1>1. v \in Worlds BY CatchUpKeeps DEF Keeps
<1>2. QED BY <1>1 DEF CatchUp, SameRest, SameStore, Worlds

LEMMA executeScaleScriptActs ==
  ASSUME NEW w \in Worlds, NEW s, NEW x, NEW hosts \in SUBSET Worker
  PROVE  Acts(executeScaleScript(w, s, x, hosts), w)
<1>1. SameRest(w, w) /\ SameView(w, w) BY DEF SameRest, SameStore, SameView
<1>2. CASE "ScriptExecuted" \in x.conds BY <1>1, <1>2 DEF executeScaleScript, Acts
<1>3. CASE "ScriptExecuted" \notin x.conds /\ ScalerSpec[s].script
  BY <1>3, executeOnLauncherActs DEF executeScaleScript
<1>4. CASE "ScriptExecuted" \notin x.conds /\ ~ScalerSpec[s].script
  BY <1>4, WriteHostfileActs DEF executeScaleScript
<1>5. QED BY <1>2, <1>3, <1>4

LEMMA checkWorkerShutdownActs ==
  ASSUME NEW w \in Worlds, NEW s, NEW ws
  PROVE  Acts({d[1] : d \in checkWorkerShutdown(w, s, ws)}, w)
<1> DEFINE Down(v) == IF v.err = "none" THEN {<<v, D>> : D \in SUBSET ws} ELSE {<<v, {}>>}
<1>1. ASSUME NEW v, NEW d \in Down(v) PROVE d[1] = v
  <2>1. PICK D : d = <<v, D>> BY <1>1
  <2>2. QED BY <2>1
<1>2. SameRest(w, w) /\ SameView(w, w) BY DEF SameRest, SameStore, SameView
<1>3. CASE ScalerSpec[s].script \/ w.seenLauncher = "None"
  BY <1>2, <1>3 DEF checkWorkerShutdown, Acts
<1>4. CASE ~(ScalerSpec[s].script \/ w.seenLauncher = "None")
  <2>1. checkWorkerShutdown(w, s, ws) = UNION {Down(v) : v \in executeOnLauncher(w)}
    BY <1>4 DEF checkWorkerShutdown
  <2> HIDE DEF Down
  <2>2. \A d \in checkWorkerShutdown(w, s, ws) : d[1] \in executeOnLauncher(w) BY <1>1, <2>1
  <2>3. QED BY <2>2, executeOnLauncherActs DEF Acts
<1>5. QED BY <1>3, <1>4


-----------------------------------------------------------------------------
(* What the handlers' operations do to the status, and what they leave alone. *)

LEMMA StatusStore ==
  ASSUME NEW w \in Worlds, NEW st
  PROVE  /\ SameStore([w EXCEPT !.st = st], w) /\ SameView([w EXCEPT !.st = st], w)
         /\ [w EXCEPT !.st = st].st = st
  BY DEF Worlds, SameStore, SameView

LEMMA FailedDoes ==
  ASSUME NEW w \in Worlds
  PROVE  /\ SameStore(Failed(w), w) /\ SameView(Failed(w), w)
         /\ Failed(w).st = updateStatus(w.st, "Failed")
<1> DEFINE st == updateStatus(w.st, "Failed")
<1>1. Failed(w) = [w EXCEPT !.st = st, !.err = "none"] BY DEF Failed
<1> HIDE DEF st
<1>2. SameStore(Failed(w), w) /\ SameView(Failed(w), w) /\ Failed(w).st = st
  BY <1>1 DEF Worlds, SameStore, SameView
<1>3. QED BY <1>2 DEF st

\* The statuses a look at the launcher may leave.
Synced(new, st) ==
    \/ new = st \/ \E c \in {"Succeeded", "Failed"} : new = updateStatus(st, c)
    \/ "Running" \notin st.conds /\ new = updateStatus(st, "Running")

LEMMA syncLauncherStateDoes ==
  ASSUME NEW w \in Worlds
  PROVE  \A v \in syncLauncherState(w) :
           Synced(v.st, w.st) /\ SameStore(v, w) /\ SameView(v, w)
<1> DEFINE To(c) == [w EXCEPT !.st = updateStatus(w.st, c)]
<1>1. ASSUME NEW c PROVE /\ SameStore(To(c), w) /\ SameView(To(c), w)
                         /\ To(c).st = updateStatus(w.st, c)
  <2> DEFINE st == updateStatus(w.st, c)
  <2> HIDE DEF st
  <2>1. SameStore([w EXCEPT !.st = st], w) /\ SameView([w EXCEPT !.st = st], w)
        /\ [w EXCEPT !.st = st].st = st
    BY StatusStore
  <2>2. QED BY <2>1 DEF st
<1>2. \A v \in CreateLauncher(w) : v \in Worlds /\ SameRest(v, w) /\ SameView(v, w)
  BY CreateLauncherActs DEF Acts
<1>3. ASSUME NEW v, v \in Worlds, SameRest(v, w), SameView(v, w)
      PROVE  /\ SameStore(Failed(v), w) /\ SameView(Failed(v), w)
             /\ Failed(v).st = updateStatus(w.st, "Failed")
  BY <1>3, FailedDoes DEF SameRest, SameStore, SameView
<1>4. SameRest(w, w) /\ SameView(w, w) BY DEF SameRest, SameStore, SameView
<1>5. \A v \in LauncherGone(w) : /\ SameStore(v, w) /\ SameView(v, w)
                                 /\ v.st = w.st \/ v.st = updateStatus(w.st, "Failed")
  BY <1>2, <1>3, <1>4 DEF LauncherGone, SameRest
<1>6. ASSUME NEW v \in syncLauncherState(w)
      PROVE  \/ v \in LauncherGone(w) \/ v = w
             \/ v = To("Succeeded") \/ v = To("Failed")
             \/ "Running" \notin w.st.conds /\ v = To("Running")
  BY <1>6 DEF syncLauncherState
<1> HIDE DEF To
<1>7. QED BY <1>1, <1>4, <1>5, <1>6 DEF Synced, SameRest

\* The status of a world with other workers recorded in it.
SameProgress(v, w) ==
    /\ v.st.phase = w.st.phase /\ v.st.conds = w.st.conds
    /\ v.st.scaler = w.st.scaler /\ v.st.restarts = w.st.restarts

LEMMA ReplaceWorkersDoes ==
  ASSUME NEW w, Good(w)
  PROVE  \A v \in ReplaceWorkers(w) : SameStore(v, w) /\ SameView(v, w)
<1> DEFINE t     == w.st.target
           old   == NeedRestart(w, t)
           names == NextNames(t, MapThenSumSet(LAMBDA i : t[i], old))
           new   == Append(FilterOut(t, old), names)
           Done(v) == [v EXCEPT !.st.target = new]
           Made == createWorkers(w, names, NoScaler)
<1>1. w \in Worlds BY DEF Good
<1>2. \A v \in Made : v \in Worlds /\ SameRest(v, w) /\ SameView(v, w)
  <2> HIDE DEF names
  <2>1. QED BY <1>1, createWorkersActs DEF Acts
<1>3. ReplaceWorkers(w) = IF old = {} THEN {w} ELSE {IF v.err = "none" THEN Done(v) ELSE v : v \in Made}
  BY DEF ReplaceWorkers
<1> HIDE DEF old, names, new, Made, t
<1>4. ASSUME NEW v \in Made
      PROVE  SameStore(Done(v), w) /\ SameView(Done(v), w)
  <2>1. SameStore(Done(v), v) /\ SameView(Done(v), v)
    BY <1>2 DEF Worlds, SameStore, SameView
  <2>2. QED BY <1>2, <2>1 DEF SameRest, SameStore, SameView
<1> HIDE DEF Done
<1>5. SameStore(w, w) /\ SameView(w, w) BY DEF SameStore, SameView
<1>6. QED BY <1>2, <1>3, <1>4, <1>5 DEF SameRest

LEMMA handleWorkersFailedDoes ==
  ASSUME NEW w, Good(w)
  PROVE  \A v \in handleWorkersFailed(w) :
           Good(v) /\ SameProgress(v, w) /\ SameStore(v, w) /\ SameView(v, w)
<1> DEFINE running   == Running(w.seen)
           hostfile0 == IF running # w.st.current /\ "Running" \in w.st.conds
                        THEN WriteHostfile(w, running) ELSE {w}
           Record(v) == [v EXCEPT !.st.current = running,
                                  !.st.target = IF Members(@) = {} THEN BagOf(running) ELSE @]
<1>1. w \in Worlds /\ running \in SUBSET Worker BY RunningTypes DEF Good, Worlds
<1>2. \A v \in handleWorkersFailed(w) : Good(v) /\ SameProgress(v, w)
  BY handleWorkersFailedKeeps DEF SameStage, SameProgress
<1>3. \A v \in hostfile0 : v \in Worlds /\ SameRest(v, w) /\ SameView(v, w)
  BY <1>1, WriteHostfileActs DEF Acts, SameRest, SameStore, SameView
<1>4. ASSUME NEW v \in hostfile0
      PROVE  Good(Record(v)) /\ SameStore(Record(v), w) /\ SameView(Record(v), w)
  <2>1. v \in Worlds /\ v.st \in JobStatus /\ v.st = w.st BY <1>3 DEF Worlds, SameRest
  <2>2. SameStore(Record(v), v) /\ SameView(Record(v), v)
    BY <2>1 DEF Worlds, SameStore, SameView
  <2>3. Good(Record(v))
    <3> DEFINE bag == IF Members(v.st.target) = {} THEN BagOf(running) ELSE v.st.target
               now == [v EXCEPT !.st.current = running]
    <3>1. bag \in [Worker -> Nat] BY <2>1, AppendIsBag DEF JobStatus
    <3>2. Good(v) BY <2>1 DEF Good
    <3>3. Good(now) BY <1>1, <3>2, CurrentKeeps DEF SameStage
    <3>4. Record(v) = [now EXCEPT !.st.target = bag] BY <2>1 DEF Worlds, JobStatus
    <3> HIDE DEF now, bag, Record
    <3>5. QED BY <3>1, <3>3, <3>4, TargetKeeps DEF SameStage
  <2>4. QED BY <1>3, <2>2, <2>3 DEF SameRest, SameStore, SameView
<1>5. handleWorkersFailed(w) =
        UNION {IF v.err = "none" THEN ReplaceWorkers(Record(v)) ELSE {v} : v \in hostfile0}
  BY DEF handleWorkersFailed
<1> HIDE DEF Record, hostfile0, running
<1>6. ASSUME NEW v \in hostfile0, NEW u \in ReplaceWorkers(Record(v))
      PROVE  SameStore(u, w) /\ SameView(u, w)
  BY <1>4, <1>6, ReplaceWorkersDoes DEF SameStore, SameView
<1>7. \A v \in handleWorkersFailed(w) : SameStore(v, w) /\ SameView(v, w)
  BY <1>3, <1>5, <1>6 DEF SameRest
<1>8. QED BY <1>2, <1>7


-----------------------------------------------------------------------------
(* The execution of a scaler *)

\* A scaler's status y that a reconcile may write over x.
Extends(x, y) ==
    /\ ~isScaleFinished(x)
    /\ x.conds \subseteq y.conds
    /\ x.pods # {} => y.pods = x.pods

\* Of all scalers the world updates s at most, and from its newest version.
Records(w, s) ==
    /\ DOMAIN w.update \subseteq {s}
    /\ s \in DOMAIN w.update => s \notin w.stale /\ Extends(w.known[s], w.update[s])

Handles(w, s) == s \in DOMAIN w.known /\ ~isScaleFinished(w.known[s]) /\ Records(w, s)

\* The end of s is in the update, unless its version is too old to be written.
Ended(w, s) == s \in w.stale \/ (s \in DOMAIN w.update /\ isScaleFinished(w.update[s]))

\* Another reconcile will follow: this one returns an error, or its own changes
\* to the pods are delivered to the cache or are still to be.
Lasting(v, w) ==
    v.err # "none" \/ v.seen # w.seen \/ v.seen # v.pods \/ "apiError" \in Faults

\* The world w after some work on the scaler s.
ScaledFrom(v, w, s) ==
    /\ v \in Worlds /\ Handles(v, s)
    /\ v.configMap = w.configMap /\ v.known = w.known /\ v.stale = w.stale
    /\ v.st.conds = w.st.conds /\ v.st.restarts = w.st.restarts
    /\ \/ v.st.phase = w.st.phase /\ v.st.scaler = w.st.scaler /\ Lasting(v, w)
       \/ v.st.phase = "Running" /\ v.st.scaler = NoScaler /\ Ended(v, s)

AllScaled(S, w, s) == \A v \in S : ScaledFrom(v, w, s)

\* A world that can take a step on s.
Scaler(w, s) == CanScale(w) /\ Handles(w, s)

LEMMA ScalerTypes ==
  ASSUME NEW w, NEW s, Scaler(w, s)
  PROVE  /\ w \in Worlds /\ w.st \in JobStatus
         /\ s \in Scalers /\ w.known[s] \in ScalerStatus
  BY KnownTypes DEF Scaler, Handles, CanScale, Good, Worlds

\* What follows on a step that leaves the status and the scalers alone.
LEMMA ActsScaler ==
  ASSUME NEW w, NEW s, Scaler(w, s), NEW v, v \in Worlds, SameRest(v, w)
  PROVE  Scaler(v, s)
  BY DEF Scaler, Handles, Records, CanScale, Good, SameRest, SameStore

LEMMA ScaledTwice ==
  ASSUME NEW w, NEW s, NEW v, NEW S, SameRest(v, w), SameView(v, w), AllScaled(S, v, s)
  PROVE  AllScaled(S, w, s)
  BY DEF AllScaled, ScaledFrom, Lasting, SameRest, SameStore, SameView

LEMMA SaveScalerDoes ==
  ASSUME NEW w \in Worlds, NEW s \in Scalers, Handles(w, s),
         NEW x \in ScalerStatus, Extends(w.known[s], x)
  PROVE  LET v == SaveScaler(w, s, x)
         IN  /\ v \in Worlds /\ Handles(v, s)
             /\ v.st = w.st /\ v.configMap = w.configMap /\ v.known = w.known /\ v.stale = w.stale
             /\ v.seen = w.seen /\ v.pods = w.pods /\ v.err = w.err
             /\ isScaleFinished(x) => Ended(v, s)
<1> DEFINE m == [r \in {s} |-> x]
           v == SaveScaler(w, s, x)
<1>1. DOMAIN m = {s} /\ m[s] = x OBVIOUS
<1>2. v \in Worlds BY SaveScalerKeeps
<1>3. CASE s \in w.stale \/ w.known[s] = x
  <2>1. v = w BY <1>3 DEF SaveScaler
  <2>2. isScaleFinished(x) => s \in w.stale BY <1>3 DEF Handles
  <2>3. QED BY <1>2, <2>1, <2>2 DEF Ended
<1>4. CASE ~(s \in w.stale \/ w.known[s] = x)
  <2>1. v = [w EXCEPT !.update = m] BY <1>4 DEF SaveScaler
  <2> HIDE DEF m
  <2>2. /\ v.st = w.st /\ v.configMap = w.configMap /\ v.known = w.known /\ v.stale = w.stale
        /\ v.seen = w.seen /\ v.pods = w.pods /\ v.err = w.err /\ v.update = m
    BY <2>1 DEF Worlds
  <2> HIDE DEF v
  <2>3. Handles(v, s) BY <1>1, <1>4, <2>2 DEF Handles, Records
  <2>4. isScaleFinished(x) => Ended(v, s) BY <1>1, <2>2 DEF Ended
  <2>5. QED BY <1>2, <2>2, <2>3, <2>4 DEF v
<1>5. QED BY <1>3, <1>4

LEMMA FinishScalerDoes ==
  ASSUME NEW w, NEW s, Scaler(w, s), NEW x \in ScalerStatus, Extends(w.known[s], x),
         NEW c \in {"ScaleSucceeded", "ScaleFailed"}
  PROVE  LET v == FinishScaler(w, s, x, c)
         IN  /\ v \in Worlds /\ Handles(v, s)
             /\ v.configMap = w.configMap /\ v.known = w.known /\ v.stale = w.stale
             /\ v.st.conds = w.st.conds /\ v.st.restarts = w.st.restarts
             /\ v.st.phase = "Running" /\ v.st.scaler = NoScaler /\ Ended(v, s)
<1> DEFINE u == [w EXCEPT !.st.phase = "Running", !.st.scaler = NoScaler]
           y == [x EXCEPT !.conds = @ \cup {c}]
<1>1. w \in Worlds /\ w.st \in JobStatus /\ s \in Scalers BY ScalerTypes
<1>2. y \in ScalerStatus BY ExtendTypes DEF ScalerCondition
<1>3. Extends(w.known[s], y) /\ isScaleFinished(y) BY DEF Extends, isScaleFinished, ScalerStatus
<1>4. u \in Worlds BY StopScalingGood DEF Scaler, Good
<1>5. /\ u.configMap = w.configMap /\ u.known = w.known /\ u.stale = w.stale /\ u.update = w.update
      /\ u.st.conds = w.st.conds /\ u.st.restarts = w.st.restarts
      /\ u.st.phase = "Running" /\ u.st.scaler = NoScaler
  BY <1>1 DEF Worlds, JobStatus
<1>6. FinishScaler(w, s, x, c) = SaveScaler(u, s, y) BY DEF FinishScaler
<1> HIDE DEF u, y
<1>7. Handles(u, s) BY <1>5 DEF Scaler, Handles, Records
<1>8. QED BY <1>1, <1>2, <1>3, <1>4, <1>5, <1>6, <1>7, SaveScalerDoes

LEMMA FinishScalerScaled ==
  ASSUME NEW w, NEW s, Scaler(w, s), NEW x \in ScalerStatus, Extends(w.known[s], x),
         NEW c \in {"ScaleSucceeded", "ScaleFailed"}
  PROVE  ScaledFrom(FinishScaler(w, s, x, c), w, s)
  BY FinishScalerDoes DEF ScaledFrom

LEMMA ErrDoes ==
  ASSUME NEW w \in Worlds, NEW e \in {"none", "requeue", "error"}
  PROVE  LET v == [w EXCEPT !.err = e]
         IN  v \in Worlds /\ SameRest(v, w) /\ SameView(v, w) /\ v.err = e /\ v.pods = w.pods
  BY DEF Worlds, SameRest, SameStore, SameView

\* The scaler goes on, and so does its job.
LEMMA WaitScaled ==
  ASSUME NEW w, NEW s, Scaler(w, s), NEW x \in ScalerStatus, Extends(w.known[s], x),
         NEW v, v \in Worlds, SameRest(v, SaveScaler(w, s, x)), Lasting(v, w)
  PROVE  ScaledFrom(v, w, s)
<1> DEFINE u == SaveScaler(w, s, x)
<1>1. w \in Worlds /\ s \in Scalers BY ScalerTypes
<1>2. /\ Handles(u, s) /\ u.st = w.st /\ u.configMap = w.configMap
      /\ u.known = w.known /\ u.stale = w.stale
  BY <1>1, SaveScalerDoes DEF Scaler
<1> HIDE DEF u
<1>3. SameRest(v, u) BY DEF u
<1>4. Handles(v, s) BY <1>2, <1>3 DEF Handles, Records, SameRest, SameStore
<1>5. QED BY <1>2, <1>3, <1>4 DEF ScaledFrom, SameRest, SameStore


\* Without API errors a worker that the cache shows is deleted.
LEMMA DeletedAreGone ==
  ASSUME NEW w \in Worlds, NEW ws, "apiError" \notin Faults, NEW v \in DeleteWorkerPods(w, ws)
  PROVE  v.pods = Without(w.pods, ws \cap DOMAIN w.seen) /\ v.launcher = w.launcher
<1> DEFINE ps == Without(w.pods, ws \cap DOMAIN w.seen)
<1>1. Fault(w, "apiError") = {} BY DEF Fault
<1>2. v = [w EXCEPT !.pods = ps] BY <1>1 DEF DeleteWorkerPods
<1> HIDE DEF ps
<1>3. v.pods = ps /\ v.launcher = w.launcher BY <1>2 DEF Worlds
<1>4. QED BY <1>3 DEF ps

LEMMA WithoutDomain == ASSUME NEW ps, NEW ws PROVE DOMAIN Without(ps, ws) = DOMAIN ps \ ws
  BY DEF Without, Restrict

LEMMA CatchUpPods == ASSUME NEW w \in Worlds, NEW v \in CatchUp(w) PROVE v.pods = w.pods
  BY DEF CatchUp, Worlds

\* A worker that was to be deleted and is still shown will be seen to go.
LEMMA DeletionLasts ==
  ASSUME NEW w \in Worlds, NEW ws, NEW u \in DeleteWorkerPods(w, ws), NEW v \in CatchUp(u),
         ws \cap DOMAIN v.seen # {}
  PROVE  v.seen # w.seen \/ v.seen # v.pods \/ "apiError" \in Faults
<1> SUFFICES ASSUME "apiError" \notin Faults, v.seen = w.seen, v.seen = v.pods PROVE FALSE
  OBVIOUS
<1>1. u \in Worlds BY DeleteWorkerPodsActs DEF Acts
<1>2. v.pods = Without(w.pods, ws \cap DOMAIN w.seen) BY <1>1, DeletedAreGone, CatchUpPods
<1>3. DOMAIN v.pods = DOMAIN w.pods \ (ws \cap DOMAIN w.seen) BY <1>2, WithoutDomain
<1>4. PICK i \in ws : i \in DOMAIN v.seen OBVIOUS
<1>5. i \notin DOMAIN v.pods BY <1>3, <1>4
<1>6. QED BY <1>4, <1>5

LEMMA DeleteScaledInScaled ==
  ASSUME NEW w, NEW s, Scaler(w, s), NEW x \in ScalerStatus, Extends(w.known[s], x),
         NEW hosts \in SUBSET Worker, NEW down
  PROVE  AllScaled(DeleteScaledIn(w, s, x, hosts, down), w, s)
<1> DEFINE ws == IF x.pods = {} THEN Worker ELSE down
           Left == UNION {CatchUp(u) : u \in DeleteWorkerPods(w, ws)}
           Smaller(v) == [v EXCEPT !.st.target = FilterOut(@, x.pods), !.st.current = hosts]
           Wait(v) == [SaveScaler(v, s, x) EXCEPT !.err = IF down = x.pods THEN "none" ELSE "requeue"]
           Done(v) == FinishScaler(Smaller(v), s, x, "ScaleSucceeded")
<1>1. w \in Worlds /\ s \in Scalers BY ScalerTypes
<1>2. \A v \in Left : v \in Worlds /\ SameRest(v, w)
  BY <1>1, DeleteWorkerPodsActs, CatchUpRest DEF Acts, SameRest, SameStore
<1>3. \A v \in Left : Scaler(v, s) /\ v.known = w.known
  <2> HIDE DEF Left
  <2>1. QED BY <1>2, ActsScaler DEF SameRest, SameStore
<1>4. ASSUME NEW v \in Left PROVE ScaledFrom(Done(v), w, s)
  <2> DEFINE t == FilterOut(v.st.target, x.pods)
             u == [v EXCEPT !.st.target = t]
             z == [u EXCEPT !.st.current = hosts]
  <2>1. v \in Worlds /\ v.st \in JobStatus /\ v.st = w.st /\ Scaler(v, s)
    BY <1>2, <1>3, ScalerTypes DEF SameRest
  <2>2. t \in [Worker -> Nat] BY <2>1, AppendIsBag DEF JobStatus
  <2>3. Smaller(v) = z BY <2>1 DEF Worlds, JobStatus
  <2>4. SameProgress(z, v) /\ SameStore(z, v)
    BY <2>1 DEF Worlds, JobStatus, SameProgress, SameStore
  <2> HIDE DEF t
  <2>5. CanScale(u) BY <2>1, <2>2, TargetKeeps, CanScaleSameStage DEF Scaler, CanScale
  <2> HIDE DEF u
  <2>6. CanScale(z) BY <2>5, CurrentKeeps, CanScaleSameStage DEF CanScale
  <2> HIDE DEF z
  <2>7. Scaler(z, s) /\ z.known = w.known
    BY <1>3, <2>4, <2>6 DEF Scaler, Handles, Records, SameStore
  <2>8. Extends(z.known[s], x) BY <2>7
  <2>9. ScaledFrom(FinishScaler(z, s, x, "ScaleSucceeded"), z, s)
    BY <2>7, <2>8, FinishScalerScaled
  <2>10. QED
    <3>1. ScaledFrom(FinishScaler(z, s, x, "ScaleSucceeded"), w, s)
      <4>1. LET d == FinishScaler(z, s, x, "ScaleSucceeded")
            IN d.st.phase = "Running" /\ d.st.scaler = NoScaler /\ Ended(d, s)
        BY <2>7, <2>8, FinishScalerDoes
      <4>2. /\ z.configMap = w.configMap /\ z.known = w.known /\ z.stale = w.stale
            /\ z.st.conds = w.st.conds /\ z.st.restarts = w.st.restarts
        BY <1>2, <2>1, <2>4 DEF SameProgress, SameStore, SameRest
      <4>3. QED BY <2>9, <4>1, <4>2 DEF ScaledFrom
    <3>2. QED BY <2>3, <3>1
<1>5. ASSUME NEW v \in Left, x.pods \cap DOMAIN v.seen # {} PROVE ScaledFrom(Wait(v), w, s)
  <2> DEFINE d == SaveScaler(v, s, x)
             e == IF down = x.pods THEN "none" ELSE "requeue"
  <2>1. PICK u \in DeleteWorkerPods(w, ws) : v \in CatchUp(u) OBVIOUS
  <2>2. v \in Worlds /\ Scaler(v, s) /\ Extends(v.known[s], x) BY <1>2, <1>3
  <2>3. d \in Worlds /\ d.seen = v.seen /\ d.pods = v.pods
    BY <1>1, <2>2, SaveScalerDoes DEF Scaler
  <2>4. /\ Wait(v) \in Worlds /\ SameRest(Wait(v), d) /\ Wait(v).err = e
        /\ Wait(v).seen = v.seen /\ Wait(v).pods = v.pods
    <3> HIDE DEF d
    <3>1. [d EXCEPT !.err = e] \in Worlds /\ SameRest([d EXCEPT !.err = e], d)
          /\ [d EXCEPT !.err = e].err = e /\ SameView([d EXCEPT !.err = e], d)
          /\ [d EXCEPT !.err = e].pods = d.pods
      BY <2>3, ErrDoes
    <3>2. QED BY <2>3, <3>1 DEF SameView, d
  <2>5. Lasting(Wait(v), w)
    <3>1. CASE down # x.pods BY <2>4, <3>1 DEF Lasting
    <3>2. CASE down = x.pods
      <4>1. ws = x.pods BY <1>5, <3>2
      <4> HIDE DEF ws, Wait
      <4>2. v.seen # w.seen \/ v.seen # v.pods \/ "apiError" \in Faults
        BY <1>1, <1>5, <2>1, <4>1, DeletionLasts
      <4>3. QED BY <2>4, <4>2 DEF Lasting
    <3>3. QED BY <3>1, <3>2
  <2> HIDE DEF Wait
  <2>6. Handles(d, s) /\ d.st = w.st /\ d.configMap = w.configMap /\ d.known = w.known
        /\ d.stale = w.stale
    BY <1>1, <1>2, <2>2, SaveScalerDoes DEF Scaler, SameRest, SameStore
  <2> HIDE DEF d
  <2>7. Handles(Wait(v), s) BY <2>4, <2>6 DEF Handles, Records, SameRest, SameStore
  <2>8. QED BY <2>4, <2>5, <2>6, <2>7 DEF ScaledFrom, SameRest, SameStore
<1>6. DeleteScaledIn(w, s, x, hosts, down) =
        {IF x.pods \cap DOMAIN v.seen = {} THEN Done(v) ELSE Wait(v) : v \in Left}
  BY DEF DeleteScaledIn
<1> HIDE DEF Left, Done, Wait
<1>7. QED BY <1>4, <1>5, <1>6 DEF AllScaled


\* Work that leaves the status and the scalers alone does not matter to a scaling.
LEMMA ScalerActs ==
  ASSUME NEW w, NEW s, Scaler(w, s), NEW S, Acts(S, w)
  PROVE  \A v \in S : Scaler(v, s) /\ v.known = w.known /\ SameRest(v, w) /\ SameView(v, w)
  BY ActsScaler DEF Acts, SameRest, SameStore

LEMMA ExecutedExtends ==
  ASSUME NEW x \in ScalerStatus, NEW y \in ScalerStatus, Extends(y, x)
  PROVE  Executed(x) \in ScalerStatus /\ Extends(y, Executed(x))
<1>1. /\ Executed(x).conds = x.conds \cup {"ScriptExecuted"} /\ Executed(x).pods = x.pods
  BY DEF Executed, ScalerStatus
<1>2. QED BY <1>1, ExecutedTypes DEF Extends

\* An error of a step is that of the scaling.
LEMMA SaveErrScaled ==
  ASSUME NEW w, NEW s, Scaler(w, s), NEW x \in ScalerStatus, Extends(w.known[s], x),
         w.err # "none"
  PROVE  ScaledFrom(SaveScaler(w, s, x), w, s)
  BY ScalerTypes, SaveScalerDoes DEF Scaler, ScaledFrom, Lasting

\* The world v in which the scaling of s that began in w has ended.
Finished(v, w, s) ==
    /\ v \in Worlds /\ Handles(v, s)
    /\ v.configMap = w.configMap /\ v.known = w.known /\ v.stale = w.stale
    /\ v.st.conds = w.st.conds /\ v.st.restarts = w.st.restarts
    /\ v.st.phase = "Running" /\ v.st.scaler = NoScaler /\ Ended(v, s)

LEMMA FinishedScaled ==
  ASSUME NEW w, NEW v, NEW s, Finished(v, w, s) PROVE ScaledFrom(v, w, s)
  BY DEF Finished, ScaledFrom

LEMMA FinishedLater ==
  ASSUME NEW w, NEW v, NEW u \in Worlds, NEW s, Finished(v, w, s), SameRest(u, v)
  PROVE  Finished(u, w, s)
  BY DEF Finished, Handles, Records, Ended, SameRest, SameStore

LEMMA FinishedFrom ==
  ASSUME NEW w, NEW u, NEW v, NEW s, Finished(v, u, s),
         SameStore(u, w), u.st.conds = w.st.conds, u.st.restarts = w.st.restarts
  PROVE  Finished(v, w, s)
  BY DEF Finished, SameStore

LEMMA FinishScalerFinished ==
  ASSUME NEW w, NEW s, Scaler(w, s), NEW x \in ScalerStatus, Extends(w.known[s], x),
         NEW c \in {"ScaleSucceeded", "ScaleFailed"}
  PROVE  Finished(FinishScaler(w, s, x, c), w, s)
  BY FinishScalerDoes DEF Finished

LEMMA ErrScaler ==
  ASSUME NEW w, NEW s, Scaler(w, s), NEW e \in {"none", "requeue", "error"}
  PROVE  Scaler([w EXCEPT !.err = e], s) /\ SameRest([w EXCEPT !.err = e], w)
<1>1. w \in Worlds BY ScalerTypes
<1>2. [w EXCEPT !.err = e] \in Worlds /\ SameRest([w EXCEPT !.err = e], w) BY <1>1, ErrDoes
<1>3. QED BY <1>2, ActsScaler

LEMMA ScaleInWorkersScaled ==
  ASSUME NEW w, NEW s, Scaler(w, s), NEW x \in ScalerStatus, Extends(w.known[s], x)
  PROVE  AllScaled(ScaleInWorkers(w, s, x), w, s)
<1> DEFINE hosts   == w.st.current \ x.pods
           After(d) == IF d[1].err = "none" THEN DeleteScaledIn(d[1], s, Executed(x), hosts, d[2])
                                            ELSE {SaveScaler(d[1], s, Executed(x))}
           Wait(v) == UNION {After(d) : d \in checkWorkerShutdown(v, s, x.pods)}
           Fail(v) == FinishScaler([v EXCEPT !.err = "none"], s, x, "ScaleFailed")
           Ran     == executeScaleScript(w, s, x, hosts)
<1>1. /\ w \in Worlds /\ hosts \in SUBSET Worker
      /\ s \in Scalers /\ w.known[s] \in ScalerStatus
  BY ScalerTypes DEF JobStatus
<1>2. ScaleInWorkers(w, s, x) = UNION {IF v.err = "none" THEN Wait(v) ELSE {Fail(v)} : v \in Ran}
  BY DEF ScaleInWorkers
<1>3. Executed(x) \in ScalerStatus /\ Extends(w.known[s], Executed(x)) BY <1>1, ExecutedExtends
<1> HIDE DEF hosts
<1>4. \A v \in Ran : Scaler(v, s) /\ v.known = w.known /\ SameRest(v, w) /\ SameView(v, w)
  BY <1>1, executeScaleScriptActs, ScalerActs
<1> HIDE DEF Ran
<1>5. ASSUME NEW v \in Ran PROVE ScaledFrom(Fail(v), w, s)
  <2> DEFINE u == [v EXCEPT !.err = "none"]
  <2>1. Scaler(u, s) /\ SameRest(u, v) BY <1>4, ErrScaler
  <2> HIDE DEF u
  <2>2. Extends(u.known[s], x) /\ SameRest(u, w) BY <1>4, <2>1 DEF SameRest, SameStore
  <2>3. Finished(FinishScaler(u, s, x, "ScaleFailed"), u, s) BY <2>1, <2>2, FinishScalerFinished
  <2>4. Finished(FinishScaler(u, s, x, "ScaleFailed"), w, s)
    BY <2>2, <2>3, FinishedFrom DEF SameRest
  <2>5. QED BY <2>4, FinishedScaled DEF u
<1>6. ASSUME NEW v \in Ran PROVE AllScaled(Wait(v), w, s)
  <2> DEFINE Down == checkWorkerShutdown(v, s, x.pods)
             Of == {d[1] : d \in Down}
  <2>1. v \in Worlds BY <1>4, ScalerTypes
  <2>2. Acts(Of, v) BY <2>1, checkWorkerShutdownActs
  <2>3. \A u \in Of : Scaler(u, s) /\ u.known = v.known /\ SameRest(u, v) /\ SameView(u, v)
    <3> HIDE DEF Of
    <3>1. QED BY <1>4, <2>2, ScalerActs
  <2>4. ASSUME NEW d \in Down PROVE AllScaled(After(d), w, s)
    <3>1. d[1] \in Of OBVIOUS
    <3> HIDE DEF Of
    <3>2. /\ Scaler(d[1], s) /\ Extends(d[1].known[s], Executed(x))
          /\ SameRest(d[1], w) /\ SameView(d[1], w)
      BY <1>3, <1>4, <2>3, <3>1 DEF SameRest, SameStore, SameView
    <3>3. AllScaled(DeleteScaledIn(d[1], s, Executed(x), hosts, d[2]), d[1], s)
      BY <1>1, <1>3, <3>2, DeleteScaledInScaled
    <3>4. d[1].err # "none" => ScaledFrom(SaveScaler(d[1], s, Executed(x)), d[1], s)
      BY <1>3, <3>2, SaveErrScaled
    <3>5. AllScaled(After(d), d[1], s) BY <3>3, <3>4 DEF AllScaled
    <3> HIDE DEF After
    <3>6. QED BY <3>2, <3>5, ScaledTwice
  <2> HIDE DEF After, Down
  <2>5. QED BY <2>4 DEF AllScaled, Down
<1> HIDE DEF Wait, Fail
<1>7. QED BY <1>2, <1>5, <1>6 DEF AllScaled

LEMMA executeScaleInScaled ==
  ASSUME NEW w, NEW s, Scaler(w, s) PROVE AllScaled(executeScaleIn(w, s), w, s)
<1> DEFINE x == w.known[s]
           y == [x EXCEPT !.pods = setsSaleInToDelete(s, w)]
<1>1. w \in Worlds /\ s \in Scalers /\ x \in ScalerStatus BY ScalerTypes
<1>2. ~isScaleFinished(x) BY DEF Scaler, Handles
<1>3. DOMAIN w.seen \subseteq Worker BY <1>1, PodMapIs DEF Worlds, IsPodMap
<1>4. setsSaleInToDelete(s, w) \subseteq Worker BY <1>3 DEF setsSaleInToDelete, Highest
<1>5. y \in ScalerStatus BY <1>1, <1>4 DEF ScalerStatus
<1>6. Extends(x, x) /\ (x.pods = {} => Extends(x, y)) BY <1>1, <1>2 DEF Extends, ScalerStatus
<1>7. \/ executeScaleIn(w, s) = ScaleInWorkers(w, s, x)
      \/ x.pods = {} /\ executeScaleIn(w, s) = ScaleInWorkers(w, s, y)
      \/ executeScaleIn(w, s) = {FinishScaler(w, s, x, "ScaleFailed")}
  BY DEF executeScaleIn
<1> HIDE DEF y
<1>8. AllScaled(ScaleInWorkers(w, s, x), w, s) BY <1>1, <1>6, ScaleInWorkersScaled
<1>9. x.pods = {} => AllScaled(ScaleInWorkers(w, s, y), w, s)
  BY <1>5, <1>6, ScaleInWorkersScaled
<1>10. ScaledFrom(FinishScaler(w, s, x, "ScaleFailed"), w, s)
  BY <1>1, <1>6, FinishScalerScaled
<1> HIDE DEF x
<1>11. QED BY <1>7, <1>8, <1>9, <1>10 DEF AllScaled


LEMMA ScaleOutFailedScaled ==
  ASSUME NEW w, NEW s, Scaler(w, s), NEW x \in ScalerStatus, Extends(w.known[s], x),
         NEW err \in {"none", "requeue", "error"}
  PROVE  AllScaled(ScaleOutFailed(w, s, x, err), w, s)
<1> DEFINE End(v)  == FinishScaler(v, s, x, "ScaleFailed")
           Fail(v) == [End(v) EXCEPT !.err = err]
<1>1. w \in Worlds BY ScalerTypes
<1>2. \A v \in CatchUp(w) : v \in Worlds /\ SameRest(v, w) BY <1>1, CatchUpRest
<1>3. \A v \in CatchUp(w) : Scaler(v, s) /\ v.known = w.known
  BY <1>2, ActsScaler DEF SameRest, SameStore
<1>4. ASSUME NEW v \in CatchUp(w) PROVE Finished(End(v), w, s)
  <2>1. Finished(End(v), v, s) BY <1>3, FinishScalerFinished
  <2> HIDE DEF End
  <2>2. QED BY <1>2, <2>1, FinishedFrom DEF SameRest
<1> HIDE DEF End
<1>5. ASSUME NEW v \in CatchUp(w) PROVE Finished(Fail(v), w, s)
  <2>1. End(v) \in Worlds BY <1>4 DEF Finished
  <2>2. Fail(v) \in Worlds /\ SameRest(Fail(v), End(v)) BY <2>1, ErrDoes
  <2> HIDE DEF Fail
  <2>3. QED BY <1>4, <2>2, FinishedLater
<1>6. ScaleOutFailed(w, s, x, err) = UNION {DeleteWorkerPods(Fail(v), x.pods) : v \in CatchUp(w)}
  BY DEF ScaleOutFailed, End
<1> HIDE DEF Fail
<1>7. ASSUME NEW v \in CatchUp(w), NEW u \in DeleteWorkerPods(Fail(v), x.pods)
      PROVE  ScaledFrom(u, w, s)
  <2>1. Fail(v) \in Worlds BY <1>5 DEF Finished
  <2>2. u \in Worlds /\ SameRest(u, Fail(v)) BY <2>1, DeleteWorkerPodsActs DEF Acts
  <2>3. QED BY <1>5, <2>2, FinishedLater, FinishedScaled
<1>8. QED BY <1>6, <1>7 DEF AllScaled

LEMMA AwaitWorkersScaled ==
  ASSUME NEW w, NEW s, Scaler(w, s), NEW x \in ScalerStatus, Extends(w.known[s], x)
  PROVE  AllScaled(AwaitWorkers(w, s, x), w, s)
<1> DEFINE d == SaveScaler(w, s, x)
           v == [d EXCEPT !.err = "requeue"]
<1>1. w \in Worlds /\ s \in Scalers BY ScalerTypes
<1>2. d \in Worlds BY <1>1, SaveScalerKeeps
<1>3. v \in Worlds /\ SameRest(v, d) /\ v.err = "requeue"
  <2> HIDE DEF d
  <2>1. QED BY <1>2, ErrDoes
<1> HIDE DEF v
<1>4. Lasting(v, w) BY <1>3 DEF Lasting
<1>5. ScaledFrom(v, w, s) BY <1>3, <1>4, WaitScaled
<1>6. AllScaled(ScaleOutFailed(w, s, x, "requeue"), w, s) BY ScaleOutFailedScaled
<1>7. AwaitWorkers(w, s, x)
        = {v} \cup (IF "Scaling" \in x.conds THEN ScaleOutFailed(w, s, x, "requeue") ELSE {})
  BY DEF AwaitWorkers, v
<1>8. QED BY <1>5, <1>6, <1>7 DEF AllScaled

LEMMA AddWorkersScaled ==
  ASSUME NEW w, NEW s, Scaler(w, s), NEW x \in ScalerStatus, Extends(w.known[s], x)
  PROVE  AllScaled(AddWorkers(w, s, x), w, s)
<1> DEFINE t       == Append(w.st.target, x.pods)
           Full    == \E i \in Worker : t[i] > MaxCopies
           More(v) == [v EXCEPT !.st.target = t]
           Done(v) == FinishScaler(More(v), s, Executed(x), "ScaleSucceeded")
           After(v) == CASE v.err # "none" -> ScaleOutFailed(v, s, x, "error")
                         [] v.err = "none" /\ Full -> {}
                         [] OTHER -> {Done(v)}
           Ran     == executeScaleScript(w, s, x, w.st.current \cup x.pods)
<1>1. /\ w \in Worlds /\ w.st \in JobStatus
      /\ s \in Scalers /\ w.known[s] \in ScalerStatus
  BY ScalerTypes
<1>2. t \in [Worker -> Nat] BY <1>1, AppendIsBag DEF JobStatus
<1>3. w.st.current \cup x.pods \in SUBSET Worker BY <1>1 DEF JobStatus, ScalerStatus
<1>4. AddWorkers(w, s, x) = UNION {After(v) : v \in Ran} BY DEF AddWorkers
<1> HIDE DEF t, Full
<1>5. \A v \in Ran : Scaler(v, s) /\ v.known = w.known /\ SameRest(v, w) /\ SameView(v, w)
  BY <1>1, <1>3, executeScaleScriptActs, ScalerActs
<1> HIDE DEF Ran
<1>6. Executed(x) \in ScalerStatus /\ Extends(w.known[s], Executed(x)) BY <1>1, ExecutedExtends
<1>7. ASSUME NEW v \in Ran PROVE ScaledFrom(Done(v), w, s)
  <2>1. v \in Worlds /\ v.st \in JobStatus BY <1>5, ScalerTypes
  <2>2. SameProgress(More(v), v) /\ SameStore(More(v), v)
    BY <2>1 DEF Worlds, JobStatus, SameProgress, SameStore
  <2>3. CanScale(More(v)) BY <1>2, <1>5, TargetKeeps, CanScaleSameStage DEF Scaler, CanScale
  <2> HIDE DEF More
  <2>4. Scaler(More(v), s) BY <1>5, <2>2, <2>3 DEF Scaler, Handles, Records, SameStore
  <2>5. /\ SameStore(More(v), w) /\ Extends(More(v).known[s], Executed(x))
        /\ More(v).st.conds = w.st.conds /\ More(v).st.restarts = w.st.restarts
    BY <1>5, <1>6, <2>2 DEF SameStore, SameRest, SameProgress
  <2>6. Finished(Done(v), More(v), s) BY <1>6, <2>4, <2>5, FinishScalerFinished
  <2> HIDE DEF Done
  <2>7. QED BY <2>5, <2>6, FinishedFrom, FinishedScaled
<1> HIDE DEF More, Done
<1>8. ASSUME NEW v \in Ran PROVE AllScaled(After(v), w, s)
  <2>1. Extends(v.known[s], x) BY <1>5
  <2>2. AllScaled(ScaleOutFailed(v, s, x, "error"), w, s)
    <3>1. AllScaled(ScaleOutFailed(v, s, x, "error"), v, s)
      BY <1>5, <2>1, ScaleOutFailedScaled
    <3>2. QED BY <1>5, <3>1, ScaledTwice
  <2>3. QED BY <1>7, <2>2 DEF AllScaled
<1> HIDE DEF After
<1>9. QED BY <1>4, <1>8 DEF AllScaled

LEMMA ScaleOutWorkersScaled ==
  ASSUME NEW w, NEW s, Scaler(w, s), NEW x \in ScalerStatus, Extends(w.known[s], x)
  PROVE  AllScaled(ScaleOutWorkers(w, s, x), w, s)
<1> DEFINE Waits(v) == Cardinality(Active(v, s)) < ScalerSpec[s].count
           After(v) == CASE v.err # "none" -> ScaleOutFailed(v, s, x, "error")
                         [] v.err = "none" /\ Waits(v) -> AwaitWorkers(v, s, x)
                         [] OTHER -> AddWorkers(v, s, x)
           Made     == createWorkers(w, x.pods, s)
<1>1. ScaleOutWorkers(w, s, x) = UNION {After(v) : v \in Made} BY DEF ScaleOutWorkers
<1>2. w \in Worlds /\ s \in Scalers \cup {NoScaler} BY ScalerTypes
<1>3. \A v \in Made : Scaler(v, s) /\ v.known = w.known /\ SameRest(v, w) /\ SameView(v, w)
  BY <1>2, createWorkersActs, ScalerActs
<1> HIDE DEF Waits, Made
<1>4. ASSUME NEW v \in Made PROVE AllScaled(After(v), w, s)
  <2>1. Extends(v.known[s], x) BY <1>3
  <2>2. AllScaled(After(v), v, s)
    BY <1>3, <2>1, ScaleOutFailedScaled, AwaitWorkersScaled, AddWorkersScaled
  <2> HIDE DEF After
  <2>3. QED BY <1>3, <2>2, ScaledTwice
<1> HIDE DEF After
<1>5. QED BY <1>1, <1>4 DEF AllScaled

LEMMA executeScaleOutScaled ==
  ASSUME NEW w, NEW s, Scaler(w, s) PROVE AllScaled(executeScaleOut(w, s), w, s)
<1> DEFINE x == w.known[s]
           names == IF x.pods # {} THEN x.pods ELSE NextNames(w.st.target, ScalerSpec[s].count)
           y == [x EXCEPT !.pods = names]
           z == FinishScaler(w, s, x, "ScaleFailed")
<1>1. w \in Worlds /\ s \in Scalers /\ x \in ScalerStatus BY ScalerTypes
<1>2. executeScaleOut(w, s) = IF ScalerSpec[s].count <= 0 THEN {Error(z)}
                              ELSE ScaleOutWorkers(w, s, y)
  BY DEF executeScaleOut
<1>3. ~isScaleFinished(x) BY DEF Scaler, Handles
<1>4. y.pods = names /\ (names \subseteq Worker => y \in ScalerStatus) /\ Extends(x, y)
  BY <1>1, <1>3 DEF Extends, ScalerStatus
<1>5. Extends(x, x) BY <1>3 DEF Extends
<1> HIDE DEF x, y, names
<1>6. ScaledFrom(Error(z), w, s)
  <2>1. Finished(z, w, s) BY <1>1, <1>5, FinishScalerFinished DEF x
  <2> HIDE DEF z
  <2>2. z \in Worlds BY <2>1 DEF Finished
  <2>3. QED BY <2>1, <2>2, ErrorActs, FinishedLater, FinishedScaled
<1>7. CASE names \subseteq Worker
  BY <1>2, <1>4, <1>6, <1>7, ScaleOutWorkersScaled DEF AllScaled, x
<1>8. CASE ~(names \subseteq Worker)
  <2>1. createWorkers(w, y.pods, s) = {} BY <1>4, <1>8 DEF createWorkers
  <2>2. ScaleOutWorkers(w, s, y) = {} BY <2>1 DEF ScaleOutWorkers
  <2>3. QED BY <1>2, <1>6, <2>2 DEF AllScaled
<1>9. QED BY <1>7, <1>8

\* What the execution of a scaler leaves.
LEMMA ExecuteScalerDoes ==
  ASSUME NEW w, Good(w), w.st.scaler # NoScaler,
         isFinished(w.st) \/ "Running" \in w.st.conds, DOMAIN w.update = {}
  PROVE  \A v \in ExecuteScaler(w) :
           \/ isFinished(w.st) /\ v = w
           \/ ScaledFrom(v, w, w.st.scaler)
           \/ /\ v \in Worlds /\ SameStore(v, w)
              /\ v.st.conds = w.st.conds /\ v.st.restarts = w.st.restarts
              /\ v.st.phase = "Running" /\ v.st.scaler = NoScaler
              /\ w.st.scaler \in DOMAIN w.known => isScaleFinished(w.known[w.st.scaler])
<1> DEFINE s == w.st.scaler
           GivenUp == [w EXCEPT !.st.phase = "Running", !.st.scaler = NoScaler]
<1>1. CASE isFinished(w.st) BY <1>1 DEF ExecuteScaler
<1>2. CASE ~isFinished(w.st)
  <2>1. CanScale(w) /\ w \in Worlds /\ w.st \in JobStatus
    BY <1>2 DEF CanScale, isFinished, Unfinished, Good, Worlds
  <2>2. CASE s \notin DOMAIN w.known \/ isScaleFinished(w.known[s])
    <3>1. ExecuteScaler(w) = {GivenUp} BY <1>2, <2>2 DEF ExecuteScaler
    <3>2. GivenUp \in Worlds BY <2>1, StopScalingGood DEF Good
    <3>3. /\ SameStore(GivenUp, w)
          /\ GivenUp.st.conds = w.st.conds /\ GivenUp.st.restarts = w.st.restarts
          /\ GivenUp.st.phase = "Running" /\ GivenUp.st.scaler = NoScaler
      BY <2>1 DEF SameStore, Worlds, JobStatus
    <3> HIDE DEF GivenUp
    <3>4. QED BY <2>2, <3>1, <3>2, <3>3
  <2>3. CASE s \in DOMAIN w.known /\ ~isScaleFinished(w.known[s])
    <3>1. \/ ExecuteScaler(w) = executeScaleIn(w, s)
          \/ ExecuteScaler(w) = executeScaleOut(w, s)
      BY <1>2, <2>3 DEF ExecuteScaler
    <3>2. Scaler(w, s) BY <2>1, <2>3 DEF Scaler, Handles, Records
    <3>3. QED BY <3>1, <3>2, executeScaleInScaled, executeScaleOutScaled DEF AllScaled
  <2>4. QED BY <2>2, <2>3
<1>3. QED BY <1>1, <1>2



-----------------------------------------------------------------------------
(* What the handlers leave: the status, the ConfigMap and the scaler update. *)

SameScalers(v, w) == v.known = w.known /\ v.stale = w.stale /\ v.update = w.update

\* The status after a step whose condition is c: taken, or the job failed.
Took(new, st, c) ==
    /\ new.restarts = st.restarts /\ new.scaler = st.scaler
    /\ \/ new.phase = st.phase /\ new.conds = setCondition(st.conds, c)
       \/ new.phase = "Failed" /\ new.conds = setCondition(st.conds, "Failed")

LEMMA TookCondition ==
  ASSUME NEW st \in JobStatus, NEW c \in JobCondition
  PROVE  /\ Took(updateJobConditions(st, c), st, c)
         /\ updateJobConditions(st, c).current = st.current
         /\ Took(updateStatus(st, "Failed"), st, c) /\ updateStatus(st, "Failed").current = st.current
  BY DEF Took, updateStatus, updateJobConditions, JobStatus

\* A step that took its condition, or failed the job, in the world v.
LEMMA StepDoes ==
  ASSUME NEW v \in Worlds, NEW c \in JobCondition
  PROVE  LET u == IF v.err = "none" THEN [v EXCEPT !.st = updateJobConditions(v.st, c)] ELSE Failed(v)
         IN  SameStore(u, v) /\ SameView(u, v) /\ Took(u.st, v.st, c) /\ u.st.current = v.st.current
<1> DEFINE st == updateJobConditions(v.st, c)
<1>1. v.st \in JobStatus BY DEF Worlds
<1>2. Took(st, v.st, c) /\ st.current = v.st.current BY <1>1, TookCondition
<1>3. /\ Took(updateStatus(v.st, "Failed"), v.st, c)
      /\ updateStatus(v.st, "Failed").current = v.st.current
  BY <1>1, TookCondition
<1> HIDE DEF st
<1>4. /\ SameStore([v EXCEPT !.st = st], v) /\ SameView([v EXCEPT !.st = st], v)
      /\ [v EXCEPT !.st = st].st = st
  BY StatusStore
<1>5. SameStore(Failed(v), v) /\ SameView(Failed(v), v) /\ Failed(v).st = updateStatus(v.st, "Failed")
  BY FailedDoes
<1>6. QED BY <1>2, <1>3, <1>4, <1>5 DEF st

LEMMA createTrainingJobWorkersDoes ==
  ASSUME NEW w, Good(w)
  PROVE  \A v \in createTrainingJobWorkers(w) :
           /\ SameStore(v, w) /\ SameView(v, w)
           /\ Took(v.st, w.st, "WorkersCreated") /\ v.st.current = w.st.current
<1> DEFINE t == getJobReplicasWorkers(w.st.target)
           u == [w EXCEPT !.st.target = t]
           S == createWorkers(u, Members(t), NoScaler)
           Done(v) == IF v.err = "none" THEN [v EXCEPT !.st = updateJobConditions(v.st, "WorkersCreated")]
                      ELSE Failed(v)
<1>1. w \in Worlds /\ w.st \in JobStatus BY DEF Good, Worlds
<1>2. t \in [Worker -> Nat] BY <1>1 DEF getJobReplicasWorkers, BagOf, JobStatus
<1>3. createTrainingJobWorkers(w) = {Done(v) : v \in S} BY DEF createTrainingJobWorkers
<1> HIDE DEF t
<1>4. u \in Worlds BY <1>2, TargetKeeps DEF SameStage, Good
<1>5. /\ SameStore(u, w) /\ SameView(u, w) /\ SameProgress(u, w)
      /\ u.st.current = w.st.current
  BY <1>1 DEF Worlds, JobStatus, SameStore, SameView, SameProgress
<1> HIDE DEF u
<1>6. \A v \in S : v \in Worlds /\ SameRest(v, u) /\ SameView(v, u)
  BY <1>4, createWorkersActs DEF Acts
<1> HIDE DEF S
<1>7. ASSUME NEW v \in S
      PROVE  /\ SameStore(Done(v), w) /\ SameView(Done(v), w)
             /\ Took(Done(v).st, w.st, "WorkersCreated") /\ Done(v).st.current = w.st.current
  <2>1. /\ SameStore(Done(v), v) /\ SameView(Done(v), v)
        /\ Took(Done(v).st, v.st, "WorkersCreated") /\ Done(v).st.current = v.st.current
    BY <1>6, StepDoes DEF JobCondition
  <2>2. v.st.phase = w.st.phase /\ v.st.conds = w.st.conds /\ v.st.scaler = w.st.scaler
        /\ v.st.restarts = w.st.restarts /\ v.st.current = w.st.current
    BY <1>5, <1>6 DEF SameRest, SameProgress
  <2> HIDE DEF Done
  <2>3. Took(Done(v).st, w.st, "WorkersCreated") BY <2>1, <2>2 DEF Took
  <2>4. QED BY <1>5, <1>6, <2>1, <2>2, <2>3 DEF SameRest, SameStore, SameView
<1> HIDE DEF Done
<1>8. QED BY <1>3, <1>7

LEMMA waitWorkersRunningDoes ==
  ASSUME NEW w, Good(w)
  PROVE  \A v \in waitWorkersRunning(w) :
           /\ SameStore(v, w) /\ SameView(v, w)
           /\ v.st.phase = w.st.phase /\ v.st.scaler = w.st.scaler /\ v.st.restarts = w.st.restarts
           /\ \/ v.st.conds = w.st.conds
              \/ /\ v.st.conds = setCondition(w.st.conds, "WorkersReady")
                 /\ Cardinality(v.st.current) >= Replicas
<1> DEFINE Done(v) == [v EXCEPT !.st = updateJobConditions(v.st, "WorkersReady")]
           Ready(v) == v.err = "none" /\ Cardinality(v.st.current) >= Replicas
<1>1. \A v \in handleWorkersFailed(w) :
        Good(v) /\ SameProgress(v, w) /\ SameStore(v, w) /\ SameView(v, w)
  BY handleWorkersFailedDoes
<1>2. waitWorkersRunning(w) = {IF Ready(v) THEN Done(v) ELSE v : v \in handleWorkersFailed(w)}
  BY DEF waitWorkersRunning
<1>3. ASSUME NEW v \in handleWorkersFailed(w)
      PROVE  /\ SameStore(Done(v), w) /\ SameView(Done(v), w)
             /\ Done(v).st.phase = w.st.phase /\ Done(v).st.scaler = w.st.scaler
             /\ Done(v).st.restarts = w.st.restarts
             /\ Done(v).st.conds = setCondition(w.st.conds, "WorkersReady")
             /\ Done(v).st.current = v.st.current
  <2> DEFINE st == updateJobConditions(v.st, "WorkersReady")
  <2>1. v \in Worlds /\ v.st \in JobStatus BY <1>1 DEF Good, Worlds
  <2>2. /\ st.phase = v.st.phase /\ st.scaler = v.st.scaler /\ st.restarts = v.st.restarts
        /\ st.conds = setCondition(v.st.conds, "WorkersReady") /\ st.current = v.st.current
    BY <2>1 DEF updateJobConditions, JobStatus
  <2> HIDE DEF st
  <2>3. /\ SameStore([v EXCEPT !.st = st], v) /\ SameView([v EXCEPT !.st = st], v)
        /\ [v EXCEPT !.st = st].st = st
    BY <2>1, StatusStore
  <2>4. Done(v) = [v EXCEPT !.st = st] BY DEF st
  <2> HIDE DEF Done
  <2>5. QED BY <1>1, <2>2, <2>3, <2>4 DEF SameStore, SameView, SameProgress
<1> HIDE DEF Done
<1>4. ASSUME NEW v \in handleWorkersFailed(w)
      PROVE  /\ SameStore(v, w) /\ SameView(v, w) /\ v.st.conds = w.st.conds
             /\ v.st.phase = w.st.phase /\ v.st.scaler = w.st.scaler /\ v.st.restarts = w.st.restarts
  BY <1>1 DEF SameProgress
<1>5. QED BY <1>2, <1>3, <1>4

\* The hosts of the ConfigMap are those it has, or the workers of the status.
LEMMA createLauncherDoes ==
  ASSUME NEW w, Good(w)
  PROVE  \A v \in createLauncher(w) :
           /\ SameScalers(v, w) /\ SameView(v, w)
           /\ Took(v.st, w.st, "LauncherCreated") /\ v.st.current = w.st.current
           /\ v.configMap = w.configMap \/ v.configMap.hosts = w.st.current
<1> DEFINE GetOrCreate(v) == IF v.err = "none" /\ v.seenLauncher = "None"
                             THEN CreateLauncher(v) ELSE {v}
           Got == UNION {GetOrCreate(u) : u \in CreateHostConfigMap(w)}
           Done(v) == IF v.err = "none" THEN [v EXCEPT !.st = updateJobConditions(v.st, "LauncherCreated")]
                      ELSE Failed(v)
           Same(v) == /\ v \in Worlds /\ v.st = w.st /\ SameScalers(v, w) /\ SameView(v, w)
                      /\ v.configMap = w.configMap \/ v.configMap.hosts = w.st.current
<1>1. w \in Worlds BY DEF Good
<1>2. \A u \in CreateHostConfigMap(w) : Same(u)
  <2> DEFINE m == [made |-> TRUE, hosts |-> w.st.current]
             Made == [w EXCEPT !.configMap = m]
  <2>1. Same(Made)
    <3>1. Keeps(CreateHostConfigMap(w), w) BY <1>1, CreateHostConfigMapKeeps
    <3>2. m \in ConfigMap BY <1>1 DEF ConfigMap, Worlds, JobStatus
    <3>3. m.hosts = w.st.current OBVIOUS
    <3> HIDE DEF m
    <3>4. QED BY <1>1, <3>2, <3>3 DEF SameScalers, SameView, Worlds
  <2>2. \A v \in Fault(w, "apiError") : v \in Worlds /\ SameRest(v, w) /\ SameView(v, w)
    BY <1>1, FaultActs DEF Acts
  <2>3. \A v \in Fault(w, "apiError") :
          Error(v) \in Worlds /\ SameRest(Error(v), v) /\ SameView(Error(v), v)
    BY <2>2, ErrorActs
  <2>4. \A v \in Fault(w, "apiError") : Same(Error(v))
    BY <2>2, <2>3 DEF SameRest, SameStore, SameView, SameScalers
  <2>5. Same(w) BY <1>1 DEF SameScalers, SameView
  <2>6. CreateHostConfigMap(w) = IF w.configMap.made THEN {w}
                                 ELSE {Made} \cup {Error(v) : v \in Fault(w, "apiError")}
    BY DEF CreateHostConfigMap
  <2> HIDE DEF Same, Made
  <2>7. QED BY <2>1, <2>4, <2>5, <2>6
<1>3. ASSUME NEW u, Same(u), NEW v \in GetOrCreate(u) PROVE Same(v)
  <2>1. v = u \/ (v \in Worlds /\ SameRest(v, u) /\ SameView(v, u))
    BY <1>3, CreateLauncherActs DEF Acts
  <2>2. QED BY <1>3, <2>1 DEF SameRest, SameStore, SameView, SameScalers
<1>4. \A v \in Got : Same(v)
  <2> HIDE DEF GetOrCreate, Same
  <2>1. QED BY <1>2, <1>3
<1>5. createLauncher(w) = {Done(v) : v \in Got} BY DEF createLauncher
<1> HIDE DEF Got
<1>6. ASSUME NEW v \in Got
      PROVE  /\ SameScalers(Done(v), w) /\ SameView(Done(v), w)
             /\ Took(Done(v).st, w.st, "LauncherCreated") /\ Done(v).st.current = w.st.current
             /\ Done(v).configMap = w.configMap \/ Done(v).configMap.hosts = w.st.current
  <2>1. /\ SameStore(Done(v), v) /\ SameView(Done(v), v)
        /\ Took(Done(v).st, v.st, "LauncherCreated") /\ Done(v).st.current = v.st.current
    BY <1>4, StepDoes DEF JobCondition
  <2> HIDE DEF Done
  <2>2. QED BY <1>4, <2>1 DEF SameStore, SameView, SameScalers
<1> HIDE DEF Done
<1>7. QED BY <1>5, <1>6


LEMMA SyncedDoes ==
  ASSUME NEW st \in JobStatus, NEW new, Synced(new, st)
  PROVE  /\ new.restarts = st.restarts /\ new.scaler = st.scaler /\ new.current = st.current
         /\ new = st \/ \E c \in {"Running", "Succeeded", "Failed"} :
                           new.phase = c /\ new.conds = setCondition(st.conds, c)
  BY DEF Synced, updateStatus, updateJobConditions, JobStatus

LEMMA doStepsDoes ==
  ASSUME NEW w, Good(w)
  PROVE  \A v \in doSteps(w) :
           /\ SameScalers(v, w) /\ SameView(v, w)
           /\ v.st.restarts = w.st.restarts /\ v.st.scaler = w.st.scaler
<1>1. w \in Worlds /\ w.st \in JobStatus BY DEF Good, Worlds
<1>2. \A v : SameStore(v, w) => SameScalers(v, w) BY DEF SameStore, SameScalers
<1>3. CASE "WorkersCreated" \notin w.st.conds
  BY <1>2, <1>3, createTrainingJobWorkersDoes DEF doSteps, Took
<1>4. CASE "WorkersCreated" \in w.st.conds /\ "WorkersReady" \notin w.st.conds
  BY <1>2, <1>4, waitWorkersRunningDoes DEF doSteps
<1>5. CASE /\ {"WorkersCreated", "WorkersReady"} \subseteq w.st.conds
           /\ "LauncherCreated" \notin w.st.conds
  BY <1>5, createLauncherDoes DEF doSteps, Took
<1>6. CASE /\ {"WorkersCreated", "WorkersReady", "LauncherCreated"} \subseteq w.st.conds
           /\ "Running" \notin w.st.conds
  BY <1>1, <1>2, <1>6, syncLauncherStateDoes, SyncedDoes DEF doSteps
<1>7. CASE {"WorkersCreated", "WorkersReady", "LauncherCreated", "Running"} \subseteq w.st.conds
  BY <1>7 DEF doSteps, SameScalers, SameView
<1>8. QED BY <1>3, <1>4, <1>5, <1>6, <1>7

LEMMA initializeJobDoes ==
  ASSUME NEW w \in Worlds
  PROVE  /\ SameStore(initializeJob(w), w) /\ SameView(initializeJob(w), w)
         /\ initializeJob(w).st.restarts = w.st.restarts
         /\ initializeJob(w).st.scaler = w.st.scaler
         /\ initializeJob(w).st.current = w.st.current
         /\ IF w.st.conds = {}
            THEN initializeJob(w).st.phase = "Created" /\ initializeJob(w).st.conds = {"Created"}
            ELSE initializeJob(w) = w
<1> DEFINE st == updateStatus(w.st, "Created")
<1>1. w.st \in JobStatus BY DEF Worlds
<1>2. /\ st.restarts = w.st.restarts /\ st.scaler = w.st.scaler /\ st.current = w.st.current
      /\ st.phase = "Created" /\ st.conds = setCondition(w.st.conds, "Created")
  BY <1>1 DEF updateStatus, updateJobConditions, JobStatus
<1>3. setCondition({}, "Created") = {"Created"} BY DEF setCondition
<1>4. initializeJob(w) = IF w.st.conds = {} THEN [w EXCEPT !.st = st] ELSE w BY DEF initializeJob
<1> HIDE DEF st
<1>5. /\ SameStore([w EXCEPT !.st = st], w) /\ SameView([w EXCEPT !.st = st], w)
      /\ [w EXCEPT !.st = st].st = st
  BY StatusStore
<1>6. QED BY <1>2, <1>3, <1>4, <1>5 DEF SameStore, SameView

\* The update of v, if any, may be written over the newest version of its scaler.
Saves(v, w) ==
    /\ v.known = w.known /\ v.stale = w.stale
    /\ \A s \in DOMAIN v.update :
         s \in DOMAIN v.known /\ s \notin v.stale /\ Extends(v.known[s], v.update[s])

LEMMA SavesNothing ==
  ASSUME NEW w, NEW v, SameScalers(v, w), DOMAIN w.update = {} PROVE Saves(v, w)
  BY DEF SameScalers, Saves

LEMMA resetJobStatusIs ==
  ASSUME NEW st \in JobStatus
  PROVE  /\ resetJobStatus(st).phase = "Created" /\ resetJobStatus(st).conds = {"Created"}
         /\ resetJobStatus(st).restarts = st.restarts + 1
         /\ resetJobStatus(st).scaler = st.scaler
  BY DEF resetJobStatus, updateStatus, updateJobConditions, setCondition, NewJob, JobStatus

\* The restart of a job takes the first step of a new one.
LEMMA restartJobDoes ==
  ASSUME NEW w, Good(w), needRestartJob(w.st)
  PROVE  \A v \in restartJob(w) : \E d : /\ Good(d) /\ SameStore(d, w)
                                         /\ d.st = resetJobStatus(w.st) /\ Unfinished(d.st)
                                         /\ v \in doSteps(d)
<1> DEFINE st == resetJobStatus(w.st)
           u  == [w EXCEPT !.st = st]
           Deleted == UNION {DeleteLauncher(d) : d \in DeleteAllWorkerPods(u)}
           Shown   == UNION {CatchUp(d) : d \in Deleted}
<1>1. w \in Worlds /\ w.st \in JobStatus /\ Consistent(w.st) BY DEF Good, Worlds
<1>2. restartJob(w) = UNION {doSteps(v) : v \in Shown} BY DEF restartJob
<1>3. st \in JobStatus /\ Consistent(st) /\ Unfinished(st) BY <1>1, resetJobStatusConsistent
<1> HIDE DEF st
<1>4. u \in Worlds /\ Good(u) /\ u.st = st /\ SameStore(u, w)
  BY <1>1, <1>3, StatusGood, StatusKeeps, StatusStore
<1> HIDE DEF u
<1>5. \A d \in DeleteAllWorkerPods(u) : d \in Worlds /\ SameRest(d, u)
  BY <1>4, DeleteAllWorkerPodsActs DEF Acts
<1>6. ASSUME NEW d \in Deleted PROVE d \in Worlds /\ SameRest(d, u)
  BY <1>5, DeleteLauncherActs DEF Acts, SameRest, SameStore
<1> HIDE DEF Deleted
<1>7. ASSUME NEW d \in Shown PROVE d \in Worlds /\ SameRest(d, u)
  BY <1>6, CatchUpRest DEF SameRest, SameStore
<1> HIDE DEF Shown
<1>8. \A d \in Shown : Good(d) /\ SameStore(d, w) /\ d.st = st /\ Unfinished(d.st)
  BY <1>3, <1>4, <1>7 DEF Good, SameRest, SameStore
<1>9. QED BY <1>2, <1>8 DEF st

LEMMA restartJobSaves ==
  ASSUME NEW w, Good(w), DOMAIN w.update = {}
  PROVE  \A v \in restartJob(w) : Saves(v, w)
<1>1. w \in Worlds BY DEF Good
<1>2. CASE ~needRestartJob(w.st)
  <2>1. restartJob(w) = cleanup(w) BY <1>2 DEF restartJob
  <2>2. \A v \in cleanup(w) : SameRest(v, w) BY <1>1, cleanupActs DEF Acts
  <2>3. QED BY <2>1, <2>2, SavesNothing DEF SameRest, SameStore, SameScalers
<1>3. CASE needRestartJob(w.st)
  <2>1. ASSUME NEW d, Good(d), SameStore(d, w), NEW v \in doSteps(d) PROVE SameScalers(v, w)
    BY <2>1, doStepsDoes DEF SameStore, SameScalers
  <2>2. QED BY <1>3, <2>1, restartJobDoes, SavesNothing
<1>4. QED BY <1>2, <1>3

\* A scaler of the cache is taken up, or there is none to take up.
LEMMA setTrainingJobScalerDoes ==
  ASSUME NEW w, CanScale(w), DOMAIN w.update = {}
  PROVE  \A v \in setTrainingJobScaler(w) :
           /\ Saves(v, w) /\ v.configMap = w.configMap
           /\ v.st.conds = w.st.conds /\ v.st.restarts = w.st.restarts
           /\ \/ v = w /\ availableScalers(w) = {}
              \/ /\ v.st.phase = "Scaling"
                 /\ v.st.scaler \in latestScalers(availableScalers(w))
<1>1. w \in Worlds /\ w.st \in JobStatus BY DEF CanScale, Good, Worlds
<1>2. ASSUME NEW s \in latestScalers(availableScalers(w))
      PROVE  LET v == StartScaler(w, s)
             IN  /\ Saves(v, w) /\ v.configMap = w.configMap
                 /\ v.st.conds = w.st.conds /\ v.st.restarts = w.st.restarts
                 /\ v.st.phase = "Scaling" /\ v.st.scaler = s
  <2> DEFINE u == [w EXCEPT !.st.phase = "Scaling", !.st.scaler = s]
             y == [w.known[s] EXCEPT !.conds = @ \cup {"Scaling"}]
  <2>1. s \in DOMAIN w.known /\ ~isScaleFinished(w.known[s])
    BY DEF latestScalers, availableScalers
  <2>2. s \in Scalers /\ w.known[s] \in ScalerStatus BY <1>1, <2>1, KnownTypes DEF Worlds
  <2>3. y \in ScalerStatus /\ Extends(w.known[s], y)
    <3>1. y.conds = w.known[s].conds \cup {"Scaling"} /\ y.pods = w.known[s].pods
      BY <2>2 DEF ScalerStatus
    <3>2. y \in ScalerStatus BY <2>2, ExtendTypes DEF ScalerCondition
    <3> HIDE DEF y
    <3>3. QED BY <2>1, <3>1, <3>2 DEF Extends
  <2>4. u \in Worlds
    <3> DEFINE st == [w.st EXCEPT !.phase = "Scaling", !.scaler = s]
    <3>1. st \in JobStatus BY <1>1, <2>2 DEF JobStatus, Phase
    <3>2. u = [w EXCEPT !.st = st] BY <1>1 DEF Worlds, JobStatus
    <3> HIDE DEF st, u
    <3>3. QED BY <1>1, <3>1, <3>2, StatusKeeps
  <2>5. /\ SameStore(u, w) /\ u.st.conds = w.st.conds /\ u.st.restarts = w.st.restarts
        /\ u.st.phase = "Scaling" /\ u.st.scaler = s
    BY <1>1 DEF Worlds, JobStatus, SameStore
  <2>6. StartScaler(w, s) = SaveScaler(u, s, y) BY DEF StartScaler
  <2> HIDE DEF u, y
  <2>7. Handles(u, s) BY <2>1, <2>5 DEF Handles, Records, SameStore
  <2>8. /\ Handles(SaveScaler(u, s, y), s) /\ SaveScaler(u, s, y).st = u.st
        /\ SaveScaler(u, s, y).configMap = u.configMap
        /\ SaveScaler(u, s, y).known = u.known /\ SaveScaler(u, s, y).stale = u.stale
    BY <2>2, <2>3, <2>4, <2>5, <2>7, SaveScalerDoes DEF SameStore
  <2>9. Saves(StartScaler(w, s), w)
    BY <2>5, <2>6, <2>8 DEF Handles, Records, Saves, SameStore
  <2>10. QED BY <2>5, <2>6, <2>8, <2>9 DEF SameStore
<1>3. Saves(w, w) BY DEF Saves
<1>4. QED BY <1>2, <1>3 DEF setTrainingJobScaler

LEMMA ScaledSaves ==
  ASSUME NEW w, NEW v, NEW s, ScaledFrom(v, w, s) PROVE Saves(v, w)
  BY DEF ScaledFrom, Handles, Records, Saves


LEMMA SyncedConditions ==
  ASSUME NEW st \in JobStatus, NEW new, Synced(new, st), "LauncherCreated" \in st.conds
  PROVE  "LauncherCreated" \in new.conds
  BY SyncedDoes DEF setCondition

LEMMA reconcileJobRunningDoes ==
  ASSUME NEW w, Good(w), w.st.phase = "Running", DOMAIN w.update = {}
  PROVE  \A v \in reconcileJobRunning(w) :
           /\ Saves(v, w) /\ v.configMap = w.configMap
           /\ v.st.restarts = w.st.restarts
           /\ v.st.phase \in {"Running", "Scaling", "Succeeded", "Failed"}
           /\ "LauncherCreated" \in v.st.conds
<1> DEFINE Looked == UNION {handleWorkersFailed(u) : u \in syncLauncherState(w)}
           Fine(v) == /\ Good(v) /\ SameStore(v, w) /\ v.st.restarts = w.st.restarts
                      /\ v.st.phase \in {"Running", "Succeeded", "Failed"}
                      /\ "LauncherCreated" \in v.st.conds
<1>1. /\ w \in Worlds /\ w.st \in JobStatus
      /\ Unfinished(w.st) /\ "LauncherCreated" \in w.st.conds
  BY LivePhaseIsUnfinished DEF Good, Worlds, Consistent, StepOrder
<1>2. \A u \in syncLauncherState(w) : Good(u) BY <1>1, syncLauncherStateGood
<1>3. \A u \in syncLauncherState(w) : Fine(u)
  BY <1>1, <1>2, syncLauncherStateDoes, SyncedDoes, SyncedConditions
<1>4. ASSUME NEW u, Fine(u), NEW v \in handleWorkersFailed(u) PROVE Fine(v)
  BY <1>4, handleWorkersFailedDoes DEF SameProgress, SameStore
<1>5. \A v \in Looked : Fine(v)
  <2> HIDE DEF Fine
  <2>1. QED BY <1>3, <1>4
<1> HIDE DEF Looked
<1>6. ASSUME NEW v \in Looked, v.st.phase = "Running", NEW x \in setTrainingJobScaler(v)
      PROVE  /\ Saves(x, w) /\ x.configMap = w.configMap /\ x.st.restarts = w.st.restarts
             /\ x.st.phase \in {"Running", "Scaling"} /\ "LauncherCreated" \in x.st.conds
  <2>1. CanScale(v)
    BY <1>5, <1>6, LivePhaseIsUnfinished DEF CanScale, Good, Consistent, StepOrder
  <2>2. SameStore(v, w) /\ v.st.restarts = w.st.restarts /\ "LauncherCreated" \in v.st.conds
    BY <1>5
  <2>3. DOMAIN v.update = {} BY <2>2 DEF SameStore
  <2>4. /\ Saves(x, v) /\ x.configMap = v.configMap
        /\ x.st.conds = v.st.conds /\ x.st.restarts = v.st.restarts
        /\ x.st.phase \in {"Running", "Scaling"}
    BY <1>6, <2>1, <2>3, setTrainingJobScalerDoes
  <2>5. QED BY <2>2, <2>4 DEF Saves, SameStore
<1>7. ASSUME NEW v \in Looked
      PROVE  /\ Saves(v, w) /\ v.configMap = w.configMap /\ v.st.restarts = w.st.restarts
             /\ v.st.phase \in {"Running", "Succeeded", "Failed"}
             /\ "LauncherCreated" \in v.st.conds
  BY <1>5 DEF Saves, SameStore
<1>8. reconcileJobRunning(w) =
        UNION {IF v.err = "none" /\ v.st.phase = "Running" THEN setTrainingJobScaler(v) ELSE {v} :
                 v \in Looked}
  BY DEF reconcileJobRunning, Looked
<1> HIDE DEF Fine
<1>9. QED BY <1>6, <1>7, <1>8

LEMMA executeScalingDoes ==
  ASSUME NEW w, Good(w), w.st.phase = "Scaling", DOMAIN w.update = {}
  PROVE  \A v \in executeScaling(w) :
           /\ Saves(v, w) /\ v.configMap = w.configMap
           /\ v.st.restarts = w.st.restarts
           /\ v.st.phase \in {"Running", "Scaling", "Succeeded", "Failed"}
           /\ "LauncherCreated" \in v.st.conds
<1>1. /\ w \in Worlds /\ w.st \in JobStatus
      /\ Unfinished(w.st) /\ {"Running", "LauncherCreated"} \subseteq w.st.conds
      /\ w.st.scaler # NoScaler
  BY LivePhaseIsUnfinished DEF Good, Worlds, Consistent, StepOrder, ScalingHasScaler
<1>2. ASSUME NEW u \in syncLauncherState(w)
      PROVE  /\ Good(u) /\ u.st.scaler # NoScaler
             /\ isFinished(u.st) \/ "Running" \in u.st.conds
             /\ SameStore(u, w) /\ DOMAIN u.update = {}
             /\ u.st.restarts = w.st.restarts /\ "LauncherCreated" \in u.st.conds
             /\ u.st.phase \in {"Running", "Scaling", "Succeeded", "Failed"}
  <2>1. /\ Good(u) /\ u.st.scaler = w.st.scaler
        /\ u.st = w.st \/ isFinished(u.st)
    BY <1>1, syncLauncherStateGood
  <2>2. Synced(u.st, w.st) /\ SameStore(u, w) BY <1>1, syncLauncherStateDoes
  <2>3. u.st.restarts = w.st.restarts /\ "LauncherCreated" \in u.st.conds
    BY <1>1, <2>2, SyncedDoes, SyncedConditions
  <2>4. u.st.phase \in {"Running", "Scaling", "Succeeded", "Failed"} BY <1>1, <2>2, SyncedDoes
  <2>5. QED BY <1>1, <2>1, <2>2, <2>3, <2>4 DEF SameStore
<1>3. ASSUME NEW u \in syncLauncherState(w), NEW v \in ExecuteScaler(u)
      PROVE  /\ Saves(v, w) /\ v.configMap = w.configMap /\ v.st.restarts = w.st.restarts
             /\ v.st.phase \in {"Running", "Scaling", "Succeeded", "Failed"}
             /\ "LauncherCreated" \in v.st.conds
  <2>1. \/ isFinished(u.st) /\ v = u
        \/ ScaledFrom(v, u, u.st.scaler)
        \/ /\ v \in Worlds /\ SameStore(v, u)
           /\ v.st.conds = u.st.conds /\ v.st.restarts = u.st.restarts
           /\ v.st.phase = "Running" /\ v.st.scaler = NoScaler
    BY <1>2, <1>3, ExecuteScalerDoes
  <2>2. Saves(v, u) /\ v.configMap = u.configMap /\ v.st.restarts = u.st.restarts
        /\ v.st.conds = u.st.conds /\ v.st.phase \in {u.st.phase, "Running"}
    <3>1. CASE v = u BY <1>2, <3>1 DEF Saves
    <3>2. CASE ScaledFrom(v, u, u.st.scaler) BY <3>2, ScaledSaves DEF ScaledFrom
    <3>3. CASE SameStore(v, u) /\ v.st.conds = u.st.conds /\ v.st.restarts = u.st.restarts
               /\ v.st.phase = "Running"
      BY <1>2, <3>3 DEF SameStore, Saves
    <3>4. QED BY <2>1, <3>1, <3>2, <3>3
  <2>3. QED BY <1>2, <2>2 DEF Saves, SameStore
<1>4. QED BY <1>3 DEF executeScaling

\* Every handler leaves a good world, whose update can be written.
LEMMA HandleLeaves ==
  ASSUME IInv, Handle
  PROVE  \E w : Good(w) /\ Saves(w, Observed) /\ Leave(w)
<1> DEFINE o == Observed
           Fine(S) == \A w \in S : Good(w) /\ Saves(w, o)
<1>1. /\ Good(o) /\ o \in Worlds /\ o.st = mine /\ DOMAIN o.update = {}
  BY ObservedGood DEF Observed, EmptyMap, Good
<1> HIDE DEF o
<1>2. ASSUME NEW v, SameStore(v, o) \/ SameScalers(v, o) PROVE Saves(v, o)
  BY <1>1, <1>2 DEF SameStore, SameScalers, Saves
<1>3. ASSUME HandleCreated PROVE Fine(doSteps(initializeJob(o)))
  <2>1. Good(initializeJob(o)) /\ Unfinished(initializeJob(o).st)
    BY <1>1, <1>3, initializeJobGood DEF HandleCreated, AtHandler
  <2>2. SameStore(initializeJob(o), o) BY <1>1, initializeJobDoes
  <2>3. \A v \in doSteps(initializeJob(o)) : SameScalers(v, o)
    BY <2>1, <2>2, doStepsDoes DEF SameStore, SameScalers
  <2>4. QED BY <1>2, <2>1, <2>3, doStepsGood DEF AllGood
<1>4. ASSUME HandleRunning PROVE Fine(reconcileJobRunning(o))
  BY <1>1, <1>4, reconcileJobRunningGood, reconcileJobRunningDoes
  DEF HandleRunning, AtHandler, AllGood
<1>5. ASSUME HandleScaling PROVE Fine(executeScaling(o))
  BY <1>1, <1>5, executeScalingGood, executeScalingDoes DEF HandleScaling, AtHandler, AllGood
<1>6. Fine(cleanup(o))
  BY <1>1, <1>2, cleanupActs DEF Acts, Good, SameRest
<1>7. Fine(restartJob(o)) BY <1>1, restartJobGood, restartJobSaves DEF AllGood
<1>8. Fine(cleanupAll(o)) BY <1>1, <1>2, cleanupAllActs DEF Acts, Good, SameRest
<1>9. \/ HandleCreated /\ \E w \in doSteps(initializeJob(o)) : Leave(w)
      \/ HandleRunning /\ \E w \in reconcileJobRunning(o) : Leave(w)
      \/ HandleScaling /\ \E w \in executeScaling(o) : Leave(w)
      \/ \E w \in cleanup(o) : Leave(w)
      \/ \E w \in restartJob(o) : Leave(w)
      \/ \E w \in cleanupAll(o) : Leave(w)
  BY DEF Handle, HandleCreated, HandleRunning, HandleScaling, HandleSucceeded, HandleFailed,
     HandleSuspended, o
<1>10. QED BY <1>3, <1>4, <1>5, <1>6, <1>7, <1>8, <1>9 DEF o



-----------------------------------------------------------------------------
(* The caches. An informer without undelivered events shows what the API      *)
(* server has: what the reconcile reads is then the newest version.           *)

ScalerAgrees(s) ==
    /\ s \in DOMAIN scalerCache <=> s \in DOMAIN scalers
    /\ s \in DOMAIN scalers => scalerCache[s] = scalers[s]

CachesAgree ==
    /\ "job" \notin lag => jobCache = job
    /\ "pods" \notin lag => podCache = pods /\ launcherCache = launcher
    /\ \A s \in Scalers \ lag : ScalerAgrees(s)

LEMMA DeliveredIs ==
  ASSUME NEW s, NEW m, NEW r
  PROVE  /\ r \in DOMAIN Delivered(s, m) <=> IF r = s THEN s \in DOMAIN m ELSE r \in DOMAIN scalerCache
         /\ r \in DOMAIN Delivered(s, m) =>
              Delivered(s, m)[r] = IF r = s THEN m[s] ELSE scalerCache[r]
  BY DEF Delivered

LEMMA ScalerChangedAgrees ==
  ASSUME CachesAgree, NEW s \in Scalers, ScalerChanged(s),
         UNCHANGED <<job, pods, launcher>>,
         \A r \in Scalers \ {s} : /\ r \in DOMAIN scalers' <=> r \in DOMAIN scalers
                                  /\ r \in DOMAIN scalers => scalers'[r] = scalers[r]
  PROVE  CachesAgree'
<1>1. s # "job" /\ s # "pods" BY ClusterAssumption
<1>2. /\ lag' = lag \cup ({s} \cap Lagging)
      /\ scalerCache' = IF s \in Lagging THEN scalerCache ELSE Delivered(s, scalers')
      /\ UNCHANGED <<jobCache, podCache, launcherCache>>
  BY DEF ScalerChanged, Publish
<1>3. ASSUME NEW r \in Scalers \ lag' PROVE ScalerAgrees(r)'
  <2>1. r \notin lag /\ ScalerAgrees(r) BY <1>2, <1>3 DEF CachesAgree
  <2>2. CASE s \in Lagging
    <3>1. r # s BY <1>2, <1>3, <2>2
    <3>2. QED BY <1>2, <2>1, <2>2, <3>1 DEF ScalerAgrees
  <2>3. CASE s \notin Lagging
    <3>1. scalerCache' = Delivered(s, scalers') BY <1>2, <2>3
    <3>2. CASE r = s BY <3>1, <3>2, DeliveredIs DEF ScalerAgrees
    <3>3. CASE r # s
      <4>1. /\ r \in DOMAIN scalerCache' <=> r \in DOMAIN scalerCache
            /\ r \in DOMAIN scalerCache' => scalerCache'[r] = scalerCache[r]
        BY <3>1, <3>3, DeliveredIs
      <4>2. QED BY <2>1, <3>3, <4>1 DEF ScalerAgrees
    <3>4. QED BY <3>2, <3>3
  <2>4. QED BY <2>2, <2>3
<1>4. QED BY <1>1, <1>2, <1>3 DEF CachesAgree

LEMMA PodsChangedAgrees ==
  ASSUME CachesAgree, PodsChanged, UNCHANGED <<job, scalers>> PROVE CachesAgree'
<1>1. /\ lag' = lag \cup ({"pods"} \cap Lagging)
      /\ UNCHANGED <<jobCache, scalerCache>>
  BY DEF PodsChanged, Publish
<1>2. "pods" \notin lag' => podCache' = pods' /\ launcherCache' = launcher'
  BY <1>1 DEF PodsChanged
<1>3. \A s \in Scalers \ lag' : ScalerAgrees(s)' BY <1>1 DEF CachesAgree, ScalerAgrees
<1>4. QED BY <1>1, <1>2, <1>3 DEF CachesAgree

\* A step that leaves the scalers and what the cache shows of them alone.
LEMMA SameScalersAgree ==
  ASSUME CachesAgree, UNCHANGED <<scalers, scalerCache>>, lag \cap Scalers \subseteq lag'
  PROVE  \A s \in Scalers \ lag' : ScalerAgrees(s)'
  BY DEF CachesAgree, ScalerAgrees

LEMMA LeaveAgrees == ASSUME CachesAgree, NEW w, Leave(w) PROVE CachesAgree'
<1> DEFINE held == <<w.seen, w.seenLauncher>> # <<w.pods, w.launcher>>
<1>1. /\ UNCHANGED <<job, scalers, jobCache, scalerCache>>
      /\ pods' = w.pods /\ launcher' = w.launcher
      /\ lag' = IF held /\ "pods" \in Lagging THEN lag \cup {"pods"} ELSE lag
      /\ podCache' = IF "pods" \in Lagging THEN w.seen ELSE w.pods
      /\ launcherCache' = IF "pods" \in Lagging THEN w.seenLauncher ELSE w.launcher
  BY DEF Leave
<1>2. \A s \in Scalers \ lag' : ScalerAgrees(s)' BY <1>1, SameScalersAgree
<1>3. "pods" \notin lag' => podCache' = pods' /\ launcherCache' = launcher' BY <1>1
<1>4. "job" \notin lag' => jobCache' = job' BY <1>1 DEF CachesAgree
<1>5. QED BY <1>2, <1>3, <1>4 DEF CachesAgree

LEMMA WriteAgrees == ASSUME IInv, CachesAgree, WriteScaler \/ WriteJob PROVE CachesAgree'
<1>1. ASSUME WriteScaler PROVE CachesAgree'
  <2>1. UNCHANGED <<job, pods, launcher>> BY <1>1 DEF WriteScaler
  <2>2. PICK s \in DOMAIN update :
          \/ s \in DOMAIN scalers /\ scalers' = [scalers EXCEPT ![s] = update[s]] /\ ScalerChanged(s)
          \/ UNCHANGED <<scalers, cache>>
    BY <1>1 DEF WriteScaler
  <2>3. s \in Scalers BY DEF IInv, TypeOK, IsScalerMap
  <2>4. CASE s \in DOMAIN scalers /\ scalers' = [scalers EXCEPT ![s] = update[s]] /\ ScalerChanged(s)
    <3>1. \A r \in Scalers \ {s} : /\ r \in DOMAIN scalers' <=> r \in DOMAIN scalers
                                   /\ r \in DOMAIN scalers => scalers'[r] = scalers[r]
      BY <2>4 DEF IInv, TypeOK, IsScalerMap
    <3>2. QED BY <2>1, <2>3, <2>4, <3>1, ScalerChangedAgrees
  <2>5. CASE UNCHANGED <<scalers, cache>>
    BY <2>1, <2>5 DEF CachesAgree, ScalerAgrees, cache
  <2>6. QED BY <2>2, <2>4, <2>5
<1>2. ASSUME WriteJob PROVE CachesAgree'
  <2>1. UNCHANGED <<scalers, pods, launcher, scalerCache, podCache, launcherCache>>
    BY <1>2 DEF WriteJob
  <2>2. \/ lag' = lag /\ job' = job /\ jobCache' = jobCache
        \/ /\ lag' = lag \cup ({"job"} \cap Lagging)
           /\ jobCache' = IF "job" \in Lagging THEN jobCache ELSE job'
    BY <1>2 DEF WriteJob
  <2>3. \A s \in Scalers \ lag' : ScalerAgrees(s)' BY <2>1, <2>2, SameScalersAgree
  <2>4. "job" \notin lag' => jobCache' = job' BY <2>2 DEF CachesAgree
  <2>5. QED BY <2>1, <2>2, <2>3, <2>4 DEF CachesAgree
<1>3. QED BY <1>1, <1>2

LEMMA SyncAgrees == ASSUME CachesAgree, Sync PROVE CachesAgree'
<1>1. "job" \notin Scalers /\ "pods" \notin Scalers BY ClusterAssumption
<1>2. ASSUME SyncJob PROVE CachesAgree'
  <2>1. UNCHANGED <<job, pods, launcher, scalers, podCache, launcherCache, scalerCache>>
        /\ lag' = lag \ {"job"} /\ jobCache' = job
    BY <1>2 DEF SyncJob, api
  <2>2. \A s \in Scalers \ lag' : ScalerAgrees(s)' BY <1>1, <2>1, SameScalersAgree
  <2>3. QED BY <2>1, <2>2 DEF CachesAgree
<1>3. ASSUME SyncPods PROVE CachesAgree'
  <2>1. UNCHANGED <<job, pods, launcher, scalers, jobCache, scalerCache>>
        /\ lag' = lag \ {"pods"} /\ podCache' = pods /\ launcherCache' = launcher
    BY <1>3 DEF SyncPods, api
  <2>2. \A s \in Scalers \ lag' : ScalerAgrees(s)' BY <1>1, <2>1, SameScalersAgree
  <2>3. QED BY <2>1, <2>2 DEF CachesAgree
<1>4. ASSUME NEW s \in Scalers, SyncScaler(s) PROVE CachesAgree'
  <2>1. /\ UNCHANGED <<job, pods, launcher, scalers, jobCache, podCache, launcherCache>>
        /\ lag' = lag \ {s} /\ scalerCache' = Delivered(s, scalers)
    BY <1>4 DEF SyncScaler, api
  <2>2. ASSUME NEW r \in Scalers \ lag' PROVE ScalerAgrees(r)'
    <3>1. CASE r = s BY <2>1, <3>1, DeliveredIs DEF ScalerAgrees
    <3>2. CASE r # s
      <4>1. ScalerAgrees(r) BY <2>1, <2>2, <3>2 DEF CachesAgree
      <4>2. /\ r \in DOMAIN scalerCache' <=> r \in DOMAIN scalerCache
            /\ r \in DOMAIN scalerCache' => scalerCache'[r] = scalerCache[r]
        BY <2>1, <3>2, DeliveredIs
      <4>3. QED BY <2>1, <4>1, <4>2 DEF ScalerAgrees
    <3>3. QED BY <3>1, <3>2
  <2>3. QED BY <1>1, <2>1, <2>2 DEF CachesAgree
<1>5. QED BY <1>2, <1>3, <1>4 DEF Sync

LEMMA EnvironmentAgrees == ASSUME IInv, CachesAgree, Environment PROVE CachesAgree'
<1>1. ASSUME NEW ps, ChangePods(ps) PROVE CachesAgree'
  BY <1>1, PodsChangedAgrees DEF ChangePods
<1>2. ASSUME NEW state, NEW hosts, ChangeLauncher(state, hosts) PROVE CachesAgree'
  BY <1>2, PodsChangedAgrees DEF ChangeLauncher
<1>3. ASSUME NEW i \in Worker, WorkerRuns(i) \/ WorkerEnds(i) \/ WorkerLost(i) PROVE CachesAgree'
  BY <1>1, <1>3 DEF WorkerRuns, WorkerEnds, WorkerLost
<1>4. ASSUME LauncherRuns \/ LauncherEnds \/ LauncherLost PROVE CachesAgree'
  BY <1>2, <1>4 DEF LauncherRuns, LauncherEnds, LauncherLost
<1>5. ASSUME NEW s \in Scalers, SubmitScaler(s) \/ DeleteScaler(s) PROVE CachesAgree'
  <2>1. UNCHANGED <<job, pods, launcher>> /\ ScalerChanged(s)
    BY <1>5 DEF SubmitScaler, DeleteScaler
  <2>2. \A r \in Scalers \ {s} : /\ r \in DOMAIN scalers' <=> r \in DOMAIN scalers
                                 /\ r \in DOMAIN scalers => scalers'[r] = scalers[r]
    <3>1. CASE SubmitScaler(s) BY <3>1 DEF SubmitScaler
    <3>2. CASE DeleteScaler(s) BY <3>2 DEF DeleteScaler, Restrict
    <3>3. QED BY <1>5, <3>1, <3>2
  <2>3. QED BY <2>1, <2>2, ScalerChangedAgrees
<1>6. ASSUME Suspend PROVE CachesAgree'
  <2>1. /\ lag' = lag \cup ({"job"} \cap Lagging)
        /\ jobCache' = IF "job" \in Lagging THEN jobCache ELSE job'
        /\ UNCHANGED <<scalers, pods, launcher, scalerCache, podCache, launcherCache>>
    BY <1>6 DEF Suspend, JobChanged, Publish
  <2>2. \A s \in Scalers \ lag' : ScalerAgrees(s)' BY <2>1, SameScalersAgree
  <2>3. QED BY <2>1, <2>2 DEF CachesAgree
<1>7. ASSUME OtherEvent PROVE CachesAgree'
  BY <1>7 DEF OtherEvent, CachesAgree, ScalerAgrees, api, cache
<1>8. QED BY <1>3, <1>4, <1>5, <1>6, <1>7 DEF Environment

LEMMA CachesInit == Init => CachesAgree
  BY DEF Init, CachesAgree, ScalerAgrees

LEMMA CachesStep == IInv /\ CachesAgree /\ [Next]_vars => CachesAgree'
<1> SUFFICES ASSUME IInv, CachesAgree, [Next]_vars PROVE CachesAgree' OBVIOUS
<1>1. ASSUME Start PROVE CachesAgree'
  BY <1>1 DEF Start, CachesAgree, ScalerAgrees, api, cache
<1>2. ASSUME Handle PROVE CachesAgree' BY <1>2, HandleLeaves, LeaveAgrees
<1>3. ASSUME Crash PROVE CachesAgree'
  BY <1>3 DEF Crash, CachesAgree, ScalerAgrees, api
<1>4. ASSUME UNCHANGED vars PROVE CachesAgree'
  BY <1>4 DEF vars, api, cache, CachesAgree, ScalerAgrees
<1>5. QED BY <1>1, <1>2, <1>3, <1>4, WriteAgrees, SyncAgrees, EnvironmentAgrees DEF Next, Reconcile

\* What the operator's caches show is behind the API server only where events are
\* still to be delivered: a controller whose informers have delivered everything
\* (trainingjob_controller.go:425-439) decides on the newest state.
THEOREM CachesAreCurrent == Spec => []CachesAgree
BY Inductive, CachesInit, CachesStep, PTL DEF Spec
=============================================================================
