--------------------------- MODULE ResourcesProofs ---------------------------
(***************************************************************************)
(* Proofs about Resources, for any number of jobs, workers and faults: its *)
(* types, and that jobs of different names do not touch each other's       *)
(* objects. ResourcesSafetyProofs goes on from here.                       *)
(***************************************************************************)
EXTENDS Resources, SequenceTheorems, TLAPS

-----------------------------------------------------------------------------
(* Types *)

LEMMA TasksTyped ==
    /\ \A ws \in SUBSET Index : createTrainingJobWorkers(ws) \in Seq(Task)
    /\ \A ws \in SUBSET Index : DeleteWorkers(ws) \in Seq(Task)
    /\ \A ws \in SUBSET Index : <<Ensure({"pod", "service"}, ws)>> \in Seq(Task)
    /\ createLauncher \in Seq(Task) /\ cleanup \in Seq(Task) /\ cleanupAll \in Seq(Task)
    /\ \A ws \in SUBSET Index : DeleteForRestart \o createTrainingJobWorkers(ws) \in Seq(Task)
  <1>1. 0 \in Index /\ {0} \in SUBSET Index /\ Index \in SUBSET Index
    BY ResourcesAssumption DEF Index
  <1>2. /\ \A ks \in SUBSET Kinds, of \in SUBSET Index : Ensure(ks, of) \in Task
        /\ \A k \in Kinds, of \in SUBSET Index : Delete(k, of) \in Task
    BY DEF Ensure, Delete, Task
  <1>3. /\ {"secret"} \in SUBSET Kinds /\ {"pod", "service"} \in SUBSET Kinds
        /\ {"role"} \in SUBSET Kinds /\ {"config"} \in SUBSET Kinds
        /\ {"launcher"} \in SUBSET Kinds
        /\ "pod" \in Kinds /\ "service" \in Kinds /\ "launcher" \in Kinds
    BY DEF Kinds
  <1>4. \A ws \in SUBSET Index : createTrainingJobWorkers(ws) \in Seq(Task)
    BY <1>1, <1>2, <1>3 DEF createTrainingJobWorkers
  <1>5. DeleteForRestart \in Seq(Task)
    BY <1>1, <1>2, <1>3 DEF DeleteForRestart
  <1>6. \A ws \in SUBSET Index : DeleteForRestart \o createTrainingJobWorkers(ws) \in Seq(Task)
    BY <1>4, <1>5
  <1>7. createLauncher \in Seq(Task)
    BY <1>1, <1>2, <1>3 DEF createLauncher
  <1>8. cleanup \in Seq(Task) /\ cleanupAll \in Seq(Task)
    BY <1>1, <1>2, <1>3 DEF cleanup, cleanupAll
  <1>9. \A ws \in SUBSET Index : DeleteWorkers(ws) \in Seq(Task)
    BY <1>2, <1>3 DEF DeleteWorkers
  <1>10. \A ws \in SUBSET Index : <<Ensure({"pod", "service"}, ws)>> \in Seq(Task)
    BY <1>2, <1>3
  <1> QED
    BY <1>4, <1>6, <1>7, <1>8, <1>9, <1>10

\* The status that a reconcile may lead to.
LEMMA StatusTyped ==
    ASSUME NEW s \in Status
    PROVE  /\ \A p \in Phase : [s EXCEPT !.phase = p] \in Status
           /\ Scaled(s) \in Status /\ Scalers(s) \subseteq Status
           /\ [s EXCEPT !.phase = "Running", !.change = {}] \in Status
           /\ getJobReplicasWorkers(s.workers) \in SUBSET Index
           /\ getJobReplicasWorkers({}) \in SUBSET Index
  <1>1. \A p \in Phase : [s EXCEPT !.phase = p] \in Status
    BY DEF Status
  <1>2. Scaled(s) \in Status
    BY DEF Status, Phase, Scaled
  <1>3. \A i \in Index : [s EXCEPT !.phase = "Scaling", !.change = {i}] \in Status
    BY DEF Status, Phase
  <1>4. Scalers(s) \subseteq Status
    BY <1>3 DEF Scalers
  <1>5. [s EXCEPT !.phase = "Running", !.change = {}] \in Status
    BY DEF Status, Phase
  <1>6. s.workers \in SUBSET Index
    BY DEF Status
  <1>7. 0..(Replicas - 1) \subseteq Index
    BY ResourcesAssumption DEF Index
  <1> QED
    BY <1>1, <1>2, <1>4, <1>5, <1>6, <1>7 DEF getJobReplicasWorkers

LEMMA PlansTyped ==
    ASSUME NEW s \in Status, NEW ws \in SUBSET Index
    PROVE  /\ [[s EXCEPT !.phase = "WorkersCreated"] EXCEPT !.workers = ws] \in Status
           /\ needRestartJob(s) =>
                [[s EXCEPT !.phase = "WorkersCreated"] EXCEPT !.workers = ws, !.restarts = @ + 1]
                  \in Status
  <1> DEFINE t == [s EXCEPT !.phase = "WorkersCreated"]
  <1>1. t \in Status /\ t.restarts = s.restarts
    BY DEF Status, Phase
  <1>2. needRestartJob(s) => s.restarts + 1 \in 0..BackoffLimit
    BY ResourcesAssumption DEF Status, needRestartJob
  <1> HIDE DEF t
  <1>3. [t EXCEPT !.workers = ws] \in Status
    BY <1>1 DEF Status
  <1>4. \A n \in 0..BackoffLimit : [t EXCEPT !.workers = ws, !.restarts = n] \in Status
    BY <1>1 DEF Status
  <1> QED
    BY <1>1, <1>2, <1>3, <1>4 DEF t

\* The plan of a reconcile: nothing is in hand yet.
LEMMA PlanTyped ==
    ASSUME TypeOK, NEW j \in Jobs, NEW plan \in Plans(j)
    PROVE  plan \in Reconciling /\ plan.left = {}
  <1> DEFINE s == status[j]
             At(phase) == [s EXCEPT !.phase = phase]
             Do(tasks, after) == [op |-> "ensure", left |-> {}, todo |-> tasks, then |-> after]
             ws == getJobReplicasWorkers(s.workers)
             Restarted == [At("WorkersCreated") EXCEPT !.workers = getJobReplicasWorkers({}),
                                                       !.restarts = @ + 1]
  <1>1. \A tasks \in Seq(Task), after \in Status :
          Do(tasks, after) \in Reconciling /\ Do(tasks, after).left = {}
    BY DEF Reconciling
  <1>2. s \in Status
    BY DEF TypeOK
  <1>3. <<>> \in Seq(Task)
    OBVIOUS
  <1> HIDE DEF Do
  <1>4. CASE j \in suspended \/ s.phase = "Suspended"
    <2>1. plan = Do(cleanupAll, At("Suspended"))
      BY <1>4 DEF Plans, Do
    <2> QED
      BY <1>1, <1>2, <2>1, TasksTyped, StatusTyped DEF Phase
  <1>5. CASE ~(j \in suspended \/ s.phase = "Suspended")
    <2>1. CASE s.phase = "Created"
      <3>1. plan = Do(createTrainingJobWorkers(ws), [At("WorkersCreated") EXCEPT !.workers = ws])
        BY <1>5, <2>1 DEF Plans, Do
      <3> QED
        BY <1>1, <1>2, <3>1, TasksTyped, StatusTyped, PlansTyped
    <2>2. CASE s.phase = "WorkersCreated"
      <3>1. plan = Do(<<>>, IF Cardinality(Listed(j, {"pod"}, Index)) >= Replicas
                            THEN At("WorkersReady") ELSE s)
        BY <1>5, <2>2 DEF Plans, Do
      <3> QED
        BY <1>1, <1>2, <1>3, <3>1, StatusTyped DEF Phase
    <2>3. CASE s.phase = "WorkersReady"
      <3>1. plan = Do(createLauncher, At("Running"))
        BY <1>5, <2>3 DEF Plans, Do
      <3> QED
        BY <1>1, <1>2, <3>1, TasksTyped, StatusTyped DEF Phase
    <2>4. CASE s.phase = "Running"
      <3>1. PICK x \in {s, At("Succeeded"), At("Failed")} \cup Scalers(s) : plan = Do(<<>>, x)
        BY <1>5, <2>4 DEF Plans, Do
      <3> QED
        BY <1>1, <1>2, <1>3, <3>1, StatusTyped DEF Phase
    <2>5. CASE s.phase = "Scaling"
      <3>1. plan = Do(IF ScalesIn(s) THEN DeleteWorkers(s.change)
                      ELSE <<Ensure({"pod", "service"}, s.change)>>, Scaled(s))
        BY <1>5, <2>5 DEF Plans, Do
      <3>2. s.change \in SUBSET Index
        BY <1>2 DEF Status
      <3> QED
        BY <1>1, <1>2, <3>1, <3>2, TasksTyped, StatusTyped
    <2>6. CASE s.phase = "Succeeded"
      <3>1. plan = Do(cleanup, s)
        BY <1>5, <2>6 DEF Plans, Do
      <3> QED
        BY <1>1, <1>2, <3>1, TasksTyped
    <2>7. CASE s.phase = "Failed"
      <3>1. plan = IF needRestartJob(s)
                   THEN Do(DeleteForRestart \o createTrainingJobWorkers(Restarted.workers), Restarted)
                   ELSE Do(cleanup, s)
        BY <1>5, <2>7 DEF Plans, Do
      <3>2. CASE ~needRestartJob(s)
        BY <1>1, <1>2, <3>1, <3>2, TasksTyped
      <3>3. CASE needRestartJob(s)
        <4>1. Restarted \in Status
          BY <1>2, <3>3, StatusTyped, PlansTyped
        <4>2. Restarted.workers \in SUBSET Index
          BY <4>1 DEF Status
        <4> HIDE DEF Restarted
        <4> QED
          BY <1>1, <3>1, <3>3, <4>1, <4>2, TasksTyped
      <3> QED
        BY <3>2, <3>3
    <2> QED
      BY <1>2, <1>5, <2>1, <2>2, <2>3, <2>4, <2>5, <2>6, <2>7 DEF Status, Phase
  <1> QED
    BY <1>4, <1>5

LEMMA StoreTyped ==
    ASSUME TypeOK, NEW rs \in SUBSET Resource, Store(rs)
    PROVE  exists' \subseteq Resource /\ seen' \subseteq Resource /\ queue' \subseteq Jobs
  BY DEF Store, TypeOK, Resource

LEMMA FallbackTyped ==
    ASSUME TypeOK, NEW j \in DOMAIN busy
    PROVE  Fallback(j) \in Reconciling /\ Fallback(j).left = {}
  <1>1. busy[j] \in Reconciling /\ status[j] \in Status
    BY DEF TypeOK
  <1>2. CASE status[j].phase = "Scaling"
    <2> DEFINE tasks == DeleteWorkers(status[j].change)
               s == [status[j] EXCEPT !.phase = "Running", !.change = {}]
    <2>1. tasks \in Seq(Task) /\ s \in Status
      BY <1>1, TasksTyped, StatusTyped DEF Status
    <2>2. Fallback(j) = [busy[j] EXCEPT !.left = {}, !.todo = tasks, !.then = s]
      BY <1>2 DEF Fallback
    <2> HIDE DEF tasks, s
    <2> QED
      BY <1>1, <2>1, <2>2 DEF Reconciling
  <1>3. CASE status[j].phase # "Scaling"
    <2> DEFINE s == [busy[j].then EXCEPT !.phase = "Failed"]
    <2>1. s \in Status
      BY <1>1, StatusTyped DEF Reconciling, Phase
    <2>2. Fallback(j) = [busy[j] EXCEPT !.left = {}, !.todo = <<>>, !.then = s]
      BY <1>1, <1>3 DEF Fallback, Reconciling
    <2>3. <<>> \in Seq(Task)
      OBVIOUS
    <2> HIDE DEF s
    <2> QED
      BY <1>1, <2>1, <2>2, <2>3 DEF Reconciling
  <1> QED
    BY <1>2, <1>3

\* A step of the reconcile of j leaves it a record b.
LEMMA BusyTyped ==
    ASSUME TypeOK, NEW j \in DOMAIN busy, NEW b \in Reconciling, busy' = [busy EXCEPT ![j] = b]
    PROVE  DOMAIN busy' = DOMAIN busy /\ DOMAIN busy' \subseteq Jobs
           /\ busy' \in [DOMAIN busy' -> Reconciling]
  BY DEF TypeOK

LEMMA LeftTyped ==
    ASSUME TypeOK, NEW j \in DOMAIN busy, NEW r
    PROVE  /\ [busy[j] EXCEPT !.left = @ \ {r}] \in Reconciling
           /\ [busy[j] EXCEPT !.left = @ \ {r}].left = busy[j].left \ {r}
           /\ [busy EXCEPT ![j].left = @ \ {r}] = [busy EXCEPT ![j] = [busy[j] EXCEPT !.left = @ \ {r}]]
  <1>1. busy[j] \in Reconciling
    BY DEF TypeOK
  <1>2. [busy[j] EXCEPT !.left = @ \ {r}] \in Reconciling
    BY <1>1 DEF Reconciling
  <1>3. [busy[j] EXCEPT !.left = @ \ {r}].left = busy[j].left \ {r}
    BY <1>1 DEF Reconciling
  <1> QED
    BY <1>2, <1>3

LEMMA BeginTyped ==
    ASSUME TypeOK, NEW j \in Jobs, Begin(j)
    PROVE  TypeOK'
  <1>1. PICK plan \in Plans(j) : busy' = [k \in {j} |-> plan]
    BY DEF Begin
  <1>2. plan \in Reconciling
    BY <1>1, PlanTyped
  <1>3. queue' \subseteq Jobs
    BY DEF Begin, TypeOK
  <1> QED
    BY <1>1, <1>2, <1>3 DEF Begin, TypeOK

\* The next task, and the objects it works through.
LEMMA TaskTyped ==
    ASSUME TypeOK, NEW j \in Jobs, NextTask(j)
    PROVE  LET task == Head(busy[j].todo)
               left == IF task.op = "ensure" THEN Wanted(j, task)
                       ELSE Listed(j, task.kinds, task.of)
               b == [busy[j] EXCEPT !.op = task.op, !.todo = Tail(@), !.left = left]
           IN  /\ task \in Task /\ b \in Reconciling
               /\ b.op = task.op /\ b.todo = Tail(busy[j].todo) /\ b.left = left
               /\ b.then = busy[j].then
               /\ busy' = [busy EXCEPT ![j] = b]
  <1> DEFINE task == Head(busy[j].todo)
             left == IF task.op = "ensure" THEN Wanted(j, task)
                     ELSE Listed(j, task.kinds, task.of)
             b == [busy[j] EXCEPT !.op = task.op, !.todo = Tail(@), !.left = left]
  <1>1. busy[j] \in Reconciling /\ busy[j].todo \in Seq(Task) /\ busy[j].todo # <<>>
    BY DEF NextTask, TypeOK, Reconciling
  <1>2. task \in Task /\ Tail(busy[j].todo) \in Seq(Task)
    BY <1>1
  <1>3. left \in SUBSET Resource
    BY <1>2 DEF Wanted, Listed, Task, Resource, TypeOK
  <1>4. task.op \in {"ensure", "delete"}
    BY <1>2 DEF Task
  <1>5. busy' = [busy EXCEPT ![j] = b]
    BY DEF NextTask
  <1> HIDE DEF task, left
  <1> QED
    BY <1>1, <1>2, <1>3, <1>4, <1>5 DEF Reconciling, task, left

LEMMA NextTaskTyped ==
    ASSUME TypeOK, NEW j \in Jobs, NextTask(j)
    PROVE  TypeOK'
  <1>1. PICK b \in Reconciling : busy' = [busy EXCEPT ![j] = b]
    BY TaskTyped
  <1>2. j \in DOMAIN busy
        /\ UNCHANGED <<exists, seen, status, suspended, queue, deleted, refused, faults>>
    BY DEF NextTask
  <1> QED
    BY <1>1, <1>2, BusyTyped DEF TypeOK

\* What EnsureOne does to the reconcile and to the objects.
LEMMA EnsureCases ==
    ASSUME TypeOK, NEW j \in Jobs, NEW r \in Resource, EnsureOne(j, r)
    PROVE  /\ j \in DOMAIN busy /\ busy[j].op = "ensure" /\ r \in busy[j].left
           /\ \/ busy' = [busy EXCEPT ![j] = [busy[j] EXCEPT !.left = @ \ {r}]]
              \/ busy' = [busy EXCEPT ![j] = Fallback(j)] /\ r.kind \notin ErrorIgnored
           /\ Store(exists \cup {r}) \/ UNCHANGED <<exists, seen, queue>>
           /\ faults' \in 0..MaxFaults /\ refused' \subseteq Resource
           /\ UNCHANGED <<status, suspended, deleted>>
  <1>1. j \in DOMAIN busy
    BY DEF EnsureOne
  <1>2. [busy EXCEPT ![j].left = @ \ {r}] = [busy EXCEPT ![j] = [busy[j] EXCEPT !.left = @ \ {r}]]
    BY <1>1, LeftTyped
  <1>3. /\ faults' \in 0..MaxFaults /\ refused' \subseteq Resource
    BY ResourcesAssumption DEF EnsureOne, MayFail, TypeOK
  <1>4. Store(exists \cup {r}) \/ UNCHANGED <<exists, seen, queue>>
    BY DEF EnsureOne
  <1>5. \/ busy' = [busy EXCEPT ![j].left = @ \ {r}]
        \/ busy' = [busy EXCEPT ![j] = Fallback(j)] /\ r.kind \notin ErrorIgnored
    BY DEF EnsureOne
  <1>6. busy[j].op = "ensure" /\ r \in busy[j].left /\ UNCHANGED <<status, suspended, deleted>>
    BY DEF EnsureOne
  <1> QED
    BY <1>1, <1>2, <1>3, <1>4, <1>5, <1>6

LEMMA EnsureTyped ==
    ASSUME TypeOK, NEW j \in Jobs, NEW r \in Resource, EnsureOne(j, r)
    PROVE  TypeOK'
  <1>1. j \in DOMAIN busy
    BY EnsureCases
  <1>2. exists' \subseteq Resource /\ seen' \subseteq Resource /\ queue' \subseteq Jobs
    <2>1. exists \cup {r} \in SUBSET Resource
      BY DEF TypeOK
    <2> QED
      BY <2>1, EnsureCases, StoreTyped DEF TypeOK
  <1>3. PICK b \in Reconciling : busy' = [busy EXCEPT ![j] = b]
    BY <1>1, EnsureCases, LeftTyped, FallbackTyped
  <1>4. /\ faults' \in 0..MaxFaults /\ refused' \subseteq Resource
        /\ UNCHANGED <<status, suspended, deleted>>
    BY EnsureCases
  <1> QED
    BY <1>1, <1>2, <1>3, <1>4, BusyTyped DEF TypeOK

LEMMA DeleteTyped ==
    ASSUME TypeOK, NEW j \in Jobs, NEW r \in Resource, DeleteOne(j, r)
    PROVE  TypeOK'
  <1>1. j \in DOMAIN busy
    BY DEF DeleteOne
  <1>2. exists' \subseteq Resource /\ seen' \subseteq Resource /\ queue' \subseteq Jobs
    <2>1. exists \ {r} \in SUBSET Resource
      BY DEF TypeOK
    <2>2. Store(exists \ {r}) \/ UNCHANGED <<exists, seen, queue>>
      BY DEF DeleteOne
    <2> QED
      BY <2>1, <2>2, StoreTyped DEF TypeOK
  <1>3. PICK b \in Reconciling : busy' = [busy EXCEPT ![j] = b]
    BY <1>1, LeftTyped DEF DeleteOne
  <1>4. /\ faults' \in 0..MaxFaults /\ refused' \subseteq Resource /\ deleted' \subseteq Resource
        /\ UNCHANGED <<status, suspended>>
    BY ResourcesAssumption DEF DeleteOne, MayFail, TypeOK
  <1> QED
    BY <1>1, <1>2, <1>3, <1>4, BusyTyped DEF TypeOK

LEMMA IdleTyped == DOMAIN Idle = {}
  BY DEF Idle

LEMMA WaitTyped ==
    ASSUME TypeOK, NEW j \in Jobs, Wait(j)
    PROVE  TypeOK'
  <1>1. queue' \subseteq Jobs
        /\ UNCHANGED <<exists, seen, status, suspended, deleted, refused, faults>>
    BY DEF Wait, TypeOK
  <1>2. CASE busy' = Idle
    BY <1>1, <1>2, IdleTyped DEF TypeOK, Idle
  <1>3. CASE busy' = [busy EXCEPT ![j] = Fallback(j)]
    BY <1>1, <1>3, FallbackTyped, BusyTyped DEF Wait, Done, TypeOK
  <1> QED
    BY <1>2, <1>3 DEF Wait

LEMMA FinishTyped ==
    ASSUME TypeOK, NEW j \in Jobs, Finish(j)
    PROVE  TypeOK'
  <1>1. busy[j].then \in Status
    BY DEF Finish, Done, TypeOK, Reconciling
  <1>2. status' \in [Jobs -> Status] /\ queue' \subseteq Jobs
    BY <1>1 DEF Finish, TypeOK
  <1>3. faults' \in 0..MaxFaults
    BY ResourcesAssumption DEF Finish, MayFail, TypeOK
  <1>4. busy' = Idle /\ UNCHANGED <<exists, seen, suspended, deleted, refused>>
    BY DEF Finish
  <1> QED
    BY <1>2, <1>3, <1>4 DEF TypeOK, Idle

LEMMA NextTyped == TypeOK /\ [Next]_vars => TypeOK'
  <1> SUFFICES ASSUME TypeOK, [Next]_vars PROVE TypeOK'
    OBVIOUS
  <1>1. ASSUME NEW j \in Jobs, Begin(j) \/ NextTask(j) \/ Wait(j) \/ Finish(j)
        PROVE  TypeOK'
    BY <1>1, BeginTyped, NextTaskTyped, WaitTyped, FinishTyped
  <1>2. ASSUME NEW j \in Jobs, Event(j) \/ Suspend(j)
        PROVE  TypeOK'
    BY <1>2 DEF Event, Suspend, TypeOK
  <1>3. ASSUME NEW j \in Jobs, NEW r \in Resource, EnsureOne(j, r) \/ DeleteOne(j, r)
        PROVE  TypeOK'
    BY <1>3, EnsureTyped, DeleteTyped
  <1>4. ASSUME NEW r \in Resource, Deliver(r)
        PROVE  TypeOK'
    BY <1>4 DEF Deliver, TypeOK, Resource
  <1>5. CASE Crash
    BY <1>5, ResourcesAssumption DEF Crash, MayFail, TypeOK, Idle
  <1>6. CASE UNCHANGED vars
    BY <1>6 DEF vars, TypeOK
  <1> QED
    BY <1>1, <1>2, <1>3, <1>4, <1>5, <1>6 DEF Next

\* Every variable keeps its type: what a reconcile does is a sequence of loops
\* over objects of its kinds, and it ends in a status a job can have.
THEOREM Typing == Spec => []TypeOK
  <1>1. Init => TypeOK
    BY ResourcesAssumption DEF Init, TypeOK, Status, Phase, Idle
  <1> QED
    BY <1>1, NextTyped, PTL DEF Spec

-----------------------------------------------------------------------------
(* Jobs of different names *)

DistinctNames == \A j, k \in Jobs : Name[j] = Name[k] => j = k

\* A reconcile works through objects of its own job.
OwnLeft == \A j \in DOMAIN busy : \A r \in busy[j].left : r.job = j

\* A step of the reconcile of j keeps OwnLeft if what it leaves is the job's own.
LEMMA OwnKept ==
    ASSUME TypeOK, OwnLeft, NEW j \in DOMAIN busy, NEW b \in Reconciling,
           busy' = [busy EXCEPT ![j] = b], \A r \in b.left : r.job = j
    PROVE  OwnLeft'
  BY DEF TypeOK, OwnLeft

LEMMA OwnListed ==
    ASSUME TypeOK, DistinctNames, NEW j \in Jobs, NEW task \in Task
    PROVE  /\ \A r \in Wanted(j, task) : r.job = j
           /\ \A r \in Listed(j, task.kinds, task.of) : r.job = j
  BY DEF Wanted, Listed, DistinctNames, TypeOK, Resource

LEMMA OwnNext == DistinctNames /\ TypeOK /\ OwnLeft /\ [Next]_vars => OwnLeft'
  <1> SUFFICES ASSUME DistinctNames, TypeOK, OwnLeft, [Next]_vars PROVE OwnLeft'
    OBVIOUS
  <1>1. ASSUME NEW j \in Jobs, Begin(j) PROVE OwnLeft'
    <2>1. PICK plan \in Plans(j) : busy' = [k \in {j} |-> plan]
      BY <1>1 DEF Begin
    <2> QED
      BY <2>1, PlanTyped DEF OwnLeft
  <1>2. ASSUME NEW j \in Jobs, NextTask(j) PROVE OwnLeft'
    <2>1. j \in DOMAIN busy
      BY <1>2 DEF NextTask
    <2>2. PICK task \in Task, b \in Reconciling :
            /\ busy' = [busy EXCEPT ![j] = b]
            /\ b.left = IF task.op = "ensure" THEN Wanted(j, task)
                        ELSE Listed(j, task.kinds, task.of)
      BY <1>2, TaskTyped
    <2>3. \A r \in b.left : r.job = j
      BY <2>2, OwnListed
    <2> QED
      BY <2>1, <2>2, <2>3, OwnKept
  <1>3. ASSUME NEW j \in Jobs, NEW r \in Resource, EnsureOne(j, r) \/ DeleteOne(j, r)
        PROVE  OwnLeft'
    <2>1. /\ j \in DOMAIN busy
          /\ \/ busy' = [busy EXCEPT ![j] = [busy[j] EXCEPT !.left = @ \ {r}]]
             \/ busy' = [busy EXCEPT ![j] = Fallback(j)]
      BY <1>3, EnsureCases, LeftTyped DEF DeleteOne
    <2>2. PICK b \in Reconciling : /\ busy' = [busy EXCEPT ![j] = b]
                                   /\ b.left \subseteq busy[j].left
      BY <2>1, LeftTyped, FallbackTyped
    <2> QED
      BY <2>1, <2>2, OwnKept DEF OwnLeft
  <1>4. ASSUME NEW j \in Jobs, Wait(j) \/ Finish(j) PROVE OwnLeft'
    <2>1. CASE busy' = Idle
      BY <2>1, IdleTyped DEF OwnLeft
    <2>2. CASE busy' = [busy EXCEPT ![j] = Fallback(j)] /\ j \in DOMAIN busy
      BY <2>2, FallbackTyped, OwnKept
    <2> QED
      BY <1>4, <2>1, <2>2 DEF Wait, Finish, Done
  <1>5. CASE Crash
    BY <1>5, IdleTyped DEF Crash, OwnLeft
  <1>6. CASE UNCHANGED busy
    BY <1>6 DEF OwnLeft
  <1> QED
    BY <1>1, <1>2, <1>3, <1>4, <1>5, <1>6 DEF Next, Event, Suspend, Deliver, vars

LEMMA ApartStep ==
    DistinctNames /\ TypeOK /\ OwnLeft /\ [Next]_vars =>
        [\A r \in Resource : (r \in exists) # (r \in exists') => r.job \in DOMAIN busy]_vars
  <1> SUFFICES ASSUME TypeOK, OwnLeft, [Next]_vars, NEW q \in Resource,
                      (q \in exists) # (q \in exists')
               PROVE  q.job \in DOMAIN busy
    BY DEF vars
  <1>1. PICK j \in Jobs, r \in Resource : EnsureOne(j, r) \/ DeleteOne(j, r)
    BY DEF Next, Begin, NextTask, Wait, Finish, Event, Suspend, Deliver, Crash, vars
  <1>2. /\ j \in DOMAIN busy /\ r \in busy[j].left
        /\ exists' = exists \/ exists' = exists \cup {r} \/ exists' = exists \ {r}
    BY <1>1, EnsureCases DEF DeleteOne, Store
  <1> QED
    BY <1>2 DEF OwnLeft

\* As long as no two jobs have the same name, whatever their namespaces, no
\* reconcile makes or deletes an object of another job (worker.go:334-425). The
\* hypothesis is needed: with one name in two namespaces the property is violated.
THEOREM Apart ==
    ASSUME DistinctNames
    PROVE  Spec => JobsApart
  <1>1. Init => OwnLeft
    BY DEF Init, Idle, OwnLeft
  <1>2. TypeOK /\ OwnLeft /\ [Next]_vars => OwnLeft'
    BY OwnNext
  <1>3. TypeOK /\ OwnLeft /\ [Next]_vars =>
          [\A r \in Resource : (r \in exists) # (r \in exists') => r.job \in DOMAIN busy]_vars
    BY ApartStep
  <1> QED
    BY <1>1, <1>2, <1>3, Typing, PTL DEF Spec, JobsApart
=============================================================================
