------------------------ MODULE ResourcesSafetyProofs ------------------------
(***************************************************************************)
(* Proofs of the invariants of Resources: workers get their pod and their  *)
(* service, pods what they mount, and what nobody needs is deleted. Each   *)
(* is strengthened with what the reconcile under way still has to do.      *)
(***************************************************************************)
EXTENDS ResourcesProofs

-----------------------------------------------------------------------------
(* What a reconcile b of the job j still has to do *)

Object(k, j, i) == [kind |-> k, job |-> j, index |-> i]

\* It makes r: in the loop under way, or in one of the next n.
Makes(b, j, r, n) ==
    \/ b.op = "ensure" /\ r \in b.left
    \/ \E m \in 1..n : b.todo[m].op = "ensure" /\ r \in Wanted(j, b.todo[m])

\* It deletes r, if the cache goes on showing r.
Deletes(b, j, r) ==
    \/ b.op = "delete" /\ r \in b.left
    \/ \E n \in 1..Len(b.todo) :
         b.todo[n].op = "delete" /\ r \in Listed(j, b.todo[n].kinds, b.todo[n].of)

\* The kinds of objects that are ever deleted.
Worn == {"pod", "service", "launcher"}

TidyReconcile(b, j) ==
    /\ \A r \in b.left : IF b.op = "ensure" THEN r.job = j ELSE r.kind \in Worn
    /\ \A n \in 1..Len(b.todo) : b.todo[n].op = "delete" => b.todo[n].kinds \subseteq Worn

\* One reconcile at a time works on its own job, and what the cache shows is
\* there or was deleted.
Tidy ==
    /\ seen \subseteq exists \cup deleted
    /\ \A r \in deleted : r.kind \in Worn
    /\ \A j, k \in DOMAIN busy : j = k
    /\ \A j \in DOMAIN busy : TidyReconcile(busy[j], j)

-----------------------------------------------------------------------------
(* The sequences of tasks *)

Deleting(tasks) ==
    \A n \in 1..Len(tasks) : tasks[n].op = "delete" /\ tasks[n].kinds \subseteq Worn

LEMMA DeletingTasks ==
    /\ Deleting(<<>>) /\ Deleting(cleanup) /\ Deleting(cleanupAll)
    /\ \A ws : Deleting(DeleteWorkers(ws))
  BY DEF Deleting, cleanup, cleanupAll, DeleteWorkers, Delete, Worn

LEMMA CreatingTasks ==
    \A ws : /\ Len(createTrainingJobWorkers(ws)) = 2
            /\ createTrainingJobWorkers(ws)[1] = Ensure({"secret"}, {0})
            /\ createTrainingJobWorkers(ws)[2] = Ensure({"pod", "service"}, ws)
  BY DEF createTrainingJobWorkers

LEMMA Joined ==
    ASSUME NEW S, NEW s \in Seq(S), NEW t \in Seq(S)
    PROVE  /\ Len(s \o t) = Len(s) + Len(t)
           /\ \A n \in 1..Len(s) : (s \o t)[n] = s[n]
           /\ \A n \in 1..Len(t) : (s \o t)[Len(s) + n] = t[n]
  BY ConcatProperties

LEMMA RestartTasks ==
    ASSUME NEW ws \in SUBSET Index,
           NEW tasks, tasks = DeleteForRestart \o createTrainingJobWorkers(ws)
    PROVE  /\ Len(tasks) = 5
           /\ \A n \in 1..3 : tasks[n].op = "delete" /\ tasks[n].kinds \subseteq Worn
           /\ tasks[4] = Ensure({"secret"}, {0})
           /\ tasks[5] = Ensure({"pod", "service"}, ws)
  <1> DEFINE s == DeleteForRestart
             t == createTrainingJobWorkers(ws)
  <1>1. /\ Len(s) = 3
        /\ \A n \in 1..3 : s[n].op = "delete" /\ s[n].kinds \subseteq Worn
    BY DEF DeleteForRestart, Delete, Worn
  <1>2. PICK S : s \in Seq(S) /\ t \in Seq(S)
    <2>1. Index \in SUBSET Index /\ \A k \in {"pod", "launcher", "service"} : Delete(k, Index) \in Task
      BY DEF Delete, Task, Kinds
    <2>2. s \in Seq(Task)
      BY <2>1 DEF DeleteForRestart
    <2> QED
      BY <2>2, TasksTyped
  <1>3. Len(t) = 2 /\ t[1] = Ensure({"secret"}, {0}) /\ t[2] = Ensure({"pod", "service"}, ws)
    BY CreatingTasks
  <1> HIDE DEF s, t
  <1>4. /\ Len(s \o t) = Len(s) + Len(t)
        /\ \A n \in 1..Len(s) : (s \o t)[n] = s[n]
        /\ \A n \in 1..Len(t) : (s \o t)[Len(s) + n] = t[n]
    BY <1>2, Joined
  <1>5. (s \o t)[4] = t[1] /\ (s \o t)[5] = t[2]
    BY <1>1, <1>3, <1>4
  <1> QED
    BY <1>1, <1>3, <1>4, <1>5 DEF s, t

-----------------------------------------------------------------------------
(* What a reconcile sets out to do *)

\* The loops and the status of a plan for the job j, by the step j has reached.
PlanCase(j, tasks, after) ==
    LET s == status[j]
    IN  \/ tasks = cleanupAll /\ after.phase = "Suspended"
        \/ /\ j \notin suspended
           /\ \/ /\ s.phase = "Created" /\ after.phase = "WorkersCreated"
                 /\ tasks = createTrainingJobWorkers(after.workers)
              \/ /\ s.phase = "WorkersCreated" /\ after.phase \in {"WorkersCreated", "WorkersReady"}
                 /\ tasks = <<>> /\ after.workers = s.workers
              \/ /\ s.phase = "WorkersReady" /\ after.phase = "Running"
                 /\ tasks = createLauncher /\ after.workers = s.workers
              \/ /\ s.phase = "Running"
                 /\ after.phase \in {"Running", "Succeeded", "Failed", "Scaling"}
                 /\ tasks = <<>> /\ after.workers = s.workers
              \/ /\ s.phase = "Scaling" /\ after.phase = "Running"
                 /\ tasks = DeleteWorkers(s.change) /\ after.workers \subseteq s.workers
              \/ /\ s.phase = "Scaling" /\ after.phase = "Running"
                 /\ tasks = <<Ensure({"pod", "service"}, s.change)>>
                 /\ after.workers = s.workers \cup s.change
              \/ s.phase \in {"Succeeded", "Failed"} /\ tasks = cleanup /\ after = s
              \/ /\ s.phase = "Failed" /\ after.phase = "WorkersCreated"
                 /\ tasks = DeleteForRestart \o createTrainingJobWorkers(after.workers)

LEMMA PlanCases ==
    ASSUME TypeOK, NEW j \in Jobs, NEW plan \in Plans(j)
    PROVE  /\ plan.op = "ensure" /\ plan.left = {}
           /\ plan.todo \in Seq(Task) /\ plan.then \in Status
           /\ PlanCase(j, plan.todo, plan.then)
  <1> DEFINE s == status[j]
             At(phase) == [s EXCEPT !.phase = phase]
             Do(tasks, after) == [op |-> "ensure", left |-> {}, todo |-> tasks, then |-> after]
             ws == getJobReplicasWorkers(s.workers)
             Restarted == [At("WorkersCreated") EXCEPT !.workers = getJobReplicasWorkers({}),
                                                       !.restarts = @ + 1]
  <1>1. \A tasks, after : Do(tasks, after).todo = tasks /\ Do(tasks, after).then = after
    OBVIOUS
  <1>2. s \in Status
    BY DEF TypeOK
  <1>3. \A p \in Phase : At(p).phase = p /\ At(p).workers = s.workers
    BY <1>2 DEF Status
  <1>4. \A ts, after : Do(ts, after).op = "ensure"
    OBVIOUS
  <1>5. plan \in Reconciling /\ plan.left = {}
    BY PlanTyped
  <1>6. plan.todo \in Seq(Task) /\ plan.then \in Status
    BY <1>5 DEF Reconciling
  <1> SUFFICES plan.op = "ensure" /\ PlanCase(j, plan.todo, plan.then)
    BY <1>5, <1>6
  <1> HIDE DEF Do
  <1>7. CASE j \in suspended \/ s.phase = "Suspended"
    <2>1. plan = Do(cleanupAll, At("Suspended"))
      BY <1>7 DEF Plans, Do
    <2>2. At("Suspended").phase = "Suspended"
      BY <1>3 DEF Phase
    <2> HIDE DEF At
    <2>3. plan.op = "ensure" /\ plan.todo = cleanupAll /\ plan.then.phase = "Suspended"
      BY <1>1, <1>4, <2>1, <2>2
    <2> QED
      BY <2>3 DEF PlanCase
  <1>8. CASE ~(j \in suspended \/ s.phase = "Suspended")
    <2>1. CASE s.phase = "Created"
      <3>1. plan = Do(createTrainingJobWorkers(ws), [At("WorkersCreated") EXCEPT !.workers = ws])
        BY <1>8, <2>1 DEF Plans, Do
      <3>2. [At("WorkersCreated") EXCEPT !.workers = ws].workers = ws
            /\ [At("WorkersCreated") EXCEPT !.workers = ws].phase = "WorkersCreated"
        BY <1>2 DEF Status
      <3> DEFINE x == [At("WorkersCreated") EXCEPT !.workers = ws]
      <3> HIDE DEF x
      <3>3. plan = Do(createTrainingJobWorkers(ws), x) /\ x.workers = ws /\ x.phase = "WorkersCreated"
        BY <3>1, <3>2 DEF x
      <3>4. plan.op = "ensure" /\ plan.todo = createTrainingJobWorkers(ws) /\ plan.then = x
        BY <1>1, <1>4, <3>3
      <3> QED
        BY <1>8, <2>1, <3>3, <3>4 DEF PlanCase
    <2>2. CASE s.phase = "WorkersCreated"
      <3>1. plan = Do(<<>>, IF Cardinality(Listed(j, {"pod"}, Index)) >= Replicas
                            THEN At("WorkersReady") ELSE s)
        BY <1>8, <2>2 DEF Plans, Do
      <3>2. PICK x : /\ plan = Do(<<>>, x) /\ x.workers = s.workers
                     /\ x.phase \in {"WorkersCreated", "WorkersReady"}
        BY <1>3, <2>2, <3>1 DEF Phase
      <3>3. plan.op = "ensure" /\ plan.todo = <<>> /\ plan.then = x
        BY <1>1, <1>4, <3>2
      <3> QED
        BY <1>8, <2>2, <3>2, <3>3 DEF PlanCase
    <2>3. CASE s.phase = "WorkersReady"
      <3>1. plan = Do(createLauncher, At("Running"))
        BY <1>8, <2>3 DEF Plans, Do
      <3>2. PICK x : plan = Do(createLauncher, x) /\ x.workers = s.workers /\ x.phase = "Running"
        BY <1>3, <3>1 DEF Phase
      <3>3. plan.op = "ensure" /\ plan.todo = createLauncher /\ plan.then = x
        BY <1>1, <1>4, <3>2
      <3> QED
        BY <1>8, <2>3, <3>2, <3>3 DEF PlanCase
    <2>4. CASE s.phase = "Running"
      <3>1. PICK x \in {s, At("Succeeded"), At("Failed")} \cup Scalers(s) : plan = Do(<<>>, x)
        BY <1>8, <2>4 DEF Plans, Do
      <3>2. \A y \in Scalers(s) : y.phase = "Scaling" /\ y.workers = s.workers
        BY <1>2 DEF Scalers, Status
      <3>3. x.phase \in {"Running", "Succeeded", "Failed", "Scaling"} /\ x.workers = s.workers
        BY <1>3, <2>4, <3>1, <3>2 DEF Phase
      <3> QED
        BY <1>1, <1>4, <1>8, <2>4, <3>1, <3>3 DEF PlanCase
    <2>5. CASE s.phase = "Scaling"
      <3>1. plan = Do(IF ScalesIn(s) THEN DeleteWorkers(s.change)
                      ELSE <<Ensure({"pod", "service"}, s.change)>>, Scaled(s))
        BY <1>8, <2>5 DEF Plans, Do
      <3>2. /\ Scaled(s).phase = "Running"
            /\ ScalesIn(s) => Scaled(s).workers \subseteq s.workers
            /\ ~ScalesIn(s) => Scaled(s).workers = s.workers \cup s.change
        BY <1>2 DEF Scaled, Status
      <3> QED
        BY <1>1, <1>4, <1>8, <2>5, <3>1, <3>2 DEF PlanCase
    <2>6. CASE s.phase = "Succeeded"
      <3>1. plan = Do(cleanup, s)
        BY <1>8, <2>6 DEF Plans, Do
      <3> QED
        BY <1>1, <1>4, <1>8, <2>6, <3>1 DEF PlanCase
    <2>7. CASE s.phase = "Failed"
      <3>1. plan = IF needRestartJob(s)
                   THEN Do(DeleteForRestart \o createTrainingJobWorkers(Restarted.workers), Restarted)
                   ELSE Do(cleanup, s)
        BY <1>8, <2>7 DEF Plans, Do
      <3>2. Restarted.phase = "WorkersCreated"
        BY <1>2 DEF Status
      <3> HIDE DEF Restarted
      <3>3. PICK tasks, x : /\ plan = Do(tasks, x)
                            /\ \/ tasks = cleanup /\ x = s
                               \/ /\ x.phase = "WorkersCreated"
                                  /\ tasks = DeleteForRestart \o createTrainingJobWorkers(x.workers)
        BY <3>1, <3>2
      <3>4. plan.op = "ensure" /\ plan.todo = tasks /\ plan.then = x
        BY <1>1, <1>4, <3>3
      <3> QED
        BY <1>8, <2>7, <3>3, <3>4 DEF PlanCase
    <2> QED
      BY <1>2, <1>8, <2>1, <2>2, <2>3, <2>4, <2>5, <2>6, <2>7 DEF Status, Phase
  <1> QED
    BY <1>7, <1>8

-----------------------------------------------------------------------------
(* What a step does to the reconcile under way *)

\* The reconcile of j is b from now on.
LEMMA Replaced ==
    ASSUME TypeOK, NEW j \in DOMAIN busy, NEW b, busy' = [busy EXCEPT ![j] = b]
    PROVE  /\ DOMAIN busy' = DOMAIN busy /\ busy'[j] = b
           /\ \A k \in DOMAIN busy : k # j => busy'[k] = busy[k]
  BY DEF TypeOK

LEMMA LeftRecord ==
    ASSUME TypeOK, NEW j \in DOMAIN busy, NEW r, NEW b, b = [busy[j] EXCEPT !.left = @ \ {r}]
    PROVE  /\ b.op = busy[j].op /\ b.left = busy[j].left \ {r}
           /\ b.todo = busy[j].todo /\ b.then = busy[j].then
  <1>1. busy[j] \in Reconciling
    BY DEF TypeOK
  <1> QED
    BY <1>1 DEF Reconciling

LEMMA FallbackRecord ==
    ASSUME TypeOK, NEW j \in DOMAIN busy
    PROVE  /\ Fallback(j).op = busy[j].op /\ Fallback(j).left = {}
           /\ Deleting(Fallback(j).todo)
           /\ \/ Fallback(j).then.phase = "Failed"
              \/ /\ Fallback(j).then.phase = "Running" /\ status[j].phase = "Scaling"
                 /\ Fallback(j).then.workers = status[j].workers
  <1>1. busy[j] \in Reconciling /\ status[j] \in Status
    BY DEF TypeOK
  <1>2. CASE status[j].phase = "Scaling"
    <2> DEFINE tasks == DeleteWorkers(status[j].change)
               s == [status[j] EXCEPT !.phase = "Running", !.change = {}]
    <2>1. s.phase = "Running" /\ s.workers = status[j].workers
      BY <1>1 DEF Status
    <2>2. Fallback(j) = [busy[j] EXCEPT !.left = {}, !.todo = tasks, !.then = s]
      BY <1>2 DEF Fallback
    <2>3. Deleting(tasks)
      BY DeletingTasks
    <2> HIDE DEF tasks, s
    <2>4. /\ Fallback(j).op = busy[j].op /\ Fallback(j).left = {}
          /\ Fallback(j).todo = tasks /\ Fallback(j).then = s
      BY <1>1, <2>2 DEF Reconciling
    <2> QED
      BY <1>2, <2>1, <2>3, <2>4
  <1>3. CASE status[j].phase # "Scaling"
    <2> DEFINE s == [busy[j].then EXCEPT !.phase = "Failed"]
    <2>1. s.phase = "Failed"
      BY <1>1 DEF Reconciling, Status
    <2>2. Fallback(j) = [busy[j] EXCEPT !.left = {}, !.todo = <<>>, !.then = s]
      BY <1>1, <1>3 DEF Fallback, Reconciling
    <2> HIDE DEF s
    <2>3. /\ Fallback(j).op = busy[j].op /\ Fallback(j).left = {}
          /\ Fallback(j).todo = <<>> /\ Fallback(j).then = s
      BY <1>1, <2>2 DEF Reconciling
    <2> QED
      BY <2>1, <2>3, DeletingTasks
  <1> QED
    BY <1>2, <1>3

LEMMA Stored ==
    ASSUME NEW rs, Store(rs)
    PROVE  exists' = rs /\ seen' \subseteq seen \cup rs /\ queue \subseteq queue'
           /\ \A r \in rs : r \in seen' => r \in seen \/ r \notin exists
  BY DEF Store

\* What EnsureOne does to the reconcile and to the objects, in detail.
LEMMA EnsureEffect ==
    ASSUME TypeOK, NEW j \in Jobs, NEW r \in Resource, EnsureOne(j, r)
    PROVE  /\ j \in DOMAIN busy /\ busy[j].op = "ensure" /\ r \in busy[j].left
           /\ \/ /\ busy' = [busy EXCEPT ![j] = [busy[j] EXCEPT !.left = @ \ {r}]]
                 /\ r \in seen \cup exists' \/ (r.kind \in ErrorIgnored /\ r \in refused')
              \/ busy' = [busy EXCEPT ![j] = Fallback(j)] /\ r.kind \notin ErrorIgnored
           /\ exists' \in {exists, exists \cup {r}} /\ refused \subseteq refused'
           /\ seen' \subseteq seen \cup exists' /\ queue \subseteq queue'
           /\ \A q \in seen' : q # r => q \in seen \/ q \notin exists
           /\ UNCHANGED <<status, suspended, deleted>>
  <1>1. j \in DOMAIN busy /\ busy[j].op = "ensure" /\ r \in busy[j].left
    BY DEF EnsureOne
  <1>2. [busy EXCEPT ![j].left = @ \ {r}] = [busy EXCEPT ![j] = [busy[j] EXCEPT !.left = @ \ {r}]]
    BY <1>1, LeftTyped
  <1>3. Store(exists \cup {r}) \/ UNCHANGED <<exists, seen, queue>>
    BY DEF EnsureOne
  <1>4. /\ exists' \in {exists, exists \cup {r}}
        /\ seen' \subseteq seen \cup exists' /\ queue \subseteq queue'
        /\ \A q \in seen' : q # r => q \in seen \/ q \notin exists
    <2>1. CASE Store(exists \cup {r})
      BY <2>1, Stored
    <2>2. CASE UNCHANGED <<exists, seen, queue>>
      BY <2>2
    <2> QED
      BY <1>3, <2>1, <2>2
  <1>5. /\ \/ /\ busy' = [busy EXCEPT ![j].left = @ \ {r}]
              /\ r \in seen \cup exists' \/ (r.kind \in ErrorIgnored /\ r \in refused')
           \/ busy' = [busy EXCEPT ![j] = Fallback(j)] /\ r.kind \notin ErrorIgnored
        /\ refused \subseteq refused'
    BY DEF EnsureOne, Store
  <1>6. UNCHANGED <<status, suspended, deleted>>
    BY DEF EnsureOne
  <1> QED
    BY <1>1, <1>2, <1>4, <1>5, <1>6

LEMMA DeleteEffect ==
    ASSUME TypeOK, NEW j \in Jobs, NEW r \in Resource, DeleteOne(j, r)
    PROVE  /\ j \in DOMAIN busy /\ busy[j].op = "delete" /\ r \in busy[j].left
           /\ busy' = [busy EXCEPT ![j] = [busy[j] EXCEPT !.left = @ \ {r}]]
           /\ \/ exists' = exists \ {r} /\ deleted' = deleted \cup {r} /\ refused' = refused
              \/ exists' = exists /\ deleted' = deleted /\ refused' = refused \cup {r}
           /\ seen' \subseteq seen \cup exists' /\ queue \subseteq queue'
           /\ \A q \in seen' : q \in seen \/ q \notin exists
           /\ UNCHANGED <<status, suspended>>
  <1>1. j \in DOMAIN busy /\ busy[j].op = "delete" /\ r \in busy[j].left
        /\ UNCHANGED <<status, suspended>>
    BY DEF DeleteOne
  <1>2. busy' = [busy EXCEPT ![j] = [busy[j] EXCEPT !.left = @ \ {r}]]
    BY <1>1, LeftTyped DEF DeleteOne
  <1>3. CASE Store(exists \ {r}) /\ deleted' = deleted \cup {r} /\ refused' = refused
    BY <1>1, <1>2, <1>3, Stored
  <1>4. CASE refused' = refused \cup {r} /\ UNCHANGED <<exists, seen, queue, deleted>>
    BY <1>1, <1>2, <1>4
  <1> QED
    BY <1>3, <1>4 DEF DeleteOne

LEMMA NextTaskEffect ==
    ASSUME TypeOK, NEW j \in Jobs, NextTask(j)
    PROVE  LET task == busy[j].todo[1]
               b == busy'[j]
           IN  /\ j \in DOMAIN busy /\ busy[j].left = {} /\ Len(busy[j].todo) > 0
               /\ busy' = [busy EXCEPT ![j] = b]
               /\ task \in Task /\ b.op = task.op /\ b.then = busy[j].then
               /\ b.left = IF task.op = "ensure" THEN Wanted(j, task)
                           ELSE Listed(j, task.kinds, task.of)
               /\ Len(b.todo) = Len(busy[j].todo) - 1
               /\ \A n \in 1..Len(b.todo) : b.todo[n] = busy[j].todo[n + 1]
               /\ UNCHANGED <<exists, seen, status, suspended, queue, deleted, refused>>
  <1>1. j \in DOMAIN busy /\ busy[j].left = {} /\ busy[j].todo # <<>>
        /\ UNCHANGED <<exists, seen, status, suspended, queue, deleted, refused>>
    BY DEF NextTask
  <1>2. busy[j].todo \in Seq(Task)
    BY <1>1 DEF TypeOK, Reconciling
  <1> DEFINE t == busy[j].todo
             task == Head(t)
             left == IF task.op = "ensure" THEN Wanted(j, task) ELSE Listed(j, task.kinds, task.of)
  <1> DEFINE rec == [busy[j] EXCEPT !.op = task.op, !.todo = Tail(@), !.left = left]
  <1>3. /\ busy' = [busy EXCEPT ![j] = rec]
        /\ rec.op = task.op /\ rec.todo = Tail(t) /\ rec.left = left /\ rec.then = busy[j].then
    BY TaskTyped
  <1> HIDE DEF rec
  <1>4. PICK b : /\ busy' = [busy EXCEPT ![j] = b]
                 /\ b.op = task.op /\ b.todo = Tail(t) /\ b.left = left /\ b.then = busy[j].then
    BY <1>3
  <1>5. busy'[j] = b
    BY <1>1, <1>4, Replaced
  <1> HIDE DEF left, t
  <1>6. /\ Head(t) = t[1] /\ Head(t) \in Task /\ Len(t) > 0
        /\ Len(Tail(t)) = Len(t) - 1
        /\ \A n \in 1..Len(Tail(t)) : Tail(t)[n] = t[n + 1]
    BY <1>1, <1>2, HeadTailProperties DEF t
  <1> QED
    BY <1>1, <1>4, <1>5, <1>6 DEF left, t

\* The loop that starts takes what was first in the sequence.
LEMMA Shifted ==
    ASSUME TypeOK, NEW j \in Jobs, NextTask(j), NEW n \in Nat, n + 1 \in 0..Len(busy[j].todo),
           NEW r, Makes(busy[j], j, r, n + 1)
    PROVE  Makes(busy'[j], j, r, n)
  <1> DEFINE task == busy[j].todo[1]
  <1>1. PICK b : b = busy'[j]
    OBVIOUS
  <1>2. /\ b.op = task.op
        /\ b.left = IF task.op = "ensure" THEN Wanted(j, task)
                    ELSE Listed(j, task.kinds, task.of)
        /\ Len(b.todo) = Len(busy[j].todo) - 1
        /\ \A m \in 1..Len(b.todo) : b.todo[m] = busy[j].todo[m + 1]
    BY <1>1, NextTaskEffect
  <1>3. j \in DOMAIN busy /\ busy[j].left = {}
    BY NextTaskEffect
  <1>4. Len(busy[j].todo) \in Nat
    BY <1>3 DEF TypeOK, Reconciling
  <1>5. PICK m \in 1..(n + 1) :
          busy[j].todo[m].op = "ensure" /\ r \in Wanted(j, busy[j].todo[m])
    BY <1>3 DEF Makes
  <1>6. CASE m = 1
    BY <1>1, <1>2, <1>5, <1>6 DEF Makes
  <1>7. CASE m # 1
    <2>1. m - 1 \in 1..n /\ m - 1 <= Len(busy[j].todo) - 1 /\ (m - 1) + 1 = m
      BY <1>4, <1>7
    <2>2. m - 1 \in 1..Len(b.todo)
      BY <1>2, <1>4, <2>1
    <2>3. b.todo[m - 1] = busy[j].todo[m]
      BY <1>2, <2>1, <2>2
    <2> QED
      BY <1>1, <1>5, <2>1, <2>3 DEF Makes
  <1> QED
    BY <1>6, <1>7

-----------------------------------------------------------------------------
(* One reconcile at a time, on its own job *)

\* A reconcile that only shrinks what it works through stays tidy.
LEMMA TidyKept ==
    ASSUME TypeOK, Tidy, NEW j \in DOMAIN busy, NEW b, busy' = [busy EXCEPT ![j] = b],
           TidyReconcile(b, j)
    PROVE  /\ \A i, k \in DOMAIN busy' : i = k
           /\ \A k \in DOMAIN busy' : TidyReconcile(busy'[k], k)
  BY Replaced DEF Tidy

LEMMA TidyLeft ==
    ASSUME TypeOK, Tidy, NEW j \in DOMAIN busy, NEW r
    PROVE  TidyReconcile([busy[j] EXCEPT !.left = @ \ {r}], j)
  <1> DEFINE b == [busy[j] EXCEPT !.left = @ \ {r}]
  <1>1. /\ b.op = busy[j].op /\ b.left = busy[j].left \ {r} /\ b.todo = busy[j].todo
    BY LeftRecord
  <1> HIDE DEF b
  <1>2. TidyReconcile(b, j)
    BY <1>1 DEF Tidy, TidyReconcile
  <1> QED
    BY <1>2 DEF b

LEMMA TidyFallback ==
    ASSUME TypeOK, NEW j \in DOMAIN busy
    PROVE  TidyReconcile(Fallback(j), j)
  BY FallbackRecord DEF TidyReconcile, Deleting

LEMMA TidyPlan ==
    ASSUME TypeOK, NEW j \in Jobs, NEW plan \in Plans(j)
    PROVE  TidyReconcile(plan, j)
  <1> DEFINE t == plan.todo
  <1>1. plan.left = {} /\ PlanCase(j, t, plan.then) /\ plan.then \in Status
    BY PlanCases
  <1> SUFFICES \A n \in 1..Len(t) : t[n].op = "delete" => t[n].kinds \subseteq Worn
    BY <1>1 DEF TidyReconcile
  <1> HIDE DEF t
  <1>2. CASE Deleting(t)
    BY <1>2 DEF Deleting
  <1>3. CASE \E ws : t = createTrainingJobWorkers(ws)
    <2>1. PICK ws : t = createTrainingJobWorkers(ws)
      BY <1>3
    <2>2. Len(t) = 2 /\ t[1] = Ensure({"secret"}, {0}) /\ t[2] = Ensure({"pod", "service"}, ws)
      BY <2>1, CreatingTasks
    <2>3. \A n \in 1..Len(t) : n = 1 \/ n = 2
      BY <2>2
    <2>4. t[1].op = "ensure" /\ t[2].op = "ensure"
      BY <2>2 DEF Ensure
    <2> QED
      BY <2>3, <2>4
  <1>4. CASE t = createLauncher
    BY <1>4 DEF createLauncher, Ensure
  <1>5. CASE \E ws : t = <<Ensure({"pod", "service"}, ws)>>
    BY <1>5 DEF Ensure
  <1>6. CASE t = DeleteForRestart \o createTrainingJobWorkers(plan.then.workers)
    <2>1. plan.then.workers \in SUBSET Index
      BY <1>1 DEF Status
    <2>2. /\ Len(t) = 5 /\ \A n \in 1..3 : t[n].kinds \subseteq Worn
          /\ t[4] = Ensure({"secret"}, {0})
          /\ t[5] = Ensure({"pod", "service"}, plan.then.workers)
      BY <1>6, <2>1, RestartTasks
    <2>3. \A n \in 1..Len(t) : n \in 1..3 \/ n = 4 \/ n = 5
      BY <2>2
    <2>4. t[4].op = "ensure" /\ t[5].op = "ensure"
      BY <2>2 DEF Ensure
    <2> QED
      BY <2>2, <2>3, <2>4
  <1> QED
    BY <1>1, <1>2, <1>3, <1>4, <1>5, <1>6, DeletingTasks DEF PlanCase

LEMMA TidyNext == TypeOK /\ Tidy /\ [Next]_vars => Tidy'
  <1> SUFFICES ASSUME TypeOK, Tidy, [Next]_vars PROVE Tidy'
    OBVIOUS
  <1>1. ASSUME NEW j \in Jobs, Begin(j) PROVE Tidy'
    <2>1. PICK plan \in Plans(j) : busy' = [k \in {j} |-> plan]
      BY <1>1 DEF Begin
    <2>2. UNCHANGED <<exists, seen, deleted>>
      BY <1>1 DEF Begin
    <2> QED
      BY <2>1, <2>2, TidyPlan DEF Tidy
  <1>2. ASSUME NEW j \in Jobs, NextTask(j) PROVE Tidy'
    <2> DEFINE task == busy[j].todo[1]
               b == busy'[j]
    <2>1. /\ j \in DOMAIN busy /\ busy' = [busy EXCEPT ![j] = b]
          /\ Len(busy[j].todo) > 0 /\ task \in Task /\ b.op = task.op
          /\ b.left = IF task.op = "ensure" THEN Wanted(j, task)
                      ELSE Listed(j, task.kinds, task.of)
          /\ Len(b.todo) = Len(busy[j].todo) - 1
          /\ \A n \in 1..Len(b.todo) : b.todo[n] = busy[j].todo[n + 1]
          /\ UNCHANGED <<exists, seen, deleted>>
      BY <1>2, NextTaskEffect
    <2>2. busy[j].todo \in Seq(Task)
      BY <2>1 DEF TypeOK, Reconciling
    <2>3. task.op = "delete" => task.kinds \subseteq Worn
      BY <2>1, <2>2 DEF Tidy, TidyReconcile
    <2> HIDE DEF b
    <2>4. \A r \in b.left : IF b.op = "ensure" THEN r.job = j ELSE r.kind \in Worn
      BY <2>1, <2>3 DEF Wanted, Listed, Task
    <2>5. \A n \in 1..Len(b.todo) : b.todo[n].op = "delete" => b.todo[n].kinds \subseteq Worn
      <3> SUFFICES ASSUME NEW n \in 1..Len(b.todo)
                   PROVE  b.todo[n].op = "delete" => b.todo[n].kinds \subseteq Worn
        OBVIOUS
      <3>1. n + 1 \in 1..Len(busy[j].todo)
        BY <2>1, <2>2
      <3>2. b.todo[n] = busy[j].todo[n + 1]
        BY <2>1
      <3> QED
        BY <2>1, <3>1, <3>2 DEF Tidy, TidyReconcile
    <2>6. TidyReconcile(b, j)
      BY <2>4, <2>5 DEF TidyReconcile
    <2>7. /\ \A i, k \in DOMAIN busy' : i = k
          /\ \A k \in DOMAIN busy' : TidyReconcile(busy'[k], k)
      BY <2>1, <2>6, TidyKept
    <2> QED
      BY <2>1, <2>7 DEF Tidy
  <1>3. ASSUME NEW j \in Jobs, NEW r \in Resource, EnsureOne(j, r) PROVE Tidy'
    <2>1. /\ j \in DOMAIN busy
          /\ \/ busy' = [busy EXCEPT ![j] = [busy[j] EXCEPT !.left = @ \ {r}]]
             \/ busy' = [busy EXCEPT ![j] = Fallback(j)]
          /\ exists' \in {exists, exists \cup {r}} /\ seen' \subseteq seen \cup exists'
          /\ deleted' = deleted
      BY <1>3, EnsureEffect
    <2>2. /\ \A i, k \in DOMAIN busy' : i = k
          /\ \A k \in DOMAIN busy' : TidyReconcile(busy'[k], k)
      BY <2>1, TidyKept, TidyLeft, TidyFallback
    <2> QED
      BY <2>1, <2>2 DEF Tidy
  <1>4. ASSUME NEW j \in Jobs, NEW r \in Resource, DeleteOne(j, r) PROVE Tidy'
    <2>1. /\ j \in DOMAIN busy /\ busy[j].op = "delete" /\ r \in busy[j].left
          /\ busy' = [busy EXCEPT ![j] = [busy[j] EXCEPT !.left = @ \ {r}]]
          /\ \/ exists' = exists \ {r} /\ deleted' = deleted \cup {r}
             \/ exists' = exists /\ deleted' = deleted
          /\ seen' \subseteq seen \cup exists'
      BY <1>4, DeleteEffect
    <2>2. /\ \A i, k \in DOMAIN busy' : i = k
          /\ \A k \in DOMAIN busy' : TidyReconcile(busy'[k], k)
      BY <2>1, TidyKept, TidyLeft
    <2>3. r.kind \in Worn
      BY <2>1 DEF Tidy, TidyReconcile
    <2> QED
      BY <2>1, <2>2, <2>3 DEF Tidy
  <1>5. ASSUME NEW j \in Jobs, Wait(j) \/ Finish(j) PROVE Tidy'
    <2>1. UNCHANGED <<exists, seen, deleted>>
      BY <1>5 DEF Wait, Finish
    <2>2. CASE busy' = Idle
      BY <2>1, <2>2, IdleTyped DEF Tidy
    <2>3. CASE busy' = [busy EXCEPT ![j] = Fallback(j)] /\ j \in DOMAIN busy
      BY <2>1, <2>3, TidyKept, TidyFallback DEF Tidy
    <2> QED
      BY <1>5, <2>2, <2>3 DEF Wait, Finish, Done
  <1>6. ASSUME NEW r \in Resource, Deliver(r) PROVE Tidy'
    BY <1>6 DEF Deliver, Tidy
  <1>7. CASE Crash
    BY <1>7, IdleTyped DEF Crash, Tidy
  <1>8. CASE UNCHANGED <<exists, seen, deleted, busy>>
    BY <1>8 DEF Tidy
  <1> QED
    BY <1>1, <1>2, <1>3, <1>4, <1>5, <1>6, <1>7, <1>8 DEF Next, Event, Suspend, vars

LEMMA TidyAlways == Spec => []Tidy
  <1>1. Init => Tidy
    BY IdleTyped DEF Init, Tidy
  <1> QED
    BY <1>1, TidyNext, Typing, PTL DEF Spec

-----------------------------------------------------------------------------
(* Each worker gets its pod and its service *)

\* Where b leads to, each worker has its pod and its service, had them, or gets
\* them before.
ServicedReconcile(b, j) ==
    b.then.phase \notin {"Failed", "Suspended"} =>
        \A k \in {"pod", "service"}, i \in b.then.workers :
            \/ Object(k, j, i) \in exists \cup deleted
            \/ Makes(b, j, Object(k, j, i), Len(b.todo))

ServicedInv ==
    /\ Serviced
    /\ \A j \in DOMAIN busy : ServicedReconcile(busy[j], j)

LEMMA WantedObject ==
    \A j, kinds, of : \A k \in kinds, i \in of : Object(k, j, i) \in Wanted(j, Ensure(kinds, of))
  BY DEF Object, Wanted, Ensure

LEMMA ServicedPlan ==
    ASSUME TypeOK, Serviced, NEW j \in Jobs, NEW plan \in Plans(j)
    PROVE  ServicedReconcile(plan, j)
  <1> DEFINE t == plan.todo
             s == status[j]
             ws == plan.then.workers
  <1>1. PlanCase(j, t, plan.then) /\ plan.then \in Status /\ ws \in SUBSET Index
    BY PlanCases DEF Status
  <1> SUFFICES ASSUME plan.then.phase \notin {"Failed", "Suspended"},
                      NEW k \in {"pod", "service"}, NEW i \in ws
               PROVE  \/ Object(k, j, i) \in exists \cup deleted
                      \/ Makes(plan, j, Object(k, j, i), Len(t))
    BY DEF ServicedReconcile
  <1>2. ASSUME s.phase \notin {"Failed", "Suspended"}, i \in s.workers
        PROVE  Object(k, j, i) \in exists \cup deleted
    BY <1>2 DEF Serviced, Object
  <1>3. ASSUME NEW n \in 1..Len(t), NEW of, t[n] = Ensure({"pod", "service"}, of), i \in of
        PROVE  Makes(plan, j, Object(k, j, i), Len(t))
    <2>1. Object(k, j, i) \in Wanted(j, Ensure({"pod", "service"}, of))
      BY <1>3, WantedObject
    <2>2. t[n].op = "ensure"
      BY <1>3 DEF Ensure
    <2> QED
      BY <1>3, <2>1, <2>2 DEF Makes
  <1>4. CASE s.phase = "Created" /\ t = createTrainingJobWorkers(ws)
    <2>1. Len(t) = 2 /\ t[2] = Ensure({"pod", "service"}, ws)
      BY <1>4, CreatingTasks
    <2>2. 2 \in 1..Len(t)
      BY <2>1
    <2> QED
      BY <1>3, <2>1, <2>2
  <1>5. CASE s.phase = "Scaling" /\ t = <<Ensure({"pod", "service"}, s.change)>>
             /\ ws = s.workers \cup s.change
    <2>1. Len(t) = 1 /\ t[1] = Ensure({"pod", "service"}, s.change)
      BY <1>5
    <2>2. 1 \in 1..Len(t)
      BY <2>1
    <2>3. CASE i \in s.workers
      BY <1>2, <1>5, <2>3
    <2>4. CASE i \in s.change
      BY <1>3, <2>1, <2>2, <2>4
    <2> QED
      BY <1>5, <2>3, <2>4
  <1>6. CASE s.phase = "Failed" /\ t = DeleteForRestart \o createTrainingJobWorkers(ws)
    <2>1. Len(t) = 5 /\ t[5] = Ensure({"pod", "service"}, ws)
      BY <1>1, <1>6, RestartTasks
    <2>2. 5 \in 1..Len(t)
      BY <2>1
    <2> QED
      BY <1>3, <2>1, <2>2
  <1>7. CASE s.phase \notin {"Failed", "Suspended"} /\ ws \subseteq s.workers
    BY <1>2, <1>7
  <1> HIDE DEF t
  <1> QED
    BY <1>1, <1>4, <1>5, <1>6, <1>7 DEF PlanCase

\* What a job has or had it goes on to have or have had.
LEMMA HadGrows ==
    ASSUME TypeOK, [Next]_vars
    PROVE  exists \cup deleted \subseteq exists' \cup deleted'
  <1>1. ASSUME NEW j \in Jobs, NEW r \in Resource, EnsureOne(j, r) \/ DeleteOne(j, r)
        PROVE  exists \cup deleted \subseteq exists' \cup deleted'
    <2>1. CASE EnsureOne(j, r)
      BY <2>1, EnsureEffect
    <2>2. CASE DeleteOne(j, r)
      BY <2>2, DeleteEffect
    <2> QED
      BY <1>1, <2>1, <2>2
  <1>2. CASE UNCHANGED <<exists, deleted>>
    BY <1>2
  <1> QED
    BY <1>1, <1>2
    DEF Next, Begin, NextTask, Wait, Finish, Event, Suspend, Deliver, Crash, vars

\* The step of a reconcile to b leaves the rest of it as it was.
LEMMA ServicedKept ==
    ASSUME TypeOK, ServicedInv, NEW j \in DOMAIN busy, NEW b, busy' = [busy EXCEPT ![j] = b],
           status' = status, exists \cup deleted \subseteq exists' \cup deleted',
           ServicedReconcile(b, j)'
    PROVE  ServicedInv'
  <1>1. Serviced'
    BY DEF ServicedInv, Serviced
  <1>2. ASSUME NEW k \in DOMAIN busy' PROVE ServicedReconcile(busy[k], k)'
    <2>1. CASE k = j
      BY <2>1, Replaced
    <2>2. CASE k # j
      <3>1. k \in DOMAIN busy /\ busy'[k] = busy[k] /\ ServicedReconcile(busy[k], k)
        BY <2>2, Replaced DEF ServicedInv
      <3> QED
        BY <3>1 DEF ServicedReconcile, Makes, Wanted
    <2> QED
      BY <2>1, <2>2
  <1> QED
    BY <1>1, <1>2 DEF ServicedInv

\* What is dropped from the loop under way is there, or was.
LEMMA ServicedLeft ==
    ASSUME TypeOK, Tidy, NEW j \in DOMAIN busy, ServicedReconcile(busy[j], j), NEW r,
           r \in exists' \cup deleted' \/ r.kind \notin {"pod", "service"},
           exists \cup deleted \subseteq exists' \cup deleted',
           NEW b, b = [busy[j] EXCEPT !.left = @ \ {r}]
    PROVE  ServicedReconcile(b, j)'
  <1> SUFFICES ASSUME b.then.phase \notin {"Failed", "Suspended"},
                      NEW k \in {"pod", "service"}, NEW i \in b.then.workers
               PROVE  \/ Object(k, j, i) \in exists' \cup deleted'
                      \/ Makes(b, j, Object(k, j, i), Len(b.todo))
    BY DEF ServicedReconcile, Makes, Wanted, Object
  <1>1. /\ b.op = busy[j].op /\ b.left = busy[j].left \ {r}
        /\ b.todo = busy[j].todo /\ b.then = busy[j].then
    BY LeftRecord
  <1>2. \/ Object(k, j, i) \in exists \cup deleted
        \/ Makes(busy[j], j, Object(k, j, i), Len(b.todo))
    BY <1>1 DEF ServicedReconcile
  <1>3. Object(k, j, i) = r => r \in exists' \cup deleted'
    BY DEF Object
  <1> QED
    BY <1>1, <1>2, <1>3 DEF Makes

LEMMA ServicedSame ==
    ASSUME NEW j, NEW b, ServicedReconcile(b, j),
           exists \cup deleted \subseteq exists' \cup deleted'
    PROVE  ServicedReconcile(b, j)'
  <1> SUFFICES ASSUME b.then.phase \notin {"Failed", "Suspended"},
                      NEW k \in {"pod", "service"}, NEW i \in b.then.workers
               PROVE  \/ Object(k, j, i) \in exists' \cup deleted'
                      \/ Makes(b, j, Object(k, j, i), Len(b.todo))
    BY DEF ServicedReconcile, Makes, Wanted, Object
  <1> QED
    BY DEF ServicedReconcile

LEMMA ServicedNext == TypeOK /\ Tidy /\ ServicedInv /\ [Next]_vars => ServicedInv'
  <1> SUFFICES ASSUME TypeOK, Tidy, ServicedInv, [Next]_vars PROVE ServicedInv'
    OBVIOUS
  <1>0. exists \cup deleted \subseteq exists' \cup deleted'
    BY HadGrows
  <1>1. ASSUME NEW j \in Jobs, Begin(j) PROVE ServicedInv'
    <2>1. PICK plan : plan \in Plans(j) /\ busy' = [k \in {j} |-> plan]
      BY <1>1 DEF Begin
    <2>2. UNCHANGED <<exists, deleted, status>>
      BY <1>1 DEF Begin
    <2>3. ServicedReconcile(plan, j)
      BY <2>1, ServicedPlan DEF ServicedInv
    <2>4. ServicedReconcile(plan, j)'
      BY <1>0, <2>3, ServicedSame
    <2> QED
      BY <2>1, <2>2, <2>4 DEF ServicedInv, Serviced
  <1>2. ASSUME NEW j \in Jobs, NextTask(j) PROVE ServicedInv'
    <2>1. PICK b : b = busy'[j]
      OBVIOUS
    <2>2. /\ j \in DOMAIN busy /\ busy' = [busy EXCEPT ![j] = b]
          /\ b.then = busy[j].then /\ Len(b.todo) = Len(busy[j].todo) - 1
          /\ Len(busy[j].todo) > 0 /\ UNCHANGED <<exists, deleted, status>>
      BY <1>2, <2>1, NextTaskEffect
    <2>3. Len(busy[j].todo) \in Nat /\ ServicedReconcile(busy[j], j)
      BY <2>2 DEF TypeOK, Reconciling, ServicedInv
    <2>4. ASSUME NEW r, Makes(busy[j], j, r, Len(busy[j].todo))
          PROVE  Makes(b, j, r, Len(b.todo))
      <3>1. PICK n \in Nat : n = Len(b.todo) /\ n + 1 = Len(busy[j].todo)
        BY <2>2, <2>3
      <3>2. Makes(busy[j], j, r, n + 1) /\ n + 1 \in 0..Len(busy[j].todo)
        BY <2>4, <3>1, <2>3
      <3>3. Makes(busy'[j], j, r, n)
        BY <1>2, <3>2, Shifted
      <3> QED
        BY <2>1, <3>1, <3>3
    <2>5. ServicedReconcile(b, j)
      BY <2>2, <2>3, <2>4 DEF ServicedReconcile
    <2>6. ServicedReconcile(b, j)'
      BY <1>0, <2>5, ServicedSame
    <2> QED
      BY <1>0, <2>2, <2>6, ServicedKept
  <1>3. ASSUME NEW j \in DOMAIN busy, status' = status,
               busy' = [busy EXCEPT ![j] = Fallback(j)]
        PROVE  ServicedInv'
    <2> DEFINE f == Fallback(j)
    <2>1. j \in Jobs
      BY DEF TypeOK
    <2>2. /\ \/ f.then.phase = "Failed"
             \/ /\ f.then.phase = "Running" /\ status[j].phase = "Scaling"
                /\ f.then.workers = status[j].workers
      BY FallbackRecord
    <2> HIDE DEF f
    <2>3. f.then.phase # "Failed" => \A k \in {"pod", "service"}, i \in f.then.workers :
            Object(k, j, i) \in exists' \cup deleted'
      BY <1>0, <2>1, <2>2 DEF ServicedInv, Serviced, Object
    <2>4. PICK b : b = f
      OBVIOUS
    <2>5. ServicedReconcile(b, j)'
      BY <2>3, <2>4 DEF ServicedReconcile, Object
    <2>6. busy' = [busy EXCEPT ![j] = b]
      BY <1>3, <2>4 DEF f
    <2> QED
      BY <1>0, <1>3, <2>5, <2>6, ServicedKept
  <1>4. ASSUME NEW j \in DOMAIN busy, status' = status, NEW r,
               busy' = [busy EXCEPT ![j] = [busy[j] EXCEPT !.left = @ \ {r}]],
               r \in exists' \cup deleted' \/ r.kind \notin {"pod", "service"}
        PROVE  ServicedInv'
    <2>1. PICK b : b = [busy[j] EXCEPT !.left = @ \ {r}]
      OBVIOUS
    <2>2. ServicedReconcile(busy[j], j)
      BY DEF ServicedInv
    <2>3. ServicedReconcile(b, j)'
      BY <1>0, <1>4, <2>1, <2>2, ServicedLeft
    <2> QED
      BY <1>0, <1>4, <2>1, <2>3, ServicedKept
  <1>5. ASSUME NEW j \in Jobs, NEW r \in Resource, EnsureOne(j, r) PROVE ServicedInv'
    <2>1. /\ j \in DOMAIN busy /\ status' = status
          /\ \/ /\ busy' = [busy EXCEPT ![j] = [busy[j] EXCEPT !.left = @ \ {r}]]
                /\ r \in seen \cup exists' \/ r.kind \in ErrorIgnored
             \/ busy' = [busy EXCEPT ![j] = Fallback(j)]
      BY <1>5, EnsureEffect
    <2>2. r \in seen => r \in exists' \cup deleted'
      BY <1>0 DEF Tidy
    <2>3. r.kind \in ErrorIgnored => r.kind \notin {"pod", "service"}
      BY DEF ErrorIgnored
    <2> QED
      BY <1>3, <1>4, <2>1, <2>2, <2>3
  <1>6. ASSUME NEW j \in Jobs, NEW r \in Resource, DeleteOne(j, r) PROVE ServicedInv'
    <2>1. /\ j \in DOMAIN busy /\ busy[j].op = "delete" /\ status' = status
          /\ busy' = [busy EXCEPT ![j] = [busy[j] EXCEPT !.left = @ \ {r}]]
      BY <1>6, DeleteEffect
    <2>2. PICK b : b = [busy[j] EXCEPT !.left = @ \ {r}]
      OBVIOUS
    <2>3. /\ b.op = busy[j].op /\ b.todo = busy[j].todo /\ b.then = busy[j].then
      BY <2>1, <2>2, LeftRecord
    <2>4. ServicedReconcile(busy[j], j)
      BY <2>1 DEF ServicedInv
    <2>5. ServicedReconcile(b, j)'
      BY <1>0, <2>1, <2>3, <2>4 DEF ServicedReconcile, Makes, Wanted, Object
    <2> QED
      BY <1>0, <2>1, <2>2, <2>5, ServicedKept
  <1>7. ASSUME NEW j \in Jobs, Wait(j) PROVE ServicedInv'
    <2>1. j \in DOMAIN busy /\ UNCHANGED <<exists, deleted, status>>
      BY <1>7 DEF Wait, Done
    <2>2. CASE busy' = Idle
      BY <2>1, <2>2, IdleTyped DEF ServicedInv, Serviced
    <2>3. CASE busy' = [busy EXCEPT ![j] = Fallback(j)]
      BY <1>3, <2>1, <2>3
    <2> QED
      BY <1>7, <2>2, <2>3 DEF Wait
  <1>8. ASSUME NEW j \in Jobs, Finish(j) PROVE ServicedInv'
    <2>1. /\ j \in DOMAIN busy /\ busy[j].left = {} /\ busy[j].todo = <<>>
          /\ busy' = Idle /\ UNCHANGED <<exists, deleted>>
          /\ status' = [status EXCEPT ![j] = busy[j].then] \/ status' = status
      BY <1>8 DEF Finish, Done
    <2>2. \A k \in {"pod", "service"} : busy[j].then.phase \notin {"Failed", "Suspended"} =>
            \A i \in busy[j].then.workers : Object(k, j, i) \in exists \cup deleted
      BY <2>1 DEF ServicedInv, ServicedReconcile, Makes
    <2>3. Serviced'
      <3>1. CASE status' = status
        BY <2>1, <3>1 DEF ServicedInv, Serviced
      <3>2. CASE status' = [status EXCEPT ![j] = busy[j].then]
        BY <2>1, <2>2, <3>2 DEF ServicedInv, Serviced, Object, TypeOK
      <3> QED
        BY <2>1, <3>1, <3>2
    <2> QED
      BY <2>1, <2>3, IdleTyped DEF ServicedInv
  <1>9. CASE Crash
    BY <1>9, IdleTyped DEF Crash, ServicedInv, Serviced
  <1>10. CASE UNCHANGED <<exists, deleted, busy, status>>
    BY <1>10 DEF ServicedInv, Serviced, ServicedReconcile, Makes, Wanted, Object
  <1> QED
    BY <1>1, <1>2, <1>5, <1>6, <1>7, <1>8, <1>9, <1>10 DEF Next, Event, Suspend, Deliver, vars

\* A job does not get past the creation of its workers before each has its pod
\* and its service, though createWorkers makes them by two calls for each worker,
\* reads a cache that may be behind, and may crash or fail at any call
\* (worker.go:237-307).
THEOREM Served == Spec => []Serviced
  <1>1. Init => ServicedInv
    BY IdleTyped DEF Init, ServicedInv, Serviced
  <1>2. ServicedInv => Serviced
    BY DEF ServicedInv
  <1> QED
    BY <1>1, <1>2, ServicedNext, Typing, TidyAlways, PTL DEF Spec

-----------------------------------------------------------------------------
(* No pod is without what it mounts or runs as *)

\* The job j has its object of the kind k, or an error that kept it from having it
\* was ignored.
Fixed(j, k) ==
    Object(k, j, 0) \in exists \/ (k \in ErrorIgnored /\ Object(k, j, 0) \in refused)

\* The steps of a job that may have worker pods, or get more.
Staffed == {"WorkersCreated", "WorkersReady", "Running", "Scaling"}

EquippedReconcile(b, j) ==
    /\ b.then.phase \in Staffed =>
         Fixed(j, "secret") \/ Makes(b, j, Object("secret", j, 0), Len(b.todo))
    /\ b.op = "ensure" => \A r \in b.left : \A k \in Needs(r.kind) : Fixed(j, k)
    /\ \A n \in 1..Len(b.todo) : b.todo[n].op = "ensure" =>
         \A kind \in b.todo[n].kinds : \A k \in Needs(kind) :
            Fixed(j, k) \/ Makes(b, j, Object(k, j, 0), n - 1)

EquippedInv ==
    /\ \A r \in exists : \A k \in Needs(r.kind) : Fixed(r.job, k)
    /\ \A j \in Jobs : status[j].phase \in Staffed => Fixed(j, "secret")
    /\ \A j \in DOMAIN busy : EquippedReconcile(busy[j], j)

LEMMA NeedsFixed ==
    /\ \A kind : Needs(kind) \subseteq {"secret", "config", "role"}
    /\ \A k \in {"secret", "config", "role"} : k \notin Worn
    /\ Needs("secret") = {} /\ Needs("config") = {} /\ Needs("role") = {}
    /\ Needs("service") = {} /\ Needs("pod") = {"secret"}
    /\ Needs("launcher") = {"config", "role"}
  BY DEF Needs, Worn

LEMMA EquippedPlan ==
    ASSUME TypeOK, EquippedInv, NEW j \in Jobs, NEW plan, plan \in Plans(j)
    PROVE  EquippedReconcile(plan, j)
  <1> DEFINE t == plan.todo
             s == status[j]
             ws == plan.then.workers
             Met(k, n) == Fixed(j, k) \/ Makes(plan, j, Object(k, j, 0), n)
             Ready(n) == t[n].op = "ensure" =>
                           \A kind \in t[n].kinds : \A k \in Needs(kind) : Met(k, n - 1)
  <1>1. PlanCase(j, t, plan.then) /\ plan.then \in Status /\ ws \in SUBSET Index /\ plan.left = {}
    BY PlanCases DEF Status
  <1>2. s.phase \in Staffed => \A n : Met("secret", n)
    BY DEF EquippedInv
  <1>3. ASSUME NEW n \in Nat, NEW m \in 1..n, NEW k, t[m] = Ensure({k}, {0})
        PROVE  Met(k, n)
    <2>1. Object(k, j, 0) \in Wanted(j, Ensure({k}, {0}))
      BY WantedObject
    <2>2. t[m].op = "ensure"
      BY <1>3 DEF Ensure
    <2> QED
      BY <1>3, <2>1, <2>2 DEF Makes
  <1>4. \A n, kinds, of : t[n] = Ensure(kinds, of) => t[n].kinds = kinds
    BY DEF Ensure
  <1> SUFFICES /\ plan.then.phase \in Staffed => Met("secret", Len(t))
               /\ \A n \in 1..Len(t) : Ready(n)
    BY <1>1 DEF EquippedReconcile
  <1>5. CASE Deleting(t)
    <2>1. \A n \in 1..Len(t) : Ready(n)
      BY <1>5 DEF Deleting
    <2>2. plan.then.phase \in Staffed => s.phase \in Staffed
      <3>1. t # createLauncher /\ t # createTrainingJobWorkers(ws)
            /\ t # <<Ensure({"pod", "service"}, s.change)>>
        <4>1. /\ 1 \in 1..Len(createLauncher) /\ 1 \in 1..Len(createTrainingJobWorkers(ws))
              /\ 1 \in 1..Len(<<Ensure({"pod", "service"}, s.change)>>)
              /\ createLauncher[1].op = "ensure" /\ createTrainingJobWorkers(ws)[1].op = "ensure"
              /\ <<Ensure({"pod", "service"}, s.change)>>[1].op = "ensure"
          BY DEF createLauncher, createTrainingJobWorkers, Ensure
        <4> HIDE DEF t
        <4> QED
          BY <1>5, <4>1 DEF Deleting
      <3>2. t # DeleteForRestart \o createTrainingJobWorkers(ws)
        <4>1. ASSUME t = DeleteForRestart \o createTrainingJobWorkers(ws) PROVE FALSE
          <5>1. Len(t) = 5 /\ t[5] = Ensure({"pod", "service"}, ws)
            BY <1>1, <4>1, RestartTasks
          <5>2. 5 \in 1..Len(t) /\ t[5].op = "ensure"
            BY <5>1 DEF Ensure
          <5> QED
            BY <1>5, <5>2 DEF Deleting
        <4> QED
          BY <4>1
      <3> HIDE DEF t
      <3> QED
        BY <1>1, <3>1, <3>2 DEF PlanCase, Staffed
    <2> QED
      BY <1>2, <2>1, <2>2
  <1>6. CASE t = createTrainingJobWorkers(ws)
    <2>1. Len(t) = 2 /\ t[1] = Ensure({"secret"}, {0}) /\ t[2] = Ensure({"pod", "service"}, ws)
      BY <1>6, CreatingTasks
    <2>2. Met("secret", 1) /\ Met("secret", Len(t))
      BY <1>3, <2>1
    <2>3. t[1].kinds = {"secret"} /\ t[2].kinds = {"pod", "service"}
      BY <1>4, <2>1
    <2>4. Ready(1) /\ Ready(2)
      BY <2>2, <2>3, NeedsFixed
    <2>5. \A n \in 1..Len(t) : n = 1 \/ n = 2
      BY <2>1
    <2> HIDE DEF Ready, Met
    <2> QED
      BY <2>2, <2>4, <2>5
  <1>7. CASE t = createLauncher /\ s.phase = "WorkersReady"
    <2>1. Len(t) = 3 /\ t[1] = Ensure({"role"}, {0}) /\ t[2] = Ensure({"config"}, {0})
          /\ t[3] = Ensure({"launcher"}, {0})
      BY <1>7 DEF createLauncher
    <2>2. Met("role", 2) /\ Met("config", 2)
      BY <1>3, <2>1
    <2>3. t[1].kinds = {"role"} /\ t[2].kinds = {"config"} /\ t[3].kinds = {"launcher"}
      BY <1>4, <2>1
    <2>4. Ready(1) /\ Ready(2) /\ Ready(3)
      BY <2>2, <2>3, NeedsFixed
    <2>5. \A n \in 1..Len(t) : n = 1 \/ n = 2 \/ n = 3
      BY <2>1
    <2>6. Met("secret", Len(t))
      BY <1>2, <1>7 DEF Staffed
    <2> HIDE DEF Ready, Met
    <2> QED
      BY <2>4, <2>5, <2>6
  <1>8. CASE t = <<Ensure({"pod", "service"}, s.change)>> /\ s.phase = "Scaling"
    <2>1. Len(t) = 1 /\ t[1] = Ensure({"pod", "service"}, s.change)
      BY <1>8
    <2>2. Met("secret", 0) /\ Met("secret", Len(t))
      BY <1>2, <1>8 DEF Staffed
    <2>3. t[1].kinds = {"pod", "service"}
      BY <1>4, <2>1
    <2>4. Ready(1)
      BY <2>2, <2>3, NeedsFixed
    <2>5. \A n \in 1..Len(t) : n = 1
      BY <2>1
    <2> HIDE DEF Ready, Met
    <2> QED
      BY <2>2, <2>4, <2>5
  <1>9. CASE t = DeleteForRestart \o createTrainingJobWorkers(ws)
    <2>1. /\ Len(t) = 5 /\ \A n \in 1..3 : t[n].op = "delete"
          /\ t[4] = Ensure({"secret"}, {0}) /\ t[5] = Ensure({"pod", "service"}, ws)
      BY <1>1, <1>9, RestartTasks
    <2>2. Met("secret", 4) /\ Met("secret", Len(t))
      BY <1>3, <2>1
    <2>3. t[4].kinds = {"secret"} /\ t[5].kinds = {"pod", "service"}
      BY <1>4, <2>1
    <2>4. Ready(4) /\ Ready(5) /\ \A n \in 1..3 : Ready(n)
      BY <2>1, <2>2, <2>3, NeedsFixed
    <2>5. \A n \in 1..Len(t) : n \in 1..3 \/ n = 4 \/ n = 5
      BY <2>1
    <2> HIDE DEF Ready, Met
    <2> QED
      BY <2>2, <2>4, <2>5
  <1> HIDE DEF t, Met, Ready
  <1> QED
    BY <1>1, <1>5, <1>6, <1>7, <1>8, <1>9, DeletingTasks DEF PlanCase

\* What a job has of the objects its pods need is never deleted.
LEMMA FixedKept ==
    ASSUME TypeOK, Tidy, [Next]_vars
    PROVE  \A j, k : k \in {"secret", "config", "role"} /\ Fixed(j, k) => Fixed(j, k)'
  <1>1. \A r \in exists : r.kind \notin Worn => r \in exists'
    <2>1. ASSUME NEW j \in Jobs, NEW r \in Resource, EnsureOne(j, r) \/ DeleteOne(j, r)
          PROVE  \A q \in exists : q.kind \notin Worn => q \in exists'
      <3>1. CASE EnsureOne(j, r)
        BY <3>1, EnsureEffect
      <3>2. CASE DeleteOne(j, r)
        <4>1. j \in DOMAIN busy /\ busy[j].op = "delete" /\ r \in busy[j].left
              /\ exists' \in {exists, exists \ {r}}
          BY <3>2, DeleteEffect
        <4>2. r.kind \in Worn
          BY <4>1 DEF Tidy, TidyReconcile
        <4> QED
          BY <4>1, <4>2
      <3> QED
        BY <2>1, <3>1, <3>2
    <2>2. CASE UNCHANGED exists
      BY <2>2
    <2> QED
      BY <2>1, <2>2
      DEF Next, Begin, NextTask, Wait, Finish, Event, Suspend, Deliver, Crash, vars
  <1>2. refused \subseteq refused'
    <2>1. ASSUME NEW j \in Jobs, NEW r \in Resource, EnsureOne(j, r) \/ DeleteOne(j, r)
          PROVE  refused \subseteq refused'
      BY <2>1, EnsureEffect, DeleteEffect
    <2>2. CASE UNCHANGED refused
      BY <2>2
    <2> QED
      BY <2>1, <2>2
      DEF Next, Begin, NextTask, Wait, Finish, Event, Suspend, Deliver, Crash, vars
  <1>3. \A j, k : Object(k, j, 0).kind = k
    BY DEF Object
  <1> QED
    BY <1>1, <1>2, <1>3, NeedsFixed DEF Fixed, Object

LEMMA EquippedSame ==
    ASSUME NEW j, NEW b, NEW c, EquippedReconcile(b, j),
           c.then = b.then, c.todo = b.todo, c.op = b.op, c.left \subseteq b.left,
           \A k \in {"secret", "config", "role"} :
             /\ Fixed(j, k) => Fixed(j, k)'
             /\ b.op = "ensure" /\ Object(k, j, 0) \in b.left =>
                  Object(k, j, 0) \in c.left \/ Fixed(j, k)'
    PROVE  EquippedReconcile(c, j)'
  <1> SUFFICES /\ c.then.phase \in Staffed =>
                    Fixed(j, "secret")' \/ Makes(c, j, Object("secret", j, 0), Len(c.todo))
               /\ c.op = "ensure" => \A r \in c.left : \A k \in Needs(r.kind) : Fixed(j, k)'
               /\ \A n \in 1..Len(c.todo) : c.todo[n].op = "ensure" =>
                    \A kind \in c.todo[n].kinds : \A k \in Needs(kind) :
                       Fixed(j, k)' \/ Makes(c, j, Object(k, j, 0), n - 1)
    BY DEF EquippedReconcile, Staffed, Needs
  <1>1. ASSUME NEW k \in {"secret", "config", "role"}, NEW n, Makes(b, j, Object(k, j, 0), n)
        PROVE  Fixed(j, k)' \/ Makes(c, j, Object(k, j, 0), n)
    BY <1>1 DEF Makes
  <1> QED
    BY <1>1, NeedsFixed DEF EquippedReconcile

\* The step of a reconcile to b, which makes no object or r.
LEMMA EquippedKept ==
    ASSUME TypeOK, Tidy, EquippedInv, [Next]_vars, status' = status,
           NEW j \in DOMAIN busy, NEW b, busy' = [busy EXCEPT ![j] = b],
           EquippedReconcile(b, j)',
           \A r \in exists' : r \in exists \/ (busy[j].op = "ensure" /\ r \in busy[j].left)
    PROVE  EquippedInv'
  <1>1. \A i, k : k \in {"secret", "config", "role"} /\ Fixed(i, k) => Fixed(i, k)'
    BY FixedKept
  <1>2. EquippedReconcile(busy[j], j) /\ TidyReconcile(busy[j], j)
    BY DEF EquippedInv, Tidy
  <1>3. ASSUME NEW r \in exists', NEW k \in Needs(r.kind) PROVE Fixed(r.job, k)'
    <2>1. CASE r \in exists
      BY <1>1, <2>1, NeedsFixed DEF EquippedInv
    <2>2. CASE busy[j].op = "ensure" /\ r \in busy[j].left
      BY <1>1, <1>2, <2>2, NeedsFixed DEF EquippedReconcile, TidyReconcile
    <2> QED
      BY <2>1, <2>2
  <1>4. ASSUME NEW i \in Jobs, status[i].phase \in Staffed PROVE Fixed(i, "secret")'
    BY <1>1, <1>4 DEF EquippedInv
  <1>5. DOMAIN busy' = {j} /\ busy'[j] = b
    BY Replaced DEF Tidy
  <1>6. \A r \in exists' : \A k \in Needs(r.kind) : Fixed(r.job, k)'
    BY <1>3
  <1>7. \A i \in Jobs : status'[i].phase \in Staffed => Fixed(i, "secret")'
    BY <1>4
  <1>8. \A i \in DOMAIN busy' : EquippedReconcile(busy[i], i)'
    BY <1>5
  <1> QED
    BY <1>6, <1>7, <1>8 DEF EquippedInv, Needs, Staffed

LEMMA EquippedNext == TypeOK /\ Tidy /\ EquippedInv /\ [Next]_vars => EquippedInv'
  <1> SUFFICES ASSUME TypeOK, Tidy, EquippedInv, [Next]_vars PROVE EquippedInv'
    OBVIOUS
  <1>0. \A j, k : k \in {"secret", "config", "role"} /\ Fixed(j, k) => Fixed(j, k)'
    BY FixedKept
  <1>1. ASSUME NEW j \in Jobs, Begin(j) PROVE EquippedInv'
    <2>1. PICK plan : plan \in Plans(j) /\ busy' = [k \in {j} |-> plan]
      BY <1>1 DEF Begin
    <2>2. UNCHANGED <<exists, status>>
      BY <1>1 DEF Begin
    <2>3. EquippedReconcile(plan, j)'
      BY <1>0, <2>1, EquippedPlan, EquippedSame
    <2>4. \A r \in exists' : \A k \in Needs(r.kind) : Fixed(r.job, k)'
      BY <1>0, <2>2, NeedsFixed DEF EquippedInv
    <2>5. \A i \in Jobs : status'[i].phase \in Staffed => Fixed(i, "secret")'
      BY <1>0, <2>2 DEF EquippedInv
    <2>6. \A i \in DOMAIN busy' : EquippedReconcile(busy[i], i)'
      BY <2>1, <2>3
    <2> QED
      BY <2>4, <2>5, <2>6 DEF EquippedInv, Needs, Staffed
  <1>2. ASSUME NEW j \in Jobs, NextTask(j) PROVE EquippedInv'
    <2> DEFINE task == busy[j].todo[1]
    <2>1. PICK b : b = busy'[j]
      OBVIOUS
    <2>2. /\ j \in DOMAIN busy /\ busy' = [busy EXCEPT ![j] = b] /\ busy[j].left = {}
          /\ task \in Task /\ b.op = task.op
          /\ b.left = IF task.op = "ensure" THEN Wanted(j, task)
                      ELSE Listed(j, task.kinds, task.of)
          /\ b.then = busy[j].then /\ Len(b.todo) = Len(busy[j].todo) - 1
          /\ \A n \in 1..Len(b.todo) : b.todo[n] = busy[j].todo[n + 1]
          /\ Len(busy[j].todo) > 0 /\ UNCHANGED <<exists, status>>
      BY <1>2, <2>1, NextTaskEffect
    <2>3. Len(busy[j].todo) \in Nat /\ EquippedReconcile(busy[j], j)
      BY <2>2 DEF TypeOK, Reconciling, EquippedInv
    <2>4. ASSUME NEW n \in 0..Len(b.todo), NEW r, Makes(busy[j], j, r, n + 1)
          PROVE  Makes(b, j, r, n)
      <3>1. n \in Nat /\ n + 1 \in 0..Len(busy[j].todo)
        BY <2>2, <2>3
      <3>2. Makes(busy'[j], j, r, n)
        BY <1>2, <2>4, <3>1, Shifted
      <3> QED
        BY <2>1, <3>2
    <2>5. b.then.phase \in Staffed =>
            Fixed(j, "secret") \/ Makes(b, j, Object("secret", j, 0), Len(b.todo))
      <3>1. PICK n \in 0..Len(b.todo) : n = Len(b.todo) /\ n + 1 = Len(busy[j].todo)
        <4>1. Len(b.todo) \in Nat /\ Len(b.todo) + 1 = Len(busy[j].todo)
          BY <2>2, <2>3
        <4>2. Len(b.todo) \in 0..Len(b.todo)
          BY <4>1
        <4> QED
          BY <4>1, <4>2
      <3>2. b.then.phase \in Staffed =>
              Fixed(j, "secret") \/ Makes(busy[j], j, Object("secret", j, 0), n + 1)
        <4>1. busy[j].then.phase \in Staffed =>
                Fixed(j, "secret") \/ Makes(busy[j], j, Object("secret", j, 0), Len(busy[j].todo))
          BY <2>3 DEF EquippedReconcile
        <4> QED
          BY <2>2, <3>1, <4>1
      <3> QED
        BY <2>4, <3>1, <3>2
    <2>6. ASSUME b.op = "ensure", NEW r \in b.left, NEW k \in Needs(r.kind)
          PROVE  Fixed(j, k)
      <3>1. r.kind \in task.kinds /\ task.op = "ensure" /\ 1 \in 1..Len(busy[j].todo)
        BY <2>2, <2>3, <2>6 DEF Wanted
      <3>2. Fixed(j, k) \/ Makes(busy[j], j, Object(k, j, 0), 1 - 1)
        BY <2>3, <2>6, <3>1 DEF EquippedReconcile
      <3>3. ~Makes(busy[j], j, Object(k, j, 0), 1 - 1)
        BY <2>2 DEF Makes
      <3> QED
        BY <3>2, <3>3
    <2>7. ASSUME NEW n \in 1..Len(b.todo), b.todo[n].op = "ensure",
                 NEW kind \in b.todo[n].kinds, NEW k \in Needs(kind)
          PROVE  Fixed(j, k) \/ Makes(b, j, Object(k, j, 0), n - 1)
      <3>1. n + 1 \in 1..Len(busy[j].todo) /\ b.todo[n] = busy[j].todo[n + 1]
            /\ n - 1 \in 0..Len(b.todo) /\ (n - 1) + 1 = n /\ (n + 1) - 1 = n
        BY <2>2, <2>3
      <3>2. Fixed(j, k) \/ Makes(busy[j], j, Object(k, j, 0), n)
        BY <2>3, <2>7, <3>1 DEF EquippedReconcile
      <3> QED
        BY <2>4, <3>1, <3>2
    <2>8. EquippedReconcile(b, j)
      BY <2>5, <2>6, <2>7 DEF EquippedReconcile
    <2>9. EquippedReconcile(b, j)'
      BY <1>0, <2>8, EquippedSame
    <2> QED
      BY <2>2, <2>9, EquippedKept
  <1>3. ASSUME NEW j \in DOMAIN busy, status' = status,
               busy' = [busy EXCEPT ![j] = Fallback(j)],
               \A r \in exists' : r \in exists \/ (busy[j].op = "ensure" /\ r \in busy[j].left)
        PROVE  EquippedInv'
    <2>1. j \in Jobs
      BY DEF TypeOK
    <2>2. PICK b : b = Fallback(j)
      OBVIOUS
    <2>3. /\ b.left = {} /\ Deleting(b.todo)
          /\ b.then.phase = "Failed" \/ status[j].phase = "Scaling"
      BY <2>2, FallbackRecord
    <2>4. EquippedReconcile(b, j)
      BY <2>1, <2>3 DEF EquippedReconcile, EquippedInv, Deleting, Staffed
    <2>5. EquippedReconcile(b, j)'
      BY <1>0, <2>4, EquippedSame
    <2> QED
      BY <1>3, <2>2, <2>5, EquippedKept
  <1>4. ASSUME NEW j \in Jobs, NEW r \in Resource, EnsureOne(j, r) PROVE EquippedInv'
    <2>1. /\ j \in DOMAIN busy /\ status' = status /\ busy[j].op = "ensure"
          /\ \/ /\ busy' = [busy EXCEPT ![j] = [busy[j] EXCEPT !.left = @ \ {r}]]
                /\ r \in seen \cup exists' \/ (r.kind \in ErrorIgnored /\ r \in refused')
             \/ busy' = [busy EXCEPT ![j] = Fallback(j)]
          /\ \A q \in exists' : q \in exists \/ (busy[j].op = "ensure" /\ q \in busy[j].left)
      BY <1>4, EnsureEffect
    <2>2. CASE busy' = [busy EXCEPT ![j] = Fallback(j)]
      BY <1>3, <2>1, <2>2
    <2>3. CASE /\ busy' = [busy EXCEPT ![j] = [busy[j] EXCEPT !.left = @ \ {r}]]
               /\ r \in seen \cup exists' \/ (r.kind \in ErrorIgnored /\ r \in refused')
      <3>1. PICK b : b = [busy[j] EXCEPT !.left = @ \ {r}]
        OBVIOUS
      <3>2. /\ b.op = busy[j].op /\ b.left = busy[j].left \ {r}
            /\ b.todo = busy[j].todo /\ b.then = busy[j].then
        BY <2>1, <3>1, LeftRecord
      <3>3. ASSUME NEW k \in {"secret", "config", "role"}, r = Object(k, j, 0)
            PROVE  Fixed(j, k)'
        <4>1. r.kind = k /\ r.kind \notin Worn
          BY <3>3 DEF Object, Worn
        <4>2. CASE r \in seen
          <5>1. r \in exists
            BY <4>1, <4>2 DEF Tidy
          <5>2. Fixed(j, k)
            BY <3>3, <5>1 DEF Fixed
          <5> QED
            BY <1>0, <5>2
        <4>3. CASE r \in exists' \/ (r.kind \in ErrorIgnored /\ r \in refused')
          BY <3>3, <4>1, <4>3 DEF Fixed, Object, ErrorIgnored
        <4> QED
          BY <2>3, <4>2, <4>3
      <3>4. EquippedReconcile(busy[j], j)
        BY <2>1 DEF EquippedInv
      <3>5. PICK c : c = busy[j]
        OBVIOUS
      <3>6. EquippedReconcile(c, j)
        BY <3>4, <3>5
      <3>7. EquippedReconcile(b, j)'
        BY <1>0, <3>2, <3>3, <3>5, <3>6, EquippedSame
      <3> QED
        BY <2>1, <2>3, <3>1, <3>7, EquippedKept
    <2> QED
      BY <2>1, <2>2, <2>3
  <1>5. ASSUME NEW j \in Jobs, NEW r \in Resource, DeleteOne(j, r) PROVE EquippedInv'
    <2>1. /\ j \in DOMAIN busy /\ status' = status /\ busy[j].op = "delete"
          /\ busy' = [busy EXCEPT ![j] = [busy[j] EXCEPT !.left = @ \ {r}]]
          /\ exists' \subseteq exists
      BY <1>5, DeleteEffect
    <2>2. PICK b, c : b = [busy[j] EXCEPT !.left = @ \ {r}] /\ c = busy[j]
      OBVIOUS
    <2>3. /\ b.op = c.op /\ b.left \subseteq c.left /\ b.todo = c.todo /\ b.then = c.then
      BY <2>1, <2>2, LeftRecord
    <2>4. EquippedReconcile(c, j)
      BY <2>1, <2>2 DEF EquippedInv
    <2>5. EquippedReconcile(b, j)'
      BY <1>0, <2>1, <2>2, <2>3, <2>4, EquippedSame
    <2> QED
      BY <2>1, <2>2, <2>5, EquippedKept
  <1>6. ASSUME NEW j \in Jobs, Wait(j) PROVE EquippedInv'
    <2>1. j \in DOMAIN busy /\ UNCHANGED <<exists, status, refused>>
      BY <1>6 DEF Wait, Done
    <2>2. CASE busy' = Idle
      BY <2>1, <2>2, IdleTyped DEF EquippedInv, Fixed
    <2>3. CASE busy' = [busy EXCEPT ![j] = Fallback(j)]
      BY <1>3, <2>1, <2>3
    <2> QED
      BY <1>6, <2>2, <2>3 DEF Wait
  <1>7. ASSUME NEW j \in Jobs, Finish(j) PROVE EquippedInv'
    <2>1. /\ j \in DOMAIN busy /\ busy[j].left = {} /\ busy[j].todo = <<>>
          /\ busy' = Idle /\ exists' = exists
          /\ status' = [status EXCEPT ![j] = busy[j].then] \/ status' = status
      BY <1>7 DEF Finish, Done
    <2>2. busy[j].then.phase \in Staffed => Fixed(j, "secret")
      BY <2>1 DEF EquippedInv, EquippedReconcile, Makes
    <2>3. \A i \in Jobs : status'[i].phase \in Staffed => Fixed(i, "secret")
      BY <2>1, <2>2 DEF EquippedInv, TypeOK
    <2>4. \A i \in Jobs : status'[i].phase \in Staffed => Fixed(i, "secret")'
      BY <1>0, <2>3
    <2>5. \A r \in exists' : \A k \in Needs(r.kind) : Fixed(r.job, k)'
      BY <1>0, <2>1, NeedsFixed DEF EquippedInv
    <2> QED
      BY <2>1, <2>4, <2>5, IdleTyped DEF EquippedInv, Needs, Staffed
  <1>8. CASE Crash
    BY <1>8, IdleTyped DEF Crash, EquippedInv, Fixed
  <1>9. CASE UNCHANGED <<exists, busy, status, refused>>
    <2>1. \A r \in exists' : \A k \in Needs(r.kind) : Fixed(r.job, k)'
      BY <1>0, <1>9, NeedsFixed DEF EquippedInv
    <2>2. \A i \in Jobs : status'[i].phase \in Staffed => Fixed(i, "secret")'
      BY <1>0, <1>9 DEF EquippedInv
    <2>3. ASSUME NEW i \in DOMAIN busy' PROVE EquippedReconcile(busy[i], i)'
      <3>1. PICK b : b = busy[i] /\ b = busy'[i]
        BY <1>9
      <3>2. EquippedReconcile(b, i)
        BY <1>9, <2>3, <3>1 DEF EquippedInv
      <3>3. EquippedReconcile(b, i)'
        BY <1>0, <3>2, EquippedSame
      <3> QED
        BY <3>1, <3>3
    <2> QED
      BY <2>1, <2>2, <2>3 DEF EquippedInv, Needs, Staffed
  <1> QED
    BY <1>1, <1>2, <1>4, <1>5, <1>6, <1>7, <1>8, <1>9 DEF Next, Event, Suspend, Deliver, vars

\* The launcher never exists without its config map, nor without its role but for
\* an ignored error, and no worker without the secret, whatever fails on the way
\* and however a job is restarted (launcher.go:22-66, worker.go:23-46).
THEOREM Furnished == Spec => []Equipped
  <1>1. Init => EquippedInv
    BY IdleTyped DEF Init, EquippedInv, Staffed
  <1>2. EquippedInv => Equipped
    <2> SUFFICES ASSUME EquippedInv, NEW r \in exists, NEW k \in Needs(r.kind)
                 PROVE  \/ Object(k, r.job, 0) \in exists
                        \/ k # "config" /\ Object(k, r.job, 0) \in refused
      BY DEF Equipped, Object
    <2> QED
      BY DEF EquippedInv, Fixed, ErrorIgnored
  <1> QED
    BY <1>1, <1>2, EquippedNext, Typing, TidyAlways, PTL DEF Spec

-----------------------------------------------------------------------------
(* What nobody needs is deleted *)

\* The kinds of objects that the job j shall not keep.
Unwanted(j) ==
    IF j \in suspended THEN Worn
    ELSE IF status[j].phase = "Succeeded" /\ CleanPodPolicy # "None" THEN {"pod", "service"}
    ELSE {}

\* The reconcile b of a job in the status s makes nothing and does not wait.
OnlyDeletes(b, s) ==
    /\ b.op = "ensure" => b.left = {}
    /\ \A n \in 1..Len(b.todo) : b.todo[n].op = "delete"
    /\ ~(s.phase = "Scaling" /\ b.then = Scaled(s))

\* What the cache shows of the unwanted objects of j is about to be deleted.
Settled(j) ==
    /\ \A r \in (exists \cap seen) \ refused :
         r.job = j /\ r.kind \in Unwanted(j) => j \in DOMAIN busy /\ Deletes(busy[j], j, r)
    /\ j \in DOMAIN busy /\ Unwanted(j) # {} => OnlyDeletes(busy[j], status[j])

CleanedUpInv == \A j \in Jobs \ queue : Settled(j)

\* A step that is none of the job i.
LEMMA SettledKept ==
    ASSUME NEW i \in Jobs, Settled(i),
           i \in DOMAIN busy' <=> i \in DOMAIN busy,
           i \in DOMAIN busy => busy'[i] = busy[i],
           status'[i] = status[i], i \in suspended' <=> i \in suspended,
           \A q \in exists' \cap seen' : q.job = i /\ q.kind \in Worn => q \in exists \cap seen,
           refused \subseteq refused'
    PROVE  Settled(i)'
  <1>1. Unwanted(i)' = Unwanted(i) /\ Unwanted(i) \subseteq Worn
    BY DEF Unwanted, Worn
  <1>2. ASSUME NEW q \in (exists' \cap seen') \ refused', q.job = i, q.kind \in Unwanted(i)
        PROVE  i \in DOMAIN busy' /\ Deletes(busy[i], i, q)'
    <2>1. q \in (exists \cap seen) \ refused
      BY <1>1, <1>2
    <2>2. i \in DOMAIN busy /\ Deletes(busy[i], i, q)
      BY <1>2, <2>1 DEF Settled
    <2> QED
      BY <2>2 DEF Deletes, Listed
  <1>3. i \in DOMAIN busy' /\ Unwanted(i) # {} => OnlyDeletes(busy[i], status[i])'
    BY DEF Settled, OnlyDeletes, Scaled, ScalesIn
  <1> QED
    BY <1>1, <1>2, <1>3 DEF Settled

LEMMA SettledPlan ==
    ASSUME TypeOK, NEW j \in Jobs, NEW plan, plan \in Plans(j)
    PROVE  /\ \A r \in exists \cap seen :
                r.job = j /\ r.kind \in Unwanted(j) => Deletes(plan, j, r)
           /\ Unwanted(j) # {} => OnlyDeletes(plan, status[j])
  <1> DEFINE t == plan.todo
             s == status[j]
  <1>1. /\ plan.left = {} /\ PlanCase(j, t, plan.then)
    BY PlanCases
  <1>2. ASSUME NEW k, NEW n \in 1..Len(t), t[n] = Delete(k, Index),
               NEW r \in exists \cap seen, r.job = j, r.kind = k
        PROVE  Deletes(plan, j, r)
    <2>1. r.index \in Index
      BY DEF TypeOK, Resource
    <2>2. t[n].op = "delete" /\ t[n].kinds = {k} /\ t[n].of = Index
      BY <1>2 DEF Delete
    <2>3. r \in Listed(j, t[n].kinds, t[n].of)
      BY <1>2, <2>1, <2>2 DEF Listed
    <2> QED
      BY <2>2, <2>3 DEF Deletes
  <1>3. CASE t = cleanupAll /\ plan.then.phase = "Suspended"
    <2>1. /\ Len(t) = 3 /\ t[1] = Delete("pod", Index) /\ t[2] = Delete("service", Index)
          /\ t[3] = Delete("launcher", Index)
      BY <1>3 DEF cleanupAll
    <2>2. 1 \in 1..Len(t) /\ 2 \in 1..Len(t) /\ 3 \in 1..Len(t)
      BY <2>1
    <2>3. \A r \in exists \cap seen : r.job = j /\ r.kind \in Worn => Deletes(plan, j, r)
      BY <1>2, <2>1, <2>2 DEF Worn
    <2>4. Unwanted(j) \subseteq Worn
      BY DEF Unwanted, Worn
    <2>5. s.phase = "Scaling" => plan.then # Scaled(s)
      <3>1. s \in Status
        BY DEF TypeOK
      <3>2. Scaled(s).phase = "Running"
        BY <3>1 DEF Scaled, Status
      <3> QED
        BY <1>3, <3>2
    <2>6. OnlyDeletes(plan, s)
      BY <1>1, <1>3, <2>5, DeletingTasks DEF OnlyDeletes, Deleting
    <2> QED
      BY <2>3, <2>4, <2>6
  <1>4. CASE j \notin suspended /\ s.phase = "Succeeded" /\ t = cleanup
    <2>1. CASE CleanPodPolicy = "None"
      BY <1>4, <2>1 DEF Unwanted
    <2>2. CASE CleanPodPolicy # "None"
      <3>1. Len(t) = 2 /\ t[1] = Delete("pod", Index) /\ t[2] = Delete("service", Index)
        BY <1>4, <2>2 DEF cleanup
      <3>2. 1 \in 1..Len(t) /\ 2 \in 1..Len(t)
        BY <3>1
      <3>3. \A r \in exists \cap seen :
              r.job = j /\ r.kind \in {"pod", "service"} => Deletes(plan, j, r)
        BY <1>2, <3>1, <3>2
      <3>4. Unwanted(j) = {"pod", "service"}
        BY <1>4, <2>2 DEF Unwanted
      <3>5. OnlyDeletes(plan, s)
        BY <1>1, <1>4, DeletingTasks DEF OnlyDeletes, Deleting
      <3> QED
        BY <3>3, <3>4, <3>5
    <2> QED
      BY <2>1, <2>2
  <1>5. CASE j \notin suspended /\ s.phase # "Succeeded"
    BY <1>5 DEF Unwanted
  <1> HIDE DEF t
  <1> QED
    BY <1>1, <1>3, <1>4, <1>5 DEF PlanCase

LEMMA CleanedUpNext == TypeOK /\ Tidy /\ CleanedUpInv /\ [Next]_vars => CleanedUpInv'
  <1> SUFFICES ASSUME TypeOK, Tidy, CleanedUpInv, [Next]_vars,
                      NEW i \in Jobs, i \notin queue'
               PROVE  Settled(i)'
    BY DEF CleanedUpInv
  <1>1. i \notin queue => Settled(i)
    BY DEF CleanedUpInv
  <1>2. ASSUME NEW j \in Jobs, Begin(j) PROVE Settled(i)'
    <2>1. PICK plan : plan \in Plans(j) /\ busy' = [k \in {j} |-> plan]
      BY <1>2 DEF Begin
    <2>2. /\ DOMAIN busy = {} /\ queue' = queue \ {j}
          /\ UNCHANGED <<exists, seen, status, suspended, refused>>
      BY <1>2 DEF Begin
    <2>3. CASE i # j
      BY <1>1, <2>1, <2>2, <2>3, SettledKept
    <2>4. CASE i = j
      <3>1. Unwanted(j)' = Unwanted(j)
        BY <2>2 DEF Unwanted
      <3>2. /\ \A r \in exists \cap seen :
                 r.job = j /\ r.kind \in Unwanted(j) => Deletes(plan, j, r)
            /\ Unwanted(j) # {} => OnlyDeletes(plan, status[j])
        BY <2>1, SettledPlan
      <3>3. busy'[j] = plan /\ DOMAIN busy' = {j}
        BY <2>1
      <3>4. \A r : Deletes(plan, j, r) => Deletes(plan, j, r)'
        BY <2>2 DEF Deletes, Listed
      <3>5. Unwanted(j) # {} => OnlyDeletes(busy[j], status[j])'
        BY <2>2, <3>2, <3>3 DEF OnlyDeletes, Scaled, ScalesIn
      <3>6. \A r \in exists' \cap seen' :
              r.job = j /\ r.kind \in Unwanted(j)' => Deletes(busy[j], j, r)'
        BY <2>2, <3>1, <3>2, <3>3, <3>4
      <3> QED
        BY <2>4, <3>1, <3>3, <3>5, <3>6 DEF Settled
    <2> QED
      BY <2>3, <2>4
  <1>3. ASSUME NEW j \in Jobs, NextTask(j) PROVE Settled(i)'
    <2> DEFINE task == busy[j].todo[1]
    <2>1. PICK b : b = busy'[j]
      OBVIOUS
    <2>2. /\ j \in DOMAIN busy /\ busy' = [busy EXCEPT ![j] = b] /\ busy[j].left = {}
          /\ b.op = task.op
          /\ b.left = IF task.op = "ensure" THEN Wanted(j, task)
                      ELSE Listed(j, task.kinds, task.of)
          /\ b.then = busy[j].then /\ Len(b.todo) = Len(busy[j].todo) - 1
          /\ \A n \in 1..Len(b.todo) : b.todo[n] = busy[j].todo[n + 1]
          /\ Len(busy[j].todo) > 0
          /\ UNCHANGED <<exists, seen, status, suspended, queue, refused>>
      BY <1>3, <2>1, NextTaskEffect
    <2>3. /\ DOMAIN busy' = DOMAIN busy /\ busy'[j] = b
          /\ \A k \in DOMAIN busy : k # j => busy'[k] = busy[k]
      BY <2>2, Replaced
    <2>4. CASE i # j
      BY <1>1, <2>2, <2>3, <2>4, SettledKept
    <2>5. CASE i = j /\ Unwanted(j) = {}
      <3>1. Unwanted(j)' = {}
        BY <2>2, <2>5 DEF Unwanted
      <3> QED
        BY <2>5, <3>1 DEF Settled
    <2>6. CASE i = j /\ Unwanted(j) # {}
      <3>1. Settled(j) /\ OnlyDeletes(busy[j], status[j]) /\ Len(busy[j].todo) \in Nat
        BY <1>1, <2>2, <2>6 DEF Settled, TypeOK, Reconciling
      <3>2. task.op = "delete"
        BY <2>2, <3>1 DEF OnlyDeletes
      <3>3. \A n \in 1..Len(b.todo) : b.todo[n].op = "delete"
        <4> SUFFICES ASSUME NEW n \in 1..Len(b.todo) PROVE b.todo[n].op = "delete"
          OBVIOUS
        <4>1. n + 1 \in 1..Len(busy[j].todo) /\ b.todo[n] = busy[j].todo[n + 1]
          BY <2>2, <3>1
        <4> QED
          BY <3>1, <4>1 DEF OnlyDeletes
      <3>4. OnlyDeletes(b, status[j])
        BY <2>2, <3>1, <3>2, <3>3 DEF OnlyDeletes
      <3>5. ASSUME NEW r, Deletes(busy[j], j, r) PROVE Deletes(b, j, r)
        <4>1. PICK n \in 1..Len(busy[j].todo) :
                /\ busy[j].todo[n].op = "delete"
                /\ r \in Listed(j, busy[j].todo[n].kinds, busy[j].todo[n].of)
          BY <2>2, <3>5 DEF Deletes
        <4>2. CASE n = 1
          BY <2>2, <3>2, <4>1, <4>2 DEF Deletes
        <4>3. CASE n # 1
          <5>1. n - 1 \in 1..Len(b.todo) /\ (n - 1) + 1 = n
            BY <2>2, <3>1, <4>3
          <5>2. b.todo[n - 1] = busy[j].todo[n]
            BY <2>2, <5>1
          <5> QED
            BY <4>1, <5>1, <5>2 DEF Deletes
        <4> QED
          BY <4>2, <4>3
      <3>6. Unwanted(j)' = Unwanted(j) /\ OnlyDeletes(busy[j], status[j])'
        BY <2>2, <2>3, <3>4 DEF Unwanted, OnlyDeletes, Scaled, ScalesIn
      <3>7. \A r : Deletes(b, j, r) => Deletes(busy[j], j, r)'
        BY <2>2, <2>3 DEF Deletes, Listed
      <3>8. \A r \in (exists \cap seen) \ refused :
              r.job = j /\ r.kind \in Unwanted(j) => Deletes(busy[j], j, r)'
        BY <3>1, <3>5, <3>7 DEF Settled
      <3> QED
        BY <2>2, <2>3, <2>6, <3>6, <3>8 DEF Settled
    <2> QED
      BY <2>4, <2>5, <2>6
  <1>4. ASSUME NEW j \in Jobs, NEW r \in Resource, EnsureOne(j, r) PROVE Settled(i)'
    <2>1. /\ j \in DOMAIN busy /\ busy[j].op = "ensure" /\ r \in busy[j].left
          /\ exists' \in {exists, exists \cup {r}} /\ refused \subseteq refused'
          /\ queue \subseteq queue' /\ UNCHANGED <<status, suspended>>
          /\ \A q \in seen' : q # r => q \in seen \/ q \notin exists
      BY <1>4, EnsureEffect
    <2>2. r.job = j
      BY <2>1 DEF Tidy, TidyReconcile
    <2>3. DOMAIN busy' = DOMAIN busy /\ \A k \in DOMAIN busy : k # j => busy'[k] = busy[k]
      BY <1>4, EnsureEffect, Replaced
    <2>4. CASE i # j
      <3>1. \A q \in exists' \cap seen' : q.job = i => q \in exists \cap seen
        BY <2>1, <2>2, <2>4
      <3> QED
        BY <1>1, <2>1, <2>3, <2>4, <3>1, SettledKept
    <2>5. CASE i = j
      <3>1. Unwanted(j) = {}
        BY <1>1, <2>1, <2>5 DEF Settled, OnlyDeletes
      <3>2. Unwanted(j)' = {}
        BY <2>1, <3>1 DEF Unwanted
      <3> QED
        BY <2>5, <3>2 DEF Settled
    <2> QED
      BY <2>4, <2>5
  <1>5. ASSUME NEW j \in Jobs, NEW r \in Resource, DeleteOne(j, r) PROVE Settled(i)'
    <2>1. /\ j \in DOMAIN busy /\ busy[j].op = "delete" /\ r \in busy[j].left
          /\ busy' = [busy EXCEPT ![j] = [busy[j] EXCEPT !.left = @ \ {r}]]
          /\ \/ exists' = exists \ {r} /\ refused' = refused
             \/ exists' = exists /\ refused' = refused \cup {r}
          /\ queue \subseteq queue' /\ UNCHANGED <<status, suspended>>
          /\ \A q \in seen' : q \in seen \/ q \notin exists
      BY <1>5, DeleteEffect
    <2>2. PICK b : b = [busy[j] EXCEPT !.left = @ \ {r}]
      OBVIOUS
    <2>3. /\ b.op = busy[j].op /\ b.left = busy[j].left \ {r}
          /\ b.todo = busy[j].todo /\ b.then = busy[j].then
      BY <2>1, <2>2, LeftRecord
    <2>4. /\ DOMAIN busy' = DOMAIN busy /\ busy'[j] = b
          /\ \A k \in DOMAIN busy : k # j => busy'[k] = busy[k]
      BY <2>1, <2>2, Replaced
    <2>5. \A q \in exists' \cap seen' : q \in exists \cap seen
      BY <2>1
    <2>6. CASE i # j
      BY <1>1, <2>1, <2>4, <2>5, <2>6, SettledKept
    <2>7. CASE i = j
      <3>1. Settled(j)
        BY <1>1, <2>1, <2>7
      <3>2. Unwanted(j)' = Unwanted(j)
        BY <2>1 DEF Unwanted
      <3>3. ASSUME NEW q \in (exists' \cap seen') \ refused', q.job = j, q.kind \in Unwanted(j)
            PROVE  Deletes(busy[j], j, q)'
        <4>1. q # r /\ Deletes(busy[j], j, q)
          BY <2>1, <2>5, <3>1, <3>3 DEF Settled
        <4> QED
          BY <2>3, <2>4, <4>1 DEF Deletes, Listed
      <3>4. Unwanted(j) # {} => OnlyDeletes(busy[j], status[j])'
        BY <2>1, <2>3, <2>4, <3>1 DEF Settled, OnlyDeletes, Scaled, ScalesIn
      <3> QED
        BY <2>1, <2>4, <2>7, <3>2, <3>3, <3>4 DEF Settled
    <2> QED
      BY <2>6, <2>7
  <1>6. ASSUME NEW j \in Jobs, Wait(j) PROVE Settled(i)'
    <2>1. /\ j \in DOMAIN busy /\ status[j].phase = "Scaling" /\ busy[j].then = Scaled(status[j])
          /\ queue \subseteq queue' /\ UNCHANGED <<exists, seen, status, suspended, refused>>
          /\ busy' = Idle \/ busy' = [busy EXCEPT ![j] = Fallback(j)]
      BY <1>6 DEF Wait, Waits, Done
    <2>2. CASE i = j
      <3>1. Unwanted(j) = {}
        BY <1>1, <2>1, <2>2 DEF Settled, OnlyDeletes
      <3>2. Unwanted(j)' = {}
        BY <2>1, <3>1 DEF Unwanted
      <3> QED
        BY <2>2, <3>2 DEF Settled
    <2>3. CASE i # j
      <3>1. i \notin DOMAIN busy /\ i \notin DOMAIN busy'
        <4>1. DOMAIN busy = {j}
          BY <2>1 DEF Tidy
        <4>2. DOMAIN busy' \subseteq {j}
          BY <2>1, <4>1, IdleTyped, Replaced
        <4> QED
          BY <2>3, <4>1, <4>2
      <3> QED
        BY <1>1, <2>1, <3>1, SettledKept
    <2> QED
      BY <2>2, <2>3
  <1>7. ASSUME NEW j \in Jobs, Finish(j) PROVE Settled(i)'
    <2>1. /\ j \in DOMAIN busy /\ busy[j].left = {} /\ busy[j].todo = <<>>
          /\ DOMAIN busy' = {} /\ queue \subseteq queue'
          /\ UNCHANGED <<exists, seen, suspended, refused>>
      BY <1>7, IdleTyped DEF Finish, Done
    <2>2. status' \in [Jobs -> Status] /\ \A k \in Jobs : k # j => status'[k] = status[k]
      BY <1>7, FinishTyped DEF Finish, TypeOK
    <2>3. CASE i # j
      <3>1. i \notin DOMAIN busy /\ i \notin DOMAIN busy'
        BY <2>1, <2>3 DEF Tidy
      <3> QED
        BY <1>1, <2>1, <2>2, <2>3, <3>1, SettledKept
    <2>4. CASE i = j
      <3>1. status'[j] = status[j]
        BY <1>7, <2>4 DEF Finish, TypeOK
      <3>2. Unwanted(j)' = Unwanted(j)
        BY <2>1, <3>1 DEF Unwanted
      <3>3. \A r : ~Deletes(busy[j], j, r)
        BY <2>1 DEF Deletes
      <3>4. \A r \in (exists \cap seen) \ refused : ~(r.job = j /\ r.kind \in Unwanted(j))
        BY <1>1, <2>1, <2>4, <3>3 DEF Settled
      <3> QED
        BY <2>1, <2>4, <3>2, <3>4 DEF Settled
    <2> QED
      BY <2>3, <2>4
  <1>8. ASSUME NEW r \in Resource, Deliver(r) PROVE Settled(i)'
    <2>1. /\ queue \subseteq queue' /\ UNCHANGED <<exists, status, suspended, busy, refused>>
          /\ seen' = (seen \ {r}) \cup (exists \cap {r})
          /\ r.kind \in Watched => r.job \in queue'
      BY <1>8 DEF Deliver
    <2>2. r.kind \in Worn => r.job # i
      BY <2>1 DEF Worn, Watched
    <2>3. \A q \in exists' \cap seen' : q.job = i /\ q.kind \in Worn => q \in exists \cap seen
      BY <2>1, <2>2
    <2> QED
      BY <1>1, <2>1, <2>3, SettledKept
  <1>9. ASSUME NEW j \in Jobs, Event(j) \/ Suspend(j) PROVE Settled(i)'
    <2>1. /\ queue \subseteq queue' /\ UNCHANGED <<exists, seen, status, busy, refused>>
          /\ i \in suspended' <=> i \in suspended
      BY <1>9 DEF Event, Suspend
    <2> QED
      BY <1>1, <2>1, SettledKept
  <1>10. CASE Crash
    BY <1>10 DEF Crash
  <1>11. CASE UNCHANGED vars
    <2>1. UNCHANGED <<exists, seen, status, suspended, busy, refused, queue>>
      BY <1>11 DEF vars
    <2> QED
      BY <1>1, <2>1, SettledKept
  <1> QED
    BY <1>2, <1>3, <1>4, <1>5, <1>6, <1>7, <1>8, <1>9, <1>10, <1>11 DEF Next

\* When nothing is left to do, the pods and services that a suspended or a succeeded
\* job shall not keep, and the launcher of a suspended one, are gone, or their
\* deletion was refused (its other objects are never deleted): no event that the operator waits for and
\* none that it missed in a crash is lost on the way
\* (trainingjob_controller.go:291-326, worker.go:374-425, launcher.go:276-293).
THEOREM Removed == Spec => []CleanedUp
  <1>1. Init => CleanedUpInv
    BY DEF Init, CleanedUpInv
  <1>2. TypeOK /\ CleanedUpInv => CleanedUp
    <2> SUFFICES ASSUME TypeOK, CleanedUpInv, Rest, NEW r \in exists \ refused
                 PROVE  r.kind \notin Unwanted(r.job)
      BY DEF CleanedUp, Unwanted, Worn
    <2>1. r.job \in Jobs \ queue /\ r \in (exists \cap seen) \ refused /\ DOMAIN busy = {}
      BY DEF Rest, TypeOK, Resource
    <2> QED
      BY <2>1 DEF CleanedUpInv, Settled
  <1> QED
    BY <1>1, <1>2, CleanedUpNext, Typing, TidyAlways, PTL DEF Spec
=============================================================================
