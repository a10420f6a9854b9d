-------------------------- MODULE ScalerOwnerProofs --------------------------
(***************************************************************************)
(* Proofs about ScalerOwner, for any number of scalers, jobs, versions and *)
(* faults: its types, that a scaler is owned by no job that the operator   *)
(* knew to be gone when it was submitted, and that it implements           *)
(* ScalerBinding.                                                          *)
(***************************************************************************)
EXTENDS ScalerOwner, TLAPS

-----------------------------------------------------------------------------
(* The inductive invariant *)

\* The object x is an old version of s, or it is what the API server has.
Coherent(s, x) ==
    /\ x.ver <= version[s]
    /\ s \in DOMAIN scalers /\ scalers[s].ver = x.ver => x = scalers[s]

\* What a reconcile found before its next write.
Prepared(h) ==
    /\ ~isScaleFinished(h.obj)
    /\ h.next # "execution" => h.obj.owner = NoJob /\ h.obj.gone < h.uid
    /\ h.next = "owner" => "Created" \in h.obj.conds

\* No job whose deletion was seen before x was submitted comes back to the cache.
Known(x) == x.gone <= passed /\ (jobCache # NoJob => x.gone < jobCache)

\* A job the cache does not show has an event to come.
InformerInv == job # NoJob => jobCache = job \/ passed < uids

ServerInv ==
    \A s \in DOMAIN scalers :
        /\ scalers[s].ver = version[s]
        /\ Known(scalers[s])
        /\ scalers[s].owner # NoJob => scalers[s].owner > scalers[s].gone

CacheInv == \A s \in DOMAIN cache : Coherent(s, cache[s]) /\ Known(cache[s])

HeldInv == \A c \in DOMAIN held : Coherent(held[c].scaler, held[c].obj) /\ Prepared(held[c])

IInv == TypeOK /\ InformerInv /\ ServerInv /\ CacheInv /\ HeldInv

-----------------------------------------------------------------------------
(* What the operations of the API server and of the operator do *)

LEMMA Records ==
    ASSUME NEW x \in Scaler
    PROVE  /\ \A n \in Nat : [x EXCEPT !.ver = n] \in Scaler
           /\ \A u \in {NoJob} \cup Jobs : [x EXCEPT !.owner = u] \in Scaler
           /\ \A C \in SUBSET ({"Created"} \cup ExecutionCondition) :
                [x EXCEPT !.conds = C] \in Scaler
           /\ [x EXCEPT !.deleting = TRUE] \in Scaler
  BY DEF Scaler

\* The object x replaced s, or it was what s is.
LEMMA PutEffect ==
    ASSUME TypeOK, NEW s \in DOMAIN scalers, NEW x \in Scaler, Put(s, x)
    PROVE  /\ IsScalerMap(scalers') /\ version' \in [Scalers -> Nat]
           /\ DOMAIN scalers' = DOMAIN scalers
           /\ \A r \in DOMAIN scalers : r # s => scalers'[r] = scalers[r]
           /\ \A r \in Scalers : r # s => version'[r] = version[r]
           /\ \/ scalers'[s] = scalers[s] /\ version'[s] = version[s]
              \/ version'[s] = version[s] + 1 /\ scalers'[s].ver = version'[s]
           /\ scalers'[s].owner = x.owner /\ scalers'[s].conds = x.conds
           /\ scalers'[s].gone = x.gone
  <1>1. s \in Scalers /\ version[s] \in Nat /\ scalers[s] \in Scaler
    BY DEF TypeOK, IsScalerMap
  <1>2. CASE x = scalers[s]
    BY <1>1, <1>2 DEF Put, TypeOK
  <1>3. CASE x # scalers[s]
    <2> DEFINE y == [x EXCEPT !.ver = version[s] + 1]
    <2>1. /\ y \in Scaler /\ y.ver = version[s] + 1
          /\ y.owner = x.owner /\ y.conds = x.conds /\ y.gone = x.gone
      BY <1>1 DEF Scaler
    <2>2. /\ scalers' = [scalers EXCEPT ![s] = y]
          /\ version' = [version EXCEPT ![s] = @ + 1]
      BY <1>3 DEF Put
    <2> HIDE DEF y
    <2> QED
      BY <1>1, <2>1, <2>2 DEF TypeOK, IsScalerMap
  <1> QED
    BY <1>2, <1>3

LEMMA StatusEffect ==
    ASSUME TypeOK, NEW h \in Reconciling, UpToDate(h),
           NEW C \in SUBSET ({"Created"} \cup ExecutionCondition), PutStatus(h, C)
    PROVE  LET s == h.scaler
           IN  /\ s \in DOMAIN scalers /\ scalers[s].ver = h.obj.ver
               /\ \E x \in Scaler : /\ Put(s, x)
                                   /\ x.owner = scalers[s].owner /\ x.conds = C
                                   /\ x.gone = scalers[s].gone
  <1> DEFINE x == [scalers[h.scaler] EXCEPT !.conds = C]
  <1>1. h.scaler \in DOMAIN scalers /\ scalers[h.scaler] \in Scaler
    BY DEF UpToDate, TypeOK, IsScalerMap
  <1>2. /\ x \in Scaler /\ x.owner = scalers[h.scaler].owner
        /\ x.conds = C /\ x.gone = scalers[h.scaler].gone
    BY <1>1 DEF Scaler
  <1>3. Put(h.scaler, x)
    BY DEF PutStatus
  <1> QED
    BY <1>1, <1>2, <1>3 DEF UpToDate

LEMMA OwnerEffect ==
    ASSUME TypeOK, NEW h \in Reconciling, UpToDate(h), PutOwner(h)
    PROVE  LET s == h.scaler
           IN  /\ s \in DOMAIN scalers /\ scalers[s].ver = h.obj.ver
               /\ \E x \in Scaler : /\ Put(s, x)
                                   /\ x.owner = h.uid /\ x.conds = scalers[s].conds
                                   /\ x.gone = scalers[s].gone
  <1> DEFINE x == [scalers[h.scaler] EXCEPT !.owner = h.uid]
  <1>1. /\ h.scaler \in DOMAIN scalers /\ scalers[h.scaler] \in Scaler
        /\ h.uid \in Jobs
    BY DEF UpToDate, TypeOK, IsScalerMap, Reconciling
  <1>2. /\ x \in Scaler /\ x.owner = h.uid
        /\ x.conds = scalers[h.scaler].conds /\ x.gone = scalers[h.scaler].gone
    BY <1>1 DEF Scaler
  <1>3. Put(h.scaler, x)
    BY DEF PutOwner
  <1> QED
    BY <1>1, <1>2, <1>3 DEF UpToDate

LEMMA HoldEffect ==
    ASSUME TypeOK, NEW c \in {"in", "out", "job"}, NEW h \in Reconciling, Hold(c, h)
    PROVE  /\ DOMAIN held' \subseteq {"in", "out", "job"}
           /\ held' \in [DOMAIN held' -> Reconciling]
           /\ \A d \in DOMAIN held' :
                held'[d] = h \/ (d \in DOMAIN held /\ held'[d] = held[d])
  BY DEF TypeOK, Hold

LEMMA ReleaseEffect ==
    ASSUME TypeOK, NEW c, Release(c)
    PROVE  /\ DOMAIN held' \subseteq DOMAIN held
           /\ DOMAIN held' \subseteq {"in", "out", "job"}
           /\ held' \in [DOMAIN held' -> Reconciling]
           /\ \A d \in DOMAIN held' : held'[d] = held[d]
  BY DEF TypeOK, Release, Restrict

-----------------------------------------------------------------------------
(* Types *)

\* What the write of a reconcile leaves behind, whether it fails or not.
Stored == IsScalerMap(scalers') /\ version' \in [Scalers -> Nat] /\ faults' \in 0..MaxFaults

LEMMA StatusStored ==
    ASSUME TypeOK, NEW h \in Reconciling,
           NEW C \in SUBSET ({"Created"} \cup ExecutionCondition),
           \/ UpToDate(h) /\ PutStatus(h, C) /\ UNCHANGED faults
           \/ Refused(h)
           \/ Fails(UpToDate(h) /\ PutStatus(h, C))
    PROVE  Stored
  <1>1. faults' \in 0..MaxFaults
    BY OwnerAssumption DEF Refused, Fails, MayFail, TypeOK
  <1>2. CASE UNCHANGED <<scalers, version>>
    BY <1>1, <1>2 DEF Stored, TypeOK, IsScalerMap
  <1>3. CASE UpToDate(h) /\ PutStatus(h, C)
    <2>1. h.scaler \in DOMAIN scalers /\ \E x \in Scaler : Put(h.scaler, x)
      BY <1>3, StatusEffect
    <2> QED
      BY <1>1, <2>1, PutEffect DEF Stored
  <1> QED
    BY <1>2, <1>3 DEF Refused, Fails

LEMMA OwnerStored ==
    ASSUME TypeOK, NEW h \in Reconciling,
           \/ UpToDate(h) /\ PutOwner(h) /\ UNCHANGED faults
           \/ Refused(h)
           \/ Fails(UpToDate(h) /\ PutOwner(h))
    PROVE  Stored
  <1>1. faults' \in 0..MaxFaults
    BY OwnerAssumption DEF Refused, Fails, MayFail, TypeOK
  <1>2. CASE UNCHANGED <<scalers, version>>
    BY <1>1, <1>2 DEF Stored, TypeOK, IsScalerMap
  <1>3. CASE UpToDate(h) /\ PutOwner(h)
    <2>1. h.scaler \in DOMAIN scalers /\ \E x \in Scaler : Put(h.scaler, x)
      BY <1>3, OwnerEffect
    <2> QED
      BY <1>1, <2>1, PutEffect DEF Stored
  <1> QED
    BY <1>2, <1>3 DEF Refused, Fails

LEMMA StartTyped ==
    ASSUME TypeOK, NEW s \in Scalers, Start(Kind[s], s)
    PROVE  TypeOK'
  <1>1. UNCHANGED <<job, uids, current, scalers, version, jobCache, passed, cache, faults>>
    BY DEF Start
  <1>2. queue' \subseteq Scalers
    BY DEF Start, TypeOK
  <1>3. CASE UNCHANGED held
    BY <1>1, <1>2, <1>3 DEF TypeOK, IsScalerMap
  <1>4. CASE held' # held
    <2> DEFINE h == [scaler |-> s, obj |-> cache[s], uid |-> jobCache, next |-> "status"]
    <2>1. NeedsOwner(s) /\ Hold(Kind[s], h)
      BY <1>4 DEF Start
    <2>2. h \in Reconciling
      BY <2>1, OwnerAssumption DEF NeedsOwner, TypeOK, IsScalerMap, Reconciling, Jobs, NoJob
    <2>3. Kind[s] \in {"in", "out", "job"}
      BY OwnerAssumption
    <2> HIDE DEF h
    <2> QED
      BY <1>1, <1>2, <2>1, <2>2, <2>3, HoldEffect DEF TypeOK, IsScalerMap
  <1> QED
    BY <1>3, <1>4

LEMMA WriteStatusTyped ==
    ASSUME TypeOK, NEW c \in {"in", "out"}, WriteStatus(c)
    PROVE  TypeOK'
  <1> DEFINE h == held[c]
             C == h.obj.conds \cup {"Created"}
             Write == UpToDate(h) /\ PutStatus(h, C)
  <1>1. /\ c \in DOMAIN held /\ h \in Reconciling
        /\ C \in SUBSET ({"Created"} \cup ExecutionCondition)
        /\ h.scaler \in Scalers
    BY DEF WriteStatus, TypeOK, Reconciling, Scaler
  <1>2. UNCHANGED <<job, uids, current, jobCache, passed, cache>>
    BY DEF WriteStatus
  <1>3. \/ /\ Write /\ UNCHANGED <<queue, faults>>
           /\ held' = [held EXCEPT ![c].next = "owner", ![c].obj = scalers'[h.scaler]]
        \/ /\ Refused(h) \/ Fails(Write)
           /\ Release(c) /\ Requeued(c)
    BY DEF WriteStatus
  <1> HIDE DEF h, C
  <1>4. Stored
    BY <1>1, <1>3, StatusStored
  <1>5. CASE /\ Write /\ UNCHANGED <<queue, faults>>
             /\ held' = [held EXCEPT ![c].next = "owner", ![c].obj = scalers'[h.scaler]]
    <2>1. h.scaler \in DOMAIN scalers /\ \E x \in Scaler : Put(h.scaler, x)
      BY <1>1, <1>5, StatusEffect
    <2>2. scalers'[h.scaler] \in Scaler
      BY <2>1, PutEffect DEF IsScalerMap
    <2>3. held' \in [DOMAIN held -> Reconciling]
      BY <1>5, <2>2 DEF TypeOK, Reconciling
    <2> QED
      BY <1>2, <1>4, <1>5, <2>3 DEF Stored, TypeOK, IsScalerMap
  <1>6. CASE Release(c) /\ Requeued(c)
    <2>1. queue' \subseteq Scalers
      BY <1>1, <1>6 DEF Requeued, TypeOK, h
    <2> QED
      BY <1>2, <1>4, <1>6, <2>1, ReleaseEffect DEF Stored, TypeOK, IsScalerMap
  <1> QED
    BY <1>3, <1>5, <1>6

LEMMA WriteOwnerTyped ==
    ASSUME TypeOK, NEW c \in {"in", "out"}, WriteOwner(c)
    PROVE  TypeOK'
  <1> DEFINE h == held[c]
             Write == UpToDate(h) /\ PutOwner(h)
  <1>1. c \in DOMAIN held /\ h \in Reconciling /\ h.scaler \in Scalers
    BY DEF WriteOwner, TypeOK, Reconciling
  <1>2. UNCHANGED <<job, uids, current, jobCache, passed, cache>> /\ Release(c)
    BY DEF WriteOwner
  <1>3. \/ Write /\ UNCHANGED <<queue, faults>>
        \/ (Refused(h) \/ Fails(Write)) /\ Requeued(c)
    BY DEF WriteOwner
  <1>4. queue' \subseteq Scalers
    BY <1>1, <1>3 DEF Requeued, TypeOK
  <1> HIDE DEF h
  <1>5. Stored
    BY <1>1, <1>3, OwnerStored
  <1> QED
    BY <1>2, <1>4, <1>5, ReleaseEffect DEF Stored, TypeOK, IsScalerMap

LEMMA JobReadsTyped ==
    ASSUME TypeOK, NEW s \in Scalers, JobReads(s)
    PROVE  TypeOK'
  <1> DEFINE h == [scaler |-> s, obj |-> cache[s], uid |-> jobCache, next |-> "execution"]
  <1>1. /\ Hold("job", h)
        /\ UNCHANGED <<job, uids, current, scalers, version, jobCache, passed, cache, queue, faults>>
    BY DEF JobReads
  <1>2. h \in Reconciling
    BY OwnerAssumption DEF JobReads, TypeOK, IsScalerMap, Reconciling, Jobs, NoJob
  <1> HIDE DEF h
  <1> QED
    BY <1>1, <1>2, HoldEffect DEF TypeOK, IsScalerMap

\* What JobWrites does to the scaler, with the conditions it adds.
LEMMA JobWritesCases ==
    ASSUME TypeOK, JobWrites
    PROVE  LET h == held["job"]
           IN  /\ "job" \in DOMAIN held /\ h \in Reconciling /\ Release("job")
               /\ UNCHANGED <<job, uids, jobCache, passed, cache, queue>>
               /\ current' \in {current, NoScaler, h.scaler}
               /\ \E added \in SUBSET ExecutionCondition :
                    LET Write == UpToDate(h) /\ PutStatus(h, h.obj.conds \cup added)
                    IN  (Write /\ UNCHANGED faults) \/ Refused(h) \/ Fails(Write)
  <1> DEFINE h == held["job"]
  <1>1. "job" \in DOMAIN held /\ h \in Reconciling
    BY DEF JobWrites, TypeOK
  <1>2. Release("job") /\ UNCHANGED <<job, uids, jobCache, passed, cache, queue>>
    BY DEF JobWrites
  <1>3. PICK added \in IF current = NoScaler THEN {{"Scaling"}} ELSE ExecutionSteps :
          LET Write == UpToDate(h) /\ PutStatus(h, h.obj.conds \cup added)
              after == IF isScaleFinished([conds |-> added]) THEN NoScaler ELSE h.scaler
          IN  /\ (Write /\ UNCHANGED faults) \/ Refused(h) \/ Fails(Write)
              /\ current' \in {current, IF h.uid = job THEN after ELSE current}
    BY Zenon DEF JobWrites
  <1>4. added \in SUBSET ExecutionCondition
    BY <1>3 DEF ExecutionSteps, ExecutionCondition
  <1>5. current' \in {current, NoScaler, h.scaler}
    BY <1>3
  <1> QED
    BY <1>1, <1>2, <1>3, <1>4, <1>5, Zenon

LEMMA JobWritesTyped ==
    ASSUME TypeOK, JobWrites
    PROVE  TypeOK'
  <1> DEFINE h == held["job"]
  <1>1. /\ h \in Reconciling /\ h.scaler \in Scalers /\ Release("job")
        /\ UNCHANGED <<job, uids, jobCache, passed, cache, queue>>
        /\ current' \in {current, NoScaler, h.scaler}
    BY JobWritesCases DEF Reconciling
  <1>2. PICK added \in SUBSET ExecutionCondition :
          LET Write == UpToDate(h) /\ PutStatus(h, h.obj.conds \cup added)
          IN  (Write /\ UNCHANGED faults) \/ Refused(h) \/ Fails(Write)
    BY JobWritesCases
  <1>3. h.obj.conds \cup added \in SUBSET ({"Created"} \cup ExecutionCondition)
    BY <1>1 DEF Reconciling, Scaler
  <1> HIDE DEF h
  <1>4. Stored
    BY <1>1, <1>2, <1>3, StatusStored
  <1> QED
    BY <1>1, <1>4, ReleaseEffect DEF Stored, TypeOK, IsScalerMap

LEMMA DeliverTyped ==
    ASSUME TypeOK, NEW s \in Scalers,
           Deliver(s) \/ Resync(s) \/ DeleteScaler(s) \/ Collect(s)
    PROVE  TypeOK'
  <1>1. CASE Deliver(s)
    <2>1. cache' \in [DOMAIN cache' -> Scaler] /\ DOMAIN cache' \subseteq Scalers
      BY <1>1 DEF Deliver, TypeOK, IsScalerMap
    <2> QED
      BY <1>1, <2>1 DEF Deliver, TypeOK, IsScalerMap
  <1>2. CASE Resync(s)
    BY <1>2 DEF Resync, TypeOK, IsScalerMap
  <1>3. CASE DeleteScaler(s) \/ Collect(s)
    BY <1>3 DEF DeleteScaler, Collect, Remove, Restrict, TypeOK, IsScalerMap
  <1> QED
    BY <1>1, <1>2, <1>3

LEMMA JobTyped ==
    ASSUME TypeOK, JobDrops \/ DeliverJob \/ Crash \/ CreateJob \/ DeleteJob
    PROVE  TypeOK'
  <1>1. CASE JobDrops
    BY <1>1 DEF JobDrops, TypeOK, IsScalerMap
  <1>2. CASE DeliverJob
    BY <1>2, OwnerAssumption DEF DeliverJob, TypeOK, IsScalerMap, NoJob
  <1>3. CASE Crash
    <2>1. faults' \in 0..MaxFaults
      BY <1>3, OwnerAssumption DEF Crash, MayFail, TypeOK
    <2>2. /\ passed' \in 0..uids /\ jobCache' \in {NoJob, passed'}
          /\ DOMAIN held' = {}
      BY <1>3, OwnerAssumption DEF Crash, TypeOK, NoJob, None
    <2> QED
      BY <1>3, <2>1, <2>2 DEF Crash, TypeOK, IsScalerMap, None
  <1>4. CASE CreateJob
    BY <1>4, OwnerAssumption DEF CreateJob, TypeOK, IsScalerMap, NoJob
  <1>5. CASE DeleteJob
    BY <1>5 DEF DeleteJob, TypeOK, IsScalerMap, NoJob
  <1> QED
    BY <1>1, <1>2, <1>3, <1>4, <1>5

LEMMA SubmitTyped ==
    ASSUME TypeOK, NEW s \in Scalers, SubmitScaler(s)
    PROVE  TypeOK'
  <1> DEFINE x == [ver |-> version[s] + 1, owner |-> NoJob, conds |-> {}, deleting |-> FALSE,
                   seen |-> jobCache, gone |-> SeenGone]
  <1>1. x \in Scaler
    BY OwnerAssumption DEF Scaler, TypeOK, NoJob, Jobs, SeenGone
  <1>2. /\ scalers' = [r \in DOMAIN scalers \cup {s} |-> IF r # s THEN scalers[r] ELSE x]
        /\ version' = [version EXCEPT ![s] = @ + 1]
        /\ UNCHANGED <<job, uids, current, jobCache, passed, cache, queue, held, faults>>
    BY DEF SubmitScaler
  <1> HIDE DEF x
  <1> QED
    BY <1>1, <1>2 DEF TypeOK, IsScalerMap

LEMMA MarkEffect ==
    ASSUME TypeOK, NEW s \in Scalers, MarkDeleted(s)
    PROVE  /\ s \in DOMAIN scalers
           /\ UNCHANGED <<job, uids, current, jobCache, passed, cache, queue, held, faults>>
           /\ \E x \in Scaler : /\ Put(s, x)
                                /\ x.owner = scalers[s].owner
                                /\ x.conds = scalers[s].conds
                                /\ x.gone = scalers[s].gone
  <1> DEFINE x == [scalers[s] EXCEPT !.deleting = TRUE]
  <1>1. s \in DOMAIN scalers /\ scalers[s] \in Scaler /\ Put(s, x)
    BY DEF MarkDeleted, TypeOK, IsScalerMap
  <1>2. /\ x \in Scaler /\ x.owner = scalers[s].owner
        /\ x.conds = scalers[s].conds /\ x.gone = scalers[s].gone
    BY <1>1 DEF Scaler
  <1>3. UNCHANGED <<job, uids, current, jobCache, passed, cache, queue, held, faults>>
    BY DEF MarkDeleted
  <1> HIDE DEF x
  <1> QED
    BY <1>1, <1>2, <1>3

LEMMA MarkTyped ==
    ASSUME TypeOK, NEW s \in Scalers, MarkDeleted(s)
    PROVE  TypeOK'
  BY MarkEffect, PutEffect DEF TypeOK, IsScalerMap

LEMMA NextTyped == TypeOK /\ [Next]_vars => TypeOK'
  <1> SUFFICES ASSUME TypeOK, [Next]_vars PROVE TypeOK'
    OBVIOUS
  <1>1. ASSUME NEW s \in Scalers,
               \/ Start(Kind[s], s) \/ JobReads(s) \/ Deliver(s) \/ Resync(s)
               \/ SubmitScaler(s) \/ DeleteScaler(s) \/ MarkDeleted(s) \/ Collect(s)
        PROVE  TypeOK'
    BY <1>1, StartTyped, JobReadsTyped, DeliverTyped, SubmitTyped, MarkTyped
  <1>2. ASSUME NEW c \in {"in", "out"}, WriteStatus(c) \/ WriteOwner(c)
        PROVE  TypeOK'
    BY <1>2, WriteStatusTyped, WriteOwnerTyped
  <1>3. CASE JobWrites
    BY <1>3, JobWritesTyped
  <1>4. CASE JobDrops \/ DeliverJob \/ Crash \/ CreateJob \/ DeleteJob
    BY <1>4, JobTyped
  <1>5. CASE UNCHANGED vars
    BY <1>5 DEF vars, TypeOK, IsScalerMap
  <1> QED
    BY <1>1, <1>2, <1>3, <1>4, <1>5 DEF Next

\* Every variable keeps its type: the uid a controller writes, the versions it
\* compares and the scalers it queues are those of existing things.
THEOREM Typing == Spec => []TypeOK
  <1>1. Init => TypeOK
    BY OwnerAssumption DEF Init, TypeOK, IsScalerMap, None, NoJob
  <1> QED
    BY <1>1, NextTyped, PTL DEF Spec

-----------------------------------------------------------------------------
(* The invariant *)

\* A step of the API server: versions grow, and no older version comes back.
Advances ==
    \A s \in Scalers :
        /\ version'[s] >= version[s]
        /\ s \in DOMAIN scalers' /\ scalers'[s].ver <= version[s]
             => s \in DOMAIN scalers /\ scalers'[s] = scalers[s]

\* What it does to one scaler keeps what was known of it.
Writes(s) ==
    /\ s \in DOMAIN scalers /\ DOMAIN scalers' = DOMAIN scalers
    /\ \A r \in DOMAIN scalers : r # s => scalers'[r] = scalers[r]
    /\ \A r \in Scalers : r # s => version'[r] = version[r]
    /\ \/ scalers'[s] = scalers[s] /\ version'[s] = version[s]
       \/ version'[s] = version[s] + 1 /\ scalers'[s].ver = version'[s]
    /\ scalers'[s].gone = scalers[s].gone

LEMMA WritesAdvance ==
    ASSUME TypeOK, ServerInv, NEW s \in Scalers, Writes(s)
    PROVE  Advances
  <1> SUFFICES ASSUME NEW r \in Scalers
               PROVE  /\ version'[r] >= version[r]
                      /\ r \in DOMAIN scalers' /\ scalers'[r].ver <= version[r]
                           => r \in DOMAIN scalers /\ scalers'[r] = scalers[r]
    BY DEF Advances
  <1>1. version[r] \in Nat
    BY DEF TypeOK
  <1>2. CASE r # s
    BY <1>1, <1>2 DEF Writes
  <1>3. CASE r = s
    BY <1>1, <1>3 DEF Writes
  <1> QED
    BY <1>2, <1>3

LEMMA StaysCoherent ==
    ASSUME TypeOK, TypeOK', Advances, NEW s \in Scalers, NEW x \in Scaler, Coherent(s, x)
    PROVE  Coherent(s, x)'
  <1>1. x.ver \in Nat /\ version[s] \in Nat /\ version'[s] \in Nat
    BY DEF TypeOK, Scaler
  <1>2. version'[s] >= version[s]
    BY DEF Advances
  <1>3. x.ver <= version'[s]
    BY <1>1, <1>2 DEF Coherent
  <1>4. ASSUME s \in DOMAIN scalers', scalers'[s].ver = x.ver
        PROVE  x = scalers'[s]
    <2>1. s \in DOMAIN scalers /\ scalers'[s] = scalers[s]
      BY <1>4, <1>1 DEF Advances, Coherent
    <2> QED
      BY <1>4, <2>1 DEF Coherent
  <1> QED
    BY <1>3, <1>4 DEF Coherent

\* A step that leaves the caches, the job and its name alone keeps CacheInv.
LEMMA CacheKept ==
    ASSUME TypeOK, TypeOK', Advances, CacheInv, UNCHANGED <<jobCache, passed, cache>>
    PROVE  CacheInv'
  <1> SUFFICES ASSUME NEW s \in DOMAIN cache
               PROVE  Coherent(s, cache[s])' /\ Known(cache[s])'
    BY DEF CacheInv
  <1>1. PICK x \in Scaler : x = cache[s]
    BY DEF TypeOK, IsScalerMap
  <1>2. s \in Scalers /\ Coherent(s, x) /\ Known(x)
    BY <1>1 DEF CacheInv, TypeOK, IsScalerMap
  <1>3. Coherent(s, x)'
    BY <1>2, StaysCoherent
  <1>4. Known(x)'
    BY <1>2 DEF Known, TypeOK, Scaler, Jobs, NoJob
  <1> QED
    BY <1>1, <1>3, <1>4 DEF Coherent, Known

\* So does one that only takes reconciles away keep HeldInv.
LEMMA HeldKept ==
    ASSUME TypeOK, TypeOK', Advances, HeldInv, DOMAIN held' \subseteq DOMAIN held,
           \A c \in DOMAIN held' : held'[c] = held[c]
    PROVE  HeldInv'
  <1> SUFFICES ASSUME NEW c \in DOMAIN held'
               PROVE  Coherent(held[c].scaler, held[c].obj)' /\ Prepared(held[c])'
    BY DEF HeldInv
  <1>1. PICK h \in Reconciling : h = held[c] /\ h = held'[c]
    BY DEF TypeOK
  <1>2. h.scaler \in Scalers /\ h.obj \in Scaler
    BY DEF Reconciling
  <1>3. Coherent(h.scaler, h.obj) /\ Prepared(h)
    BY <1>1 DEF HeldInv
  <1>4. Coherent(h.scaler, h.obj)'
    BY <1>2, <1>3, StaysCoherent
  <1> QED
    BY <1>1, <1>3, <1>4 DEF Coherent, Prepared, isScaleFinished

LEMMA ServerKept ==
    ASSUME TypeOK, TypeOK', ServerInv, NEW s \in Scalers, Writes(s),
           \/ scalers'[s].owner = scalers[s].owner
           \/ scalers'[s].owner > scalers[s].gone,
           UNCHANGED <<jobCache, passed>>
    PROVE  ServerInv'
  <1> SUFFICES ASSUME NEW r \in DOMAIN scalers'
               PROVE  /\ scalers'[r].ver = version'[r]
                      /\ Known(scalers[r])'
                      /\ scalers'[r].owner # NoJob => scalers'[r].owner > scalers'[r].gone
    BY DEF ServerInv
  <1>1. r \in DOMAIN scalers /\ r \in Scalers
    BY DEF Writes, TypeOK, IsScalerMap
  <1>2. /\ scalers[r].ver = version[r] /\ Known(scalers[r])
        /\ scalers[r].owner # NoJob => scalers[r].owner > scalers[r].gone
    BY <1>1 DEF ServerInv
  <1>3. CASE r # s
    BY <1>1, <1>2, <1>3 DEF Writes, Known
  <1>4. CASE r = s
    BY <1>1, <1>2, <1>4 DEF Writes, Known
  <1> QED
    BY <1>3, <1>4

LEMMA StatusWrites ==
    ASSUME TypeOK, NEW h \in Reconciling, UpToDate(h),
           NEW C \in SUBSET ({"Created"} \cup ExecutionCondition), PutStatus(h, C)
    PROVE  LET s == h.scaler
           IN  /\ s \in Scalers /\ Writes(s) /\ scalers[s].ver = h.obj.ver
               /\ scalers'[s].owner = scalers[s].owner /\ scalers'[s].conds = C
  <1> DEFINE s == h.scaler
  <1>1. s \in Scalers /\ s \in DOMAIN scalers /\ scalers[s].ver = h.obj.ver
    BY DEF UpToDate, Reconciling
  <1>2. PICK x \in Scaler : /\ Put(s, x) /\ x.owner = scalers[s].owner
                            /\ x.conds = C /\ x.gone = scalers[s].gone
    BY StatusEffect
  <1> HIDE DEF s
  <1> QED
    BY <1>1, <1>2, PutEffect DEF Writes, s

LEMMA OwnerWrites ==
    ASSUME TypeOK, NEW h \in Reconciling, UpToDate(h), PutOwner(h)
    PROVE  LET s == h.scaler
           IN  /\ s \in Scalers /\ Writes(s) /\ scalers[s].ver = h.obj.ver
               /\ scalers'[s].owner = h.uid /\ scalers'[s].conds = scalers[s].conds
  <1> DEFINE s == h.scaler
  <1>1. s \in Scalers /\ s \in DOMAIN scalers /\ scalers[s].ver = h.obj.ver
    BY DEF UpToDate, Reconciling
  <1>2. PICK x \in Scaler : /\ Put(s, x) /\ x.owner = h.uid
                            /\ x.conds = scalers[s].conds /\ x.gone = scalers[s].gone
    BY OwnerEffect
  <1> HIDE DEF s
  <1> QED
    BY <1>1, <1>2, PutEffect DEF Writes, s

\* The copy that a reconcile may write is what the API server has.
LEMMA HeldCurrent ==
    ASSUME TypeOK, HeldInv, NEW c \in DOMAIN held, UpToDate(held[c])
    PROVE  /\ held[c] \in Reconciling
           /\ scalers[held[c].scaler] = held[c].obj
           /\ Prepared(held[c])
  BY DEF TypeOK, HeldInv, Coherent, UpToDate

LEMMA Unwritten ==
    ASSUME TypeOK, ServerInv, UNCHANGED <<scalers, version, jobCache, passed>>
    PROVE  Advances /\ ServerInv'
  <1>1. Advances
    BY DEF Advances, TypeOK
  <1>2. ServerInv'
    BY DEF ServerInv, Known
  <1> QED
    BY <1>1, <1>2

LEMMA StartKeeps ==
    ASSUME IInv, TypeOK', NEW s \in Scalers, Start(Kind[s], s)
    PROVE  ServerInv' /\ CacheInv' /\ HeldInv'
  <1>1. UNCHANGED <<job, uids, current, scalers, version, jobCache, passed, cache, faults>>
    BY DEF Start
  <1>2. Advances /\ ServerInv'
    BY <1>1, Unwritten DEF IInv
  <1>3. CacheInv'
    BY <1>1, <1>2, CacheKept DEF IInv, TypeOK
  <1>4. CASE UNCHANGED held
    BY <1>2, <1>3, <1>4, HeldKept DEF IInv
  <1>5. CASE held' # held
    <2> DEFINE h == [scaler |-> s, obj |-> cache[s], uid |-> jobCache, next |-> "status"]
    <2>1. NeedsOwner(s) /\ Hold(Kind[s], h) /\ Kind[s] \in {"in", "out", "job"}
      BY <1>5, OwnerAssumption DEF Start
    <2>2. h \in Reconciling
      BY <2>1, OwnerAssumption DEF IInv, NeedsOwner, TypeOK, IsScalerMap, Reconciling, Jobs, NoJob
    <2>3. /\ h.scaler = s /\ h.obj = cache[s] /\ h.obj \in Scaler
          /\ Coherent(s, cache[s]) /\ Prepared(h)
      BY <2>1, <2>2 DEF IInv, NeedsOwner, CacheInv, Known, Prepared, Reconciling
    <2> HIDE DEF h
    <2>4. ASSUME NEW d \in DOMAIN held'
          PROVE  Coherent(held[d].scaler, held[d].obj)' /\ Prepared(held[d])'
      <3>1. held'[d] = h \/ (d \in DOMAIN held /\ held'[d] = held[d])
        BY <2>1, <2>2, <2>4, HoldEffect DEF IInv
      <3>2. CASE held'[d] = h
        BY <2>3, <3>2, <1>1 DEF Coherent, Prepared, isScaleFinished
      <3>3. CASE d \in DOMAIN held /\ held'[d] = held[d]
        BY <3>3, <1>1 DEF IInv, HeldInv, Coherent, Prepared, isScaleFinished
      <3> QED
        BY <3>1, <3>2, <3>3
    <2> QED
      BY <1>2, <1>3, <2>4 DEF IInv, HeldInv
  <1> QED
    BY <1>4, <1>5

LEMMA JobReadsKeeps ==
    ASSUME IInv, TypeOK', NEW s \in Scalers, JobReads(s)
    PROVE  ServerInv' /\ CacheInv' /\ HeldInv'
  <1> DEFINE h == [scaler |-> s, obj |-> cache[s], uid |-> jobCache, next |-> "execution"]
  <1>1. /\ Hold("job", h) /\ s \in DOMAIN cache /\ ~isScaleFinished(cache[s])
        /\ UNCHANGED <<job, uids, current, scalers, version, jobCache, passed, cache, queue, faults>>
    BY DEF JobReads
  <1>2. Advances /\ ServerInv'
    BY <1>1, Unwritten DEF IInv
  <1>3. CacheInv'
    BY <1>1, <1>2, CacheKept DEF IInv, TypeOK
  <1>4. h \in Reconciling
    BY OwnerAssumption DEF IInv, JobReads, TypeOK, IsScalerMap, Reconciling, Jobs, NoJob
  <1>5. h.scaler = s /\ h.obj = cache[s] /\ Coherent(s, cache[s]) /\ Prepared(h)
    BY <1>1, <1>4 DEF IInv, CacheInv, Prepared
  <1> HIDE DEF h
  <1>6. ASSUME NEW d \in DOMAIN held'
        PROVE  Coherent(held[d].scaler, held[d].obj)' /\ Prepared(held[d])'
    <2>1. held'[d] = h \/ (d \in DOMAIN held /\ held'[d] = held[d])
      BY <1>1, <1>4, <1>6, HoldEffect DEF IInv
    <2>2. CASE held'[d] = h
      BY <1>1, <1>5, <2>2 DEF Coherent, Prepared, isScaleFinished
    <2>3. CASE d \in DOMAIN held /\ held'[d] = held[d]
      BY <1>1, <2>3 DEF IInv, HeldInv, Coherent, Prepared, isScaleFinished
    <2> QED
      BY <2>1, <2>2, <2>3
  <1> QED
    BY <1>2, <1>3, <1>6 DEF IInv, HeldInv

\* What a write of the conditions C by the reconcile c does, if it is made.
LEMMA StatusKeeps ==
    ASSUME IInv, TypeOK', NEW c \in DOMAIN held,
           NEW C \in SUBSET ({"Created"} \cup ExecutionCondition),
           \/ UpToDate(held[c]) /\ PutStatus(held[c], C)
           \/ UNCHANGED <<scalers, version>>,
           UNCHANGED <<jobCache, passed, cache>>
    PROVE  Advances /\ ServerInv' /\ CacheInv'
  <1>1. PICK h \in Reconciling : h = held[c]
    BY DEF IInv, TypeOK
  <1>2. Advances /\ ServerInv'
    <2>1. CASE UpToDate(h) /\ PutStatus(h, C)
      <3>1. h.scaler \in Scalers /\ Writes(h.scaler)
            /\ scalers'[h.scaler].owner = scalers[h.scaler].owner
        BY <2>1, StatusWrites DEF IInv
      <3> QED
        BY <3>1, WritesAdvance, ServerKept DEF IInv
    <2>2. CASE UNCHANGED <<scalers, version>>
      BY <2>2, Unwritten DEF IInv
    <2> QED
      BY <1>1, <2>1, <2>2
  <1>3. CacheInv'
    BY <1>2, CacheKept DEF IInv, TypeOK
  <1> QED
    BY <1>2, <1>3

LEMMA WriteStatusKeeps ==
    ASSUME IInv, TypeOK', NEW c \in {"in", "out"}, WriteStatus(c)
    PROVE  ServerInv' /\ CacheInv' /\ HeldInv'
  <1> DEFINE C == held[c].obj.conds \cup {"Created"}
             Write == UpToDate(held[c]) /\ PutStatus(held[c], C)
  <1>1. /\ c \in DOMAIN held /\ held[c] \in Reconciling
        /\ C \in SUBSET ({"Created"} \cup ExecutionCondition)
        /\ UNCHANGED <<job, uids, current, jobCache, passed, cache>>
    BY DEF WriteStatus, IInv, TypeOK, Reconciling, Scaler
  <1>2. \/ /\ Write
           /\ held' = [held EXCEPT ![c].next = "owner", ![c].obj = scalers'[held[c].scaler]]
        \/ /\ Refused(held[c]) \/ Fails(Write)
           /\ Release(c)
    BY DEF WriteStatus
  <1> HIDE DEF C
  <1>3. Write \/ UNCHANGED <<scalers, version>>
    BY <1>2 DEF Refused, Fails
  <1>4. Advances /\ ServerInv' /\ CacheInv'
    BY <1>1, <1>3, StatusKeeps
  <1>5. CASE Release(c)
    BY <1>4, <1>5, ReleaseEffect, HeldKept DEF IInv
  <1>6. CASE /\ Write
             /\ held' = [held EXCEPT ![c].next = "owner", ![c].obj = scalers'[held[c].scaler]]
    <2>1. PICK h \in Reconciling : h = held[c]
      BY <1>1
    <2>2. /\ h.scaler \in DOMAIN scalers /\ scalers[h.scaler] = h.obj
          /\ h.scaler \in DOMAIN scalers' /\ h.scaler \in Scalers
          /\ scalers'[h.scaler].owner = h.obj.owner
          /\ scalers'[h.scaler].gone = h.obj.gone
          /\ scalers'[h.scaler].conds = C
          /\ Prepared(h)
      BY <1>1, <1>6, <2>1, HeldCurrent, StatusWrites DEF IInv, Writes
    <2>3. DOMAIN held' = DOMAIN held
      BY <1>6
    <2>4. ASSUME NEW d \in DOMAIN held'
          PROVE  Coherent(held[d].scaler, held[d].obj)' /\ Prepared(held[d])'
      <3>1. CASE d # c
        <4>1. held'[d] = held[d] /\ d \in DOMAIN held
          BY <1>6, <2>3, <2>4, <3>1
        <4>2. PICK k \in Reconciling : k = held[d]
          BY <4>1 DEF IInv, TypeOK
        <4>3. k.scaler \in Scalers /\ k.obj \in Scaler /\ Coherent(k.scaler, k.obj) /\ Prepared(k)
          BY <4>1, <4>2 DEF IInv, HeldInv, Reconciling
        <4>4. Coherent(k.scaler, k.obj)'
          BY <1>4, <4>3, StaysCoherent DEF IInv
        <4> QED
          BY <4>1, <4>2, <4>3, <4>4 DEF Coherent, Prepared, isScaleFinished
      <3>2. CASE d = c
        <4>1. /\ held'[c].scaler = h.scaler /\ held'[c].obj = scalers'[h.scaler]
              /\ held'[c].uid = h.uid /\ held'[c].next = "owner"
          BY <1>1, <1>6, <2>1 DEF Reconciling
        <4>2. Prepared(held[c])'
          <5>1. h.next = "status"
            BY <2>1 DEF WriteStatus
          <5>2. /\ ~isScaleFinished(h.obj) /\ h.obj.owner = NoJob /\ h.obj.gone < h.uid
            BY <2>2, <5>1 DEF Prepared
          <5>3. ~isScaleFinished(scalers'[h.scaler]) /\ "Created" \in scalers'[h.scaler].conds
            BY <2>1, <2>2, <5>2 DEF isScaleFinished, C
          <5> QED
            BY <2>2, <4>1, <5>2, <5>3 DEF Prepared, isScaleFinished
        <4>3. scalers'[h.scaler].ver <= version'[h.scaler]
          BY <1>4, <2>2 DEF ServerInv, TypeOK
        <4> QED
          BY <3>2, <4>1, <4>2, <4>3 DEF Coherent
      <3> QED
        BY <3>1, <3>2
    <2> QED
      BY <1>4, <2>4 DEF IInv, HeldInv
  <1> QED
    BY <1>2, <1>5, <1>6

LEMMA WriteOwnerKeeps ==
    ASSUME IInv, TypeOK', NEW c \in {"in", "out"}, WriteOwner(c)
    PROVE  ServerInv' /\ CacheInv' /\ HeldInv'
  <1>1. PICK h \in Reconciling : h = held[c]
    BY DEF WriteOwner, IInv, TypeOK
  <1>2. /\ c \in DOMAIN held /\ h.next = "owner" /\ Release(c)
        /\ UNCHANGED <<job, uids, current, jobCache, passed, cache>>
    BY <1>1 DEF WriteOwner
  <1>3. (UpToDate(h) /\ PutOwner(h)) \/ UNCHANGED <<scalers, version>>
    BY <1>1 DEF WriteOwner, Refused, Fails
  <1>4. Advances /\ ServerInv'
    <2>1. CASE UpToDate(h) /\ PutOwner(h)
      <3>1. /\ h.scaler \in Scalers /\ Writes(h.scaler)
            /\ scalers'[h.scaler].owner = h.uid
        BY <2>1, OwnerWrites DEF IInv
      <3>2. scalers[h.scaler] = h.obj /\ h.obj.gone < h.uid
        BY <1>1, <1>2, <2>1, HeldCurrent DEF IInv, Prepared
      <3> QED
        BY <1>2, <3>1, <3>2, WritesAdvance, ServerKept DEF IInv
    <2>2. CASE UNCHANGED <<scalers, version>>
      BY <1>2, <2>2, Unwritten DEF IInv
    <2> QED
      BY <1>3, <2>1, <2>2
  <1>5. CacheInv'
    BY <1>2, <1>4, CacheKept DEF IInv, TypeOK
  <1>6. HeldInv'
    BY <1>2, <1>4, ReleaseEffect, HeldKept DEF IInv
  <1> QED
    BY <1>4, <1>5, <1>6 DEF IInv

LEMMA JobWritesKeeps ==
    ASSUME IInv, TypeOK', JobWrites
    PROVE  ServerInv' /\ CacheInv' /\ HeldInv'
  <1> DEFINE h == held["job"]
  <1>1. /\ "job" \in DOMAIN held /\ h \in Reconciling /\ Release("job")
        /\ UNCHANGED <<job, uids, jobCache, passed, cache, queue>>
    BY JobWritesCases DEF IInv
  <1>2. PICK added \in SUBSET ExecutionCondition :
          LET Write == UpToDate(h) /\ PutStatus(h, h.obj.conds \cup added)
          IN  (Write /\ UNCHANGED faults) \/ Refused(h) \/ Fails(Write)
    BY JobWritesCases DEF IInv
  <1>3. h.obj.conds \cup added \in SUBSET ({"Created"} \cup ExecutionCondition)
    BY <1>1 DEF Reconciling, Scaler
  <1>4. \/ UpToDate(h) /\ PutStatus(h, h.obj.conds \cup added)
        \/ UNCHANGED <<scalers, version>>
    BY <1>2 DEF Refused, Fails
  <1>5. Advances /\ ServerInv' /\ CacheInv'
    BY <1>1, <1>3, <1>4, StatusKeeps
  <1>6. HeldInv'
    BY <1>1, <1>5, ReleaseEffect, HeldKept DEF IInv
  <1> QED
    BY <1>5, <1>6 DEF IInv

LEMMA SubmitKeeps ==
    ASSUME IInv, TypeOK', NEW s \in Scalers, SubmitScaler(s)
    PROVE  ServerInv' /\ CacheInv' /\ HeldInv'
  <1> DEFINE x == [ver |-> version[s] + 1, owner |-> NoJob, conds |-> {}, deleting |-> FALSE,
                   seen |-> jobCache, gone |-> SeenGone]
  <1>1. /\ s \notin DOMAIN scalers
        /\ scalers' = [r \in DOMAIN scalers \cup {s} |-> IF r # s THEN scalers[r] ELSE x]
        /\ version' = [version EXCEPT ![s] = @ + 1]
        /\ UNCHANGED <<job, uids, current, jobCache, passed, cache, queue, held, faults>>
    BY DEF SubmitScaler
  <1>2. x.ver = version[s] + 1 /\ x.owner = NoJob /\ Known(x)
    BY DEF IInv, TypeOK, Known, NoJob, SeenGone
  <1> HIDE DEF x
  <1>3. version[s] \in Nat /\ version'[s] = version[s] + 1
    BY <1>1 DEF IInv, TypeOK
  <1>4. Advances
    BY <1>1, <1>2, <1>3 DEF Advances, IInv, TypeOK
  <1>5. ServerInv'
    <2> SUFFICES ASSUME NEW r \in DOMAIN scalers'
                 PROVE  /\ scalers'[r].ver = version'[r]
                        /\ Known(scalers[r])'
                        /\ scalers'[r].owner # NoJob => scalers'[r].owner > scalers'[r].gone
      BY DEF ServerInv
    <2>1. CASE r = s
      BY <1>1, <1>2, <1>3, <2>1 DEF Known
    <2>2. CASE r # s
      <3>1. r \in DOMAIN scalers /\ r \in Scalers /\ scalers'[r] = scalers[r]
            /\ version'[r] = version[r]
        BY <1>1, <2>2 DEF IInv, TypeOK, IsScalerMap
      <3> QED
        BY <1>1, <3>1 DEF IInv, ServerInv, Known
    <2> QED
      BY <2>1, <2>2
  <1>6. CacheInv'
    BY <1>1, <1>4, CacheKept DEF IInv, TypeOK
  <1>7. HeldInv'
    BY <1>1, <1>4, HeldKept DEF IInv
  <1> QED
    BY <1>5, <1>6, <1>7 DEF IInv

LEMMA RemoveKeeps ==
    ASSUME IInv, TypeOK', NEW s \in Scalers, Remove(s)
    PROVE  ServerInv' /\ CacheInv' /\ HeldInv'
  <1>1. /\ DOMAIN scalers' \subseteq DOMAIN scalers
        /\ \A r \in DOMAIN scalers' : scalers'[r] = scalers[r]
        /\ UNCHANGED <<job, uids, current, version, jobCache, passed, cache, queue, held, faults>>
    BY DEF Remove, Restrict
  <1>2. Advances
    BY <1>1 DEF Advances, IInv, TypeOK
  <1>3. ServerInv'
    BY <1>1 DEF IInv, ServerInv, Known
  <1>4. CacheInv'
    BY <1>1, <1>2, CacheKept DEF IInv, TypeOK
  <1>5. HeldInv'
    BY <1>1, <1>2, HeldKept DEF IInv
  <1> QED
    BY <1>3, <1>4, <1>5 DEF IInv

LEMMA MarkKeeps ==
    ASSUME IInv, TypeOK', NEW s \in Scalers, MarkDeleted(s)
    PROVE  ServerInv' /\ CacheInv' /\ HeldInv'
  <1>1. Writes(s) /\ scalers'[s].owner = scalers[s].owner
        /\ UNCHANGED <<job, uids, current, jobCache, passed, cache, queue, held, faults>>
    BY MarkEffect, PutEffect DEF IInv, Writes
  <1>2. Advances /\ ServerInv'
    BY <1>1, WritesAdvance, ServerKept DEF IInv
  <1>3. CacheInv'
    BY <1>1, <1>2, CacheKept DEF IInv, TypeOK
  <1>4. HeldInv'
    BY <1>1, <1>2, HeldKept DEF IInv
  <1> QED
    BY <1>2, <1>3, <1>4 DEF IInv

LEMMA DeliverKeeps ==
    ASSUME IInv, TypeOK', NEW s \in Scalers, Deliver(s)
    PROVE  ServerInv' /\ CacheInv' /\ HeldInv'
  <1>1. UNCHANGED <<job, uids, current, scalers, version, jobCache, passed, held, faults>>
    BY DEF Deliver
  <1>2. Advances /\ ServerInv'
    BY <1>1, Unwritten DEF IInv
  <1>3. HeldInv'
    BY <1>1, <1>2, HeldKept DEF IInv
  <1>4. ASSUME NEW r \in DOMAIN cache'
        PROVE  Coherent(r, cache[r])' /\ Known(cache[r])'
    <2>1. CASE r \in DOMAIN scalers /\ cache'[r] = scalers[r]
      BY <1>1, <2>1 DEF IInv, ServerInv, Coherent, Known, TypeOK, IsScalerMap
    <2>2. CASE r \in DOMAIN cache /\ cache'[r] = cache[r]
      BY <1>1, <2>2 DEF IInv, CacheInv, Coherent, Known
    <2> QED
      BY <2>1, <2>2 DEF Deliver
  <1> QED
    BY <1>2, <1>3, <1>4 DEF IInv, CacheInv

LEMMA JobKeeps ==
    ASSUME IInv, TypeOK', JobDrops \/ DeliverJob \/ Crash \/ CreateJob \/ DeleteJob
    PROVE  ServerInv' /\ CacheInv' /\ HeldInv'
  <1>1. UNCHANGED <<scalers, version>>
    BY DEF JobDrops, DeliverJob, Crash, CreateJob, DeleteJob
  <1>2. \/ UNCHANGED <<jobCache, passed>>
        \/ jobCache' = NoJob /\ passed' = passed
        \/ jobCache' = passed + 1 /\ passed' = passed + 1
        \/ jobCache' = job /\ passed' = uids
    BY DEF JobDrops, DeliverJob, Crash, CreateJob, DeleteJob
  <1>3. \A x \in Scaler : Known(x) => Known(x)'
    BY <1>2 DEF IInv, InformerInv, TypeOK, Known, Scaler, Jobs, NoJob
  <1>4. Advances
    BY <1>1 DEF Advances, IInv, TypeOK
  <1>5. ServerInv'
    <2> SUFFICES ASSUME NEW r \in DOMAIN scalers
                 PROVE  Known(scalers[r])'
      BY <1>1 DEF IInv, ServerInv
    <2>1. scalers[r] \in Scaler /\ Known(scalers[r])
      BY DEF IInv, TypeOK, IsScalerMap, ServerInv
    <2>2. PICK x \in Scaler : x = scalers[r]
      BY <2>1
    <2> QED
      BY <1>1, <1>3, <2>1, <2>2 DEF Known
  <1>6. CacheInv'
    <2>1. CASE UNCHANGED cache
      <3> SUFFICES ASSUME NEW r \in DOMAIN cache
                   PROVE  Coherent(r, cache[r])' /\ Known(cache[r])'
        BY <2>1 DEF CacheInv
      <3>1. PICK x \in Scaler : x = cache[r]
        BY DEF IInv, TypeOK, IsScalerMap
      <3>2. Known(x) /\ Coherent(r, cache[r])
        BY <3>1 DEF IInv, CacheInv
      <3> QED
        BY <1>1, <1>3, <2>1, <3>1, <3>2 DEF Coherent, Known
    <2>2. CASE cache' = scalers
      BY <1>1, <1>5, <2>2 DEF CacheInv, ServerInv, Coherent, Known, IInv, TypeOK,
                              IsScalerMap
    <2> QED
      BY <2>1, <2>2 DEF JobDrops, DeliverJob, Crash, CreateJob, DeleteJob
  <1>7. HeldInv'
    <2>1. CASE UNCHANGED held
      BY <1>4, <2>1, HeldKept DEF IInv
    <2>2. CASE DOMAIN held' = {}
      BY <2>2 DEF HeldInv
    <2> QED
      BY <2>1, <2>2 DEF JobDrops, DeliverJob, Crash, CreateJob, DeleteJob, None
  <1> QED
    BY <1>5, <1>6, <1>7 DEF IInv

LEMMA InformerKept == TypeOK /\ InformerInv /\ [Next]_vars => InformerInv'
  <1> SUFFICES ASSUME TypeOK, InformerInv, [Next]_vars PROVE InformerInv'
    OBVIOUS
  <1>1. CASE DeliverJob
    BY <1>1 DEF DeliverJob, TypeOK, InformerInv, NoJob
  <1>2. CASE Crash
    BY <1>2 DEF Crash, InformerInv
  <1>3. CASE CreateJob
    BY <1>3 DEF CreateJob, TypeOK, InformerInv, NoJob
  <1>4. CASE DeleteJob
    BY <1>4 DEF DeleteJob, InformerInv
  <1>5. CASE UNCHANGED <<job, uids, jobCache, passed>>
    BY <1>5 DEF InformerInv
  <1> QED
    BY <1>1, <1>2, <1>3, <1>4, <1>5
       DEF Next, vars, Start, JobReads, Deliver, Resync, SubmitScaler, DeleteScaler,
           MarkDeleted, Collect, Remove, WriteStatus, WriteOwner, JobWrites, JobDrops

LEMMA NextKeeps == IInv /\ [Next]_vars => IInv'
  <1> SUFFICES ASSUME IInv, [Next]_vars PROVE IInv'
    OBVIOUS
  <1>1. TypeOK' /\ InformerInv'
    BY NextTyped, InformerKept DEF IInv
  <1>2. ASSUME NEW s \in Scalers, Start(Kind[s], s) \/ JobReads(s) \/ Deliver(s) \/ Resync(s)
        PROVE  ServerInv' /\ CacheInv' /\ HeldInv'
    <2>1. CASE Resync(s)
      <3>1. UNCHANGED <<job, uids, current, scalers, version, jobCache, passed, cache, held, faults>>
        BY <2>1 DEF Resync
      <3>2. Advances /\ ServerInv'
        BY <3>1, Unwritten DEF IInv
      <3>3. CacheInv' /\ HeldInv'
        BY <1>1, <3>1, <3>2, CacheKept, HeldKept DEF IInv, TypeOK
      <3> QED
        BY <1>1, <3>2, <3>3 DEF IInv
    <2> QED
      BY <1>1, <1>2, <2>1, StartKeeps, JobReadsKeeps, DeliverKeeps
  <1>3. ASSUME NEW s \in Scalers,
               SubmitScaler(s) \/ DeleteScaler(s) \/ MarkDeleted(s) \/ Collect(s)
        PROVE  ServerInv' /\ CacheInv' /\ HeldInv'
    BY <1>1, <1>3, SubmitKeeps, RemoveKeeps, MarkKeeps DEF DeleteScaler, Collect
  <1>4. ASSUME NEW c \in {"in", "out"}, WriteStatus(c) \/ WriteOwner(c)
        PROVE  ServerInv' /\ CacheInv' /\ HeldInv'
    BY <1>1, <1>4, WriteStatusKeeps, WriteOwnerKeeps
  <1>5. CASE JobWrites
    BY <1>1, <1>5, JobWritesKeeps DEF IInv
  <1>6. CASE JobDrops \/ DeliverJob \/ Crash \/ CreateJob \/ DeleteJob
    BY <1>1, <1>6, JobKeeps DEF IInv
  <1>7. CASE UNCHANGED vars
    BY <1>1, <1>7 DEF vars, IInv, TypeOK, IsScalerMap, ServerInv, CacheInv, HeldInv,
                Coherent, Prepared, Known, isScaleFinished
  <1> QED
    BY <1>1, <1>2, <1>3, <1>4, <1>5, <1>6, <1>7 DEF Next, IInv

\* The invariant that the other theorems rest on: a copy that has the newest
\* version is the object itself, whatever was read before, so that a write which
\* is not refused was decided on what is there.
THEOREM Inductive == Spec => []IInv
  <1>1. Init => IInv
    BY OwnerAssumption DEF Init, IInv, TypeOK, IsScalerMap, None, NoJob,
                           InformerInv, ServerInv, CacheInv, HeldInv
  <1> QED
    BY <1>1, NextKeeps, PTL DEF Spec

\* No scaler is owned by a job that was gone, as far as the operator knew, when the
\* scaler was submitted. The caches may be old at the submission and later, the
\* names of job and scaler may be used again, and a reconcile of an earlier scaler
\* of the name may still hold the earlier job (scalein_controller.go:114-142).
THEOREM Ownership == Spec => []OwnedByItsJob
  <1>1. IInv => OwnedByItsJob
    BY DEF IInv, ServerInv, OwnedByItsJob
  <1> QED
    BY <1>1, Inductive, PTL

-----------------------------------------------------------------------------
(* ScalerOwner implements ScalerBinding *)

\* What the users of the scalers see of them.
view == [s \in DOMAIN scalers |-> [owner |-> scalers[s].owner, conds |-> scalers[s].conds]]

\* The fields of a scaler that is written, as they are seen.
LEMMA SeenWrite ==
    ASSUME TypeOK, NEW s \in Scalers, Writes(s)
    PROVE  /\ s \in DOMAIN view
           /\ view' = [view EXCEPT ![s] = [owner |-> scalers'[s].owner,
                                           conds |-> scalers'[s].conds]]
  BY DEF Writes, view

LEMMA SeenMark ==
    ASSUME IInv, NEW c \in {"in", "out"}, WriteStatus(c)
    PROVE  UNCHANGED view \/ \E s \in Scalers : Binding!Mark(s)
  <1> DEFINE C == held[c].obj.conds \cup {"Created"}
             Write == UpToDate(held[c]) /\ PutStatus(held[c], C)
  <1>1. PICK h \in Reconciling : h = held[c]
    BY DEF WriteStatus, IInv, TypeOK
  <1>2. c \in DOMAIN held /\ h.next = "status" /\ (Write \/ UNCHANGED <<scalers, version>>)
    BY <1>1 DEF WriteStatus, Refused, Fails
  <1>3. C \in SUBSET ({"Created"} \cup ExecutionCondition)
    BY <1>1 DEF Reconciling, Scaler
  <1>4. CASE UNCHANGED <<scalers, version>>
    BY <1>4 DEF view
  <1>5. CASE Write
    <2> DEFINE s == h.scaler
    <2>1. /\ s \in Scalers /\ Writes(s) /\ scalers'[s].owner = scalers[s].owner
          /\ scalers'[s].conds = C
      BY <1>1, <1>3, <1>5, StatusWrites DEF IInv
    <2>2. scalers[s] = h.obj /\ ~isScaleFinished(h.obj) /\ h.obj.owner = NoJob
      BY <1>1, <1>2, <1>5, HeldCurrent DEF IInv, Prepared
    <2>3. C = scalers[s].conds \cup {"Created"}
      BY <1>1, <2>2
    <2> HIDE DEF s, C
    <2>4. view' = [view EXCEPT ![s] = [owner |-> scalers[s].owner,
                                       conds |-> scalers[s].conds \cup {"Created"}]]
          /\ s \in DOMAIN view
      BY <2>1, <2>3, SeenWrite DEF IInv
    <2>5. Binding!Mark(s)
      BY <2>2, <2>4 DEF Binding!Mark, Binding!Ended, view, isScaleFinished
    <2> QED
      BY <2>1, <2>5
  <1> QED
    BY <1>2, <1>4, <1>5

LEMMA SeenOwn ==
    ASSUME IInv, NEW c \in {"in", "out"}, WriteOwner(c)
    PROVE  UNCHANGED view \/ \E s \in Scalers, u \in Jobs : Binding!Own(s, u)
  <1>1. PICK h \in Reconciling : h = held[c]
    BY DEF WriteOwner, IInv, TypeOK
  <1>2. /\ c \in DOMAIN held /\ h.next = "owner"
        /\ (UpToDate(h) /\ PutOwner(h)) \/ UNCHANGED <<scalers, version>>
    BY <1>1 DEF WriteOwner, Refused, Fails
  <1>3. CASE UNCHANGED <<scalers, version>>
    BY <1>3 DEF view
  <1>4. CASE UpToDate(h) /\ PutOwner(h)
    <2> DEFINE s == h.scaler
    <2>1. /\ s \in Scalers /\ Writes(s) /\ scalers'[s].owner = h.uid
          /\ scalers'[s].conds = scalers[s].conds
      BY <1>4, OwnerWrites DEF IInv
    <2>2. /\ scalers[s] = h.obj /\ ~isScaleFinished(h.obj) /\ h.obj.owner = NoJob
          /\ "Created" \in h.obj.conds /\ h.uid \in Jobs
      BY <1>1, <1>2, <1>4, HeldCurrent DEF IInv, Prepared, Reconciling
    <2> HIDE DEF s
    <2>3. view' = [view EXCEPT ![s] = [owner |-> h.uid, conds |-> scalers[s].conds]]
          /\ s \in DOMAIN view
      BY <2>1, SeenWrite DEF IInv
    <2>4. Binding!Own(s, h.uid)
      BY <2>2, <2>3 DEF Binding!Own, Binding!Ended, view, isScaleFinished
    <2> QED
      BY <2>1, <2>2, <2>4
  <1> QED
    BY <1>2, <1>3, <1>4

LEMMA SeenExecute ==
    ASSUME IInv, JobWrites
    PROVE  \/ UNCHANGED view
           \/ \E s \in Scalers, added \in SUBSET Binding!Progress : Binding!Execute(s, added)
  <1>1. "job" \in DOMAIN held
    BY DEF JobWrites
  <1>2. PICK h \in Reconciling : h = held["job"]
    BY <1>1 DEF IInv, TypeOK
  <1>3. PICK added \in SUBSET ExecutionCondition :
          \/ UpToDate(h) /\ PutStatus(h, h.obj.conds \cup added)
          \/ UNCHANGED <<scalers, version>>
    BY <1>2, JobWritesCases DEF IInv, Refused, Fails
  <1> DEFINE C == h.obj.conds \cup added
  <1>4. C \in SUBSET ({"Created"} \cup ExecutionCondition)
    BY DEF Reconciling, Scaler
  <1>5. CASE UNCHANGED <<scalers, version>>
    BY <1>5 DEF view
  <1>6. CASE UpToDate(h) /\ PutStatus(h, C)
    <2> DEFINE s == h.scaler
    <2>1. /\ s \in Scalers /\ Writes(s) /\ scalers'[s].owner = scalers[s].owner
          /\ scalers'[s].conds = C
      BY <1>4, <1>6, StatusWrites DEF IInv
    <2>2. scalers[s] = h.obj /\ ~isScaleFinished(h.obj)
      BY <1>1, <1>2, <1>6, HeldCurrent DEF IInv, Prepared
    <2>3. C = scalers[s].conds \cup added
      BY <2>2
    <2> HIDE DEF s, C
    <2>4. view' = [view EXCEPT ![s] = [owner |-> scalers[s].owner,
                                       conds |-> scalers[s].conds \cup added]]
          /\ s \in DOMAIN view
      BY <2>1, <2>3, SeenWrite DEF IInv
    <2>5. Binding!Execute(s, added)
      BY <2>2, <2>4 DEF Binding!Execute, Binding!Ended, view, isScaleFinished
    <2> QED
      BY <2>1, <2>5 DEF Binding!Progress, ExecutionCondition
  <1> QED
    BY <1>3, <1>5, <1>6

LEMMA SeenUsers ==
    ASSUME IInv, NEW s \in Scalers
    PROVE  /\ SubmitScaler(s) => Binding!Submit(s)
           /\ DeleteScaler(s) \/ Collect(s) => Binding!Remove(s)
           /\ MarkDeleted(s) => UNCHANGED view
  <1>1. ASSUME SubmitScaler(s) PROVE Binding!Submit(s)
    <2> DEFINE x == [ver |-> version[s] + 1, owner |-> NoJob, conds |-> {},
                     deleting |-> FALSE, seen |-> jobCache, gone |-> SeenGone]
    <2>1. x.owner = NoJob /\ x.conds = {}
      OBVIOUS
    <2>2. /\ s \notin DOMAIN scalers
          /\ scalers' = [r \in DOMAIN scalers \cup {s} |-> IF r # s THEN scalers[r] ELSE x]
      BY <1>1 DEF SubmitScaler
    <2> HIDE DEF x
    <2> QED
      BY <2>1, <2>2 DEF Binding!Submit
  <1>2. ASSUME DeleteScaler(s) \/ Collect(s) PROVE Binding!Remove(s)
    BY <1>2 DEF DeleteScaler, Collect, Remove, Restrict, Binding!Remove, Binding!Restrict
  <1>3. ASSUME MarkDeleted(s) PROVE UNCHANGED view
    BY <1>3, MarkEffect, PutEffect DEF IInv, view
  <1> QED
    BY <1>1, <1>2, <1>3

LEMMA SeenNext == IInv /\ [Next]_vars => [Binding!Next]_view
  <1> SUFFICES ASSUME IInv, [Next]_vars PROVE Binding!Next \/ UNCHANGED view
    BY DEF view
  <1>1. ASSUME NEW s \in Scalers, Start(Kind[s], s) \/ JobReads(s) \/ Deliver(s) \/ Resync(s)
        PROVE  UNCHANGED view
    BY <1>1 DEF Start, JobReads, Deliver, Resync, view
  <1>2. ASSUME NEW s \in Scalers,
               SubmitScaler(s) \/ DeleteScaler(s) \/ MarkDeleted(s) \/ Collect(s)
        PROVE  Binding!Next \/ UNCHANGED view
    BY <1>2, SeenUsers DEF Binding!Next
  <1>3. ASSUME NEW c \in {"in", "out"}, WriteStatus(c) \/ WriteOwner(c)
        PROVE  Binding!Next \/ UNCHANGED view
    BY <1>3, SeenMark, SeenOwn DEF Binding!Next
  <1>4. CASE JobWrites
    BY <1>4, SeenExecute DEF Binding!Next
  <1>5. CASE JobDrops \/ DeliverJob \/ Crash \/ CreateJob \/ DeleteJob
    BY <1>5 DEF JobDrops, DeliverJob, Crash, CreateJob, DeleteJob, view
  <1>6. CASE UNCHANGED vars
    BY <1>6 DEF vars, view
  <1> QED
    BY <1>1, <1>2, <1>3, <1>4, <1>5, <1>6 DEF Next

\* The two writes of an owner controller and those of the job, decided on copies
\* that may be old and interleaved in any way, look to the users as if every
\* controller saw and changed the scaler at once (scalein_controller.go:112-150,
\* scaler.go:183-226).
THEOREM Implements == Spec => BindingSpec
  <1>1. Init => Binding!Init
    BY DEF Init, Binding!Init, None
  <1>2. IInv /\ [Next]_vars => [Binding!Next]_view
    BY SeenNext
  <1> QED
    BY <1>1, <1>2, Inductive, PTL DEF Spec, BindingSpec, Binding!Spec, view
=============================================================================
