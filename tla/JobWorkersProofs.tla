-------------------------- MODULE JobWorkersProofs --------------------------
(***************************************************************************)
(* Proofs about TrainingJob: the workers the status records are the        *)
(* workers of the job. None is lost when workers are replaced, and none    *)
(* lives that the status does not know. The hostfile follows them, and a   *)
(* ScaleIn the hostfile.                                                   *)
(***************************************************************************)
EXTENDS JobScalerProofs

-----------------------------------------------------------------------------
(* The number of occurrences of the names ws in the bag t, as ReplaceWorkers   *)
(* counts them. The fold defines it by a recursive function over the subsets   *)
(* of ws; what follows needs one function for all of them.                     *)

Chosen(ws) == CHOOSE i \in ws : TRUE

Counting(g, t, S) ==
    g = [ws \in SUBSET S |-> IF ws = {} THEN 0 ELSE t[Chosen(ws)] + g[ws \ {Chosen(ws)}]]

FoldOf(t, S) == CHOOSE g : Counting(g, t, S)

LEMMA FoldIs == ASSUME NEW t, NEW S PROVE MapThenSumSet(LAMBDA i : t[i], S) = FoldOf(t, S)[S]
  BY DEF MapThenSumSet, MapThenFoldSet, FoldOf, Counting, Chosen

LEMMA ChosenIs == ASSUME NEW ws, ws # {} PROVE Chosen(ws) \in ws
  BY DEF Chosen

LEMMA WorkersAreFinite ==
  ASSUME NEW ws \in SUBSET Worker
  PROVE  /\ IsFiniteSet(ws) /\ Cardinality(ws) \in Nat
         /\ Cardinality(ws) = 0 <=> ws = {}
         /\ Cardinality(ws) <= Cardinality(Worker)
         /\ \A i \in ws : /\ ws \ {i} \in SUBSET Worker
                          /\ Cardinality(ws \ {i}) = Cardinality(ws) - 1
<1>1. IsFiniteSet(Worker) BY NumbersAssumption, FS_Interval DEF Worker
<1>2. IsFiniteSet(ws) BY <1>1, FS_Subset
<1>3. QED BY <1>1, <1>2, FS_Subset, FS_CardinalityType, FS_EmptySet, FS_RemoveElement

\* g counts the sets of up to n names.
CountsUpTo(g, t, n) ==
    \A ws \in SUBSET Worker : Cardinality(ws) <= n =>
        g[ws] = IF ws = {} THEN 0 ELSE t[Chosen(ws)] + g[ws \ {Chosen(ws)}]

LEMMA CountsExtend ==
  ASSUME NEW t \in [Worker -> Nat], NEW n \in Nat,
         NEW g \in [SUBSET Worker -> Nat], CountsUpTo(g, t, n)
  PROVE  \E h \in [SUBSET Worker -> Nat] : CountsUpTo(h, t, n + 1)
<1> DEFINE h == [ws \in SUBSET Worker |-> IF ws = {} THEN 0 ELSE t[Chosen(ws)] + g[ws \ {Chosen(ws)}]]
<1>1. h \in [SUBSET Worker -> Nat]
  <2>1. ASSUME NEW ws \in SUBSET Worker, ws # {} PROVE t[Chosen(ws)] + g[ws \ {Chosen(ws)}] \in Nat
    <3>1. Chosen(ws) \in Worker /\ ws \ {Chosen(ws)} \in SUBSET Worker BY <2>1, ChosenIs
    <3>2. t[Chosen(ws)] \in Nat /\ g[ws \ {Chosen(ws)}] \in Nat BY <3>1
    <3>3. QED BY <3>2
  <2>2. QED BY <2>1
<1>2. ASSUME NEW ws \in SUBSET Worker, Cardinality(ws) <= n PROVE h[ws] = g[ws]
  BY <1>2 DEF CountsUpTo
<1>3. ASSUME NEW ws \in SUBSET Worker, ws # {}, Cardinality(ws) <= n + 1
      PROVE  h[ws] = t[Chosen(ws)] + h[ws \ {Chosen(ws)}]
  <2>1. Chosen(ws) \in ws BY <1>3, ChosenIs
  <2>2. ws \ {Chosen(ws)} \in SUBSET Worker /\ Cardinality(ws \ {Chosen(ws)}) <= n
    BY <1>3, <2>1, WorkersAreFinite
  <2>3. h[ws \ {Chosen(ws)}] = g[ws \ {Chosen(ws)}] BY <1>2, <2>2
  <2>4. h[ws] = t[Chosen(ws)] + g[ws \ {Chosen(ws)}] BY <1>3
  <2>5. QED BY <2>3, <2>4
<1>4. h[{}] = 0 OBVIOUS
<1> HIDE DEF h
<1>5. CountsUpTo(h, t, n + 1) BY <1>3, <1>4 DEF CountsUpTo
<1>6. QED BY <1>1, <1>5

LEMMA CountExists ==
  ASSUME NEW t \in [Worker -> Nat]
  PROVE  \E g \in [SUBSET Worker -> Nat] : CountsUpTo(g, t, Cardinality(Worker))
<1> DEFINE Bad == {n \in Nat : ~\E g \in [SUBSET Worker -> Nat] : CountsUpTo(g, t, n)}
<1>1. Bad = {}
  <2>1. SUFFICES ASSUME Bad # {} PROVE FALSE OBVIOUS
  <2>2. PICK n \in Bad : \A m \in Bad : n <= m BY <2>1, LeastNat
  <2>3. n \in Nat OBVIOUS
  <2>4. 0 \notin Bad
    <3>1. [ws \in SUBSET Worker |-> 0] \in [SUBSET Worker -> Nat] OBVIOUS
    <3>2. CountsUpTo([ws \in SUBSET Worker |-> 0], t, 0) BY WorkersAreFinite DEF CountsUpTo
    <3>3. QED BY <3>1, <3>2
  <2>5. n - 1 \in Nat /\ n - 1 \notin Bad
    <3> HIDE DEF Bad
    <3>1. n # 0 BY <2>4
    <3>2. n - 1 \in Nat /\ ~(n <= n - 1) BY <2>3, <3>1
    <3>3. QED BY <2>2, <3>2
  <2>6. PICK g \in [SUBSET Worker -> Nat] : CountsUpTo(g, t, n - 1) BY <2>5
  <2>7. \E h \in [SUBSET Worker -> Nat] : CountsUpTo(h, t, (n - 1) + 1)
    BY <2>5, <2>6, CountsExtend
  <2>8. (n - 1) + 1 = n BY <2>3
  <2>9. QED BY <2>7, <2>8
<1>2. Cardinality(Worker) \in Nat BY WorkersAreFinite
<1>3. QED BY <1>1, <1>2

CountOf(t) == CHOOSE g \in [SUBSET Worker -> Nat] : CountsUpTo(g, t, Cardinality(Worker))

LEMMA CountOfIs ==
  ASSUME NEW t \in [Worker -> Nat]
  PROVE  /\ CountOf(t) \in [SUBSET Worker -> Nat]
         /\ CountOf(t)[{}] = 0
         /\ \A ws \in SUBSET Worker :
              ws # {} => CountOf(t)[ws] = t[Chosen(ws)] + CountOf(t)[ws \ {Chosen(ws)}]
<1>1. CountOf(t) \in [SUBSET Worker -> Nat] /\ CountsUpTo(CountOf(t), t, Cardinality(Worker))
  BY CountExists DEF CountOf
<1> HIDE DEF CountOf
<1>2. QED BY <1>1, WorkersAreFinite DEF CountsUpTo

LEMMA SumIsCount ==
  ASSUME NEW t \in [Worker -> Nat], NEW S \in SUBSET Worker
  PROVE  MapThenSumSet(LAMBDA i : t[i], S) = CountOf(t)[S]
<1> DEFINE G == CountOf(t)
           g == [ws \in SUBSET S |-> G[ws]]
           f == FoldOf(t, S)
<1>1. Counting(g, t, S)
  <2>1. ASSUME NEW ws \in SUBSET S
        PROVE  g[ws] = IF ws = {} THEN 0 ELSE t[Chosen(ws)] + g[ws \ {Chosen(ws)}]
    <3>1. ws \in SUBSET Worker /\ ws \ {Chosen(ws)} \in SUBSET S OBVIOUS
    <3> HIDE DEF G
    <3>2. g[ws] = G[ws] /\ g[ws \ {Chosen(ws)}] = G[ws \ {Chosen(ws)}] BY <3>1
    <3>3. G[ws] = IF ws = {} THEN 0 ELSE t[Chosen(ws)] + G[ws \ {Chosen(ws)}]
      BY <3>1, CountOfIs DEF G
    <3>4. QED BY <3>2, <3>3
  <2>2. g = [ws \in SUBSET S |-> g[ws]] OBVIOUS
  <2> HIDE DEF g
  <2>3. QED BY <2>1, <2>2 DEF Counting
<1>2. Counting(f, t, S) BY <1>1 DEF FoldOf
<1> HIDE DEF f, g, G
<1>3. \A ws \in SUBSET S : f[ws] = IF ws = {} THEN 0 ELSE t[Chosen(ws)] + f[ws \ {Chosen(ws)}]
  BY <1>2 DEF Counting
<1>4. \A ws \in SUBSET S : f[ws] = G[ws]
  <2> DEFINE Bad == {n \in Nat : \E ws \in SUBSET S : Cardinality(ws) = n /\ f[ws] # G[ws]}
  <2>1. ASSUME Bad # {} PROVE FALSE
    <3>1. PICK n \in Bad : \A m \in Bad : n <= m BY <2>1, LeastNat
    <3>2. PICK ws \in SUBSET S : Cardinality(ws) = n /\ f[ws] # G[ws] BY <3>1
    <3>3. ws # {} BY <1>3, <3>2, CountOfIs DEF G
    <3>4. Chosen(ws) \in ws /\ ws \in SUBSET Worker /\ ws \ {Chosen(ws)} \in SUBSET S
      BY <3>3, ChosenIs
    <3>5. Cardinality(ws \ {Chosen(ws)}) = n - 1 /\ n - 1 \in Nat
      BY <3>2, <3>3, <3>4, WorkersAreFinite
    <3>6. n - 1 \notin Bad BY <3>1, <3>5
    <3>7. f[ws \ {Chosen(ws)}] = G[ws \ {Chosen(ws)}] BY <3>4, <3>5, <3>6
    <3>8. f[ws] = G[ws] BY <1>3, <3>3, <3>4, <3>7, CountOfIs DEF G
    <3>9. QED BY <3>2, <3>8
  <2>2. \A ws \in SUBSET S : Cardinality(ws) \in Nat BY WorkersAreFinite
  <2>3. QED BY <2>1, <2>2
<1>5. QED BY <1>4, FoldIs DEF f, G

\* Any name may be counted first.
LEMMA CountOne ==
  ASSUME NEW t \in [Worker -> Nat], NEW S \in SUBSET Worker, NEW x \in S
  PROVE  CountOf(t)[S] = t[x] + CountOf(t)[S \ {x}]
<1> DEFINE G == CountOf(t)
           Wrong(ws) == \E i \in ws : G[ws] # t[i] + G[ws \ {i}]
           Bad == {n \in Nat : \E ws \in SUBSET Worker : Cardinality(ws) = n /\ Wrong(ws)}
<1>1. /\ G \in [SUBSET Worker -> Nat]
      /\ \A ws \in SUBSET Worker : ws # {} => G[ws] = t[Chosen(ws)] + G[ws \ {Chosen(ws)}]
  BY CountOfIs
<1> HIDE DEF G
<1>2. ASSUME Bad # {} PROVE FALSE
  <2>1. PICK n \in Bad : \A m \in Bad : n <= m BY <1>2, LeastNat
  <2>2. PICK ws \in SUBSET Worker : Cardinality(ws) = n /\ Wrong(ws) BY <2>1
  <2>3. PICK i \in ws : G[ws] # t[i] + G[ws \ {i}] BY <2>2
  <2> DEFINE c == Chosen(ws)
  <2>4. c \in ws BY <2>3, ChosenIs
  <2> HIDE DEF c
  <2>5. G[ws] = t[c] + G[ws \ {c}] /\ i # c BY <1>1, <2>3 DEF c
  <2>6. /\ Cardinality(ws \ {c}) = n - 1 /\ Cardinality(ws \ {i}) = n - 1 /\ n - 1 \in Nat
        /\ ws \ {c} \in SUBSET Worker /\ ws \ {i} \in SUBSET Worker
    BY <2>2, <2>3, <2>4, WorkersAreFinite
  <2>7. n - 1 \notin Bad BY <2>1, <2>6
  <2>8. ~Wrong(ws \ {c}) /\ ~Wrong(ws \ {i})
    <3> HIDE DEF Wrong
    <3>1. QED BY <2>6, <2>7
  <2> DEFINE r == (ws \ {c}) \ {i}
  <2>9. r = (ws \ {i}) \ {c} /\ r \in SUBSET Worker OBVIOUS
  <2>10. G[ws \ {c}] = t[i] + G[r] BY <2>3, <2>5, <2>8
  <2> HIDE DEF r
  <2>11. G[ws \ {i}] = t[c] + G[r] BY <2>4, <2>5, <2>8, <2>9
  <2>12. t[c] \in Nat /\ t[i] \in Nat /\ G[r] \in Nat BY <1>1, <2>3, <2>4, <2>9
  <2>13. QED BY <2>3, <2>5, <2>10, <2>11, <2>12
<1>3. Cardinality(S) \in Nat BY WorkersAreFinite
<1>4. QED BY <1>2, <1>3 DEF G

\* More names have no fewer occurrences, and names of the bag at least their number.
LEMMA CountGrows ==
  ASSUME NEW t \in [Worker -> Nat], NEW S \in SUBSET Worker, NEW T \in SUBSET S
  PROVE  CountOf(t)[T] <= CountOf(t)[S]
<1> DEFINE G == CountOf(t)
           Bad == {n \in Nat : \E ws \in SUBSET Worker : \E us \in SUBSET ws :
                                 Cardinality(ws) = n /\ ~(G[us] <= G[ws])}
<1>1. /\ G \in [SUBSET Worker -> Nat]
      /\ \A ws \in SUBSET Worker : \A i \in ws : G[ws] = t[i] + G[ws \ {i}]
  BY CountOfIs, CountOne
<1> HIDE DEF G
<1>2. ASSUME Bad # {} PROVE FALSE
  <2>1. PICK n \in Bad : \A m \in Bad : n <= m BY <1>2, LeastNat
  <2>2. PICK ws \in SUBSET Worker : \E us \in SUBSET ws : Cardinality(ws) = n /\ ~(G[us] <= G[ws])
    BY <2>1
  <2>3. PICK us \in SUBSET ws : Cardinality(ws) = n /\ ~(G[us] <= G[ws]) BY <2>2
  <2>4. G[ws] \in Nat /\ G[us] \in Nat BY <1>1, <2>3
  <2>5. us # ws BY <2>4, <2>3
  <2>6. PICK i \in ws : i \notin us BY <2>5, <2>3
  <2>7. ws \ {i} \in SUBSET Worker /\ Cardinality(ws \ {i}) = n - 1 /\ n - 1 \in Nat
    BY <2>6, <2>3, WorkersAreFinite
  <2>8. n - 1 \notin Bad /\ us \in SUBSET (ws \ {i}) BY <2>1, <2>6, <2>7, <2>3
  <2>9. G[us] <= G[ws \ {i}] BY <2>7, <2>8
  <2>10. G[ws] = t[i] + G[ws \ {i}] BY <1>1, <2>6
  <2>11. t[i] \in Nat /\ G[ws \ {i}] \in Nat BY <1>1, <2>6, <2>7
  <2>12. QED BY <2>4, <2>9, <2>10, <2>11, <2>3
<1>3. Cardinality(S) \in Nat BY WorkersAreFinite
<1>4. QED BY <1>2, <1>3 DEF G

LEMMA CountIsEnough ==
  ASSUME NEW t \in [Worker -> Nat], NEW S \in SUBSET Members(t)
  PROVE  CountOf(t)[S] \in Nat /\ Cardinality(S) <= CountOf(t)[S]
<1> DEFINE G == CountOf(t)
           Bad == {n \in Nat : \E ws \in SUBSET Members(t) : Cardinality(ws) = n /\ ~(n <= G[ws])}
<1>1. /\ G \in [SUBSET Worker -> Nat] /\ G[{}] = 0
      /\ \A ws \in SUBSET Worker : \A i \in ws : G[ws] = t[i] + G[ws \ {i}]
  BY CountOfIs, CountOne
<1> HIDE DEF G
<1>2. Members(t) \in SUBSET Worker /\ \A i \in Members(t) : t[i] \in Nat /\ t[i] >= 1
  BY DEF Members
<1>3. ASSUME Bad # {} PROVE FALSE
  <2>1. PICK n \in Bad : \A m \in Bad : n <= m BY <1>3, LeastNat
  <2>2. PICK ws \in SUBSET Members(t) : Cardinality(ws) = n /\ ~(n <= G[ws]) BY <2>1
  <2>3. ws \in SUBSET Worker /\ ws # {} BY <1>1, <1>2, <2>2, WorkersAreFinite
  <2>4. PICK i \in ws : TRUE BY <2>3
  <2>5. ws \ {i} \in SUBSET Worker /\ Cardinality(ws \ {i}) = n - 1 /\ n - 1 \in Nat
    BY <2>2, <2>3, <2>4, WorkersAreFinite
  <2>6. n - 1 \notin Bad /\ ws \ {i} \in SUBSET Members(t) BY <2>1, <2>2, <2>5
  <2>7. n - 1 <= G[ws \ {i}] BY <2>5, <2>6
  <2>8. G[ws] = t[i] + G[ws \ {i}] /\ G[ws \ {i}] \in Nat /\ t[i] \in Nat /\ t[i] >= 1
    BY <1>1, <1>2, <2>2, <2>3, <2>4, <2>5
  <2>9. QED BY <2>2, <2>5, <2>7, <2>8
<1>4. Cardinality(S) \in Nat /\ S \in SUBSET Worker BY <1>2, WorkersAreFinite
<1>5. QED BY <1>1, <1>3, <1>4 DEF G

-----------------------------------------------------------------------------
(* What the operations on workers leave of the cluster *)

SameCluster(v, w) == v.launcher = w.launcher /\ v.hostfile = w.hostfile

LEMMA FaultCluster ==
  ASSUME NEW w \in Worlds, NEW kind, NEW v \in Fault(w, kind)
  PROVE  v \in Worlds /\ SameCluster(v, w) /\ v.pods = w.pods /\ v.seen = w.seen /\ v.err = w.err
<1>1. v \in Worlds /\ v.seen = w.seen BY FaultActs DEF Acts, SameView
<1>2. v = [w EXCEPT !.faults = @ + 1] BY DEF Fault
<1>3. QED BY <1>1, <1>2 DEF SameCluster, Worlds

LEMMA ErrorIs ==
  ASSUME NEW w \in Worlds
  PROVE  SameCluster(Error(w), w) /\ Error(w).pods = w.pods /\ Error(w).err = "error"
  BY DEF Error, SameCluster, Worlds

\* Some of the missing workers are made, and all of them when there is no error.
LEMMA createWorkersMakes ==
  ASSUME NEW w \in Worlds, NEW ws, NEW r \in Scalers \cup {NoScaler}, NEW v \in createWorkers(w, ws, r)
  PROVE  /\ ws \subseteq Worker
         /\ v \in Worlds /\ SameRest(v, w) /\ SameView(v, w) /\ SameCluster(v, w)
         /\ \E new \in SUBSET (ws \ DOMAIN w.seen) :
              /\ v.pods = WithNew(w.pods, new, r)
              /\ v.err = "none" => new = ws \ DOMAIN w.seen
         /\ "apiError" \notin Faults /\ w.seen = w.pods => v.err = w.err
<1> DEFINE missing == ws \ DOMAIN w.seen
           clash   == missing \cap DOMAIN w.pods
           Reached(i) == \A j \in clash : i <= j
           Below(i) == {j \in missing : j < i}
           All == [w EXCEPT !.pods = WithNew(w.pods, missing, r)]
           StopAt(u, i) == Error([u EXCEPT !.pods = WithNew(u.pods, Below(i), r)])
<1>1. ws \subseteq Worker BY DEF createWorkers
<1>2. v \in Worlds /\ SameRest(v, w) /\ SameView(v, w) BY createWorkersActs DEF Acts
<1>3. createWorkers(w, ws, r) =
        (IF clash = {} THEN {All} ELSE {})
        \cup {StopAt(w, i) : i \in {j \in clash : Reached(j)}}
        \cup {StopAt(u, i + made) :
                u \in Fault(w, "apiError"), i \in {j \in ws : Reached(j)}, made \in {0, 1}}
  BY <1>1 DEF createWorkers
<1>4. All.pods = WithNew(w.pods, missing, r) /\ SameCluster(All, w) /\ All.err = w.err
  BY DEF Worlds, SameCluster
<1>5. ASSUME NEW u \in Worlds, NEW ps
      PROVE  LET x == [u EXCEPT !.pods = ps]
             IN  Error(x).pods = ps /\ SameCluster(Error(x), u) /\ Error(x).err = "error"
  BY DEF Worlds, SameCluster, Error
<1>6. \A u \in Worlds : \A i :
        /\ StopAt(u, i).pods = WithNew(u.pods, Below(i), r)
        /\ SameCluster(StopAt(u, i), u) /\ StopAt(u, i).err = "error"
  BY <1>5
<1>7. \A i : Below(i) \in SUBSET missing OBVIOUS
<1>8. "apiError" \notin Faults => Fault(w, "apiError") = {} BY DEF Fault
<1>9. w.seen = w.pods => clash = {} OBVIOUS
<1> HIDE DEF All, StopAt, missing, clash, Reached, Below
<1>10. \/ v = All
       \/ \E i \in clash : v = StopAt(w, i)
       \/ \E u \in Fault(w, "apiError"), i \in ws, made \in {0, 1} : v = StopAt(u, i + made)
  BY <1>3
<1>11. CASE v = All BY <1>1, <1>2, <1>4, <1>11 DEF missing
<1>12. CASE \E i \in clash : v = StopAt(w, i)
  <2>1. PICK i \in clash : v = StopAt(w, i) BY <1>12
  <2>2. v.pods = WithNew(w.pods, Below(i), r) /\ SameCluster(v, w) /\ v.err = "error"
    BY <1>6, <2>1
  <2>3. QED BY <1>1, <1>2, <1>7, <1>9, <2>1, <2>2 DEF missing
<1>13. CASE \E u \in Fault(w, "apiError"), i \in ws, made \in {0, 1} : v = StopAt(u, i + made)
  <2>1. PICK u \in Fault(w, "apiError"), i \in ws, made \in {0, 1} : v = StopAt(u, i + made)
    BY <1>13
  <2>2. u \in Worlds /\ SameCluster(u, w) /\ u.pods = w.pods BY FaultCluster
  <2>3. v.pods = WithNew(w.pods, Below(i + made), r) /\ SameCluster(v, w) /\ v.err = "error"
    BY <1>6, <2>1, <2>2 DEF SameCluster
  <2>4. QED BY <1>1, <1>2, <1>7, <1>8, <2>1, <2>3 DEF missing
<1>14. QED BY <1>10, <1>11, <1>12, <1>13

\* The hostfile is written in a launcher that runs, or there is an error, or there
\* is no launcher to write it in.
LEMMA WriteHostfileIs ==
  ASSUME NEW w \in Worlds, NEW ws \in SUBSET Worker, w.err = "none", NEW v \in WriteHostfile(w, ws)
  PROVE  /\ v \in Worlds /\ SameRest(v, w) /\ SameView(v, w)
         /\ v.launcher = w.launcher /\ v.pods = w.pods
         /\ IF v.err = "none" /\ w.seenLauncher # "None"
            THEN v.hostfile = ws /\ w.launcher = "Running"
            ELSE v.hostfile = w.hostfile
<1> DEFINE Written(u) == [u EXCEPT !.hostfile = ws]
<1>1. v \in Worlds /\ SameRest(v, w) /\ SameView(v, w) BY WriteHostfileActs DEF Acts
<1>2. \A u \in Worlds : /\ Written(u).launcher = u.launcher /\ Written(u).pods = u.pods
                        /\ Written(u).hostfile = ws /\ Written(u).err = u.err
  BY DEF Worlds
<1>3. \A u \in executeOnLauncher(w) :
        /\ u \in Worlds /\ SameCluster(u, w) /\ u.pods = w.pods
        /\ u.err = "none" /\ w.seenLauncher # "None" => w.launcher = "Running"
  <2>1. ASSUME NEW u \in executeOnLauncher(w)
        PROVE  \/ u = w /\ (w.seenLauncher # "None" => w.launcher = "Running")
               \/ u = Error(w)
               \/ \E x \in Fault(w, "execError") : u = Error(x)
    BY DEF executeOnLauncher
  <2>2. \A u \in executeOnLauncher(w) : u \in Worlds BY executeOnLauncherActs DEF Acts
  <2>3. QED BY <2>1, <2>2, FaultCluster, ErrorIs DEF SameCluster
<1>4. WriteHostfile(w, ws) = {IF u.err = "none" /\ w.seenLauncher # "None" THEN Written(u) ELSE u :
                               u \in executeOnLauncher(w)}
  BY DEF WriteHostfile
<1> HIDE DEF Written
<1>5. PICK u \in executeOnLauncher(w) :
        v = IF u.err = "none" /\ w.seenLauncher # "None" THEN Written(u) ELSE u
  BY <1>4
<1>6. QED BY <1>1, <1>2, <1>3, <1>5 DEF SameCluster

\* The names ReplaceWorkers gives for the names old of the bag t, and the bag with them.
NewNames(t, old) == NextNames(t, CountOf(t)[old])

Renewed(t, old) == Append(FilterOut(t, old), NewNames(t, old))

LEMMA NeedRestartIs ==
  ASSUME NEW w, NEW t PROVE NeedRestart(w, t) \in SUBSET Members(t) /\ Members(t) \in SUBSET Worker
  BY DEF NeedRestart, Members

LEMMA RenewedMembers ==
  ASSUME NEW t \in [Worker -> Nat], NEW old \in SUBSET Members(t), NewNames(t, old) \subseteq Worker
  PROVE  Members(Renewed(t, old)) = (Members(t) \ old) \cup NewNames(t, old)
<1> DEFINE new == NewNames(t, old)
           kept == FilterOut(t, old)
<1>1. kept \in [Worker -> Nat] BY AppendIsBag
<1>2. \A i \in Worker : kept[i] = IF i \in old THEN 0 ELSE t[i] BY DEF FilterOut
<1> HIDE DEF new, kept
<1>3. Append(kept, new) = [i \in Worker |-> kept[i] + BagOf(new)[i]] BY DEF Append
<1>4. \A i \in Worker : BagOf(new)[i] = IF i \in new THEN 1 ELSE 0 BY DEF BagOf
<1>5. \A i \in Worker : Append(kept, new)[i] > 0 <=> i \in new \/ (i \notin old /\ t[i] > 0)
  BY <1>1, <1>2, <1>3, <1>4
<1>6. QED BY <1>5 DEF Renewed, Members, new, kept

\* A bag whose workers are replaced has no fewer of them: one for each occurrence
\* of a name that goes.
LEMMA RenewedSize ==
  ASSUME NEW t \in [Worker -> Nat], NEW old \in SUBSET Members(t), NewNames(t, old) \subseteq Worker
  PROVE  Cardinality(Members(Renewed(t, old))) >= Cardinality(Members(t))
<1> DEFINE M == Members(t)
           N == NewNames(t, old)
<1>1. M \in SUBSET Worker /\ old \in SUBSET Worker /\ M \ old \in SUBSET Worker BY DEF Members
<1>2. CountOf(t)[old] \in Nat /\ Cardinality(old) <= CountOf(t)[old] BY CountIsEnough
<1>3. Cardinality(N) = CountOf(t)[old] BY <1>2, NextNamesCount DEF NewNames
<1>4. M \cap N = {} BY NamesAreNew DEF NewNames
<1>5. Members(Renewed(t, old)) = (M \ old) \cup N BY RenewedMembers
<1> HIDE DEF M, N
<1>6. /\ IsFiniteSet(M) /\ IsFiniteSet(M \ old) /\ IsFiniteSet(N) /\ IsFiniteSet(old)
      /\ Cardinality(M) \in Nat /\ Cardinality(old) \in Nat
      /\ Cardinality(M \ old) \in Nat /\ Cardinality(N) \in Nat
  BY <1>1, WorkersAreFinite DEF N
<1>7. Cardinality(M \ old) = Cardinality(M) - Cardinality(old)
  <2>1. M \cap old = old BY DEF M
  <2>2. QED BY <1>6, <2>1, FS_Difference
<1>8. Cardinality((M \ old) \cup N) = Cardinality(M \ old) + Cardinality(N)
  <2>1. Cardinality((M \ old) \cap N) = 0
    <3>1. (M \ old) \cap N = {} BY <1>4 DEF M, N
    <3>2. QED BY <3>1, FS_EmptySet
  <2> DEFINE K == M \ old
  <2>2. IsFiniteSet(K) /\ Cardinality(K) \in Nat /\ Cardinality(K \cap N) = 0 BY <1>6, <2>1
  <2> HIDE DEF K
  <2>3. Cardinality(K \cup N) = Cardinality(K) + Cardinality(N) - Cardinality(K \cap N)
    BY <1>6, <2>2, FS_Union
  <2>4. Cardinality(K \cup N) = Cardinality(K) + Cardinality(N) BY <1>6, <2>2, <2>3
  <2>5. QED BY <2>4 DEF K
<1>9. QED BY <1>2, <1>3, <1>5, <1>6, <1>7, <1>8 DEF M

\* The two outcomes of ReplaceWorkers in the world w with the status st: nothing to
\* replace, or new workers, recorded in the place of the old ones unless there was
\* an error.
Replaced(v, w, st) ==
    LET t   == st.target
        old == NeedRestart(w, t)
    IN  IF old = {} THEN v.pods = w.pods /\ v.st = st /\ v.err = w.err
        ELSE /\ NewNames(t, old) \subseteq Worker
             /\ \E new \in SUBSET (NewNames(t, old) \ DOMAIN w.seen) :
                  /\ v.pods = WithNew(w.pods, new, NoScaler)
                  /\ v.err = "none" => new = NewNames(t, old) \ DOMAIN w.seen
             /\ v.st = IF v.err = "none" THEN [st EXCEPT !.target = Renewed(t, old)] ELSE st
             /\ "apiError" \notin Faults /\ w.seen = w.pods => v.err = w.err

LEMMA ReplaceWorkersReplaces ==
  ASSUME NEW w, Good(w), NEW v \in ReplaceWorkers(w)
  PROVE  v \in Worlds /\ SameCluster(v, w) /\ Replaced(v, w, w.st)
<1> DEFINE t     == w.st.target
           old   == NeedRestart(w, t)
           sum   == MapThenSumSet(LAMBDA i : t[i], old)
           names == NextNames(t, sum)
           new   == Append(FilterOut(t, old), names)
           Done(u) == [u EXCEPT !.st.target = new]
           Made  == createWorkers(w, names, NoScaler)
<1>1. w \in Worlds /\ w.st \in JobStatus /\ t \in [Worker -> Nat]
  BY DEF Good, Worlds, JobStatus
<1>2. v \in Worlds BY ReplaceWorkersKeeps DEF SameStage, Good
<1>3. ReplaceWorkers(w) = IF old = {} THEN {w} ELSE {IF u.err = "none" THEN Done(u) ELSE u : u \in Made}
  BY DEF ReplaceWorkers
<1>4. sum = CountOf(t)[old]
  <2>1. old \in SUBSET Worker BY NeedRestartIs
  <2> HIDE DEF t, old
  <2>2. QED BY <1>1, <2>1, SumIsCount
<1> HIDE DEF sum
<1>5. names = NewNames(t, old) /\ new = Renewed(t, old) BY <1>4 DEF NewNames, Renewed
<1> HIDE DEF names, new
<1>6. \A u \in Made :
        /\ names \subseteq Worker
        /\ u \in Worlds /\ SameRest(u, w) /\ SameCluster(u, w)
        /\ \E ws \in SUBSET (names \ DOMAIN w.seen) :
             /\ u.pods = WithNew(w.pods, ws, NoScaler)
             /\ u.err = "none" => ws = names \ DOMAIN w.seen
        /\ "apiError" \notin Faults /\ w.seen = w.pods => u.err = w.err
  BY <1>1, createWorkersMakes
<1>7. \A u \in Worlds : /\ Done(u).pods = u.pods /\ Done(u).err = u.err /\ SameCluster(Done(u), u)
                        /\ Done(u).st = [u.st EXCEPT !.target = new]
  BY DEF Worlds, SameCluster
<1>8. CASE old = {} BY <1>2, <1>3, <1>8 DEF Replaced, SameCluster
<1>9. CASE old # {}
  <2> HIDE DEF Done, Made
  <2>1. PICK u \in Made : v = IF u.err = "none" THEN Done(u) ELSE u BY <1>3, <1>9
  <2>2. /\ names \subseteq Worker
        /\ u \in Worlds /\ SameRest(u, w) /\ SameCluster(u, w)
        /\ "apiError" \notin Faults /\ w.seen = w.pods => u.err = w.err
    BY <1>6
  <2>3. PICK ws \in SUBSET (names \ DOMAIN w.seen) :
          u.pods = WithNew(w.pods, ws, NoScaler) /\ (u.err = "none" => ws = names \ DOMAIN w.seen)
    BY <1>6
  <2>4. v.pods = u.pods /\ v.err = u.err /\ SameCluster(v, w)
    BY <1>7, <2>1, <2>2 DEF SameCluster
  <2>5. v.st = IF v.err = "none" THEN [w.st EXCEPT !.target = new] ELSE w.st
    BY <1>7, <2>1, <2>2, <2>4 DEF SameRest
  <2>6. QED BY <1>2, <1>5, <1>9, <2>2, <2>3, <2>4, <2>5 DEF Replaced
<1>10. QED BY <1>8, <1>9

\* The hostfile is to be rewritten.
Rewrites(w) == Running(w.seen) # w.st.current /\ "Running" \in w.st.conds

\* The two outcomes of handleWorkersFailed: the hostfile could not be written, or the
\* running workers are recorded and the others replaced.
Handled(v, w) ==
    \/ /\ Rewrites(w) /\ v.err # "none"
       /\ v.st = w.st /\ v.pods = w.pods /\ v.hostfile = w.hostfile
    \/ /\ Replaced(v, w, [w.st EXCEPT !.current = Running(w.seen)])
       /\ IF Rewrites(w) /\ w.seenLauncher # "None"
          THEN v.hostfile = Running(w.seen) /\ w.launcher = "Running"
          ELSE v.hostfile = w.hostfile

LEMMA handleWorkersFailedHandles ==
  ASSUME NEW w, Good(w), w.err = "none", Members(w.st.target) # {}, NEW v \in handleWorkersFailed(w)
  PROVE  v \in Worlds /\ v.launcher = w.launcher /\ Handled(v, w)
<1> DEFINE running   == Running(w.seen)
           hostfile0 == IF running # w.st.current /\ "Running" \in w.st.conds
                        THEN WriteHostfile(w, running) ELSE {w}
           st        == [w.st EXCEPT !.current = running]
           Record(u) == [u EXCEPT !.st.current = running,
                                  !.st.target = IF Members(@) = {} THEN BagOf(running) ELSE @]
<1>1. w \in Worlds /\ w.st \in JobStatus /\ running \in SUBSET Worker
  BY RunningTypes DEF Good, Worlds
<1>2. v \in Worlds BY handleWorkersFailedKeeps DEF SameStage, Good
<1>3. ASSUME NEW u \in hostfile0
      PROVE  /\ Good(u) /\ u.st = w.st /\ u.seen = w.seen /\ u.pods = w.pods
             /\ u.launcher = w.launcher
             /\ ~Rewrites(w) => u.err = "none"
             /\ IF u.err = "none" /\ Rewrites(w) /\ w.seenLauncher # "None"
                THEN u.hostfile = running /\ w.launcher = "Running"
                ELSE u.hostfile = w.hostfile
  <2>1. CASE Rewrites(w)
    <3>1. u \in WriteHostfile(w, running) BY <2>1 DEF Rewrites
    <3>2. /\ u \in Worlds /\ u.st = w.st /\ u.seen = w.seen /\ u.launcher = w.launcher
          /\ u.pods = w.pods
          /\ IF u.err = "none" /\ w.seenLauncher # "None"
             THEN u.hostfile = running /\ w.launcher = "Running" ELSE u.hostfile = w.hostfile
      BY <1>1, <3>1, WriteHostfileIs DEF SameRest, SameView
    <3>3. QED BY <2>1, <3>2 DEF Good
  <2>2. CASE ~Rewrites(w) BY <1>1, <2>2 DEF Rewrites
  <2>3. QED BY <2>1, <2>2
<1>4. ASSUME NEW u, Good(u), u.st = w.st
      PROVE  /\ Good(Record(u)) /\ Record(u).st = st
             /\ Record(u).seen = u.seen /\ Record(u).pods = u.pods /\ Record(u).err = u.err
             /\ SameCluster(Record(u), u)
  <2> DEFINE now == [u EXCEPT !.st.current = running]
  <2>1. u \in Worlds BY <1>4 DEF Good
  <2>2. Record(u) = now
    BY <1>1, <1>4, <2>1 DEF Worlds, JobStatus
  <2>3. SameStage({now}, u) BY <1>1, <1>4, CurrentKeeps
  <2>4. /\ now.st = st /\ now.seen = u.seen /\ now.pods = u.pods /\ now.err = u.err
        /\ SameCluster(now, u)
    BY <1>1, <1>4, <2>1 DEF Worlds, JobStatus, SameCluster
  <2> HIDE DEF Record, now
  <2>5. QED BY <2>2, <2>3, <2>4 DEF SameStage
<1>5. handleWorkersFailed(w) =
        UNION {IF u.err = "none" THEN ReplaceWorkers(Record(u)) ELSE {u} : u \in hostfile0}
  BY DEF handleWorkersFailed
<1> HIDE DEF Record, hostfile0
<1>6. PICK u \in hostfile0 : v \in IF u.err = "none" THEN ReplaceWorkers(Record(u)) ELSE {u}
  BY <1>5
<1>7. CASE u.err # "none"
  <2>1. v = u BY <1>6, <1>7
  <2>2. QED BY <1>2, <1>3, <1>7, <2>1 DEF Handled
<1>8. CASE u.err = "none"
  <2> DEFINE x == Record(u)
  <2>1. /\ Good(x) /\ x.st = st /\ x.seen = w.seen /\ x.pods = w.pods /\ x.err = w.err
        /\ SameCluster(x, u)
    BY <1>3, <1>4, <1>8
  <2>2. v \in ReplaceWorkers(x) BY <1>6, <1>8
  <2> HIDE DEF x
  <2>3. SameCluster(v, x) /\ Replaced(v, x, x.st) BY <2>1, <2>2, ReplaceWorkersReplaces
  <2>4. NeedRestart(x, st.target) = NeedRestart(w, st.target) BY <2>1 DEF NeedRestart
  <2>5. Replaced(v, w, st)
    <3> HIDE DEF st
    <3>1. QED BY <2>1, <2>3, <2>4 DEF Replaced
  <2>6. v.launcher = w.launcher /\ v.hostfile = u.hostfile BY <1>3, <2>1, <2>3 DEF SameCluster
  <2> HIDE DEF st
  <2>7. QED BY <1>2, <1>3, <1>8, <2>5, <2>6 DEF Handled, st
<1>9. QED BY <1>7, <1>8

\* A condition changes neither of the status's records of the workers.
SameWorkers(st, old) == st.target = old.target /\ st.current = old.current

LEMMA ConditionWorkers ==
  ASSUME NEW st \in JobStatus, NEW c
  PROVE  /\ SameWorkers(updateJobConditions(st, c), st) /\ SameWorkers(updateStatus(st, c), st)
         /\ updateStatus(st, c).phase = c
  BY DEF updateJobConditions, updateStatus, JobStatus, SameWorkers

LEMMA StatusIs ==
  ASSUME NEW w \in Worlds, NEW st
  PROVE  LET v == [w EXCEPT !.st = st]
         IN  /\ v.st = st /\ v.pods = w.pods /\ v.err = w.err /\ v.seen = w.seen
             /\ v.seenLauncher = w.seenLauncher /\ v.configMap = w.configMap /\ SameCluster(v, w)
  BY DEF Worlds, SameCluster

LEMMA FailedIs ==
  ASSUME NEW w \in Worlds
  PROVE  /\ Failed(w).st = updateStatus(w.st, "Failed") /\ Failed(w).err = "none"
         /\ Failed(w).pods = w.pods /\ Failed(w).configMap = w.configMap /\ SameCluster(Failed(w), w)
<1> DEFINE st == updateStatus(w.st, "Failed")
<1>1. LET v == [w EXCEPT !.st = st, !.err = "none"]
      IN  /\ v.st = st /\ v.err = "none" /\ v.pods = w.pods /\ v.configMap = w.configMap
          /\ SameCluster(v, w)
  <2> HIDE DEF st
  <2>1. QED BY DEF Worlds, SameCluster
<1>2. QED BY <1>1 DEF Failed

\* The first workers of a job: those its status records, or as many as it has replicas.
LEMMA createTrainingJobWorkersIs ==
  ASSUME NEW w, Good(w), NEW v \in createTrainingJobWorkers(w)
  PROVE  LET t == getJobReplicasWorkers(w.st.target)
         IN  /\ v.st.target = t /\ t \in [Worker -> Nat]
             /\ SameCluster(v, w)
             /\ \E new \in SUBSET (Members(t) \ DOMAIN w.seen) :
                  v.pods = WithNew(w.pods, new, NoScaler)
<1> DEFINE t == getJobReplicasWorkers(w.st.target)
           u == [w EXCEPT !.st.target = t]
           S == createWorkers(u, Members(t), NoScaler)
           Done(x) == IF x.err = "none" THEN [x EXCEPT !.st = updateJobConditions(x.st, "WorkersCreated")]
                      ELSE Failed(x)
<1>1. w \in Worlds /\ w.st \in JobStatus BY DEF Good, Worlds
<1>2. t \in [Worker -> Nat] BY <1>1 DEF getJobReplicasWorkers, BagOf, JobStatus
<1>3. createTrainingJobWorkers(w) = {Done(x) : x \in S} BY DEF createTrainingJobWorkers
<1> HIDE DEF t
<1>4. u \in Worlds BY <1>2, TargetKeeps DEF SameStage, Good
<1>5. u.st.target = t /\ u.seen = w.seen /\ u.pods = w.pods /\ SameCluster(u, w)
  BY <1>1 DEF Worlds, JobStatus, SameCluster
<1> HIDE DEF u
<1>6. \A x \in S :
        /\ x \in Worlds /\ x.st \in JobStatus /\ x.st.target = t /\ SameCluster(x, w)
        /\ \E new \in SUBSET (Members(t) \ DOMAIN w.seen) : x.pods = WithNew(w.pods, new, NoScaler)
  <2>1. ASSUME NEW x \in S
        PROVE  /\ x \in Worlds /\ SameRest(x, u) /\ SameCluster(x, u)
               /\ \E new \in SUBSET (Members(t) \ DOMAIN u.seen) :
                    x.pods = WithNew(u.pods, new, NoScaler)
    BY <1>4, createWorkersMakes
  <2>2. QED BY <1>5, <2>1 DEF SameRest, SameCluster, Worlds
<1> HIDE DEF S
<1>7. ASSUME NEW x \in S
      PROVE  Done(x).st.target = t /\ Done(x).pods = x.pods /\ SameCluster(Done(x), x)
  <2>1. x \in Worlds /\ x.st \in JobStatus /\ x.st.target = t BY <1>6
  <2>2. updateJobConditions(x.st, "WorkersCreated").target = t /\ updateStatus(x.st, "Failed").target = t
    BY <2>1, ConditionWorkers DEF SameWorkers
  <2>3. QED BY <2>1, <2>2, StatusIs, FailedIs
<1> HIDE DEF Done
<1>8. PICK x \in S : v = Done(x) BY <1>3
<1>9. QED BY <1>2, <1>6, <1>7, <1>8 DEF t, SameCluster

LEMMA CreateLauncherIs ==
  ASSUME NEW w \in Worlds, NEW v \in CreateLauncher(w)
  PROVE  /\ v \in Worlds /\ SameRest(v, w) /\ SameView(v, w) /\ v.pods = w.pods
         /\ v.hostfile = w.hostfile
         /\ \/ w.launcher = "None" /\ v.launcher = "Pending" /\ v.err = w.err
            \/ v.launcher = w.launcher /\ v.err = "error"
         /\ "apiError" \notin Faults /\ w.launcher = "None" => v.launcher = "Pending"
<1>1. v \in Worlds /\ SameRest(v, w) /\ SameView(v, w) BY CreateLauncherActs DEF Acts
<1>2. LET u == [w EXCEPT !.launcher = "Pending"]
      IN  u.pods = w.pods /\ u.hostfile = w.hostfile /\ u.launcher = "Pending" /\ u.err = w.err
  BY DEF Worlds
<1>3. \A u \in Fault(w, "apiError") :
        Error(u).pods = w.pods /\ SameCluster(Error(u), w) /\ Error(u).err = "error"
  BY FaultCluster, ErrorIs DEF SameCluster
<1>4. "apiError" \notin Faults => Fault(w, "apiError") = {} BY DEF Fault
<1>5. QED BY <1>1, <1>2, <1>3, <1>4, ErrorIs DEF CreateLauncher, SameCluster


\* A look at the launcher: it may be created again, and the status may change its
\* condition, but not its workers.
LEMMA syncLauncherStateIs ==
  ASSUME NEW w \in Worlds, w.err = "none", NEW v \in syncLauncherState(w)
  PROVE  /\ SameWorkers(v.st, w.st) /\ v.pods = w.pods /\ v.hostfile = w.hostfile /\ v.err = "none"
         /\ v.launcher = w.launcher \/ (w.seenLauncher = "None" /\ LauncherPolicy = "Always")
<1> DEFINE To(c) == [w EXCEPT !.st = updateStatus(w.st, c)]
           Looked(u) == /\ SameWorkers(u.st, w.st) /\ u.pods = w.pods /\ u.hostfile = w.hostfile
                        /\ u.err = "none"
<1>1. w.st \in JobStatus BY DEF Worlds
<1>2. ASSUME NEW c PROVE Looked(To(c)) /\ To(c).launcher = w.launcher
  <2> DEFINE st == updateStatus(w.st, c)
  <2>1. SameWorkers(st, w.st) BY <1>1, ConditionWorkers
  <2> HIDE DEF st
  <2>2. /\ [w EXCEPT !.st = st].st = st /\ [w EXCEPT !.st = st].pods = w.pods
        /\ [w EXCEPT !.st = st].err = w.err /\ SameCluster([w EXCEPT !.st = st], w)
    BY StatusIs
  <2>3. QED BY <2>1, <2>2 DEF st, SameCluster
<1>3. Looked(w) BY DEF SameWorkers
<1>4. ASSUME NEW u \in Worlds, u.st = w.st, u.pods = w.pods, u.hostfile = w.hostfile
      PROVE  Looked(Failed(u)) /\ Failed(u).launcher = u.launcher
  <2>1. SameWorkers(Failed(u).st, w.st) BY <1>1, <1>4, FailedIs, ConditionWorkers
  <2>2. QED BY <1>4, <2>1, FailedIs DEF SameCluster
<1>5. \A u \in CreateLauncher(w) :
        u \in Worlds /\ u.st = w.st /\ u.pods = w.pods /\ u.hostfile = w.hostfile
  BY CreateLauncherIs DEF SameRest
<1>6. ASSUME NEW u \in LauncherGone(w)
      PROVE  Looked(u) /\ (u.launcher = w.launcher \/ LauncherPolicy = "Always")
  <2>1. CASE LauncherPolicy = "Always"
    <3>1. PICK x \in CreateLauncher(w) : u = IF x.err = "none" THEN x ELSE Failed(x)
      BY <2>1 DEF LauncherGone
    <3>2. x \in Worlds /\ x.st = w.st /\ x.pods = w.pods /\ x.hostfile = w.hostfile BY <1>5
    <3>3. CASE x.err = "none"
      <4>1. SameWorkers(x.st, w.st) BY <3>2 DEF SameWorkers
      <4>2. QED BY <2>1, <3>1, <3>2, <3>3, <4>1
    <3>4. CASE x.err # "none" BY <1>4, <2>1, <3>1, <3>2, <3>4
    <3>5. QED BY <3>3, <3>4
  <2>2. CASE LauncherPolicy # "Always"
    <3>1. u = Failed(w) \/ u = w BY <2>2 DEF LauncherGone
    <3>2. QED BY <1>3, <1>4, <3>1
  <2>3. QED BY <2>1, <2>2
<1> HIDE DEF Looked
<1>7. \/ w.seenLauncher = "None" /\ v \in LauncherGone(w)
      \/ v = w \/ \E c : v = To(c)
  BY DEF syncLauncherState
<1> HIDE DEF To
<1>8. Looked(v) /\ (v.launcher = w.launcher \/ (w.seenLauncher = "None" /\ LauncherPolicy = "Always"))
  BY <1>2, <1>3, <1>6, <1>7
<1>9. QED BY <1>8 DEF Looked

\* The hosts of the ConfigMap, without an API error.
HostsFor(v, w) ==
    /\ v.configMap.made
    /\ v.configMap.hosts = IF w.configMap.made THEN w.configMap.hosts ELSE w.st.current

LEMMA createLauncherIs ==
  ASSUME NEW w, Good(w), w.err = "none", NEW v \in createLauncher(w)
  PROVE  /\ SameWorkers(v.st, w.st) /\ v.pods = w.pods /\ v.hostfile = w.hostfile
         /\ \/ v.launcher = w.launcher
            \/ w.launcher = "None" /\ w.seenLauncher = "None" /\ v.launcher = "Pending"
         /\ "apiError" \notin Faults => HostsFor(v, w)
         /\ v.st.phase # "Failed" /\ w.seenLauncher = "None" => w.launcher = "None" /\ v.launcher = "Pending"
<1> DEFINE GetOrCreate(x) == IF x.err = "none" /\ x.seenLauncher = "None"
                             THEN CreateLauncher(x) ELSE {x}
           Got == UNION {GetOrCreate(u) : u \in CreateHostConfigMap(w)}
           Done(x) == IF x.err = "none" THEN [x EXCEPT !.st = updateJobConditions(x.st, "LauncherCreated")]
                      ELSE Failed(x)
           Mapped(x) == /\ x \in Worlds /\ x.st = w.st /\ x.pods = w.pods /\ x.hostfile = w.hostfile
                        /\ x.seenLauncher = w.seenLauncher
                        /\ "apiError" \notin Faults => HostsFor(x, w)
<1>1. w \in Worlds /\ w.st \in JobStatus BY DEF Good, Worlds
<1>2. \A u \in CreateHostConfigMap(w) : Mapped(u) /\ u.launcher = w.launcher
  <2> DEFINE m == [made |-> TRUE, hosts |-> w.st.current]
             Made == [w EXCEPT !.configMap = m]
  <2>1. CreateHostConfigMap(w) = IF w.configMap.made THEN {w}
                                 ELSE {Made} \cup {Error(x) : x \in Fault(w, "apiError")}
    BY DEF CreateHostConfigMap
  <2>2. /\ Made.st = w.st /\ Made.pods = w.pods /\ Made.hostfile = w.hostfile
        /\ Made.seenLauncher = w.seenLauncher /\ Made.launcher = w.launcher /\ Made.configMap = m
    BY <1>1 DEF Worlds
  <2>3. m.made /\ m.hosts = w.st.current OBVIOUS
  <2>4. ASSUME NEW x \in Fault(w, "apiError")
        PROVE  /\ "apiError" \in Faults
               /\ Error(x).st = w.st /\ Error(x).pods = w.pods /\ SameCluster(Error(x), w)
               /\ Error(x).seenLauncher = w.seenLauncher
    <3>1. x \in Worlds /\ SameRest(x, w) /\ SameView(x, w) BY <1>1, FaultActs DEF Acts
    <3>2. SameRest(Error(x), x) /\ SameView(Error(x), x) BY <3>1, ErrorActs
    <3>3. SameCluster(Error(x), x) /\ Error(x).pods = x.pods BY <3>1, ErrorIs
    <3>4. SameCluster(x, w) /\ x.pods = w.pods BY <1>1, FaultCluster
    <3>5. QED BY <3>1, <3>2, <3>3, <3>4 DEF SameRest, SameView, SameCluster, Fault
  <2>5. \A u \in CreateHostConfigMap(w) : u \in Worlds
    BY <1>1, CreateHostConfigMapKeeps DEF Keeps
  <2> HIDE DEF m, Made
  <2>6. QED BY <1>1, <2>1, <2>2, <2>3, <2>4, <2>5 DEF HostsFor, SameCluster
<1>3. ASSUME NEW u, Mapped(u), u.launcher = w.launcher, NEW x \in GetOrCreate(u)
      PROVE  /\ Mapped(x)
             /\ \/ x.launcher = w.launcher
                \/ w.launcher = "None" /\ w.seenLauncher = "None" /\ x.launcher = "Pending"
             /\ x.err = "none" /\ w.seenLauncher = "None"
                => w.launcher = "None" /\ x.launcher = "Pending"
  <2>1. CASE u.err = "none" /\ u.seenLauncher = "None"
    <3>1. x \in CreateLauncher(u) BY <1>3, <2>1
    <3>2. /\ x \in Worlds /\ SameRest(x, u) /\ SameView(x, u) /\ x.pods = u.pods
          /\ x.hostfile = u.hostfile
          /\ \/ u.launcher = "None" /\ x.launcher = "Pending"
             \/ x.launcher = u.launcher /\ x.err = "error"
      BY <1>3, <3>1, CreateLauncherIs
    <3>3. Mapped(x) BY <1>3, <3>2 DEF SameRest, SameStore, SameView, HostsFor
    <3>4. QED BY <1>3, <2>1, <3>2, <3>3
  <2>2. CASE ~(u.err = "none" /\ u.seenLauncher = "None")
    <3>1. x = u BY <1>3, <2>2
    <3>2. QED BY <1>3, <2>2, <3>1
  <2>3. QED BY <2>1, <2>2
<1>4. createLauncher(w) = {Done(x) : x \in Got} BY DEF createLauncher
<1>5. PICK u \in CreateHostConfigMap(w) : \E x \in GetOrCreate(u) : v = Done(x)
  BY <1>4
<1>6. PICK x \in GetOrCreate(u) : v = Done(x) BY <1>5
<1>7. /\ Mapped(x)
      /\ \/ x.launcher = w.launcher
         \/ w.launcher = "None" /\ w.seenLauncher = "None" /\ x.launcher = "Pending"
      /\ x.err = "none" /\ w.seenLauncher = "None"
         => w.launcher = "None" /\ x.launcher = "Pending"
  <2> HIDE DEF Mapped, GetOrCreate
  <2>1. QED BY <1>2, <1>3
<1> HIDE DEF GetOrCreate, Got
<1>8. /\ SameWorkers(v.st, w.st) /\ v.pods = x.pods /\ v.configMap = x.configMap /\ SameCluster(v, x)
      /\ x.err # "none" => v.st.phase = "Failed"
  <2> DEFINE st == updateJobConditions(x.st, "LauncherCreated")
  <2>1. x \in Worlds /\ x.st \in JobStatus /\ x.st = w.st BY <1>1, <1>7
  <2>2. SameWorkers(st, x.st) /\ SameWorkers(updateStatus(x.st, "Failed"), x.st)
        /\ updateStatus(x.st, "Failed").phase = "Failed"
    BY <2>1, ConditionWorkers
  <2>3. v = IF x.err = "none" THEN [x EXCEPT !.st = st] ELSE Failed(x) BY <1>6
  <2> HIDE DEF st, Done
  <2>4. QED BY <2>1, <2>2, <2>3, StatusIs, FailedIs DEF SameWorkers
<1>9. QED BY <1>7, <1>8 DEF SameCluster, HostsFor

-----------------------------------------------------------------------------
(* What a reconcile does to the workers of a job without scalers: to the pods, *)
(* and to those the status records.                                            *)

Kept(v, w) == v.st.target = w.st.target /\ v.pods = w.pods

\* New workers were made for those that ended, and recorded in their place if all
\* were made.
Refilled(v, w) ==
    LET t   == w.st.target
        old == NeedRestart(w, t)
    IN  /\ NewNames(t, old) \subseteq Worker
        /\ v.st.target \in {t, Renewed(t, old)}
        /\ \E new \in SUBSET NewNames(t, old) : v.pods = WithNew(w.pods, new, NoScaler)

\* The first workers were made, all or some, and recorded.
Begun(v, w) ==
    /\ v.st.target = getJobReplicasWorkers(w.st.target)
    /\ \E new \in SUBSET Members(v.st.target) : v.pods = WithNew(w.pods, new, NoScaler)

Mans(v, w) ==
    IF "WorkersCreated" \in w.st.conds
    THEN "WorkersCreated" \in v.st.conds /\ (Kept(v, w) \/ Refilled(v, w))
    ELSE /\ "WorkersCreated" \in v.st.conds \/ v.st.phase = "Failed"
         /\ Begun(v, w)

\* A status that says that the workers were created records some.
Recorded(st) == "WorkersCreated" \in st.conds => Members(st.target) # {}

LEMMA HandledRefills ==
  ASSUME NEW w, NEW v, Handled(v, w) PROVE Kept(v, w) \/ Refilled(v, w)
<1> DEFINE st == [w.st EXCEPT !.current = Running(w.seen)]
<1>1. CASE v.st = w.st /\ v.pods = w.pods BY <1>1 DEF Kept
<1>2. CASE Replaced(v, w, st)
  <2> DEFINE t   == w.st.target
             old == NeedRestart(w, t)
  <2>1. st.target = t OBVIOUS
  <2>2. [st EXCEPT !.target = Renewed(t, old)].target \in {t, Renewed(t, old)} OBVIOUS
  <2> HIDE DEF st
  <2>3. CASE old = {} BY <1>2, <2>1, <2>3 DEF Replaced, Kept
  <2>4. CASE old # {} BY <1>2, <2>1, <2>2, <2>4 DEF Replaced, Refilled
  <2>5. QED BY <2>3, <2>4
<1>3. QED BY <1>1, <1>2 DEF Handled

LEMMA waitWorkersRunningIs ==
  ASSUME NEW w, Good(w), w.err = "none", Members(w.st.target) # {}, NEW v \in waitWorkersRunning(w)
  PROVE  \E u \in handleWorkersFailed(w) :
           /\ SameWorkers(v.st, u.st) /\ v.pods = u.pods /\ SameCluster(v, u) /\ v.err = u.err
<1>1. PICK u \in handleWorkersFailed(w) :
        v = IF u.err = "none" /\ Cardinality(u.st.current) >= Replicas
            THEN [u EXCEPT !.st = updateJobConditions(u.st, "WorkersReady")] ELSE u
  BY DEF waitWorkersRunning
<1>2. u \in Worlds /\ u.st \in JobStatus BY handleWorkersFailedHandles DEF Worlds
<1> DEFINE st == updateJobConditions(u.st, "WorkersReady")
<1>3. SameWorkers(st, u.st) BY <1>2, ConditionWorkers
<1>4. v = [u EXCEPT !.st = st] \/ v = u BY <1>1
<1> HIDE DEF st
<1>5. /\ [u EXCEPT !.st = st].st = st /\ [u EXCEPT !.st = st].pods = u.pods
      /\ [u EXCEPT !.st = st].err = u.err /\ SameCluster([u EXCEPT !.st = st], u)
  BY <1>2, StatusIs
<1>6. SameWorkers(v.st, u.st) /\ v.pods = u.pods /\ SameCluster(v, u) /\ v.err = u.err
  BY <1>3, <1>4, <1>5 DEF SameWorkers, SameCluster
<1>7. QED BY <1>6

LEMMA ConditionsGrow ==
  ASSUME NEW st \in JobStatus, NEW new, NEW c, NEW d \in st.conds, d # "Running",
         new.conds = setCondition(st.conds, c)
  PROVE  d \in new.conds
  BY DEF setCondition

LEMMA doStepsMans ==
  ASSUME NEW w, Good(w), Unfinished(w.st), Recorded(w.st),
         w.err = "none" \/ "WorkersCreated" \notin w.st.conds, NEW v \in doSteps(w)
  PROVE  Mans(v, w)
<1>1. w \in Worlds /\ w.st \in JobStatus BY DEF Good, Worlds
<1>2. CASE "WorkersCreated" \notin w.st.conds
  <2>1. v \in createTrainingJobWorkers(w) BY <1>2 DEF doSteps
  <2>2. Begun(v, w)
    <3>1. LET t == getJobReplicasWorkers(w.st.target)
          IN  v.st.target = t /\ \E new \in SUBSET (Members(t) \ DOMAIN w.seen) :
                                   v.pods = WithNew(w.pods, new, NoScaler)
      BY <2>1, createTrainingJobWorkersIs
    <3>2. QED BY <3>1 DEF Begun
  <2>3. Took(v.st, w.st, "WorkersCreated") BY <2>1, createTrainingJobWorkersDoes
  <2>4. "WorkersCreated" \in v.st.conds \/ v.st.phase = "Failed"
    BY <2>3 DEF Took, setCondition, Unfinished
  <2>5. QED BY <1>2, <2>2, <2>4 DEF Mans
<1>3. CASE "WorkersCreated" \in w.st.conds /\ "WorkersReady" \notin w.st.conds
  <2>1. v \in waitWorkersRunning(w) BY <1>3 DEF doSteps
  <2>2. "WorkersCreated" \in v.st.conds
    BY <1>1, <1>3, <2>1, waitWorkersRunningDoes, ConditionsGrow
  <2>3. Members(w.st.target) # {} BY <1>3 DEF Recorded
  <2>4. PICK u \in handleWorkersFailed(w) : SameWorkers(v.st, u.st) /\ v.pods = u.pods
    BY <1>3, <2>1, <2>3, waitWorkersRunningIs
  <2>5. Kept(u, w) \/ Refilled(u, w) BY <1>3, <2>3, handleWorkersFailedHandles, HandledRefills
  <2>6. Kept(v, w) \/ Refilled(v, w) BY <2>4, <2>5 DEF Kept, Refilled, SameWorkers
  <2>7. QED BY <1>3, <2>2, <2>6 DEF Mans
<1>4. CASE /\ {"WorkersCreated", "WorkersReady"} \subseteq w.st.conds
           /\ "LauncherCreated" \notin w.st.conds
  <2>1. v \in createLauncher(w) BY <1>4 DEF doSteps
  <2>2. Kept(v, w) BY <1>4, <2>1, createLauncherIs DEF Kept, SameWorkers
  <2>3. Took(v.st, w.st, "LauncherCreated") BY <2>1, createLauncherDoes
  <2>4. "WorkersCreated" \in v.st.conds BY <1>1, <1>4, <2>3, ConditionsGrow DEF Took
  <2>5. QED BY <1>4, <2>2, <2>4 DEF Mans
<1>5. CASE /\ {"WorkersCreated", "WorkersReady", "LauncherCreated"} \subseteq w.st.conds
           /\ "Running" \notin w.st.conds
  <2>1. v \in syncLauncherState(w) BY <1>5 DEF doSteps
  <2>2. Kept(v, w) BY <1>1, <1>5, <2>1, syncLauncherStateIs DEF Kept, SameWorkers
  <2>3. v.st = w.st \/ \E c : v.st.conds = setCondition(w.st.conds, c)
    BY <1>1, <2>1, syncLauncherStateDoes, SyncedDoes
  <2>4. "WorkersCreated" \in v.st.conds BY <1>1, <1>5, <2>3, ConditionsGrow
  <2>5. QED BY <1>5, <2>2, <2>4 DEF Mans
<1>6. CASE {"WorkersCreated", "WorkersReady", "LauncherCreated", "Running"} \subseteq w.st.conds
  <2>1. v = w BY <1>6 DEF doSteps
  <2>2. QED BY <1>6, <2>1 DEF Mans, Kept
<1>7. QED BY <1>2, <1>3, <1>4, <1>5, <1>6

LEMMA CreatedMans ==
  ASSUME NEW w, Good(w), w.err = "none", w.st.phase \in {"New", "Created"}, Recorded(w.st),
         NEW v \in doSteps(initializeJob(w))
  PROVE  Mans(v, w)
<1> DEFINE u == initializeJob(w)
<1>1. w \in Worlds /\ w.st \in JobStatus BY DEF Good, Worlds
<1>2. Good(u) /\ Unfinished(u.st) BY initializeJobGood
<1>3. IF w.st.conds = {} THEN u.st.conds = {"Created"} ELSE u = w BY <1>1, initializeJobDoes
<1>4. u.st.target = w.st.target /\ u.pods = w.pods /\ u.seen = w.seen /\ u.err = w.err
  <2> DEFINE st == updateStatus(w.st, "Created")
  <2>1. SameWorkers(st, w.st) BY <1>1, ConditionWorkers
  <2>2. u = w \/ u = [w EXCEPT !.st = st] BY DEF initializeJob
  <2> HIDE DEF st, u
  <2>3. /\ [w EXCEPT !.st = st].st = st /\ [w EXCEPT !.st = st].pods = w.pods
        /\ [w EXCEPT !.st = st].seen = w.seen /\ [w EXCEPT !.st = st].err = w.err
    BY <1>1, StatusIs
  <2>4. QED BY <2>1, <2>2, <2>3 DEF SameWorkers
<1> HIDE DEF u
<1>5. "WorkersCreated" \in u.st.conds <=> "WorkersCreated" \in w.st.conds BY <1>3
<1>6. Mans(v, u)
  <2>1. Recorded(u.st) BY <1>4, <1>5 DEF Recorded
  <2>2. QED BY <1>2, <1>4, <2>1, doStepsMans DEF u
<1>7. NeedRestart(u, w.st.target) = NeedRestart(w, w.st.target) BY <1>4 DEF NeedRestart
<1>8. QED BY <1>4, <1>5, <1>6, <1>7 DEF Mans, Kept, Refilled, Begun

LEMMA RunningMans ==
  ASSUME Scalers = {}, NEW w, Good(w), w.err = "none", w.st.phase = "Running", Recorded(w.st),
         NEW v \in reconcileJobRunning(w)
  PROVE  \E u \in syncLauncherState(w) :
           /\ Good(u) /\ u.err = "none" /\ Members(u.st.target) # {} /\ v \in handleWorkersFailed(u)
           /\ Mans(v, w)
<1>1. w \in Worlds /\ w.st \in JobStatus BY DEF Good, Worlds
<1>2. Unfinished(w.st) /\ {"Running", "LauncherCreated", "WorkersCreated"} \subseteq w.st.conds
  BY LivePhaseIsUnfinished DEF Good, Consistent, StepOrder
<1>3. PICK u \in syncLauncherState(w) : \E d \in handleWorkersFailed(u) :
        v \in IF d.err = "none" /\ d.st.phase = "Running" THEN setTrainingJobScaler(d) ELSE {d}
  BY DEF reconcileJobRunning
<1>4. PICK d \in handleWorkersFailed(u) :
        v \in IF d.err = "none" /\ d.st.phase = "Running" THEN setTrainingJobScaler(d) ELSE {d}
  BY <1>3
<1>5. Good(u) BY <1>2, syncLauncherStateGood
<1>6. /\ SameWorkers(u.st, w.st) /\ u.pods = w.pods /\ u.err = "none"
      /\ SameView(u, w)
      /\ u.st = w.st \/ \E c : u.st.conds = setCondition(w.st.conds, c)
  BY <1>1, syncLauncherStateIs, syncLauncherStateDoes, SyncedDoes
<1>7. Good(d) /\ SameProgress(d, u) BY <1>5, handleWorkersFailedDoes
<1>8. v = d
  <2>1. DOMAIN d.known = {} BY <1>7, ScalerMapIs DEF Good, Worlds, IsScalerMap
  <2>2. availableScalers(d) = {} BY <2>1 DEF availableScalers
  <2>3. QED BY <1>4, <2>2 DEF setTrainingJobScaler
<1>9. Members(u.st.target) # {} BY <1>2, <1>6 DEF Recorded, SameWorkers
<1>10. Kept(v, u) \/ Refilled(v, u)
  BY <1>4, <1>5, <1>6, <1>8, <1>9, handleWorkersFailedHandles, HandledRefills
<1>11. u.st.target = w.st.target /\ NeedRestart(u, w.st.target) = NeedRestart(w, w.st.target)
  BY <1>6 DEF SameWorkers, NeedRestart, SameView
<1>12. Kept(v, w) \/ Refilled(v, w) BY <1>6, <1>10, <1>11 DEF Kept, Refilled
<1>13. "WorkersCreated" \in u.st.conds BY <1>1, <1>2, <1>6, ConditionsGrow
<1>14. Mans(v, w) BY <1>2, <1>7, <1>8, <1>12, <1>13 DEF Mans, SameProgress
<1>15. QED BY <1>4, <1>5, <1>6, <1>8, <1>9, <1>14

\* All pods are deleted, unless the API server refuses a deletion or the cache does
\* not show a pod.
Cleared(v, w) == "apiError" \notin Faults /\ w.seen = w.pods => DOMAIN v.pods = {}

LEMMA DeletedIs ==
  ASSUME NEW w \in Worlds, NEW v \in DeleteAllWorkerPods(w)
  PROVE  v \in Worlds /\ SameRest(v, w) /\ SameView(v, w) /\ Cleared(v, w)
<1>1. v \in Worlds /\ SameRest(v, w) /\ SameView(v, w) BY DeleteAllWorkerPodsActs DEF Acts
<1>2. ASSUME "apiError" \notin Faults, w.seen = w.pods PROVE DOMAIN v.pods = {}
  <2>1. v.pods = Without(w.pods, Worker \cap DOMAIN w.seen)
    BY <1>2, DeletedAreGone DEF DeleteAllWorkerPods
  <2>2. DOMAIN v.pods = DOMAIN w.pods \ (Worker \cap DOMAIN w.seen) BY <2>1, WithoutDomain
  <2>3. DOMAIN w.pods \subseteq Worker BY PodMapIs DEF Worlds, IsPodMap
  <2>4. QED BY <1>2, <2>2, <2>3
<1>3. QED BY <1>1, <1>2 DEF Cleared

LEMMA restartJobMans ==
  ASSUME NEW w, Good(w), needRestartJob(w.st), NEW v \in restartJob(w)
  PROVE  \E d : d.st = resetJobStatus(w.st) /\ Cleared(d, w) /\ Mans(v, d)
<1> DEFINE st == resetJobStatus(w.st)
           u  == [w EXCEPT !.st = st]
<1>1. w \in Worlds /\ w.st \in JobStatus /\ Consistent(w.st) BY DEF Good, Worlds
<1>2. /\ st \in JobStatus /\ Consistent(st) /\ Unfinished(st)
      /\ st.conds = {"Created"}
  BY <1>1, resetJobStatusConsistent, resetJobStatusIs
<1>3. restartJob(w) = UNION {doSteps(y) :
         y \in UNION {CatchUp(x) : x \in UNION {DeleteLauncher(d) : d \in DeleteAllWorkerPods(u)}}}
  BY DEF restartJob
<1> HIDE DEF st
<1>4. u \in Worlds /\ u.st = st /\ u.pods = w.pods /\ u.seen = w.seen
  BY <1>1, <1>2, StatusKeeps, StatusIs
<1> HIDE DEF u
<1>5. PICK d \in DeleteAllWorkerPods(u) : \E x \in DeleteLauncher(d) : \E y \in CatchUp(x) : v \in doSteps(y)
  BY <1>3
<1>6. PICK x \in DeleteLauncher(d) : \E y \in CatchUp(x) : v \in doSteps(y) BY <1>5
<1>7. PICK y \in CatchUp(x) : v \in doSteps(y) BY <1>6
<1>8. d \in Worlds /\ d.st = st /\ Cleared(d, w) BY <1>4, DeletedIs DEF SameRest, Cleared
<1>9. x \in Worlds /\ x.st = st /\ x.pods = d.pods
  BY <1>8, DeleteLauncherActs, DeleteLauncherPods DEF Acts, SameRest, SamePods
<1>10. y \in Worlds /\ y.st = st /\ y.pods = d.pods
  BY <1>9, CatchUpRest, CatchUpPods DEF SameRest
<1>11. Good(y) /\ Recorded(y.st) BY <1>2, <1>10 DEF Good, Recorded
<1>12. Mans(v, y) BY <1>2, <1>7, <1>10, <1>11, doStepsMans
<1>13. Cleared(y, w) BY <1>8, <1>10 DEF Cleared
<1>14. QED BY <1>10, <1>12, <1>13 DEF st

\* What a handler may do to the workers: man the job, clear it, or restart it.
Manages(v, w) ==
    \/ w.st.phase \in {"New", "Created", "Running"} /\ Mans(v, w)
    \/ /\ w.st.phase \in {"Succeeded", "Failed", "Suspended"} /\ v.st = w.st
       /\ v.pods = w.pods \/ Cleared(v, w)
    \/ /\ w.st.phase = "Failed"
       /\ \E d : d.st = resetJobStatus(w.st) /\ Cleared(d, w) /\ Mans(v, d)

\* Without scalers no job scales.
LEMMA NothingScales == ASSUME Scalers = {}, NEW st \in JobStatus, Consistent(st) PROVE st.phase # "Scaling"
  BY DEF Consistent, ScalingHasScaler, JobStatus

LEMMA HandleManages ==
  ASSUME Scalers = {}, IInv, Handle, Recorded(mine)
  PROVE  \E w : Leave(w) /\ Manages(w, Observed)
<1> DEFINE o == Observed
<1>1. /\ Good(o) /\ o \in Worlds /\ o.st = mine /\ o.err = "none"
  BY ObservedGood DEF Observed, Good
<1>2. Recorded(o.st) BY <1>1
<1> HIDE DEF o
<1>3. ASSUME HandleCreated PROVE \A w \in doSteps(initializeJob(o)) : Manages(w, o)
  BY <1>1, <1>2, <1>3, CreatedMans DEF HandleCreated, AtHandler, Manages
<1>4. ASSUME HandleRunning PROVE \A w \in reconcileJobRunning(o) : Manages(w, o)
  BY <1>1, <1>2, <1>4, RunningMans DEF HandleRunning, AtHandler, Manages
<1>5. ~HandleScaling BY <1>1, NothingScales DEF HandleScaling, AtHandler, Good, Worlds
<1>6. \A w \in cleanup(o) : w.st = o.st /\ (w.pods = o.pods \/ Cleared(w, o))
  BY <1>1, DeletedIs DEF cleanup, SameRest
<1>7. \A w \in cleanupAll(o) : w.st = o.st /\ (w.pods = o.pods \/ Cleared(w, o))
  <2>1. ASSUME NEW w \in cleanupAll(o) PROVE w.st = o.st /\ Cleared(w, o)
    <3>1. PICK d \in DeleteAllWorkerPods(o) : w \in DeleteLauncher(d) BY DEF cleanupAll
    <3>2. d \in Worlds /\ d.st = o.st /\ Cleared(d, o) BY <1>1, DeletedIs DEF SameRest
    <3>3. w.st = d.st /\ w.pods = d.pods
      BY <3>1, <3>2, DeleteLauncherActs, DeleteLauncherPods DEF Acts, SameRest, SamePods
    <3>4. QED BY <3>2, <3>3 DEF Cleared
  <2>2. QED BY <2>1
<1>8. ASSUME HandleSucceeded PROVE \A w \in cleanup(o) : Manages(w, o)
  BY <1>1, <1>6, <1>8 DEF HandleSucceeded, AtHandler, Manages
<1>9. ASSUME HandleFailed PROVE \A w \in restartJob(o) : Manages(w, o)
  <2>1. o.st.phase = "Failed" BY <1>1, <1>9 DEF HandleFailed, AtHandler
  <2>2. CASE needRestartJob(o.st) BY <1>1, <2>1, <2>2, restartJobMans DEF Manages
  <2>3. CASE ~needRestartJob(o.st) BY <1>6, <2>1, <2>3 DEF Manages, restartJob
  <2>4. QED BY <2>2, <2>3
<1>10. ASSUME HandleSuspended PROVE \A w \in cleanupAll(o) : Manages(w, o)
  BY <1>1, <1>7, <1>10 DEF HandleSuspended, AtHandler, Manages
<1>11. \/ HandleCreated /\ \E w \in doSteps(initializeJob(o)) : Leave(w)
       \/ HandleRunning /\ \E w \in reconcileJobRunning(o) : Leave(w)
       \/ HandleSucceeded /\ \E w \in cleanup(o) : Leave(w)
       \/ HandleFailed /\ \E w \in restartJob(o) : Leave(w)
       \/ HandleSuspended /\ \E w \in cleanupAll(o) : Leave(w)
  BY <1>5 DEF Handle, HandleCreated, HandleRunning, HandleSucceeded, HandleFailed,
     HandleSuspended, o
<1>12. QED BY <1>3, <1>4, <1>8, <1>9, <1>10, <1>11 DEF o

-----------------------------------------------------------------------------
(* A job keeps its size: every copy of the status records as many workers as   *)
(* the job has replicas, once it records any.                                  *)

Full(t) == Cardinality(Members(t)) >= Replicas

Staffed(st) == Recorded(st) /\ (Members(st.target) # {} => Full(st.target))

LEMMA FirstWorkersAreFull ==
  Full(BagOf({i \in Worker : i < Replicas}))
    /\ Members(BagOf({i \in Worker : i < Replicas})) = {i \in Worker : i < Replicas}
<1> DEFINE first == {i \in Worker : i < Replicas}
<1>1. first = 0..(Replicas - 1) BY NumbersAssumption DEF Worker
<1>2. Cardinality(0..(Replicas - 1)) = Replicas
  <2>1. 0 \in Int /\ Replicas - 1 \in Int /\ Replicas \in Nat \ {0} BY NumbersAssumption
  <2>2. Cardinality(0..(Replicas - 1)) = IF 0 > Replicas - 1 THEN 0 ELSE (Replicas - 1) - 0 + 1
    BY <2>1, FS_Interval
  <2>3. QED BY <2>1, <2>2
<1>3. Members(BagOf(first)) = first BY DEF Members, BagOf
<1> HIDE DEF first
<1>4. Full(BagOf(first)) BY <1>1, <1>2, <1>3, NumbersAssumption DEF Full
<1>5. QED BY <1>3, <1>4 DEF first

LEMMA FullHasMembers == ASSUME NEW t, Full(t) PROVE Members(t) # {}
<1>1. SUFFICES ASSUME Members(t) = {} PROVE FALSE OBVIOUS
<1>2. QED BY <1>1, NumbersAssumption, FS_EmptySet DEF Full

LEMMA RenewedIsFull ==
  ASSUME NEW t \in [Worker -> Nat], NEW old \in SUBSET Members(t), NewNames(t, old) \subseteq Worker,
         Full(t)
  PROVE  Full(Renewed(t, old))
<1> DEFINE M == Members(t)
           R == Members(Renewed(t, old))
<1>1. M \in SUBSET Worker /\ R \in SUBSET Worker BY DEF Members
<1>2. Cardinality(R) >= Cardinality(M) BY RenewedSize
<1> HIDE DEF M, R
<1>3. Cardinality(M) \in Nat /\ Cardinality(R) \in Nat BY <1>1, WorkersAreFinite
<1>4. QED BY <1>2, <1>3, NumbersAssumption DEF Full, M, R

LEMMA MansStaffs ==
  ASSUME NEW w, NEW v, w.st.target \in [Worker -> Nat], Staffed(w.st), Mans(v, w) PROVE Staffed(v.st)
<1> DEFINE t == w.st.target
<1>1. CASE "WorkersCreated" \in w.st.conds
  <2>1. Full(t) /\ Members(t) # {} BY <1>1 DEF Staffed, Recorded
  <2>2. CASE Kept(v, w) BY <2>1, <2>2 DEF Kept, Staffed, Recorded
  <2>3. CASE Refilled(v, w)
    <3> DEFINE old == NeedRestart(w, t)
    <3>1. v.st.target \in {t, Renewed(t, old)} /\ NewNames(t, old) \subseteq Worker
      BY <2>3 DEF Refilled
    <3>2. old \in SUBSET Members(t) BY NeedRestartIs
    <3> HIDE DEF t, old
    <3>3. Full(Renewed(t, old)) BY <2>1, <3>1, <3>2, RenewedIsFull DEF t
    <3>4. QED BY <2>1, <3>1, <3>3, FullHasMembers DEF Staffed, Recorded
  <2>4. QED BY <1>1, <2>2, <2>3 DEF Mans
<1>2. CASE "WorkersCreated" \notin w.st.conds
  <2>1. v.st.target = getJobReplicasWorkers(t) BY <1>2 DEF Mans, Begun
  <2>2. Full(v.st.target) BY <2>1, FirstWorkersAreFull DEF getJobReplicasWorkers, Staffed
  <2>3. QED BY <2>2, FullHasMembers DEF Staffed, Recorded
<1>3. QED BY <1>1, <1>2

StaffInv == \A st \in Copies : Staffed(st)

LEMMA NewIsStaffed ==
  /\ Staffed(NewJob)
  /\ \A st \in JobStatus : Staffed(resetJobStatus(st)) /\ resetJobStatus(st).target = NewJob.target
<1> DEFINE none == [i \in Worker |-> 0]
<1>1. Members(none) = {} BY DEF Members
<1>2. \A st \in JobStatus : resetJobStatus(st).conds = {"Created"} BY resetJobStatusIs
<1>3. \A st \in JobStatus : resetJobStatus(st).target = none
  BY DEF resetJobStatus, updateStatus, updateJobConditions, NewJob, JobStatus
<1>4. NewJob.target = none /\ NewJob.conds = {} BY DEF NewJob
<1> HIDE DEF none
<1>5. QED BY <1>1, <1>2, <1>3, <1>4 DEF Staffed, Recorded

LEMMA SuspendedStaffed ==
  ASSUME NEW st \in JobStatus, Staffed(st) PROVE Staffed(updateStatus(st, "Suspended"))
<1>1. updateStatus(st, "Suspended").target = st.target BY ConditionWorkers DEF SameWorkers
<1>2. updateStatus(st, "Suspended").conds = setCondition(st.conds, "Suspended")
  BY DEF updateStatus, updateJobConditions, JobStatus
<1>3. "WorkersCreated" \in updateStatus(st, "Suspended").conds => "WorkersCreated" \in st.conds
  BY <1>2 DEF setCondition
<1>4. QED BY <1>1, <1>3 DEF Staffed, Recorded

LEMMA ManagesStaffs ==
  ASSUME NEW w \in Worlds, NEW v, Staffed(w.st), Manages(v, w) PROVE Staffed(v.st)
<1>1. w.st \in JobStatus /\ w.st.target \in [Worker -> Nat] BY DEF Worlds, JobStatus
<1>2. CASE Mans(v, w) BY <1>1, <1>2, MansStaffs
<1>3. CASE v.st = w.st BY <1>3
<1>4. CASE \E d : d.st = resetJobStatus(w.st) /\ Mans(v, d)
  <2>1. PICK d : d.st = resetJobStatus(w.st) /\ Mans(v, d) BY <1>4
  <2>2. Staffed(d.st) /\ d.st.target \in [Worker -> Nat]
    BY <1>1, <2>1, NewIsStaffed, NewJobConsistent DEF JobStatus
  <2>3. QED BY <2>1, <2>2, MansStaffs
<1>5. QED BY <1>2, <1>3, <1>4 DEF Manages

LEMMA StaffStep == ASSUME Scalers = {} PROVE IInv /\ StaffInv /\ [Next]_vars => StaffInv'
<1> SUFFICES ASSUME IInv, StaffInv, [Next]_vars PROVE StaffInv' OBVIOUS
<1>1. ASSUME ~Handling PROVE StaffInv'
  <2>1. Copies' \subseteq Copies \cup {NewJob} BY <1>1, OthersCopy
  <2>2. QED BY <2>1, NewIsStaffed DEF StaffInv
<1>2. ASSUME Start PROVE StaffInv'
  <2>1. /\ UNCHANGED <<job, jobCache>> /\ read' = jobCache.status
        /\ mine' \in {jobCache.status, updateStatus(jobCache.status, "Suspended")}
    BY <1>2 DEF Start, api, cache
  <2>2. jobCache.status \in JobStatus /\ jobCache.status \in Copies /\ job.status \in Copies
    BY DEF IInv, TypeOK, Job, Copies
  <2>3. Staffed(mine') BY <2>1, <2>2, SuspendedStaffed DEF StaffInv
  <2>4. QED BY <2>1, <2>2, <2>3 DEF StaffInv, Copies
<1>3. ASSUME Handle PROVE StaffInv'
  <2>1. Staffed(mine) /\ Observed.st = mine /\ Observed \in Worlds
    BY ObservedGood DEF StaffInv, Copies, Observed, Good
  <2>2. PICK w : Leave(w) /\ Manages(w, Observed) BY <1>3, <2>1, HandleManages DEF Staffed
  <2>3. Staffed(w.st) BY <2>1, <2>2, ManagesStaffs
  <2>4. UNCHANGED <<job, jobCache, read>> /\ mine' = w.st BY <2>2 DEF Leave
  <2>5. QED BY <2>3, <2>4 DEF StaffInv, Copies
<1>4. QED BY <1>1, <1>2, <1>3 DEF Handling

\* A job without scalers whose workers are always restarted has a living worker for
\* each of its replicas whenever the controller is at rest (worker.go:80-169):
\* however often workers end or are lost, also two at once or those that were
\* just made, whatever copies the reconciles read, through restarts of the job and
\* of the operator.
THEOREM JobsKeepTheirSize == ASSUME Reliable, Scalers = {} PROVE Spec => []FullStrength
<1>1. Init => StaffInv BY NewIsStaffed DEF Init, StaffInv, Copies
<1>2. IInv /\ StaffInv /\ [Next]_vars => StaffInv' BY StaffStep
<1>3. IInv /\ StaffInv /\ NoLostWakeup => FullStrength
  <2> SUFFICES ASSUME IInv, StaffInv, NoLostWakeup, Quiescent, job.status.phase = "Running",
                      jobRestartPolicy = "Always"
               PROVE  Cardinality(Alive(pods)) >= Replicas + Cardinality(Scaled("out")) - Cardinality(Scaled("in"))
    BY DEF FullStrength
  <2> DEFINE st == job.status
             M == Members(st.target)
             A == Alive(pods)
  <2>1. Staffed(st) /\ Consistent(st) BY DEF StaffInv, IInv, Copies
  <2>2. "WorkersCreated" \in st.conds BY <2>1 DEF Consistent, StepOrder
  <2>3. Cardinality(M) >= Replicas BY <2>1, <2>2 DEF Staffed, Recorded, Full
  <2>4. M \cap ToReplace = {} BY DEF NoLostWakeup, NothingToDo, RunsOn
  <2>5. ToReplace = Worker \ A BY DEF jobRestartPolicy, ToReplace
  <2>6. M \in SUBSET Worker /\ A \in SUBSET Worker BY DEF Members, Alive, IInv, TypeOK, IsPodMap
  <2> HIDE DEF st, M, A
  <2>7. M \subseteq A BY <2>4, <2>5, <2>6
  <2>8. IsFiniteSet(A) /\ Cardinality(A) \in Nat /\ Cardinality(M) \in Nat BY <2>6, WorkersAreFinite
  <2>9. Cardinality(M) <= Cardinality(A) BY <2>7, <2>8, FS_Subset
  <2>10. Scaled("out") = {} /\ Scaled("in") = {} BY DEF Scaled, IInv, TypeOK, IsScalerMap
  <2>11. Cardinality(Scaled("out")) = 0 /\ Cardinality(Scaled("in")) = 0 BY <2>10, FS_EmptySet
  <2>12. QED BY <2>3, <2>8, <2>9, <2>11, NumbersAssumption DEF A
<1>4. QED BY <1>1, <1>2, <1>3, Inductive, NoWakeupIsLost, PTL DEF Spec


-----------------------------------------------------------------------------
(* No worker is an orphan: every one that lives is recorded, or has a name the *)
(* status gives next. A reconcile that an end of the operator, or of a pod,    *)
(* cuts short between the creation of workers and the write of their names     *)
(* leaves the second kind, and the reconcile that finds them records them.     *)

First == {i \in Worker : i < Replicas}

\* The workers of the bag t that are to be replaced when the pods are ps.
Gone(ps, t) == NeedRestart([seen |-> ps], t)

\* The names of t and those the reconcile that sees the pods ps gives next.
Names(ps, t) == IF Members(t) = {} THEN First ELSE Members(t) \cup NewNames(t, Gone(ps, t))

Accounts(st, ps) ==
    st.phase \in {"New", "Created", "Running"} =>
        /\ Alive(ps) \subseteq Names(ps, st.target)
        /\ "WorkersCreated" \notin st.conds => Members(st.target) = {}

\* The pods ps became qs, and no worker came to life.
Aged(qs, ps) ==
    /\ Alive(qs) \subseteq Alive(ps)
    /\ \A t \in [Worker -> Nat] : Gone(ps, t) \subseteq Gone(qs, t)

LEMMA GoneIs ==
  ASSUME NEW ps, NEW t
  PROVE  Gone(ps, t) = {i \in Members(t) : IF i \in DOMAIN ps
                                           THEN podNeedRestart(jobRestartPolicy, ps[i])
                                           ELSE jobRestartPolicy = "Always"}
  BY DEF Gone, NeedRestart

LEMMA HighestIsInt == ASSUME NEW t \in [Worker -> Nat] PROVE getWorkerPodsMaxIndex(t) \in Int
<1>1. \A i \in Members(t) : getWorkerPodsMaxIndex(t) \in Members(t) BY HighestMember
<1>2. Members(t) = {} => getWorkerPodsMaxIndex(t) = -1 BY DEF getWorkerPodsMaxIndex
<1>3. Members(t) \subseteq Int BY NumbersAssumption DEF Members, Worker
<1>4. QED BY <1>1, <1>2, <1>3

\* The more workers are to be replaced, the more names are given.
LEMMA NamesGrow ==
  ASSUME NEW t \in [Worker -> Nat], NEW ps, NEW qs, Gone(ps, t) \subseteq Gone(qs, t)
  PROVE  Names(ps, t) \subseteq Names(qs, t)
<1> DEFINE m == getWorkerPodsMaxIndex(t)
           a == CountOf(t)[Gone(ps, t)]
           b == CountOf(t)[Gone(qs, t)]
<1>1. Gone(qs, t) \in SUBSET Worker /\ Gone(ps, t) \in SUBSET Worker BY GoneIs DEF Members
<1>2. CountOf(t) \in [SUBSET Worker -> Nat] BY CountOfIs
<1>3. a \in Nat /\ b \in Nat /\ a <= b BY <1>1, <1>2, CountGrows
<1>4. m \in Int BY HighestIsInt
<1>5. NewNames(t, Gone(ps, t)) = (m + 1)..(m + a) /\ NewNames(t, Gone(qs, t)) = (m + 1)..(m + b)
  BY DEF NewNames, NextNames
<1> HIDE DEF m, a, b
<1>6. (m + 1)..(m + a) \subseteq (m + 1)..(m + b) BY <1>3, <1>4
<1>7. QED BY <1>5, <1>6 DEF Names

LEMMA AgedAccounts ==
  ASSUME NEW st \in JobStatus, NEW ps, NEW qs, Aged(qs, ps), Accounts(st, ps)
  PROVE  Accounts(st, qs)
<1>1. st.target \in [Worker -> Nat] BY DEF JobStatus
<1>2. Names(ps, st.target) \subseteq Names(qs, st.target) BY <1>1, NamesGrow DEF Aged
<1>3. QED BY <1>2 DEF Accounts, Aged

LEMMA NoneAlive == ASSUME NEW ps, NEW st, DOMAIN ps = {},
                          "WorkersCreated" \notin st.conds => Members(st.target) = {}
                   PROVE  Accounts(st, ps)
  BY DEF Accounts, Alive

LEMMA NewAlive ==
  ASSUME NEW ps, NEW new, NEW s PROVE Alive(WithNew(ps, new, s)) \subseteq Alive(ps) \cup new
  BY DEF Alive, WithNew

\* New workers are not those that are to be replaced.
LEMMA NewAreNotGone ==
  ASSUME NEW t, NEW ps, NEW new, NEW s, new \cap Members(t) = {}
  PROVE  Gone(WithNew(ps, new, s), t) = Gone(ps, t)
<1> DEFINE qs == WithNew(ps, new, s)
<1>1. DOMAIN qs = DOMAIN ps \cup new /\ \A i \in DOMAIN ps : qs[i] = ps[i] BY DEF WithNew
<1> HIDE DEF qs
<1>2. QED BY <1>1, GoneIs DEF qs

LEMMA GoneAreNotAlive ==
  ASSUME NEW ps, NEW t PROVE Gone(ps, t) \cap Alive(ps) = {}
<1>1. SUFFICES ASSUME NEW i \in DOMAIN ps, ps[i].phase \in {"Pending", "Running"}
               PROVE  ~podNeedRestart(jobRestartPolicy, ps[i])
  BY GoneIs DEF Alive
<1>2. QED BY <1>1 DEF podNeedRestart


LEMMA BegunAccounts ==
  ASSUME NEW w, NEW v, Members(w.st.target) = {}, Alive(w.pods) \subseteq First, Begun(v, w)
  PROVE  /\ Alive(v.pods) \subseteq First
         /\ "WorkersCreated" \in v.st.conds \/ v.st.phase = "Failed" => Accounts(v.st, v.pods)
<1>1. v.st.target = BagOf(First) BY DEF Begun, getJobReplicasWorkers, First
<1>2. Members(v.st.target) = First BY <1>1, FirstWorkersAreFull DEF First
<1>3. PICK new \in SUBSET First : v.pods = WithNew(w.pods, new, NoScaler) BY <1>2 DEF Begun
<1>4. Alive(v.pods) \subseteq First BY <1>3, NewAlive
<1>5. First \subseteq Names(v.pods, v.st.target) BY <1>2 DEF Names
<1>6. QED BY <1>4, <1>5 DEF Accounts

LEMMA RefilledAccounts ==
  ASSUME NEW w, NEW v, w.st.target \in [Worker -> Nat], w.seen = w.pods,
         Members(w.st.target) # {}, Alive(w.pods) \subseteq Names(w.pods, w.st.target), Refilled(v, w)
  PROVE  /\ Alive(v.pods) \subseteq Names(v.pods, v.st.target)
         /\ Alive(v.pods) \subseteq Names(v.pods, w.st.target)
<1> DEFINE t   == w.st.target
           old == NeedRestart(w, t)
           N   == NewNames(t, old)
<1>1. old = Gone(w.pods, t) BY DEF Gone, NeedRestart
<1>2. old \in SUBSET Members(t) BY NeedRestartIs
<1>3. /\ N \subseteq Worker /\ v.st.target \in {t, Renewed(t, old)}
      /\ \E new \in SUBSET N : v.pods = WithNew(w.pods, new, NoScaler)
  BY DEF Refilled
<1>4. PICK new \in SUBSET N : v.pods = WithNew(w.pods, new, NoScaler) BY <1>3
<1>5. new \cap Members(t) = {} BY NamesAreNew DEF NewNames
<1>6. Gone(v.pods, t) = old BY <1>1, <1>4, <1>5, NewAreNotGone
<1>7. Alive(v.pods) \subseteq Alive(w.pods) \cup new BY <1>4, NewAlive
<1>8. Alive(v.pods) \subseteq Members(t) \cup N BY <1>1, <1>4, <1>7 DEF Names
<1>9. Names(v.pods, t) = Members(t) \cup N BY <1>6 DEF Names
<1>10. CASE v.st.target = t BY <1>8, <1>9, <1>10
<1>11. CASE v.st.target = Renewed(t, old)
  <2> HIDE DEF old
  <2>1. Members(Renewed(t, old)) = (Members(t) \ old) \cup N BY <1>2, <1>3, RenewedMembers
  <2>2. old \cap Alive(v.pods) = {} BY <1>6, GoneAreNotAlive
  <2>3. Alive(v.pods) \subseteq Members(v.st.target) BY <1>8, <1>11, <2>1, <2>2
  <2>4. Alive(v.pods) \subseteq Names(v.pods, v.st.target) BY <2>3 DEF Names
  <2>5. QED BY <1>8, <1>9, <2>4
<1>12. QED BY <1>3, <1>10, <1>11

LEMMA MansAccounts ==
  ASSUME NEW w, NEW v, w.st.target \in [Worker -> Nat], w.seen = w.pods, Recorded(w.st),
         w.st.phase \in {"New", "Created", "Running"}, Accounts(w.st, w.pods), Mans(v, w)
  PROVE  Accounts(v.st, v.pods) /\ Accounts(w.st, v.pods)
<1> DEFINE t == w.st.target
<1>1. Alive(w.pods) \subseteq Names(w.pods, t) /\ ("WorkersCreated" \notin w.st.conds => Members(t) = {})
  BY DEF Accounts
<1>2. CASE "WorkersCreated" \in w.st.conds
  <2>1. Members(t) # {} /\ "WorkersCreated" \in v.st.conds BY <1>2 DEF Recorded, Mans
  <2>2. CASE Kept(v, w) BY <1>1, <1>2, <2>1, <2>2 DEF Kept, Accounts
  <2>3. CASE Refilled(v, w) BY <1>1, <1>2, <2>1, <2>3, RefilledAccounts DEF Accounts
  <2>4. QED BY <1>2, <2>2, <2>3 DEF Mans
<1>3. CASE "WorkersCreated" \notin w.st.conds
  <2>1. Members(t) = {} /\ Begun(v, w) /\ ("WorkersCreated" \in v.st.conds \/ v.st.phase = "Failed")
    BY <1>1, <1>3 DEF Mans
  <2>2. Alive(w.pods) \subseteq First BY <1>1, <2>1 DEF Names
  <2>3. Alive(v.pods) \subseteq First /\ Accounts(v.st, v.pods) BY <2>1, <2>2, BegunAccounts
  <2>4. Accounts(w.st, v.pods) BY <2>1, <2>3 DEF Accounts, Names
  <2>5. QED BY <2>3, <2>4
<1>4. QED BY <1>2, <1>3

\* A failed worker has an exit code of those its program may give.
Coded(ps) == \A i \in DOMAIN ps : ps[i].phase = "Failed" => ps[i].exit \in ExitCodes

LEMMA NewAreCoded == ASSUME NEW ps, NEW new, NEW s, Coded(ps) PROVE Coded(WithNew(ps, new, s))
  BY DEF Coded, WithNew

LEMMA MansCodes == ASSUME NEW w, NEW v, Coded(w.pods), Mans(v, w) PROVE Coded(v.pods)
<1>1. v.pods = w.pods \/ \E new : v.pods = WithNew(w.pods, new, NoScaler)
  BY DEF Mans, Kept, Refilled, Begun
<1>2. QED BY <1>1, NewAreCoded

\* What a handler does to the workers, and to the statuses st that was read and
\* w.st, which is st or asks for the job to be torn down.
LEMMA ManagesAccounts ==
  ASSUME "apiError" \notin Faults, NEW w \in Worlds, NEW v, w.seen = w.pods, Recorded(w.st),
         NEW st, w.st = st \/ w.st.phase = "Suspended", Accounts(st, w.pods), Coded(w.pods), Manages(v, w)
  PROVE  Accounts(st, v.pods) /\ Accounts(v.st, v.pods) /\ Coded(v.pods)
<1>1. w.st.target \in [Worker -> Nat] /\ w.st \in JobStatus BY DEF Worlds, JobStatus
<1>2. \A u, x : Cleared(u, x) /\ x.seen = x.pods => DOMAIN u.pods = {} BY DEF Cleared
<1>3. \A u : DOMAIN u.pods = {} => Alive(u.pods) = {} /\ Coded(u.pods) BY DEF Alive, Coded
<1>4. \A u : DOMAIN u.pods = {} => Accounts(st, u.pods) BY <1>3 DEF Accounts
<1>5. CASE w.st.phase \in {"New", "Created", "Running"} /\ Mans(v, w)
  BY <1>1, <1>5, MansAccounts, MansCodes
<1>6. CASE /\ w.st.phase \in {"Succeeded", "Failed", "Suspended"} /\ v.st = w.st
           /\ v.pods = w.pods \/ Cleared(v, w)
  <2>1. Accounts(v.st, v.pods) BY <1>6 DEF Accounts
  <2>2. QED BY <1>2, <1>3, <1>4, <1>6, <2>1
<1>7. CASE /\ w.st.phase = "Failed"
           /\ \E d : d.st = resetJobStatus(w.st) /\ Cleared(d, w) /\ Mans(v, d)
  <2>1. PICK d : d.st = resetJobStatus(w.st) /\ Cleared(d, w) /\ Mans(v, d) BY <1>7
  <2>2. DOMAIN d.pods = {} BY <1>2, <2>1
  <2>3. d.st.conds = {"Created"} BY <1>1, <2>1, resetJobStatusIs
  <2>4. Members(d.st.target) = {}
    <3>1. d.st.target = NewJob.target BY <1>1, <2>1, NewIsStaffed
    <3>2. QED BY <3>1 DEF Members, NewJob
  <2>5. Begun(v, d) /\ ("WorkersCreated" \in v.st.conds \/ v.st.phase = "Failed")
    BY <2>1, <2>3 DEF Mans
  <2>6. Accounts(v.st, v.pods) BY <1>3, <2>2, <2>4, <2>5, BegunAccounts
  <2>7. Coded(v.pods) BY <1>3, <2>1, <2>2, MansCodes
  <2>8. Accounts(st, v.pods) BY <1>7 DEF Accounts
  <2>9. QED BY <2>6, <2>7, <2>8
<1>8. QED BY <1>5, <1>6, <1>7 DEF Manages


\* The operator sees the job and its pods as they are, and the restart policy has a
\* worker that disappears replaced like one that ends, or none.
Tracked ==
    /\ Lagging = {} /\ "apiError" \notin Faults
    /\ WorkerPolicy \in {"Always", "Never", "Unset"} \/ "workerLost" \notin Faults

LEMMA SameIsAged == ASSUME NEW ps PROVE Aged(ps, ps)
  BY DEF Aged

LEMMA WorkerRunsAges ==
  ASSUME IInv, Coded(pods), NEW i \in Worker, WorkerRuns(i) PROVE Aged(pods', pods) /\ Coded(pods')
<1>1. IsPodMap(pods) BY DEF IInv, TypeOK
<1>2. /\ i \in DOMAIN pods /\ pods[i].phase = "Pending"
      /\ pods' = [pods EXCEPT ![i].phase = "Running"]
  BY DEF WorkerRuns, ChangePods
<1>3. \A j \in DOMAIN pods : pods[j] \in Pod BY <1>1 DEF IsPodMap
<1>4. /\ DOMAIN pods' = DOMAIN pods /\ pods'[i].phase = "Running"
      /\ \A j \in DOMAIN pods : j # i => pods'[j] = pods[j]
  BY <1>2, <1>3 DEF Pod
<1>5. Alive(pods') \subseteq Alive(pods) BY <1>2, <1>4 DEF Alive
<1>6. ~podNeedRestart(jobRestartPolicy, pods[i]) BY <1>2 DEF podNeedRestart
<1>7. \A t : Gone(pods, t) \subseteq Gone(pods', t) BY <1>4, <1>6, GoneIs
<1>8. QED BY <1>4, <1>5, <1>7 DEF Aged, Coded

LEMMA WorkerEndsAges ==
  ASSUME IInv, Coded(pods), NEW i \in Worker, WorkerEnds(i) PROVE Aged(pods', pods) /\ Coded(pods')
<1>1. IsPodMap(pods) BY DEF IInv, TypeOK
<1>2. PICK fate \in WorkerFates, code \in ExitCodes :
        /\ i \in DOMAIN pods /\ pods[i].phase \in {"Pending", "Running"}
        /\ pods' = [pods EXCEPT ![i].phase = fate, ![i].exit = IF fate = "Failed" THEN code ELSE 0]
  BY DEF WorkerEnds, ChangePods
<1>3. \A j \in DOMAIN pods : pods[j] \in Pod BY <1>1 DEF IsPodMap
<1>4. /\ DOMAIN pods' = DOMAIN pods
      /\ pods'[i].phase = fate /\ pods'[i].exit = IF fate = "Failed" THEN code ELSE 0
      /\ \A j \in DOMAIN pods : j # i => pods'[j] = pods[j]
  BY <1>2, <1>3 DEF Pod
<1>5. Alive(pods') \subseteq Alive(pods) BY <1>2, <1>4 DEF Alive
<1>6. ~podNeedRestart(jobRestartPolicy, pods[i]) BY <1>2 DEF podNeedRestart
<1>7. \A t : Gone(pods, t) \subseteq Gone(pods', t) BY <1>4, <1>6, GoneIs
<1>8. QED BY <1>4, <1>5, <1>7 DEF Aged, Coded

LEMMA WorkerLostAges ==
  ASSUME Tracked, Coded(pods), NEW i \in Worker, WorkerLost(i)
  PROVE  Aged(pods', pods) /\ Coded(pods')
<1>1. pods' = Without(pods, {i}) /\ "workerLost" \in Faults
  BY DEF WorkerLost, ChangePods, MayFail
<1>2. DOMAIN pods' = DOMAIN pods \ {i} /\ \A j \in DOMAIN pods' : pods'[j] = pods[j]
  BY <1>1 DEF Without, Restrict
<1>3. Alive(pods') \subseteq Alive(pods) /\ Coded(pods') BY <1>2 DEF Alive, Coded
<1>4. CASE jobRestartPolicy = "Always"
  <2>1. \A t : Gone(pods, t) \subseteq Gone(pods', t) BY <1>2, <1>4, GoneIs
  <2>2. QED BY <1>3, <2>1 DEF Aged
<1>5. CASE jobRestartPolicy = "Never"
  <2>1. \A t : Gone(pods, t) = {} BY <1>5, GoneIs DEF podNeedRestart
  <2>2. QED BY <1>3, <2>1 DEF Aged
<1>6. QED BY <1>1, <1>4, <1>5 DEF Tracked, jobRestartPolicy

LEMMA OthersAge ==
  ASSUME Tracked, IInv, Coded(pods), Sync \/ Environment \/ UNCHANGED vars
  PROVE  Aged(pods', pods) /\ Coded(pods')
<1>1. \/ pods' = pods
      \/ \E i \in Worker : WorkerRuns(i) \/ WorkerEnds(i) \/ WorkerLost(i)
  BY DEF Sync, SyncJob, SyncPods, SyncScaler, Environment, LauncherRuns, LauncherEnds,
     LauncherLost, SubmitScaler, DeleteScaler, Suspend, OtherEvent, ChangeLauncher, vars, api
<1>2. CASE pods' = pods BY <1>2, SameIsAged
<1>3. CASE \E i \in Worker : WorkerRuns(i) \/ WorkerEnds(i) \/ WorkerLost(i)
  BY <1>3, WorkerRunsAges, WorkerEndsAges, WorkerLostAges
<1>4. QED BY <1>1, <1>2, <1>3

OrphanInv ==
    /\ Accounts(job.status, pods) /\ Coded(pods)
    /\ pc \in {"writeScaler", "writeJob"} => Accounts(mine, pods)

LEMMA OrphanInit == Init => OrphanInv
<1> SUFFICES ASSUME Init PROVE OrphanInv OBVIOUS
<1>1. /\ job.status = NewJob /\ pods = EmptyMap /\ pc = "idle" BY DEF Init
<1>2. DOMAIN pods = {} BY <1>1 DEF EmptyMap
<1>3. Members(NewJob.target) = {} BY DEF Members, NewJob
<1>4. QED BY <1>1, <1>2, <1>3, NoneAlive DEF OrphanInv, Coded

LEMMA OrphanHandle ==
  ASSUME Scalers = {}, Tracked, IInv, CachesAgree, LifeInv, StaffInv, OrphanInv, Handle
  PROVE  OrphanInv'
<1> DEFINE o == Observed
<1>1. TypeOK BY DEF IInv
<1>2. lag = {} BY <1>1 DEF TypeOK, Tracked
<1>3. /\ o \in Worlds /\ o.st = mine /\ o.pods = pods /\ o.seen = o.pods
  BY <1>2, ObservedGood DEF Observed, Good, CachesAgree
<1>4. Recorded(mine) BY DEF StaffInv, Copies, Staffed
<1>5. pc = "handle"
  BY DEF Handle, HandleCreated, HandleRunning, HandleScaling, HandleSucceeded, HandleFailed,
     HandleSuspended, AtHandler
<1>6. mine = job.status \/ mine.phase = "Suspended"
  BY <1>1, <1>5 DEF LifeInv, updateStatus, updateJobConditions, TypeOK, JobStatus
<1>7. PICK w : Leave(w) /\ Manages(w, o) BY <1>4, HandleManages
<1> HIDE DEF o
<1>8. Accounts(job.status, w.pods) /\ Accounts(w.st, w.pods) /\ Coded(w.pods)
  BY <1>3, <1>4, <1>6, <1>7, ManagesAccounts DEF OrphanInv, Tracked
<1>9. job' = job /\ mine' = w.st /\ pods' = w.pods BY <1>7 DEF Leave
<1>10. QED BY <1>8, <1>9 DEF OrphanInv

LEMMA OrphanStep ==
  ASSUME Scalers = {}, Tracked
  PROVE  IInv /\ CachesAgree /\ LifeInv /\ StaffInv /\ OrphanInv /\ [Next]_vars => OrphanInv'
<1> SUFFICES ASSUME IInv, CachesAgree, LifeInv, StaffInv, OrphanInv, [Next]_vars PROVE OrphanInv'
  OBVIOUS
<1>1. job \in Job /\ job.status \in JobStatus /\ mine \in JobStatus BY DEF IInv, TypeOK, Job
<1>2. ASSUME Sync \/ Environment \/ UNCHANGED vars PROVE OrphanInv'
  <2>1. Aged(pods', pods) /\ Coded(pods') BY <1>2, OthersAge DEF OrphanInv
  <2>2. pc' = pc /\ mine' = mine /\ job'.status = job.status BY <1>2, OthersLive
  <2>3. QED BY <1>1, <2>1, <2>2, AgedAccounts DEF OrphanInv
<1>3. ASSUME Start PROVE OrphanInv'
  <2>1. pc' = "handle" /\ job' = job /\ pods' = pods BY <1>3 DEF Start, api
  <2>2. QED BY <2>1 DEF OrphanInv
<1>4. ASSUME WriteScaler PROVE OrphanInv'
  <2>1. pc = "writeScaler" /\ UNCHANGED <<job, pods, mine>> BY <1>4 DEF WriteScaler
  <2>2. QED BY <2>1 DEF OrphanInv
<1>5. ASSUME WriteJob PROVE OrphanInv'
  <2>1. pc = "writeJob" /\ pc' = "idle" /\ pods' = pods BY <1>5 DEF WriteJob, EndReconcile
  <2>2. job' = job \/ job' = [job EXCEPT !.status = mine] BY <1>5 DEF WriteJob
  <2>3. job'.status = job.status \/ job'.status = mine BY <1>1, <2>2 DEF Job
  <2>4. QED BY <2>1, <2>3 DEF OrphanInv
<1>6. ASSUME Crash PROVE OrphanInv'
  <2>1. pc' = "idle" /\ job' = job /\ pods' = pods BY <1>6 DEF Crash, api
  <2>2. QED BY <2>1 DEF OrphanInv
<1>7. QED BY <1>2, <1>3, <1>4, <1>5, <1>6, OrphanHandle DEF Next, Reconcile

\* At rest none of the recorded workers is to be replaced, so no further names are
\* given and every living worker is recorded.
LEMMA AtRestNoneGone ==
  ASSUME IInv, OrphanInv, NoLostWakeup, Quiescent, job.status.phase = "Running"
  PROVE  Gone(pods, job.status.target) = {}
<1> DEFINE t == job.status.target
<1>1. Members(t) \cap ToReplace = {} BY DEF NoLostWakeup, NothingToDo, RunsOn
<1>2. SUFFICES ASSUME NEW i \in Gone(pods, t) PROVE i \in ToReplace BY <1>1, GoneIs
<1> HIDE DEF t
<1>3. i \in Worker /\ IF i \in DOMAIN pods THEN podNeedRestart(jobRestartPolicy, pods[i])
                      ELSE jobRestartPolicy = "Always"
  BY <1>2, GoneIs DEF Members
<1>4. CASE jobRestartPolicy = "Always"
  <2>1. WorkerPolicy = "Always" BY <1>4 DEF jobRestartPolicy
  <2>2. i \notin Alive(pods) BY <1>2, GoneAreNotAlive
  <2>3. QED BY <1>3, <2>1, <2>2 DEF ToReplace
<1>5. CASE jobRestartPolicy # "Always"
  <2>1. i \in DOMAIN pods /\ podNeedRestart(jobRestartPolicy, pods[i]) BY <1>3, <1>5
  <2>2. jobRestartPolicy \in {"OnFailure", "ExitCode"} BY <1>5, <2>1 DEF podNeedRestart
  <2>3. WorkerPolicy = jobRestartPolicy BY <2>2 DEF jobRestartPolicy
  <2>4. pods[i].phase = "Failed" /\ pods[i].exit \in ExitCodes
    BY <1>5, <2>1, <2>2 DEF podNeedRestart, OrphanInv, Coded
  <2>5. CASE WorkerPolicy = "OnFailure" BY <2>1, <2>4, <2>5 DEF ToReplace, FailedWith
  <2>6. CASE WorkerPolicy = "ExitCode"
    <3>1. pods[i].exit \in 129..254
      BY <2>1, <2>3, <2>4, <2>6, ClusterAssumption DEF podNeedRestart
    <3>2. QED BY <2>1, <2>4, <2>6, <3>1 DEF ToReplace, FailedWith
  <2>7. QED BY <2>2, <2>3, <2>5, <2>6
<1>6. QED BY <1>4, <1>5

\* Every worker that lives is recorded, whenever the controller of a job without
\* scalers is at rest (worker.go:80-169): also after an end of the operator, or of a
\* worker, between the creation of new workers and the write of their names. So
\* no worker is forgotten, and no name is given to two of them.
THEOREM NoWorkerIsOrphaned == ASSUME Reliable, Tracked, Scalers = {} PROVE Spec => []NoOrphans
<1>1. Init => StaffInv /\ LifeInv BY NewIsStaffed DEF Init, StaffInv, LifeInv, Copies
<1>2. IInv /\ StaffInv /\ [Next]_vars => StaffInv' BY StaffStep
<1>3. IInv /\ CachesAgree /\ CopyInv /\ LifeInv /\ [Next]_vars => LifeInv' BY LifeStep DEF Tracked
<1>4. IInv /\ CachesAgree /\ LifeInv /\ StaffInv /\ OrphanInv /\ [Next]_vars => OrphanInv'
  BY OrphanStep
<1>5. IInv /\ StaffInv /\ OrphanInv /\ NoLostWakeup => NoOrphans
  <2> SUFFICES ASSUME IInv, StaffInv, OrphanInv, NoLostWakeup, Quiescent, job.status.phase = "Running"
               PROVE  Alive(pods) \subseteq Members(job.status.target)
    BY DEF NoOrphans
  <2> DEFINE t == job.status.target
  <2>1. Staffed(job.status) /\ Consistent(job.status) BY DEF StaffInv, IInv, Copies
  <2>2. Members(t) # {} BY <2>1 DEF Staffed, Recorded, Consistent, StepOrder
  <2>3. Gone(pods, t) = {} BY AtRestNoneGone
  <2>4. t \in [Worker -> Nat] BY DEF IInv, TypeOK, Job, JobStatus
  <2>5. Alive(pods) \subseteq Names(pods, t) BY DEF OrphanInv, Accounts
  <2> HIDE DEF t
  <2>6. NewNames(t, {}) = {}
    <3>1. CountOf(t)[{}] = 0 /\ getWorkerPodsMaxIndex(t) \in Int BY <2>4, CountOfIs, HighestIsInt
    <3>2. QED BY <3>1 DEF NewNames, NextNames
  <2>7. Names(pods, t) = Members(t) BY <2>2, <2>3, <2>6 DEF Names
  <2>8. QED BY <2>5, <2>7 DEF t
<1>6. QED
  BY <1>1, <1>2, <1>3, <1>4, <1>5, Inductive, CachesAreCurrent, CopiesKeep, NoWakeupIsLost,
     OrphanInit, PTL DEF Spec


-----------------------------------------------------------------------------
(* The hostfile lists the running workers. It is written by two hands: the      *)
(* launcher's init container copies the ConfigMap, which was made from the      *)
(* workers that ran then, and the reconciles of a running job rewrite it. Both  *)
(* wrote what the status records as current, which they record with it.         *)

\* With the status st: the launcher is in the state l, the ConfigMap is m and the
\* hostfile h.
Lists(st, l, m, h) ==
    /\ st.phase \in {"New", "Created"} /\ "LauncherCreated" \notin st.conds
       => l = "None" /\ ~m.made
    /\ st.phase \in {"New", "Created"} /\ "LauncherCreated" \in st.conds
       => m.made /\ m.hosts = st.current /\ (l = "Running" => h = st.current)
    /\ st.phase = "Running" => l # "Pending" /\ (l = "Running" => h = st.current)

\* What is seen of the launcher may be old, but it is created once.
CreatedOnce(l, seen) == l = "Pending" => seen \in {"None", "Pending"}

ListsIn(w) == /\ Lists(w.st, w.launcher, w.configMap, w.hostfile)
              /\ CreatedOnce(w.launcher, w.seenLauncher)

\* The job is not restarted, its launcher neither, and no reconcile is cut short.
Undisturbed == Steady /\ "crash" \notin Faults /\ LauncherPolicy = "Never"

LEMMA LooksAtLauncher ==
  ASSUME LauncherPolicy = "Never", NEW w \in Worlds, w.err = "none", NEW v \in syncLauncherState(w)
  PROVE  /\ v.launcher = w.launcher /\ v.hostfile = w.hostfile /\ v.configMap = w.configMap
         /\ SameView(v, w) /\ v.st.current = w.st.current
         /\ \/ v.st.phase \in {"Succeeded", "Failed"}
            \/ v.st.phase = "Running" /\ w.seenLauncher = "Running"
            \/ v.st = w.st /\ w.seenLauncher # "None"
<1>1. w.st \in JobStatus BY DEF Worlds
<1>2. /\ v.launcher = w.launcher /\ v.hostfile = w.hostfile /\ v.configMap = w.configMap
      /\ SameView(v, w) /\ v.st.current = w.st.current
  BY syncLauncherStateIs, syncLauncherStateDoes DEF SameWorkers, SameStore
<1>3. ASSUME NEW c PROVE [w EXCEPT !.st = updateStatus(w.st, c)].st.phase = c
  <2> DEFINE st == updateStatus(w.st, c)
  <2>1. st.phase = c BY <1>1, ConditionWorkers
  <2> HIDE DEF st
  <2>2. [w EXCEPT !.st = st].st = st BY StatusIs
  <2>3. QED BY <2>1, <2>2 DEF st
<1>4. CASE w.seenLauncher = "None"
  <2>1. v = Failed(w) BY <1>4 DEF syncLauncherState, LauncherGone
  <2>2. v.st.phase = "Failed" BY <1>1, <2>1, FailedIs, ConditionWorkers
  <2>3. QED BY <1>2, <2>2
<1>5. CASE w.seenLauncher # "None"
  <2>1. \/ v = [w EXCEPT !.st = updateStatus(w.st, "Succeeded")]
        \/ v = [w EXCEPT !.st = updateStatus(w.st, "Failed")]
        \/ v = [w EXCEPT !.st = updateStatus(w.st, "Running")] /\ w.seenLauncher = "Running"
        \/ v = w
    BY <1>5 DEF syncLauncherState
  <2>2. QED BY <1>2, <1>3, <1>5, <2>1
<1>6. QED BY <1>4, <1>5

LEMMA SyncLists ==
  ASSUME LauncherPolicy = "Never", NEW w \in Worlds, w.err = "none", ListsIn(w),
         "LauncherCreated" \in w.st.conds, w.st.phase \in {"New", "Created", "Running"},
         NEW v \in syncLauncherState(w)
  PROVE  ListsIn(v)
<1>1. /\ v.launcher = w.launcher /\ v.hostfile = w.hostfile /\ v.configMap = w.configMap
      /\ v.seenLauncher = w.seenLauncher /\ v.st.current = w.st.current
      /\ \/ v.st.phase \in {"Succeeded", "Failed"}
         \/ v.st.phase = "Running" /\ w.seenLauncher = "Running"
         \/ v.st = w.st
  BY LooksAtLauncher DEF SameView
<1>2. QED BY <1>1 DEF ListsIn, Lists, CreatedOnce

\* A status that took a step, or failed, keeps a launcher that was created.
LEMMA TookLauncher ==
  ASSUME NEW st \in JobStatus, Unfinished(st), NEW new, NEW c, Took(new, st, c)
  PROVE  new.phase = "Failed" \/
           (new.phase = st.phase
            /\ ("LauncherCreated" \in new.conds <=> "LauncherCreated" \in st.conds \/ c = "LauncherCreated"))
<1>1. CASE new.phase = st.phase /\ new.conds = setCondition(st.conds, c)
  BY <1>1 DEF setCondition, Unfinished
<1>2. QED BY <1>1 DEF Took


LEMMA doStepsLists ==
  ASSUME Undisturbed, NEW w, Good(w), Unfinished(w.st), Recorded(w.st), w.err = "none",
         w.st.phase \in {"New", "Created"}, ListsIn(w), NEW v \in doSteps(w)
  PROVE  ListsIn(v)
<1>1. w \in Worlds /\ w.st \in JobStatus /\ StepOrder(w.st) BY DEF Good, Worlds, Consistent
<1>2. LauncherPolicy = "Never" /\ "apiError" \notin Faults BY DEF Undisturbed, Steady
<1>3. CASE "WorkersCreated" \notin w.st.conds
  <2>1. v \in createTrainingJobWorkers(w) BY <1>3 DEF doSteps
  <2>2. /\ v.configMap = w.configMap /\ v.seenLauncher = w.seenLauncher
        /\ Took(v.st, w.st, "WorkersCreated")
    BY <2>1, createTrainingJobWorkersDoes DEF SameStore, SameView
  <2>3. v.launcher = w.launcher /\ v.hostfile = w.hostfile
    BY <2>1, createTrainingJobWorkersIs DEF SameCluster
  <2>4. "LauncherCreated" \notin w.st.conds BY <1>1, <1>3 DEF StepOrder
  <2>5. v.st.phase = "Failed" \/ (v.st.phase = w.st.phase /\ "LauncherCreated" \notin v.st.conds)
    BY <1>1, <2>2, <2>4, TookLauncher
  <2>6. QED BY <2>2, <2>3, <2>4, <2>5 DEF ListsIn, Lists, CreatedOnce
<1>4. CASE "WorkersCreated" \in w.st.conds /\ "WorkersReady" \notin w.st.conds
  <2>1. v \in waitWorkersRunning(w) BY <1>4 DEF doSteps
  <2>2. /\ v.configMap = w.configMap /\ v.seenLauncher = w.seenLauncher
        /\ v.st.phase = w.st.phase
        /\ v.st.conds = w.st.conds \/ v.st.conds = setCondition(w.st.conds, "WorkersReady")
    BY <2>1, waitWorkersRunningDoes DEF SameStore, SameView
  <2>3. Members(w.st.target) # {} BY <1>4 DEF Recorded
  <2>4. PICK u \in handleWorkersFailed(w) : SameCluster(v, u) BY <2>1, <2>3, waitWorkersRunningIs
  <2>5. u.launcher = w.launcher BY <2>3, handleWorkersFailedHandles
  <2>6. v.launcher = w.launcher BY <2>4, <2>5 DEF SameCluster
  <2>7. "LauncherCreated" \notin w.st.conds BY <1>1, <1>4 DEF StepOrder
  <2>8. "LauncherCreated" \notin v.st.conds BY <2>2, <2>7 DEF setCondition
  <2>9. QED BY <2>2, <2>6, <2>7, <2>8 DEF ListsIn, Lists, CreatedOnce
<1>5. CASE /\ {"WorkersCreated", "WorkersReady"} \subseteq w.st.conds
           /\ "LauncherCreated" \notin w.st.conds
  <2>1. v \in createLauncher(w) BY <1>5 DEF doSteps
  <2>2. v.seenLauncher = w.seenLauncher /\ Took(v.st, w.st, "LauncherCreated")
    BY <2>1, createLauncherDoes DEF SameView
  <2>3. /\ SameWorkers(v.st, w.st)
        /\ \/ v.launcher = w.launcher
           \/ w.launcher = "None" /\ w.seenLauncher = "None" /\ v.launcher = "Pending"
        /\ HostsFor(v, w)
    BY <1>2, <2>1, createLauncherIs
  <2>4. w.launcher = "None" /\ ~w.configMap.made BY <1>5 DEF ListsIn, Lists
  <2>5. v.st.phase = "Failed" \/ (v.st.phase = w.st.phase /\ "LauncherCreated" \in v.st.conds)
    BY <1>1, <2>2, TookLauncher
  <2>6. v.configMap.made /\ v.configMap.hosts = v.st.current
    BY <2>3, <2>4 DEF HostsFor, SameWorkers
  <2>7. v.launcher # "Running" /\ CreatedOnce(v.launcher, v.seenLauncher)
    BY <2>2, <2>3, <2>4 DEF CreatedOnce
  <2>8. QED BY <2>5, <2>6, <2>7 DEF ListsIn, Lists
<1>6. CASE /\ {"WorkersCreated", "WorkersReady", "LauncherCreated"} \subseteq w.st.conds
           /\ "Running" \notin w.st.conds
  <2>1. v \in syncLauncherState(w) BY <1>6 DEF doSteps
  <2>2. QED BY <1>1, <1>2, <1>6, <2>1, SyncLists
<1>7. CASE {"WorkersCreated", "WorkersReady", "LauncherCreated", "Running"} \subseteq w.st.conds
  <2>1. v = w BY <1>7 DEF doSteps
  <2>2. QED BY <2>1
<1>8. QED BY <1>3, <1>4, <1>5, <1>6, <1>7

LEMMA CreatedLists ==
  ASSUME Undisturbed, NEW w, Good(w), w.err = "none", w.st.phase \in {"New", "Created"},
         Recorded(w.st), ListsIn(w), NEW v \in doSteps(initializeJob(w))
  PROVE  ListsIn(v)
<1> DEFINE u == initializeJob(w)
<1>1. w \in Worlds /\ w.st \in JobStatus BY DEF Good, Worlds
<1>2. Good(u) /\ Unfinished(u.st) BY initializeJobGood
<1>3. /\ IF w.st.conds = {} THEN u.st.phase = "Created" /\ u.st.conds = {"Created"} ELSE u = w
      /\ u.configMap = w.configMap /\ u.seenLauncher = w.seenLauncher /\ u.st.current = w.st.current
  BY <1>1, initializeJobDoes DEF SameStore, SameView
<1>4. SameCluster(u, w) /\ u.err = w.err
  <2> DEFINE st == updateStatus(w.st, "Created")
  <2>1. u = w \/ u = [w EXCEPT !.st = st] BY DEF initializeJob
  <2> HIDE DEF st, u
  <2>2. [w EXCEPT !.st = st].err = w.err /\ SameCluster([w EXCEPT !.st = st], w) BY <1>1, StatusIs
  <2>3. QED BY <2>1, <2>2 DEF SameCluster
<1> HIDE DEF u
<1>5. ListsIn(u) /\ Recorded(u.st) /\ u.st.phase \in {"New", "Created"}
  BY <1>3, <1>4 DEF ListsIn, Lists, Recorded, SameCluster
<1>6. QED BY <1>2, <1>4, <1>5, doStepsLists DEF u

\* A job that runs rewrites the hostfile, unless it is as the status records it, or
\* cannot be written, when the status keeps the workers that are in it.
LEMMA RunningLists ==
  ASSUME Undisturbed, Scalers = {}, NEW w, Good(w), w.err = "none", w.st.phase = "Running",
         Recorded(w.st), ListsIn(w), NEW v \in reconcileJobRunning(w)
  PROVE  ListsIn(v)
<1>1. w \in Worlds /\ w.st \in JobStatus /\ LauncherPolicy = "Never"
  BY DEF Good, Worlds, Undisturbed
<1>2. Unfinished(w.st) /\ {"LauncherCreated", "WorkersCreated"} \subseteq w.st.conds
  BY LivePhaseIsUnfinished DEF Good, Consistent, StepOrder
<1>3. PICK u \in syncLauncherState(w) : \E d \in handleWorkersFailed(u) :
        v \in IF d.err = "none" /\ d.st.phase = "Running" THEN setTrainingJobScaler(d) ELSE {d}
  BY DEF reconcileJobRunning
<1>4. PICK d \in handleWorkersFailed(u) :
        v \in IF d.err = "none" /\ d.st.phase = "Running" THEN setTrainingJobScaler(d) ELSE {d}
  BY <1>3
<1>5. Good(u) /\ SameWorkers(u.st, w.st) /\ u.err = "none"
  BY <1>1, <1>2, syncLauncherStateGood, syncLauncherStateIs
<1>6. ListsIn(u) BY <1>1, <1>2, SyncLists
<1>7. u.st.phase \in {"Succeeded", "Failed"} \/ (u.st.phase = "Running" /\ u.seenLauncher # "None")
  BY <1>1, LooksAtLauncher DEF SameView
<1>8. Good(d) /\ SameProgress(d, u) /\ d.configMap = u.configMap /\ d.seenLauncher = u.seenLauncher
  BY <1>5, handleWorkersFailedDoes DEF SameStore, SameView
<1>9. v = d
  <2>1. DOMAIN d.known = {} BY <1>8, ScalerMapIs DEF Good, Worlds, IsScalerMap
  <2>2. availableScalers(d) = {} BY <2>1 DEF availableScalers
  <2>3. QED BY <1>4, <2>2 DEF setTrainingJobScaler
<1>10. Members(u.st.target) # {} BY <1>2, <1>5 DEF Recorded, SameWorkers
<1>11. d.launcher = u.launcher /\ Handled(d, u) BY <1>5, <1>10, handleWorkersFailedHandles
<1>12. d.st.phase = "Running" /\ d.launcher = "Running" => d.hostfile = d.st.current
  <2>1. SUFFICES ASSUME d.st.phase = "Running", d.launcher = "Running" PROVE d.hostfile = d.st.current
    OBVIOUS
  <2>2. u.st.phase = "Running" /\ u.launcher = "Running" /\ u.seenLauncher # "None"
    BY <1>7, <1>8, <1>11, <2>1 DEF SameProgress
  <2>3. "Running" \in u.st.conds BY <1>5, <2>2 DEF Good, Consistent, StepOrder
  <2>4. u.hostfile = u.st.current BY <1>6, <2>2 DEF ListsIn, Lists
  <2>5. CASE d.st = u.st /\ d.hostfile = u.hostfile BY <2>4, <2>5
  <2>6. CASE /\ Replaced(d, u, [u.st EXCEPT !.current = Running(u.seen)])
             /\ IF Rewrites(u) /\ u.seenLauncher # "None"
                THEN d.hostfile = Running(u.seen) ELSE d.hostfile = u.hostfile
    <3> DEFINE st == [u.st EXCEPT !.current = Running(u.seen)]
    <3>1. u.st \in JobStatus BY <1>5 DEF Good, Worlds
    <3>2. \A t : [st EXCEPT !.target = t].current = st.current BY <3>1 DEF JobStatus
    <3>3. st.current = Running(u.seen) BY <3>1 DEF JobStatus
    <3> HIDE DEF st
    <3>4. d.st = st \/ \E t : d.st = [st EXCEPT !.target = t] BY <2>6 DEF Replaced, st
    <3>5. d.st.current = Running(u.seen) BY <3>2, <3>3, <3>4
    <3>6. QED BY <2>2, <2>3, <2>4, <2>6, <3>5 DEF Rewrites
  <2>7. QED BY <1>11, <2>5, <2>6 DEF Handled
<1>13. CreatedOnce(d.launcher, d.seenLauncher) BY <1>6, <1>8, <1>11 DEF ListsIn
<1>14. d.st.phase = "Running" => d.launcher # "Pending"
  BY <1>6, <1>8, <1>11 DEF ListsIn, Lists, SameProgress
<1>15. d.st.phase \notin {"New", "Created"} BY <1>7, <1>8 DEF SameProgress
<1>16. QED BY <1>9, <1>12, <1>13, <1>14, <1>15 DEF ListsIn, Lists


\* The handler of a job that ended leaves the status, and no launcher that was not there.
LEMMA TornDownLists ==
  ASSUME NEW w, NEW v, v.st = w.st, w.st.phase \in {"Succeeded", "Failed", "Suspended"},
         v.launcher \in {w.launcher, "None"}, v.seenLauncher = w.seenLauncher, ListsIn(w)
  PROVE  ListsIn(v)
  BY DEF ListsIn, Lists, CreatedOnce

LEMMA DeletionLists ==
  ASSUME Undisturbed, NEW w \in Worlds, w.st.phase \in {"Succeeded", "Failed", "Suspended"}, ListsIn(w)
  PROVE  /\ \A v \in cleanup(w) : ListsIn(v)
         /\ \A v \in cleanupAll(w) : ListsIn(v)
<1>1. "apiError" \notin Faults BY DEF Undisturbed, Steady
<1>2. \A d \in DeleteAllWorkerPods(w) :
        d \in Worlds /\ d.st = w.st /\ d.seenLauncher = w.seenLauncher /\ d.launcher = w.launcher
  BY <1>1, DeletedIs, DeletedAreGone DEF SameRest, SameView, DeleteAllWorkerPods
<1>3. ASSUME NEW d \in Worlds, NEW v \in DeleteLauncher(d)
      PROVE  v.st = d.st /\ v.seenLauncher = d.seenLauncher /\ v.launcher \in {d.launcher, "None"}
  <2>1. v.st = d.st /\ v.seenLauncher = d.seenLauncher
    BY <1>3, DeleteLauncherActs DEF Acts, SameRest, SameView
  <2>2. [d EXCEPT !.launcher = "None", !.hostfile = {}].launcher = "None" BY DEF Worlds
  <2>3. \A x \in Fault(d, "apiError") : x.launcher = d.launcher BY FaultCluster DEF SameCluster
  <2>4. QED BY <2>1, <2>2, <2>3 DEF DeleteLauncher
<1>4. \A v \in cleanup(w) : ListsIn(v)
  <2>1. \A v \in cleanup(w) :
          v.st = w.st /\ v.seenLauncher = w.seenLauncher /\ v.launcher = w.launcher
    BY <1>2 DEF cleanup
  <2>2. QED BY <2>1, TornDownLists
<1>5. \A v \in cleanupAll(w) : ListsIn(v)
  <2>1. \A v \in cleanupAll(w) :
          v.st = w.st /\ v.seenLauncher = w.seenLauncher /\ v.launcher \in {w.launcher, "None"}
    BY <1>2, <1>3 DEF cleanupAll
  <2>2. QED BY <2>1, TornDownLists
<1>6. QED BY <1>4, <1>5

LEMMA HandleLists ==
  ASSUME Undisturbed, Scalers = {}, IInv, Handle, Recorded(mine), ListsIn(Observed)
  PROVE  \E w : Leave(w) /\ ListsIn(w)
<1> DEFINE o == Observed
<1>1. /\ Good(o) /\ o \in Worlds /\ o.st \in JobStatus /\ o.st = mine /\ o.err = "none"
      /\ Recorded(o.st) /\ ListsIn(o)
  BY ObservedGood DEF Observed, Good, Worlds
<1>2. ~needRestartJob(o.st) BY <1>1, NumbersAssumption DEF needRestartJob, Undisturbed, Steady, JobStatus
<1> HIDE DEF o
<1>3. ASSUME HandleCreated PROVE \A w \in doSteps(initializeJob(o)) : ListsIn(w)
  BY <1>1, <1>3, CreatedLists DEF HandleCreated, AtHandler
<1>4. ASSUME HandleRunning PROVE \A w \in reconcileJobRunning(o) : ListsIn(w)
  BY <1>1, <1>4, RunningLists DEF HandleRunning, AtHandler
<1>5. ~HandleScaling BY <1>1, NothingScales DEF HandleScaling, AtHandler, Good, Worlds
<1>6. ASSUME HandleSucceeded PROVE \A w \in cleanup(o) : ListsIn(w)
  BY <1>1, <1>6, DeletionLists DEF HandleSucceeded, AtHandler
<1>7. ASSUME HandleFailed PROVE \A w \in restartJob(o) : ListsIn(w)
  BY <1>1, <1>2, <1>7, DeletionLists DEF HandleFailed, AtHandler, restartJob
<1>8. ASSUME HandleSuspended PROVE \A w \in cleanupAll(o) : ListsIn(w)
  BY <1>1, <1>8, DeletionLists DEF HandleSuspended, AtHandler
<1>9. \/ HandleCreated /\ \E w \in doSteps(initializeJob(o)) : Leave(w)
      \/ HandleRunning /\ \E w \in reconcileJobRunning(o) : Leave(w)
      \/ HandleSucceeded /\ \E w \in cleanup(o) : Leave(w)
      \/ HandleFailed /\ \E w \in restartJob(o) : Leave(w)
      \/ HandleSuspended /\ \E w \in cleanupAll(o) : Leave(w)
  BY <1>5 DEF Handle, HandleCreated, HandleRunning, HandleSucceeded, HandleFailed,
     HandleSuspended, o
<1>10. QED BY <1>3, <1>4, <1>6, <1>7, <1>8, <1>9 DEF o

\* What happens to the launcher and the hostfile between the handlers.
LEMMA LauncherMoves ==
  ASSUME IInv, [Next]_vars, ~Handle
  PROVE  /\ configMap' = configMap /\ launcherCache' \in {launcherCache, launcher'}
         /\ \/ launcher' = launcher /\ hostfile' = hostfile
            \/ /\ launcher = "Pending" /\ launcher' = "Running"
               /\ configMap.made /\ hostfile' = configMap.hosts
            \/ launcher # "None" /\ launcher' \in {"None", "Succeeded", "Failed"}
<1> DEFINE Still == UNCHANGED <<configMap, launcher, hostfile>>
<1>1. ASSUME Crash PROVE Still /\ launcherCache' \in {launcherCache, launcher'}
  BY <1>1 DEF Crash, api
<1>2. ASSUME Start \/ Sync \/ OtherEvent \/ UNCHANGED vars
      PROVE  Still /\ launcherCache' \in {launcherCache, launcher'}
  BY <1>2 DEF Start, Sync, SyncJob, SyncPods, SyncScaler, OtherEvent, api, cache, vars
<1>3. ASSUME WriteScaler PROVE Still /\ launcherCache' \in {launcherCache, launcher'}
  <2>1. Still BY <1>3 DEF WriteScaler
  <2>2. PICK s \in DOMAIN update : launcherCache' = launcherCache
    BY <1>3 DEF WriteScaler, ScalerChanged, cache
  <2>3. QED BY <2>1, <2>2
<1>4. ASSUME WriteJob PROVE Still /\ launcherCache' \in {launcherCache, launcher'}
  BY <1>4 DEF WriteJob
<1>5. ASSUME NEW i \in Worker, WorkerRuns(i) \/ WorkerEnds(i) \/ WorkerLost(i)
      PROVE  Still /\ launcherCache' \in {launcherCache, launcher'}
  <2>1. PICK ps : ChangePods(ps) BY <1>5 DEF WorkerRuns, WorkerEnds, WorkerLost
  <2>2. QED BY <2>1 DEF ChangePods, PodsChanged
<1>6. ASSUME NEW s \in Scalers, SubmitScaler(s) \/ DeleteScaler(s)
      PROVE  Still /\ launcherCache' \in {launcherCache, launcher'}
  BY <1>6 DEF SubmitScaler, DeleteScaler, ScalerChanged
<1>7. ASSUME Suspend PROVE Still /\ launcherCache' \in {launcherCache, launcher'}
  BY <1>7 DEF Suspend, JobChanged
<1>8. ASSUME LauncherRuns
      PROVE  /\ launcher = "Pending" /\ launcher' = "Running"
             /\ configMap.made /\ hostfile' = configMap.hosts
             /\ configMap' = configMap /\ launcherCache' \in {launcherCache, launcher'}
  BY <1>8 DEF LauncherRuns, ChangeLauncher, PodsChanged
<1>9. ASSUME LauncherEnds \/ LauncherLost
      PROVE  /\ launcher # "None" /\ launcher' \in {"None", "Succeeded", "Failed"}
             /\ configMap' = configMap /\ launcherCache' \in {launcherCache, launcher'}
  BY <1>9, ClusterAssumption DEF LauncherEnds, LauncherLost, ChangeLauncher, PodsChanged
<1>10. \/ Start \/ Sync \/ OtherEvent \/ UNCHANGED vars
       \/ WriteScaler \/ WriteJob \/ Suspend
       \/ \E i \in Worker : WorkerRuns(i) \/ WorkerEnds(i) \/ WorkerLost(i)
       \/ \E s \in Scalers : SubmitScaler(s) \/ DeleteScaler(s)
       \/ LauncherRuns \/ LauncherEnds \/ LauncherLost \/ Crash
  BY DEF Next, Reconcile, Environment
<1>11. QED BY <1>1, <1>2, <1>3, <1>4, <1>5, <1>6, <1>7, <1>8, <1>9, <1>10


\* The status that is, or is about to be written.
Due == IF pc \in {"writeScaler", "writeJob"} THEN mine ELSE job.status

HostInv == Lists(Due, launcher, configMap, hostfile) /\ CreatedOnce(launcher, launcherCache)

LEMMA DueStays ==
  ASSUME Undisturbed, IInv, LifeInv, [Next]_vars, ~Handle PROVE Due' = Due
<1>1. job \in Job BY DEF IInv, TypeOK
<1>2. ASSUME Sync \/ Environment \/ UNCHANGED vars PROVE Due' = Due
  BY <1>2, OthersLive DEF Due
<1>3. ASSUME Start PROVE Due' = Due BY <1>3 DEF Start, api, Due
<1>4. ASSUME WriteScaler PROVE Due' = Due BY <1>4 DEF WriteScaler, Due
<1>5. ASSUME WriteJob PROVE Due' = Due
  <2>1. pc = "writeJob" /\ pc' = "idle" BY <1>5 DEF WriteJob, EndReconcile
  <2>2. job'.status = mine BY <1>5, WrittenStatus DEF Undisturbed
  <2>3. QED BY <2>1, <2>2 DEF Due
<1>6. ~Crash BY DEF Crash, MayFail, Undisturbed
<1>7. QED BY <1>2, <1>3, <1>4, <1>5, <1>6 DEF Next, Reconcile

LEMMA HostStep ==
  ASSUME Undisturbed, Scalers = {}
  PROVE  IInv /\ LifeInv /\ StaffInv /\ HostInv /\ [Next]_vars => HostInv'
<1> SUFFICES ASSUME IInv, LifeInv, StaffInv, HostInv, [Next]_vars PROVE HostInv' OBVIOUS
<1>1. ASSUME ~Handle PROVE HostInv'
  <2>1. /\ configMap' = configMap /\ launcherCache' \in {launcherCache, launcher'}
        /\ \/ launcher' = launcher /\ hostfile' = hostfile
           \/ /\ launcher = "Pending" /\ launcher' = "Running"
              /\ configMap.made /\ hostfile' = configMap.hosts
           \/ launcher # "None" /\ launcher' \in {"None", "Succeeded", "Failed"}
    BY <1>1, LauncherMoves
  <2>2. Due' = Due BY <1>1, DueStays
  <2>3. CreatedOnce(launcher', launcherCache') BY <2>1 DEF HostInv, CreatedOnce
  <2>4. Lists(Due, launcher', configMap', hostfile') BY <2>1 DEF HostInv, Lists
  <2>5. QED BY <2>2, <2>3, <2>4 DEF HostInv
<1>2. ASSUME Handle PROVE HostInv'
  <2>1. pc = "handle"
    BY <1>2 DEF Handle, HandleCreated, HandleRunning, HandleScaling, HandleSucceeded,
       HandleFailed, HandleSuspended, AtHandler
  <2>2. Due = job.status BY <2>1 DEF Due
  <2>3. mine = job.status \/ mine.phase = "Suspended"
    BY <2>1 DEF LifeInv, IInv, updateStatus, updateJobConditions, TypeOK, JobStatus
  <2>4. Lists(mine, launcher, configMap, hostfile) BY <2>2, <2>3 DEF HostInv, Lists
  <2>5. ListsIn(Observed) BY <2>4 DEF ListsIn, Observed, HostInv
  <2>6. Recorded(mine) BY DEF StaffInv, Copies, Staffed
  <2>7. PICK w : Leave(w) /\ ListsIn(w) BY <1>2, <2>5, <2>6, HandleLists
  <2>8. /\ pc' \in {"writeScaler", "writeJob"} /\ mine' = w.st
        /\ launcher' = w.launcher /\ configMap' = w.configMap /\ hostfile' = w.hostfile
        /\ launcherCache' \in {w.seenLauncher, w.launcher}
    BY <2>7 DEF Leave
  <2>9. QED BY <2>7, <2>8 DEF HostInv, Due, ListsIn, CreatedOnce
<1>3. QED BY <1>1, <1>2

\* The hostfile of a running launcher lists exactly the workers that run, whenever
\* the controller of a job without scalers is at rest (worker.go:116), also when
\* the pods are seen late and a write of the hostfile fails: if the job is not
\* restarted, its launcher neither, and no end of the operator comes between the
\* write of the hostfile and the write of the status.
THEOREM HostfileFollows == ASSUME Undisturbed, Scalers = {} PROVE Spec => []HostfileUpToDate
<1>1. Init => StaffInv /\ LifeInv /\ HostInv
  <2> SUFFICES ASSUME Init PROVE StaffInv /\ LifeInv /\ HostInv OBVIOUS
  <2>1. StaffInv /\ LifeInv BY NewIsStaffed DEF Init, StaffInv, LifeInv, Copies
  <2>2. /\ job.status = NewJob /\ pc = "idle" /\ launcher = "None" /\ ~configMap.made
    BY DEF Init
  <2>3. "LauncherCreated" \notin NewJob.conds /\ NewJob.phase = "New" BY DEF NewJob
  <2>4. QED BY <2>1, <2>2, <2>3 DEF HostInv, Due, Lists, CreatedOnce
<1>2. IInv /\ StaffInv /\ [Next]_vars => StaffInv' BY StaffStep
<1>3. Reliable /\ "job" \notin Lagging BY DEF Undisturbed, Steady, Reliable
<1>4. IInv /\ CachesAgree /\ CopyInv /\ LifeInv /\ [Next]_vars => LifeInv' BY <1>3, LifeStep
<1>5. IInv /\ LifeInv /\ StaffInv /\ HostInv /\ [Next]_vars => HostInv' BY HostStep
<1>6. HostInv /\ NoLostWakeup => HostfileUpToDate
  <2> SUFFICES ASSUME HostInv, NoLostWakeup, Quiescent, job.status.phase = "Running", launcher = "Running"
               PROVE  hostfile = Running(pods)
    BY DEF HostfileUpToDate
  <2>1. Due = job.status BY DEF Due, Quiescent
  <2>2. hostfile = job.status.current BY <2>1 DEF HostInv, Lists
  <2>3. job.status.current = Running(pods) BY DEF NoLostWakeup, NothingToDo, RunsOn
  <2>4. QED BY <2>2, <2>3
<1>7. Spec => []NoLostWakeup BY <1>3, NoWakeupIsLost
<1>8. QED
  BY <1>1, <1>2, <1>4, <1>5, <1>6, <1>7, Inductive, CachesAreCurrent, CopiesKeep, PTL DEF Spec

-----------------------------------------------------------------------------
(* A ScaleIn deletes no worker that the hostfile still lists. What the        *)
(* operations of a scaling leave of the launcher and its hostfile:            *)

Deleted(v, w) == DOMAIN w.pods \ DOMAIN v.pods

LEMMA ErrIs ==
  ASSUME NEW w \in Worlds, NEW e
  PROVE  LET v == [w EXCEPT !.err = e]
         IN  SameCluster(v, w) /\ v.pods = w.pods /\ v.update = w.update
  BY DEF Worlds, SameCluster

LEMMA DeleteWorkerPodsIs ==
  ASSUME NEW w \in Worlds, NEW ws, NEW v \in DeleteWorkerPods(w, ws)
  PROVE  v \in Worlds /\ SameRest(v, w) /\ SameCluster(v, w) /\ Deleted(v, w) \subseteq ws
<1> DEFINE listed == ws \cap DOMAIN w.seen
           All(u) == [u EXCEPT !.pods = Without(u.pods, listed)]
           AllBut(u, i) == [u EXCEPT !.pods = Without(u.pods, listed \ {i})]
<1>1. \A u \in Worlds : SameCluster(All(u), u) /\ All(u).pods = Without(u.pods, listed)
  BY DEF Worlds, SameCluster
<1>2. \A u \in Worlds : \A i : SameCluster(AllBut(u, i), u)
                               /\ AllBut(u, i).pods = Without(u.pods, listed \ {i})
  BY DEF Worlds, SameCluster
<1>3. DeleteWorkerPods(w, ws) =
        {All(w)} \cup {AllBut(u, i) : u \in Fault(w, "apiError"), i \in listed \cap DOMAIN w.pods}
  BY DEF DeleteWorkerPods
<1>4. listed \subseteq ws OBVIOUS
<1> HIDE DEF All, AllBut, listed
<1>5. SameCluster(v, w) /\ \E gone \in SUBSET ws : v.pods = Without(w.pods, gone)
  <2>1. CASE v = All(w) BY <1>1, <1>4, <2>1
  <2>2. CASE \E u \in Fault(w, "apiError"), i \in listed : v = AllBut(u, i)
    <3>1. PICK u \in Fault(w, "apiError"), i \in listed : v = AllBut(u, i) BY <2>2
    <3>2. u \in Worlds /\ SameCluster(u, w) /\ u.pods = w.pods BY <3>1, FaultCluster
    <3>3. SameCluster(v, u) /\ v.pods = Without(w.pods, listed \ {i}) BY <1>2, <3>1, <3>2
    <3>4. listed \ {i} \in SUBSET ws BY <1>4
    <3>5. QED BY <3>2, <3>3, <3>4 DEF SameCluster
  <2>3. QED BY <1>3, <2>1, <2>2
<1>6. v \in Worlds /\ SameRest(v, w) BY DeleteWorkerPodsActs DEF Acts
<1>7. QED BY <1>5, <1>6, WithoutDomain DEF Deleted

LEMMA CatchUpCluster ==
  ASSUME NEW w \in Worlds, NEW v \in CatchUp(w)
  PROVE  v \in Worlds /\ SameRest(v, w) /\ SameCluster(v, w) /\ v.pods = w.pods
<1>1. v \in Worlds /\ SameRest(v, w) /\ v.pods = w.pods BY CatchUpRest, CatchUpPods
<1>2. \A ps : SameCluster([w EXCEPT !.seen = ps], w) BY DEF Worlds, SameCluster
<1>3. SameCluster([w EXCEPT !.seen = w.pods, !.seenLauncher = w.launcher], w)
  BY DEF Worlds, SameCluster
<1>4. QED BY <1>1, <1>2, <1>3 DEF CatchUp

LEMMA executeOnLauncherIs ==
  ASSUME NEW w \in Worlds, NEW v \in executeOnLauncher(w)
  PROVE  v \in Worlds /\ SameRest(v, w) /\ SameView(v, w) /\ SameCluster(v, w) /\ v.pods = w.pods
<1>1. v \in Worlds /\ SameRest(v, w) /\ SameView(v, w) BY executeOnLauncherActs DEF Acts
<1>2. v = w \/ v = Error(w) \/ \E u \in Fault(w, "execError") : v = Error(u)
  BY DEF executeOnLauncher
<1>3. QED BY <1>1, <1>2, ErrorIs, FaultCluster DEF SameCluster

\* The script of a ScaleIn without one of its own, and what any script leaves alone.
LEMMA executeScaleScriptIs ==
  ASSUME NEW w \in Worlds, NEW s, NEW x, NEW hosts \in SUBSET Worker, w.err = "none",
         NEW v \in executeScaleScript(w, s, x, hosts)
  PROVE  /\ v \in Worlds /\ SameRest(v, w) /\ SameView(v, w)
         /\ v.launcher = w.launcher /\ v.pods = w.pods
         /\ IF "ScriptExecuted" \in x.conds THEN v = w
            ELSE v.err = "none" /\ w.seenLauncher # "None" /\ ~ScalerSpec[s].script
                 => v.hostfile = hosts
<1>1. CASE "ScriptExecuted" \in x.conds BY <1>1 DEF executeScaleScript, SameRest, SameStore, SameView
<1>2. CASE "ScriptExecuted" \notin x.conds /\ ScalerSpec[s].script
  BY <1>2, executeOnLauncherIs DEF executeScaleScript, SameCluster
<1>3. CASE "ScriptExecuted" \notin x.conds /\ ~ScalerSpec[s].script
  BY <1>3, WriteHostfileIs DEF executeScaleScript
<1>4. QED BY <1>1, <1>2, <1>3

LEMMA checkWorkerShutdownIs ==
  ASSUME NEW w \in Worlds, NEW s, NEW ws, NEW d \in checkWorkerShutdown(w, s, ws)
  PROVE  /\ d[1] \in Worlds /\ SameRest(d[1], w) /\ SameCluster(d[1], w) /\ d[1].pods = w.pods
         /\ d[2] \subseteq ws
<1> DEFINE Down(v) == IF v.err = "none" THEN {<<v, D>> : D \in SUBSET ws} ELSE {<<v, {}>>}
<1>1. ASSUME NEW v, d \in Down(v) PROVE d[1] = v /\ d[2] \subseteq ws
  <2>1. PICK D \in SUBSET ws : d = <<v, D>> BY <1>1
  <2>2. QED BY <2>1
<1>2. CASE ScalerSpec[s].script \/ w.seenLauncher = "None"
  <2>1. d = <<w, ws>> BY <1>2 DEF checkWorkerShutdown
  <2>2. QED BY <2>1 DEF SameRest, SameStore, SameCluster
<1>3. CASE ~(ScalerSpec[s].script \/ w.seenLauncher = "None")
  <2>1. checkWorkerShutdown(w, s, ws) = UNION {Down(v) : v \in executeOnLauncher(w)}
    BY <1>3 DEF checkWorkerShutdown
  <2> HIDE DEF Down
  <2>2. PICK v \in executeOnLauncher(w) : d \in Down(v) BY <2>1
  <2>3. d[1] = v /\ d[2] \subseteq ws BY <1>1, <2>2
  <2>4. QED BY <2>3, executeOnLauncherIs
<1>4. QED BY <1>2, <1>3

\* A scaler's status x is what a reconcile writes of s, if it writes anything.
LEMMA SaveScalerIs ==
  ASSUME NEW w \in Worlds, NEW s, NEW x, DOMAIN w.update = {}
  PROVE  LET v == SaveScaler(w, s, x)
         IN  /\ SameCluster(v, w) /\ v.pods = w.pods
             /\ s \in DOMAIN v.update => v.update[s] = x
<1> DEFINE m == [r \in {s} |-> x]
<1>1. m[s] = x OBVIOUS
<1>2. SaveScaler(w, s, x) = w \/ SaveScaler(w, s, x) = [w EXCEPT !.update = m] BY DEF SaveScaler
<1> HIDE DEF m
<1>3. /\ [w EXCEPT !.update = m].update = m /\ [w EXCEPT !.update = m].pods = w.pods
      /\ SameCluster([w EXCEPT !.update = m], w)
  BY DEF Worlds, SameCluster
<1>4. QED BY <1>1, <1>2, <1>3 DEF SameCluster

LEMMA FinishScalerIs ==
  ASSUME NEW w, CanScale(w), NEW s, NEW x \in ScalerStatus, DOMAIN w.update = {},
         NEW c \in {"ScaleSucceeded", "ScaleFailed"}
  PROVE  LET v == FinishScaler(w, s, x, c)
         IN  /\ SameCluster(v, w) /\ v.pods = w.pods
             /\ s \in DOMAIN v.update => isScaleFinished(v.update[s])
<1> DEFINE u == [w EXCEPT !.st.phase = "Running", !.st.scaler = NoScaler]
           y == [x EXCEPT !.conds = @ \cup {c}]
<1>1. w \in Worlds BY DEF CanScale, Good
<1>2. u \in Worlds BY StopScalingGood DEF Good
<1>3. u.update = w.update /\ SameCluster(u, w) /\ u.pods = w.pods BY <1>1 DEF Worlds, SameCluster
<1>4. isScaleFinished(y) BY DEF ScalerStatus, isScaleFinished
<1>5. FinishScaler(w, s, x, c) = SaveScaler(u, s, y) BY DEF FinishScaler
<1> HIDE DEF u, y
<1>6. QED BY <1>2, <1>3, <1>4, <1>5, SaveScalerIs DEF SameCluster

\* With the scaler's status x, the launcher in the state l and the hostfile h: a
\* ScaleIn whose script was executed has workers, and none of them is listed.
Shown(x, l, h) ==
    "ScriptExecuted" \in x.conds /\ ~isScaleFinished(x) =>
        x.pods # {} /\ (l = "Running" => h \cap x.pods = {})

LEMMA DeleteScaledInIs ==
  ASSUME NEW w, NEW s, Scaler(w, s), DOMAIN w.update = {}, NEW x \in ScalerStatus, x.pods # {},
         NEW hosts \in SUBSET Worker, NEW down \in SUBSET x.pods,
         NEW v \in DeleteScaledIn(w, s, x, hosts, down)
  PROVE  /\ SameCluster(v, w) /\ Deleted(v, w) \subseteq x.pods
         /\ s \in DOMAIN v.update => v.update[s] = x \/ isScaleFinished(v.update[s])
<1> DEFINE Left == UNION {CatchUp(u) : u \in DeleteWorkerPods(w, down)}
           Smaller(u) == [u EXCEPT !.st.target = FilterOut(@, x.pods), !.st.current = hosts]
           e == IF down = x.pods THEN "none" ELSE "requeue"
           Wait(u) == [SaveScaler(u, s, x) EXCEPT !.err = e]
           Done(u) == FinishScaler(Smaller(u), s, x, "ScaleSucceeded")
<1>1. w \in Worlds /\ s \in Scalers BY ScalerTypes
<1>2. ASSUME NEW u \in Left
      PROVE  /\ u \in Worlds /\ Scaler(u, s) /\ DOMAIN u.update = {}
             /\ SameCluster(u, w) /\ Deleted(u, w) \subseteq x.pods
  <2>1. PICK d \in DeleteWorkerPods(w, down) : u \in CatchUp(d) OBVIOUS
  <2>2. /\ d \in Worlds /\ SameRest(d, w) /\ SameCluster(d, w) /\ Deleted(d, w) \subseteq down
    BY <1>1, DeleteWorkerPodsIs
  <2>3. u \in Worlds /\ SameRest(u, d) /\ SameCluster(u, d) /\ u.pods = d.pods
    BY <2>1, <2>2, CatchUpCluster
  <2>4. SameRest(u, w) BY <2>2, <2>3 DEF SameRest, SameStore
  <2>5. SameCluster(u, w) /\ Deleted(u, w) \subseteq x.pods BY <2>2, <2>3 DEF SameCluster, Deleted
  <2>6. QED BY <2>3, <2>4, <2>5, ActsScaler DEF SameRest, SameStore
<1> HIDE DEF Left
<1>3. ASSUME NEW u \in Left
      PROVE  /\ SameCluster(Done(u), u) /\ Done(u).pods = u.pods
             /\ s \in DOMAIN Done(u).update => isScaleFinished(Done(u).update[s])
  <2> DEFINE t == FilterOut(u.st.target, x.pods)
             y == [u EXCEPT !.st.target = t]
             z == [y EXCEPT !.st.current = hosts]
  <2>1. u \in Worlds /\ CanScale(u) /\ u.st \in JobStatus BY <1>2 DEF Scaler, Worlds
  <2>2. t \in [Worker -> Nat] BY <2>1, AppendIsBag DEF JobStatus
  <2>3. Smaller(u) = z BY <2>1 DEF Worlds, JobStatus
  <2>4. z.pods = u.pods /\ z.update = u.update /\ SameCluster(z, u) BY <2>1 DEF Worlds, SameCluster
  <2> HIDE DEF t
  <2>5. CanScale(y) BY <2>1, <2>2, TargetKeeps, CanScaleSameStage DEF CanScale
  <2> HIDE DEF y
  <2>6. CanScale(z) BY <2>5, CurrentKeeps, CanScaleSameStage DEF CanScale
  <2> HIDE DEF z
  <2>7. LET f == FinishScaler(z, s, x, "ScaleSucceeded")
        IN  /\ SameCluster(f, z) /\ f.pods = z.pods
            /\ s \in DOMAIN f.update => isScaleFinished(f.update[s])
    BY <1>2, <2>4, <2>6, FinishScalerIs
  <2> HIDE DEF Smaller
  <2>8. QED BY <2>3, <2>4, <2>7 DEF SameCluster
<1>4. ASSUME NEW u \in Left
      PROVE  /\ SameCluster(Wait(u), u) /\ Wait(u).pods = u.pods
             /\ s \in DOMAIN Wait(u).update => Wait(u).update[s] = x
  <2> DEFINE d == SaveScaler(u, s, x)
  <2>1. d \in Worlds BY <1>1, <1>2, SaveScalerKeeps
  <2>2. SameCluster(d, u) /\ d.pods = u.pods /\ (s \in DOMAIN d.update => d.update[s] = x)
    BY <1>2, SaveScalerIs
  <2> HIDE DEF d, e
  <2>3. LET f == [d EXCEPT !.err = e] IN SameCluster(f, d) /\ f.pods = d.pods /\ f.update = d.update
    BY <2>1, ErrIs
  <2>4. QED BY <2>2, <2>3 DEF SameCluster, d
<1>5. DeleteScaledIn(w, s, x, hosts, down) =
        {IF x.pods \cap DOMAIN u.seen = {} THEN Done(u) ELSE Wait(u) : u \in Left}
  BY DEF DeleteScaledIn, Left
<1> HIDE DEF Done, Wait
<1>6. PICK u \in Left : v = Done(u) \/ v = Wait(u) BY <1>5
<1>7. QED BY <1>2, <1>3, <1>4, <1>6 DEF SameCluster, Deleted

\* What the execution of a ScaleIn that deletes the workers ws leaves of the world w.
ScalesIn(v, w, s) ==
    /\ v.launcher = w.launcher
    /\ w.launcher = "Running" => Deleted(v, w) \cap v.hostfile = {}
    /\ s \in DOMAIN v.update => Shown(v.update[s], v.launcher, v.hostfile)
    /\ "ScriptExecuted" \in w.known[s].conds => v.hostfile = w.hostfile

LEMMA ScaleInWorkersIs ==
  ASSUME NEW w, NEW s, Scaler(w, s), ~ScalerSpec[s].script, DOMAIN w.update = {}, w.err = "none",
         w.seenLauncher # "None", NEW x \in ScalerStatus, x.pods # {},
         x.conds = w.known[s].conds, Shown(x, w.launcher, w.hostfile),
         NEW v \in ScaleInWorkers(w, s, x)
  PROVE  ScalesIn(v, w, s)
<1> DEFINE hosts   == w.st.current \ x.pods
           Next0(d) == IF d[1].err = "none" THEN DeleteScaledIn(d[1], s, Executed(x), hosts, d[2])
                                            ELSE {SaveScaler(d[1], s, Executed(x))}
           Wait(u) == UNION {Next0(d) : d \in checkWorkerShutdown(u, s, x.pods)}
           Fail(u) == FinishScaler([u EXCEPT !.err = "none"], s, x, "ScaleFailed")
           Ran     == executeScaleScript(w, s, x, hosts)
<1>1. w \in Worlds /\ hosts \in SUBSET Worker /\ hosts \cap x.pods = {} BY ScalerTypes DEF JobStatus
<1>2. ~isScaleFinished(x) BY DEF Scaler, Handles, isScaleFinished
<1>3. ScaleInWorkers(w, s, x) = UNION {IF u.err = "none" THEN Wait(u) ELSE {Fail(u)} : u \in Ran}
  BY DEF ScaleInWorkers
<1> HIDE DEF hosts
<1>4. ASSUME NEW u \in Ran
      PROVE  /\ u \in Worlds /\ Scaler(u, s) /\ DOMAIN u.update = {}
             /\ u.launcher = w.launcher /\ u.pods = w.pods
             /\ "ScriptExecuted" \in x.conds => u = w
             /\ u.err = "none" /\ u.launcher = "Running" => u.hostfile \cap x.pods = {}
  <2>1. /\ u \in Worlds /\ SameRest(u, w) /\ u.launcher = w.launcher /\ u.pods = w.pods
        /\ IF "ScriptExecuted" \in x.conds THEN u = w ELSE u.err = "none" => u.hostfile = hosts
    BY <1>1, executeScaleScriptIs
  <2>2. Scaler(u, s) BY <2>1, ActsScaler
  <2>3. DOMAIN u.update = {} BY <2>1 DEF SameRest, SameStore
  <2>4. "ScriptExecuted" \in x.conds /\ w.launcher = "Running" => w.hostfile \cap x.pods = {}
    BY <1>2 DEF Shown
  <2>5. QED BY <1>1, <2>1, <2>2, <2>3, <2>4
<1>5. PICK u \in Ran : v \in IF u.err = "none" THEN Wait(u) ELSE {Fail(u)} BY <1>3
<1> HIDE DEF Ran
<1>6. CASE u.err # "none"
  <2> DEFINE z == [u EXCEPT !.err = "none"]
  <2>1. Scaler(z, s) BY <1>4, ErrScaler
  <2>2. SameCluster(z, u) /\ z.pods = u.pods /\ z.update = u.update BY <1>4, ErrIs
  <2> HIDE DEF z
  <2>3. LET f == FinishScaler(z, s, x, "ScaleFailed")
        IN  /\ SameCluster(f, z) /\ f.pods = z.pods
            /\ s \in DOMAIN f.update => isScaleFinished(f.update[s])
    BY <1>4, <2>1, <2>2, FinishScalerIs DEF Scaler
  <2>4. v = FinishScaler(z, s, x, "ScaleFailed") BY <1>5, <1>6 DEF z
  <2>5. v.launcher = w.launcher /\ v.pods = w.pods BY <1>4, <2>2, <2>3, <2>4 DEF SameCluster
  <2>6. "ScriptExecuted" \notin x.conds BY <1>4, <1>6
  <2>7. QED BY <2>3, <2>4, <2>5, <2>6 DEF ScalesIn, Shown, Deleted
<1>7. CASE u.err = "none"
  <2>1. PICK d \in checkWorkerShutdown(u, s, x.pods) : v \in Next0(d) BY <1>5, <1>7
  <2>2. /\ d[1] \in Worlds /\ SameRest(d[1], u) /\ SameCluster(d[1], u) /\ d[1].pods = u.pods
        /\ d[2] \subseteq x.pods
    BY <1>4, <2>1, checkWorkerShutdownIs
  <2>3. Scaler(d[1], s) /\ DOMAIN d[1].update = {}
    BY <1>4, <2>2, ActsScaler DEF SameRest, SameStore
  <2>4. /\ Executed(x) \in ScalerStatus /\ Executed(x).pods = x.pods
    BY ExecutedTypes DEF Executed, ScalerStatus
  <2>5. /\ SameCluster(v, d[1]) /\ Deleted(v, d[1]) \subseteq x.pods
        /\ s \in DOMAIN v.update => v.update[s] = Executed(x) \/ isScaleFinished(v.update[s])
    <3>1. CASE d[1].err = "none"
      <4>1. v \in DeleteScaledIn(d[1], s, Executed(x), hosts, d[2]) BY <2>1, <3>1
      <4> HIDE DEF Next0
      <4>2. QED BY <1>1, <2>2, <2>3, <2>4, <4>1, DeleteScaledInIs
    <3>2. CASE d[1].err # "none"
      <4>1. v = SaveScaler(d[1], s, Executed(x)) BY <2>1, <3>2
      <4> HIDE DEF Next0
      <4>2. QED BY <2>2, <2>3, <4>1, SaveScalerIs DEF Deleted
    <3>3. QED BY <3>1, <3>2
  <2>6. v.launcher = w.launcher /\ v.hostfile = u.hostfile BY <1>4, <2>2, <2>5 DEF SameCluster
  <2>7. Deleted(v, w) \subseteq x.pods BY <1>4, <2>2, <2>5 DEF Deleted
  <2>8. w.launcher = "Running" => v.hostfile \cap x.pods = {} BY <1>4, <1>7, <2>6
  <2>9. "ScriptExecuted" \in w.known[s].conds => v.hostfile = w.hostfile BY <1>4, <2>6
  <2>10. Shown(Executed(x), v.launcher, v.hostfile) BY <2>4, <2>6, <2>8 DEF Shown
  <2>11. s \in DOMAIN v.update => Shown(v.update[s], v.launcher, v.hostfile)
    BY <2>5, <2>10 DEF Shown
  <2>12. QED BY <2>6, <2>7, <2>8, <2>9, <2>11 DEF ScalesIn
<1>8. QED BY <1>6, <1>7

\* The highest of some workers is among the highest.
LEMMA HighestIs ==
  ASSUME NEW ws \in SUBSET Worker, ws # {}, NEW n \in Nat, n > 0
  PROVE  Highest(ws, n) # {} /\ Highest(ws, n) \subseteq ws
<1> DEFINE t == BagOf(ws)
           m == getWorkerPodsMaxIndex(t)
<1>1. t \in [Worker -> Nat] /\ Members(t) = ws BY DEF BagOf, Members
<1> HIDE DEF t
<1>2. m \in ws /\ \A j \in ws : j <= m BY <1>1, HighestMember
<1> HIDE DEF m
<1>3. \A j \in ws : j \in Int /\ m \in Int BY <1>2, NumbersAssumption DEF Worker
<1>4. {j \in ws : j > m} = {} BY <1>2, <1>3
<1>5. Cardinality({j \in ws : j > m}) = 0 BY <1>4, FS_EmptySet
<1>6. QED BY <1>2, <1>5 DEF Highest

LEMMA executeScaleInIs ==
  ASSUME NEW w, NEW s, Scaler(w, s), ScalerSpec[s].by = "count", ~ScalerSpec[s].script,
         DOMAIN w.update = {}, w.err = "none", w.seenLauncher # "None",
         Shown(w.known[s], w.launcher, w.hostfile), NEW v \in executeScaleIn(w, s)
  PROVE  ScalesIn(v, w, s)
<1> DEFINE x == w.known[s]
           ws == setsSaleInToDelete(s, w)
           y == [x EXCEPT !.pods = ws]
           z == FinishScaler(w, s, x, "ScaleFailed")
<1>1. w \in Worlds /\ s \in Scalers /\ x \in ScalerStatus /\ CanScale(w)
  BY ScalerTypes DEF Scaler
<1>2. ~isScaleFinished(x) BY DEF Scaler, Handles
<1>3. \/ x.pods # {} /\ v \in ScaleInWorkers(w, s, x)
      \/ x.pods = {} /\ CanChoose(s, w) /\ v \in ScaleInWorkers(w, s, y)
      \/ v = z
  BY DEF executeScaleIn
<1>4. CASE x.pods # {} /\ v \in ScaleInWorkers(w, s, x) BY <1>1, <1>4, ScaleInWorkersIs
<1>5. CASE x.pods = {} /\ CanChoose(s, w) /\ v \in ScaleInWorkers(w, s, y)
  <2>1. DOMAIN w.seen \in SUBSET Worker BY <1>1, PodMapIs DEF Worlds, IsPodMap
  <2>2. ScalerSpec[s].count \in Int BY <1>1, ScalersAssumption DEF ScalerSpecs
  <2>3. ScalerSpec[s].count > 0 /\ ScalerSpec[s].count < Cardinality(DOMAIN w.seen)
    BY <1>5 DEF CanChoose
  <2>4. DOMAIN w.seen # {} BY <2>1, <2>2, <2>3, FS_EmptySet
  <2>5. ScalerSpec[s].count \in Nat BY <2>2, <2>3
  <2>6. ws # {} /\ ws \subseteq Worker
    BY <2>1, <2>3, <2>4, <2>5, HighestIs DEF setsSaleInToDelete
  <2> HIDE DEF ws
  <2>7. y \in ScalerStatus /\ y.pods # {} /\ y.conds = x.conds BY <1>1, <2>6 DEF ScalerStatus
  <2>8. "ScriptExecuted" \notin x.conds BY <1>2, <1>5 DEF Shown
  <2>9. Shown(y, w.launcher, w.hostfile) BY <2>7, <2>8 DEF Shown
  <2> HIDE DEF y
  <2>10. QED BY <1>5, <2>7, <2>9, ScaleInWorkersIs
<1>6. CASE v = z
  <2>1. /\ SameCluster(z, w) /\ z.pods = w.pods
        /\ s \in DOMAIN z.update => isScaleFinished(z.update[s])
    BY <1>1, FinishScalerIs
  <2> HIDE DEF z
  <2>2. QED BY <1>6, <2>1 DEF ScalesIn, Shown, Deleted, SameCluster
<1>7. QED BY <1>3, <1>4, <1>5, <1>6

\* The execution of a ScaleOut does not touch the launcher.
LEMMA ScaleOutFailedLauncher ==
  ASSUME NEW w, NEW s, Scaler(w, s), NEW x \in ScalerStatus, DOMAIN w.update = {},
         NEW err \in {"none", "requeue", "error"}
  PROVE  SameLauncher(ScaleOutFailed(w, s, x, err), w)
<1> DEFINE End(u)  == FinishScaler(u, s, x, "ScaleFailed")
           Fail(u) == [End(u) EXCEPT !.err = err]
<1>1. w \in Worlds /\ s \in Scalers BY ScalerTypes
<1>2. ASSUME NEW u \in CatchUp(w)
      PROVE  /\ u \in Worlds /\ Scaler(u, s) /\ DOMAIN u.update = {} /\ u.launcher = w.launcher
  BY <1>1, CatchUpCluster, ActsScaler DEF SameRest, SameStore, SameCluster
<1>3. ASSUME NEW u \in CatchUp(w) PROVE End(u) \in Worlds /\ End(u).launcher = w.launcher
  <2>1. CanScale(u) BY <1>2 DEF Scaler
  <2>2. End(u) \in Worlds BY <1>1, <2>1, FinishScalerGood DEF Good, ScalerCondition
  <2>3. QED BY <1>2, <2>1, <2>2, FinishScalerIs DEF SameCluster
<1> HIDE DEF End
<1>4. ASSUME NEW u \in CatchUp(w) PROVE Fail(u) \in Worlds /\ Fail(u).launcher = w.launcher
  <2>1. Fail(u) \in Worlds BY <1>3, ErrDoes
  <2>2. SameCluster(Fail(u), End(u)) BY <1>3, ErrIs
  <2> HIDE DEF Fail
  <2>3. QED BY <1>3, <2>1, <2>2 DEF SameCluster
<1>5. ScaleOutFailed(w, s, x, err) = UNION {DeleteWorkerPods(Fail(u), x.pods) : u \in CatchUp(w)}
  BY DEF ScaleOutFailed, End
<1> HIDE DEF Fail
<1>6. QED BY <1>4, <1>5, DeleteWorkerPodsIs DEF SameLauncher, SameCluster

LEMMA AwaitWorkersLauncher ==
  ASSUME NEW w, NEW s, Scaler(w, s), NEW x \in ScalerStatus, DOMAIN w.update = {}
  PROVE  SameLauncher(AwaitWorkers(w, s, x), w)
<1> DEFINE d == SaveScaler(w, s, x)
           v == [d EXCEPT !.err = "requeue"]
<1>1. w \in Worlds /\ s \in Scalers BY ScalerTypes
<1>2. d \in Worlds /\ d.launcher = w.launcher
  BY <1>1, SaveScalerKeeps, SaveScalerIs DEF SameCluster
<1> HIDE DEF d
<1>3. v.launcher = w.launcher BY <1>2, ErrIs DEF SameCluster
<1>4. SameLauncher(ScaleOutFailed(w, s, x, "requeue"), w) BY ScaleOutFailedLauncher
<1>5. AwaitWorkers(w, s, x)
        = {v} \cup (IF "Scaling" \in x.conds THEN ScaleOutFailed(w, s, x, "requeue") ELSE {})
  BY DEF AwaitWorkers, d
<1> HIDE DEF v
<1>6. QED BY <1>3, <1>4, <1>5 DEF SameLauncher

LEMMA AddWorkersLauncher ==
  ASSUME NEW w, NEW s, Scaler(w, s), NEW x \in ScalerStatus, DOMAIN w.update = {}, w.err = "none"
  PROVE  SameLauncher(AddWorkers(w, s, x), w)
<1> DEFINE t       == Append(w.st.target, x.pods)
           Full0   == \E i \in Worker : t[i] > MaxCopies
           More(u) == [u EXCEPT !.st.target = t]
           Done(u) == FinishScaler(More(u), s, Executed(x), "ScaleSucceeded")
           Next0(u) == CASE u.err # "none" -> ScaleOutFailed(u, s, x, "error")
                         [] u.err = "none" /\ Full0 -> {}
                         [] OTHER -> {Done(u)}
           Ran     == executeScaleScript(w, s, x, w.st.current \cup x.pods)
<1>1. w \in Worlds /\ w.st \in JobStatus BY ScalerTypes
<1>2. t \in [Worker -> Nat] BY <1>1, AppendIsBag DEF JobStatus
<1>3. w.st.current \cup x.pods \in SUBSET Worker BY <1>1 DEF JobStatus, ScalerStatus
<1>4. AddWorkers(w, s, x) = UNION {Next0(u) : u \in Ran} BY DEF AddWorkers
<1> HIDE DEF t, Full0
<1>5. \A u \in Ran : u \in Worlds /\ Scaler(u, s) /\ DOMAIN u.update = {} /\ u.launcher = w.launcher
  BY <1>1, <1>3, executeScaleScriptIs, ActsScaler DEF SameRest, SameStore
<1> HIDE DEF Ran
<1>6. ASSUME NEW u \in Ran PROVE Done(u).launcher = w.launcher
  <2>1. u \in Worlds /\ CanScale(u) BY <1>5 DEF Scaler
  <2>2. CanScale(More(u)) BY <1>2, <2>1, TargetKeeps, CanScaleSameStage DEF CanScale
  <2>3. More(u).update = u.update /\ More(u).launcher = u.launcher BY <2>1 DEF Worlds
  <2> HIDE DEF More
  <2>4. Executed(x) \in ScalerStatus BY ExecutedTypes
  <2>5. QED BY <1>5, <2>2, <2>3, <2>4, FinishScalerIs DEF SameCluster
<1> HIDE DEF Done
<1>7. ASSUME NEW u \in Ran PROVE SameLauncher(Next0(u), w)
  <2>1. SameLauncher(ScaleOutFailed(u, s, x, "error"), u) BY <1>5, ScaleOutFailedLauncher
  <2>2. QED BY <1>5, <1>6, <2>1 DEF SameLauncher
<1> HIDE DEF Next0
<1>8. QED BY <1>4, <1>7 DEF SameLauncher

LEMMA ScaleOutWorkersLauncher ==
  ASSUME NEW w, NEW s, Scaler(w, s), NEW x \in ScalerStatus, DOMAIN w.update = {}
  PROVE  SameLauncher(ScaleOutWorkers(w, s, x), w)
<1> DEFINE Waits(u) == Cardinality(Active(u, s)) < ScalerSpec[s].count
           Next0(u) == CASE u.err # "none" -> ScaleOutFailed(u, s, x, "error")
                         [] u.err = "none" /\ Waits(u) -> AwaitWorkers(u, s, x)
                         [] OTHER -> AddWorkers(u, s, x)
           Made     == createWorkers(w, x.pods, s)
<1>1. ScaleOutWorkers(w, s, x) = UNION {Next0(u) : u \in Made} BY DEF ScaleOutWorkers
<1>2. w \in Worlds /\ s \in Scalers \cup {NoScaler} BY ScalerTypes
<1>3. \A u \in Made : Scaler(u, s) /\ DOMAIN u.update = {} /\ u.launcher = w.launcher
  BY <1>2, createWorkersMakes, ActsScaler DEF SameRest, SameStore, SameCluster
<1> HIDE DEF Waits, Made
<1>4. ASSUME NEW u \in Made PROVE SameLauncher(Next0(u), u)
  BY <1>3, ScaleOutFailedLauncher, AwaitWorkersLauncher, AddWorkersLauncher
<1> HIDE DEF Next0
<1>5. QED BY <1>1, <1>3, <1>4 DEF SameLauncher

LEMMA executeScaleOutLauncher ==
  ASSUME NEW w, NEW s, Scaler(w, s), DOMAIN w.update = {}
  PROVE  SameLauncher(executeScaleOut(w, s), w)
<1> DEFINE x == w.known[s]
           names == WorkersOf(w, s)
           y == [x EXCEPT !.pods = names]
           z == FinishScaler(w, s, x, "ScaleFailed")
<1>1. w \in Worlds /\ s \in Scalers /\ x \in ScalerStatus /\ CanScale(w) BY ScalerTypes DEF Scaler
<1>2. executeScaleOut(w, s) = IF ScalerSpec[s].count <= 0 THEN {Error(z)}
                              ELSE ScaleOutWorkers(w, s, y)
  BY DEF executeScaleOut, WorkersOf
<1>3. y.pods = names /\ (names \subseteq Worker => y \in ScalerStatus) BY <1>1 DEF ScalerStatus
<1>4. z \in Worlds BY <1>1, FinishScalerGood DEF Good, ScalerCondition
<1>5. z.launcher = w.launcher BY <1>1, FinishScalerIs DEF SameCluster
<1> HIDE DEF x, y, z, names
<1>6. Error(z).launcher = w.launcher BY <1>4, <1>5, ErrorIs DEF SameCluster
<1>7. CASE names \subseteq Worker BY <1>2, <1>3, <1>6, <1>7, ScaleOutWorkersLauncher DEF SameLauncher
<1>8. CASE ~(names \subseteq Worker)
  <2>1. createWorkers(w, y.pods, s) = {} BY <1>3, <1>8 DEF createWorkers
  <2>2. ScaleOutWorkers(w, s, y) = {} BY <2>1 DEF ScaleOutWorkers
  <2>3. QED BY <1>2, <1>6, <2>2 DEF SameLauncher
<1>9. QED BY <1>7, <1>8

\* What a handler that began in w leaves of the launcher: it is created once, for a
\* job that does not run before the launcher was seen to.
Leads(v, w) ==
    IF w.st.phase \in {"New", "Created"}
    THEN /\ v.st.scaler = w.st.scaler /\ v.seenLauncher = w.seenLauncher
         /\ \/ v.launcher = w.launcher /\ (v.st.phase = "Running" => w.seenLauncher = "Running")
            \/ w.seenLauncher = "None" /\ v.launcher = "Pending" /\ v.st.phase # "Running"
    ELSE /\ v.launcher \in {w.launcher, "None"}
         /\ w.st.phase \in {"Succeeded", "Failed", "Suspended"} =>
              v.st = w.st /\ v.seenLauncher = w.seenLauncher

LEMMA doStepsLeads ==
  ASSUME LauncherPolicy = "Never", NEW w, Good(w), Unfinished(w.st), w.err = "none",
         w.st.phase \in {"New", "Created"}, NEW v \in doSteps(w)
  PROVE  Leads(v, w)
<1>1. w \in Worlds /\ w.st \in JobStatus BY DEF Good, Worlds
<1>2. v.st.scaler = w.st.scaler /\ v.seenLauncher = w.seenLauncher BY doStepsDoes DEF SameView
<1>3. ASSUME NEW c, Took(v.st, w.st, c) PROVE v.st.phase # "Running" BY <1>3 DEF Took
<1>4. CASE "WorkersCreated" \notin w.st.conds
  <2>1. v \in createTrainingJobWorkers(w) BY <1>4 DEF doSteps
  <2>2. v.launcher = w.launcher /\ v.st.phase # "Running"
    BY <1>3, <2>1, createTrainingJobWorkersDoes, createTrainingJobWorkersIs DEF SameCluster
  <2>3. QED BY <1>2, <2>2 DEF Leads
<1>5. CASE "WorkersCreated" \in w.st.conds /\ "WorkersReady" \notin w.st.conds
  <2> DEFINE Done(u) == [u EXCEPT !.st = updateJobConditions(u.st, "WorkersReady")]
  <2>1. v \in waitWorkersRunning(w) BY <1>5 DEF doSteps
  <2>2. PICK u \in handleWorkersFailed(w) : v = u \/ v = Done(u)
    BY <2>1 DEF waitWorkersRunning
  <2>3. u \in Worlds /\ u.launcher = w.launcher
    BY handleWorkersFailedRests, handleWorkersFailedKeeps DEF SameStage, Good
  <2>4. Done(u).launcher = u.launcher BY <2>3, StatusIs DEF SameCluster
  <2> HIDE DEF Done
  <2>5. v.st.phase = w.st.phase BY <2>1, waitWorkersRunningDoes
  <2>6. QED BY <1>2, <2>2, <2>3, <2>4, <2>5 DEF Leads
<1>6. CASE /\ {"WorkersCreated", "WorkersReady"} \subseteq w.st.conds
           /\ "LauncherCreated" \notin w.st.conds
  <2>1. v \in createLauncher(w) BY <1>6 DEF doSteps
  <2>2. v.st.phase # "Running" BY <1>3, <2>1, createLauncherDoes
  <2>3. v.launcher = w.launcher \/ (w.seenLauncher = "None" /\ v.launcher = "Pending")
    BY <2>1, createLauncherIs
  <2>4. QED BY <1>2, <2>2, <2>3 DEF Leads
<1>7. CASE /\ {"WorkersCreated", "WorkersReady", "LauncherCreated"} \subseteq w.st.conds
           /\ "Running" \notin w.st.conds
  <2>1. v \in syncLauncherState(w) BY <1>7 DEF doSteps
  <2>2. /\ v.launcher = w.launcher
        /\ \/ v.st.phase \in {"Succeeded", "Failed"}
           \/ v.st.phase = "Running" /\ w.seenLauncher = "Running"
           \/ v.st = w.st
    BY <1>1, <2>1, LooksAtLauncher
  <2>3. QED BY <1>2, <2>2 DEF Leads
<1>8. CASE {"WorkersCreated", "WorkersReady", "LauncherCreated", "Running"} \subseteq w.st.conds
  <2>1. v = w BY <1>8 DEF doSteps
  <2>2. QED BY <2>1 DEF Leads
<1>9. QED BY <1>4, <1>5, <1>6, <1>7, <1>8

LEMMA CreatedLeads ==
  ASSUME LauncherPolicy = "Never", NEW w, Good(w), w.err = "none", w.st.phase \in {"New", "Created"},
         NEW v \in doSteps(initializeJob(w))
  PROVE  Leads(v, w) /\ v.update = w.update
<1> DEFINE u == initializeJob(w)
<1>1. w \in Worlds /\ w.st \in JobStatus BY DEF Good, Worlds
<1>2. Good(u) /\ Unfinished(u.st) BY initializeJobGood
<1>3. u.seenLauncher = w.seenLauncher /\ u.st.scaler = w.st.scaler /\ u.update = w.update
  BY <1>1, initializeJobDoes DEF SameStore, SameView
<1>4. u.launcher = w.launcher /\ u.err = w.err /\ u.st.phase \in {"New", "Created"}
  <2> DEFINE st == updateStatus(w.st, "Created")
  <2>1. u = w \/ u = [w EXCEPT !.st = st] BY DEF initializeJob
  <2>2. st.phase = "Created" BY <1>1, ConditionWorkers
  <2> HIDE DEF st, u
  <2>3. LET x == [w EXCEPT !.st = st]
        IN  x.err = w.err /\ x.launcher = w.launcher /\ x.st = st
    BY <1>1, StatusIs DEF SameCluster
  <2>4. QED BY <2>1, <2>2, <2>3
<1> HIDE DEF u
<1>5. Leads(v, u) BY <1>2, <1>4, doStepsLeads DEF u
<1>6. v.update = u.update BY <1>2, doStepsDoes DEF SameScalers, u
<1>7. QED BY <1>3, <1>4, <1>5, <1>6 DEF Leads

\* A running job leaves the launcher alone; the scaler it takes up keeps its workers
\* and what has become of its script.
TakesUp(v, w) ==
    \A s \in DOMAIN v.update :
        /\ s \in DOMAIN w.known
        /\ v.update[s].pods = w.known[s].pods
        /\ v.update[s].conds = w.known[s].conds \cup {"Scaling"}

LEMMA StartScalerIs ==
  ASSUME NEW w \in Worlds, NEW s \in DOMAIN w.known, DOMAIN w.update = {}
  PROVE  LET v == StartScaler(w, s) IN v.launcher = w.launcher /\ TakesUp(v, w)
<1> DEFINE u == [w EXCEPT !.st.phase = "Scaling", !.st.scaler = s]
           y == [w.known[s] EXCEPT !.conds = @ \cup {"Scaling"}]
           m == [r \in {s} |-> y]
<1>1. w.known[s] \in ScalerStatus BY KnownTypes DEF Worlds
<1>2. y.pods = w.known[s].pods /\ y.conds = w.known[s].conds \cup {"Scaling"}
  BY <1>1 DEF ScalerStatus
<1>3. u.update = w.update /\ u.launcher = w.launcher BY DEF Worlds
<1>4. DOMAIN m = {s} /\ m[s] = y OBVIOUS
<1>5. StartScaler(w, s) = u \/ StartScaler(w, s) = [u EXCEPT !.update = m]
  BY DEF StartScaler, SaveScaler
<1> HIDE DEF y, m
<1>6. [u EXCEPT !.update = m].update = m /\ [u EXCEPT !.update = m].launcher = u.launcher
  BY DEF Worlds
<1> HIDE DEF u
<1>7. QED BY <1>2, <1>3, <1>4, <1>5, <1>6 DEF TakesUp

LEMMA RunningIs ==
  ASSUME LauncherPolicy = "Never", NEW w, Good(w), w.err = "none", w.st.phase = "Running",
         DOMAIN w.update = {}, NEW v \in reconcileJobRunning(w)
  PROVE  v.launcher = w.launcher /\ TakesUp(v, w)
<1> DEFINE Looked == UNION {handleWorkersFailed(u) : u \in syncLauncherState(w)}
<1>1. w \in Worlds /\ Unfinished(w.st) /\ "LauncherCreated" \in w.st.conds
  BY LivePhaseIsUnfinished DEF Good, Consistent, StepOrder
<1>2. \A u \in syncLauncherState(w) : Good(u) /\ SameStore(u, w) /\ u.launcher = w.launcher
  BY <1>1, syncLauncherStateGood, syncLauncherStateDoes, LooksAtLauncher
<1>3. \A d \in Looked : Good(d) /\ SameStore(d, w) /\ d.launcher = w.launcher
  BY <1>2, handleWorkersFailedDoes, handleWorkersFailedRests DEF SameStore
<1>4. reconcileJobRunning(w) =
        UNION {IF d.err = "none" /\ d.st.phase = "Running" THEN setTrainingJobScaler(d) ELSE {d} :
                 d \in Looked}
  BY DEF reconcileJobRunning
<1> HIDE DEF Looked
<1>5. PICK d \in Looked : v \in setTrainingJobScaler(d) \/ v = d BY <1>4
<1>6. d \in Worlds /\ d.known = w.known /\ DOMAIN d.update = {} /\ d.launcher = w.launcher
  BY <1>3 DEF Good, SameStore
<1>7. CASE v = d BY <1>6, <1>7 DEF TakesUp
<1>8. ASSUME NEW s \in availableScalers(d), v = StartScaler(d, s)
      PROVE  v.launcher = w.launcher /\ TakesUp(v, w)
  <2>1. s \in DOMAIN d.known BY DEF availableScalers
  <2>2. QED BY <1>6, <1>8, <2>1, StartScalerIs DEF TakesUp
<1>9. v = d \/ \E s \in availableScalers(d) : v = StartScaler(d, s)
  BY <1>5 DEF setTrainingJobScaler, latestScalers
<1>10. QED BY <1>7, <1>8, <1>9

\* The handler of a job that ended may delete the launcher, with its hostfile.
LEMMA EndedIs ==
  ASSUME NEW w \in Worlds, NEW v, v \in cleanup(w) \/ v \in cleanupAll(w)
  PROVE  /\ v.st = w.st /\ v.seenLauncher = w.seenLauncher /\ v.update = w.update
         /\ SameCluster(v, w) \/ v.launcher = "None"
<1>1. \A d \in DeleteAllWorkerPods(w) :
        d \in Worlds /\ SameRest(d, w) /\ SameView(d, w) /\ SameCluster(d, w)
  BY DeletedIs, DeleteWorkerPodsIs DEF DeleteAllWorkerPods
<1>2. ASSUME NEW d \in Worlds, NEW x \in DeleteLauncher(d)
      PROVE  /\ SameRest(x, d) /\ SameView(x, d)
             /\ SameCluster(x, d) \/ x.launcher = "None"
  <2>1. SameRest(x, d) /\ SameView(x, d) BY DeleteLauncherActs DEF Acts
  <2>2. [d EXCEPT !.launcher = "None", !.hostfile = {}].launcher = "None" BY DEF Worlds
  <2>3. \A y \in Fault(d, "apiError") : SameCluster(y, d) BY FaultCluster
  <2>4. QED BY <2>1, <2>2, <2>3 DEF DeleteLauncher, SameCluster
<1>3. CASE v \in cleanup(w)
  BY <1>1, <1>3 DEF cleanup, SameRest, SameStore, SameView, SameCluster
<1>4. CASE v \in cleanupAll(w)
  <2>1. PICK d \in DeleteAllWorkerPods(w) : v \in DeleteLauncher(d) BY <1>4 DEF cleanupAll
  <2>2. QED BY <1>1, <1>2, <2>1 DEF SameRest, SameStore, SameView, SameCluster
<1>5. QED BY <1>3, <1>4

\* The ScaleIns, and that each says how many workers to delete and leaves the
\* hostfile to the operator: neither workers that it names itself nor a script of
\* its own.
Ins == {s \in Scalers : ScalerSpec[s].kind = "in"}

Rewriting == \A s \in Ins : ScalerSpec[s].by = "count" /\ ~ScalerSpec[s].script

LEMMA ScalingIs ==
  ASSUME LauncherPolicy = "Never", Rewriting, NEW w, Good(w), w.err = "none",
         w.st.phase = "Scaling", DOMAIN w.update = {}, NEW t, t = w.st.scaler,
         t \in Ins /\ t \in DOMAIN w.known => Shown(w.known[t], w.launcher, w.hostfile),
         NEW v \in executeScaling(w)
  PROVE  /\ v.launcher = w.launcher /\ DOMAIN v.update \subseteq {t}
         /\ t \in Ins => ScalesIn(v, w, t)
<1>1. /\ w \in Worlds /\ w.st \in JobStatus /\ Unfinished(w.st)
      /\ {"Running", "LauncherCreated"} \subseteq w.st.conds /\ t # NoScaler
  BY LivePhaseIsUnfinished DEF Good, Worlds, Consistent, StepOrder, ScalingHasScaler
<1>2. PICK u \in syncLauncherState(w) : v \in ExecuteScaler(u) BY DEF executeScaling
<1>3. /\ Good(u) /\ u.st.scaler = t /\ (u.st = w.st \/ isFinished(u.st))
      /\ u.known = w.known /\ DOMAIN u.update = {}
  BY <1>1, syncLauncherStateGood, syncLauncherStateDoes DEF SameStore
<1>4. /\ u.pods = w.pods /\ u.err = "none" /\ SameCluster(u, w)
      /\ u.seenLauncher = w.seenLauncher
      /\ u.st = w.st => w.seenLauncher # "None"
  BY <1>1, syncLauncherStateIs, LooksAtLauncher DEF SameView, SameCluster
<1>5. ASSUME SameCluster(v, w), v.pods = w.pods, DOMAIN v.update = {}
      PROVE  /\ v.launcher = w.launcher /\ DOMAIN v.update \subseteq {t}
             /\ t \in Ins => ScalesIn(v, w, t)
  BY <1>5 DEF ScalesIn, SameCluster, Deleted
<1>6. CASE isFinished(u.st)
  <2>1. v = u BY <1>1, <1>2, <1>3, <1>6 DEF ExecuteScaler
  <2>2. QED BY <1>3, <1>4, <1>5, <2>1
<1>7. CASE ~isFinished(u.st)
  <2>1. u.st = w.st /\ u.seenLauncher # "None" BY <1>3, <1>4, <1>7
  <2>2. CASE t \notin DOMAIN u.known \/ isScaleFinished(u.known[t])
    <3> DEFINE g == [u EXCEPT !.st.phase = "Running", !.st.scaler = NoScaler]
    <3>1. v = g BY <1>1, <1>2, <1>3, <1>7, <2>2 DEF ExecuteScaler
    <3>2. g.launcher = u.launcher /\ g.hostfile = u.hostfile /\ g.pods = u.pods /\ g.update = u.update
      BY <1>3 DEF Good, Worlds
    <3> HIDE DEF g
    <3>3. QED BY <1>3, <1>4, <1>5, <3>1, <3>2 DEF SameCluster
  <2>3. CASE t \in DOMAIN u.known /\ ~isScaleFinished(u.known[t])
    <3>1. Scaler(u, t)
      BY <1>1, <1>3, <1>7, <2>1, <2>3
      DEF Scaler, CanScale, Handles, Records, isFinished, Unfinished
    <3>2. v \in IF ScalerSpec[t].kind = "in" THEN executeScaleIn(u, t) ELSE executeScaleOut(u, t)
      BY <1>1, <1>2, <1>3, <1>7, <2>3 DEF ExecuteScaler
    <3>3. DOMAIN v.update \subseteq {t}
      BY <3>1, <3>2, executeScaleInScaled, executeScaleOutScaled
      DEF AllScaled, ScaledFrom, Handles, Records
    <3>4. t \in Scalers BY <3>1, ScalerTypes
    <3>5. CASE t \in Ins
      <4>1. /\ ScalerSpec[t].by = "count" /\ ~ScalerSpec[t].script /\ v \in executeScaleIn(u, t)
            /\ Shown(u.known[t], u.launcher, u.hostfile)
        BY <1>3, <1>4, <2>3, <3>2, <3>5 DEF Rewriting, Ins, SameCluster
      <4>2. ScalesIn(v, u, t) BY <1>3, <1>4, <2>1, <3>1, <4>1, executeScaleInIs
      <4>3. ScalesIn(v, w, t) BY <1>3, <1>4, <4>2 DEF ScalesIn, SameCluster, Deleted
      <4>4. QED BY <3>3, <4>3 DEF ScalesIn
    <3>6. CASE t \notin Ins
      <4>1. v \in executeScaleOut(u, t) BY <3>2, <3>4, <3>6 DEF Ins
      <4>2. v.launcher = u.launcher BY <1>3, <3>1, <4>1, executeScaleOutLauncher DEF SameLauncher
      <4>3. QED BY <1>4, <3>3, <3>6, <4>2 DEF SameCluster
    <3>7. QED BY <3>5, <3>6
  <2>4. QED BY <2>2, <2>3
<1>8. QED BY <1>6, <1>7

\* What the handler leaves of the launcher in the job's world, where it is not restarted.
LEMMA HandleLeads ==
  ASSUME IInv, Handle, Steady, LauncherPolicy = "Never", Rewriting,
         \A s \in Ins \cap DOMAIN scalerCache : Shown(scalerCache[s], launcher, hostfile)
  PROVE  \E w : /\ Leave(w) /\ Leads(w, Observed)
                /\ mine.phase \in {"New", "Created"} => DOMAIN w.update = {}
                /\ mine.phase = "Running" => TakesUp(w, Observed)
                /\ mine.phase = "Scaling" => /\ DOMAIN w.update \subseteq {mine.scaler}
                                             /\ mine.scaler \in Ins => ScalesIn(w, Observed, mine.scaler)
                /\ mine.phase \in {"Succeeded", "Failed", "Suspended"} =>
                     DOMAIN w.update = {} /\ (SameCluster(w, Observed) \/ w.launcher = "None")
<1> DEFINE o == Observed
           Does(w) == /\ Leads(w, o)
                      /\ o.st.phase \in {"New", "Created"} => DOMAIN w.update = {}
                      /\ o.st.phase = "Running" => TakesUp(w, o)
                      /\ o.st.phase = "Scaling" => /\ DOMAIN w.update \subseteq {o.st.scaler}
                                                   /\ o.st.scaler \in Ins => ScalesIn(w, o, o.st.scaler)
                      /\ o.st.phase \in {"Succeeded", "Failed", "Suspended"} =>
                           DOMAIN w.update = {} /\ (SameCluster(w, o) \/ w.launcher = "None")
<1>1. /\ Good(o) /\ o \in Worlds /\ o.st \in JobStatus /\ o.st = mine /\ o.err = "none"
      /\ DOMAIN o.update = {} /\ o.known = scalerCache
      /\ o.launcher = launcher /\ o.hostfile = hostfile
  BY ObservedGood DEF Observed, EmptyMap, Good, Worlds
<1>2. ~needRestartJob(o.st) BY <1>1, NumbersAssumption DEF needRestartJob, Steady, JobStatus
<1> HIDE DEF o
<1>3. ASSUME HandleCreated, NEW w \in doSteps(initializeJob(o)) PROVE Does(w)
  BY <1>1, <1>3, CreatedLeads DEF HandleCreated, AtHandler
<1>4. ASSUME HandleRunning, NEW w \in reconcileJobRunning(o) PROVE Does(w)
  BY <1>1, <1>4, RunningIs DEF HandleRunning, AtHandler, Leads
<1>5. ASSUME HandleScaling, NEW w \in executeScaling(o) PROVE Does(w)
  <2>1. o.st.phase = "Scaling" BY <1>1, <1>5 DEF HandleScaling, AtHandler
  <2>2. o.st.scaler \in Ins /\ o.st.scaler \in DOMAIN o.known
        => Shown(o.known[o.st.scaler], o.launcher, o.hostfile)
    BY <1>1
  <2>3. /\ w.launcher = o.launcher /\ DOMAIN w.update \subseteq {o.st.scaler}
        /\ o.st.scaler \in Ins => ScalesIn(w, o, o.st.scaler)
    BY <1>1, <1>5, <2>1, <2>2, ScalingIs
  <2>4. QED BY <2>1, <2>3 DEF Leads
<1>6. ASSUME NEW w \in cleanup(o) \cup cleanupAll(o), o.st.phase \in {"Succeeded", "Failed", "Suspended"}
      PROVE  Does(w)
  <2>1. /\ w.st = o.st /\ w.seenLauncher = o.seenLauncher /\ w.update = o.update
        /\ SameCluster(w, o) \/ w.launcher = "None"
    BY <1>1, EndedIs
  <2>2. QED BY <1>1, <1>6, <2>1 DEF Leads, SameCluster
<1>7. HandleSucceeded \/ HandleFailed \/ HandleSuspended
      => o.st.phase \in {"Succeeded", "Failed", "Suspended"}
  BY <1>1 DEF HandleSucceeded, HandleFailed, HandleSuspended, AtHandler
<1>8. \/ HandleCreated /\ \E w \in doSteps(initializeJob(o)) : Leave(w)
      \/ HandleRunning /\ \E w \in reconcileJobRunning(o) : Leave(w)
      \/ HandleScaling /\ \E w \in executeScaling(o) : Leave(w)
      \/ /\ HandleSucceeded \/ HandleFailed \/ HandleSuspended
         /\ \E w \in cleanup(o) \cup cleanupAll(o) : Leave(w)
  BY <1>2 DEF Handle, HandleCreated, HandleRunning, HandleScaling, HandleSucceeded, HandleFailed,
     HandleSuspended, restartJob, o
<1>9. PICK w : Leave(w) /\ Does(w) BY <1>3, <1>4, <1>5, <1>6, <1>7, <1>8
<1>10. QED BY <1>1, <1>9 DEF o

\* With the launcher in the state l, a job of the status st that runs, or has a
\* scaler, has seen it run: it has not to be started any more.
Settled(st, l) ==
    /\ st.phase \in {"New", "Created"} => st.scaler = NoScaler
    /\ st.phase = "Running" \/ st.scaler # NoScaler => l # "Pending"

LaunchInv ==
    /\ Settled(job.status, launcher)
    /\ pc \in {"writeScaler", "writeJob"} => Settled(mine, launcher)
    /\ CreatedOnce(launcher, launcherCache)

ShownInv ==
    \A s \in Ins :
      /\ s \in DOMAIN scalers => Shown(scalers[s], launcher, hostfile)
      /\ s \in DOMAIN update => Shown(update[s], launcher, hostfile)

LEMMA CachedScalers ==
  ASSUME IInv, CachesAgree, Steady
  PROVE  /\ DOMAIN scalerCache = DOMAIN scalers /\ DOMAIN scalers \subseteq Scalers
         /\ \A s \in DOMAIN scalers : scalerCache[s] = scalers[s]
<1>1. lag \cap Scalers = {} /\ DOMAIN scalerCache \subseteq Scalers /\ DOMAIN scalers \subseteq Scalers
  BY ClusterAssumption DEF IInv, TypeOK, IsScalerMap, Steady
<1>2. QED BY <1>1 DEF CachesAgree, ScalerAgrees

\* What becomes of the statuses, the scalers and their update between the handlers.
LEMMA StatusesStay ==
  ASSUME IInv, LifeInv, Steady, [Next]_vars, ~Handle
  PROVE  /\ job'.status = job.status \/ (pc = "writeJob" /\ job'.status = mine)
         /\ pc' \in {"writeScaler", "writeJob"} => pc \in {"writeScaler", "writeJob"} /\ mine' = mine
<1>1. ASSUME Sync \/ Environment \/ UNCHANGED vars
      PROVE  job'.status = job.status /\ pc' = pc /\ mine' = mine
  BY <1>1, OthersLive
<1>2. ASSUME Start PROVE job'.status = job.status /\ pc' = "handle" BY <1>2 DEF Start, api
<1>3. ASSUME WriteScaler
      PROVE  job'.status = job.status /\ pc = "writeScaler" /\ mine' = mine
  BY <1>3 DEF WriteScaler
<1>4. ASSUME WriteJob PROVE job'.status = mine /\ pc = "writeJob" /\ pc' = "idle"
  BY <1>4, WrittenStatus DEF WriteJob, EndReconcile
<1>5. ASSUME Crash PROVE job'.status = job.status /\ pc' = "idle" BY <1>5 DEF Crash, api
<1>6. QED BY <1>1, <1>2, <1>3, <1>4, <1>5 DEF Next, Reconcile

LEMMA ScalersStay ==
  ASSUME [Next]_vars, ~Handle, Steady
  PROVE  /\ \A s \in DOMAIN scalers' :
              \/ s \in DOMAIN scalers /\ scalers'[s] = scalers[s]
              \/ s \in DOMAIN update /\ scalers'[s] = update[s]
              \/ scalers'[s].conds = {}
         /\ \A s \in DOMAIN update' : s \in DOMAIN update /\ update'[s] = update[s]
<1>1. ASSUME NEW s, SubmitScaler(s) \/ DeleteScaler(s)
      PROVE  /\ update' = update
             /\ \A r \in DOMAIN scalers' : \/ r \in DOMAIN scalers /\ scalers'[r] = scalers[r]
                                           \/ scalers'[r].conds = {}
  <2>1. CASE SubmitScaler(s) BY <2>1 DEF SubmitScaler, local
  <2>2. CASE DeleteScaler(s) BY <2>2 DEF DeleteScaler, Restrict, local
  <2>3. QED BY <1>1, <2>1, <2>2
<1>2. ASSUME Start \/ Sync \/ WriteJob \/ UNCHANGED vars PROVE scalers' = scalers /\ update' = update
  BY <1>2 DEF Start, Sync, SyncJob, SyncPods, SyncScaler, WriteJob, EndReconcile, api, local, vars
<1>3. ASSUME Environment, \A s : ~SubmitScaler(s) /\ ~DeleteScaler(s)
      PROVE  scalers' = scalers /\ update' = update
  BY <1>3 DEF Environment, WorkerRuns, WorkerEnds, WorkerLost, LauncherRuns, LauncherEnds,
     LauncherLost, Suspend, OtherEvent, ChangePods, ChangeLauncher, api, local
<1>4. ASSUME WriteScaler
      PROVE  /\ DOMAIN update' = {}
             /\ \A r \in DOMAIN scalers' : \/ r \in DOMAIN scalers /\ scalers'[r] = scalers[r]
                                           \/ r \in DOMAIN update /\ scalers'[r] = update[r]
  BY <1>4 DEF WriteScaler, EmptyMap
<1>5. ASSUME Crash PROVE scalers' = scalers /\ DOMAIN update' = {} BY <1>5 DEF Crash, EmptyMap, api
<1>6. QED BY <1>1, <1>2, <1>3, <1>4, <1>5 DEF Next, Reconcile

\* A scaler whose script was executed has the job, whose launcher was seen to run.
LEMMA ExecutedIsHeld ==
  ASSUME SerialInv, ShownInv, NEW s \in Ins, NEW x, "ScriptExecuted" \in x.conds, ~isScaleFinished(x),
         (s \in DOMAIN scalers /\ x = scalers[s]) \/ (s \in DOMAIN update /\ x = update[s])
  PROVE  Holds(job.status, s)
<1>1. Underway(x) BY DEF ShownInv, Shown, Underway
<1>2. QED BY <1>1 DEF SerialInv, InProgress, Underway

LEMMA OthersShow ==
  ASSUME IInv, LifeInv, SerialInv, LaunchInv, ShownInv, Steady, [Next]_vars, ~Handle
  PROVE  LaunchInv' /\ ShownInv'
<1>1. /\ configMap' = configMap /\ launcherCache' \in {launcherCache, launcher'}
      /\ \/ launcher' = launcher /\ hostfile' = hostfile
         \/ launcher = "Pending" /\ launcher' = "Running"
         \/ launcher # "None" /\ launcher' \in {"None", "Succeeded", "Failed"}
  BY LauncherMoves
<1>2. LaunchInv'
  <2>1. \A st : Settled(st, launcher) => Settled(st, launcher') BY <1>1 DEF Settled
  <2>2. Settled(job'.status, launcher') BY <2>1, StatusesStay DEF LaunchInv
  <2>3. pc' \in {"writeScaler", "writeJob"} => Settled(mine', launcher')
    BY <2>1, StatusesStay DEF LaunchInv
  <2>4. CreatedOnce(launcher', launcherCache') BY <1>1 DEF LaunchInv, CreatedOnce
  <2>5. QED BY <2>2, <2>3, <2>4 DEF LaunchInv
<1>3. ASSUME NEW s \in Ins, NEW x,
             (s \in DOMAIN scalers /\ x = scalers[s]) \/ (s \in DOMAIN update /\ x = update[s])
      PROVE  Shown(x, launcher', hostfile')
  <2>1. Shown(x, launcher, hostfile) BY <1>3 DEF ShownInv
  <2>2. ASSUME "ScriptExecuted" \in x.conds, ~isScaleFinished(x) PROVE launcher # "Pending"
    <3>1. Holds(job.status, s) BY <1>3, <2>2, ExecutedIsHeld
    <3>2. s # NoScaler BY ScalersAssumption DEF Ins
    <3>3. QED BY <3>1, <3>2 DEF LaunchInv, Settled, Holds
  <2>3. QED BY <1>1, <2>1, <2>2 DEF Shown
<1>4. ASSUME NEW s \in Ins, s \in DOMAIN scalers' PROVE Shown(scalers'[s], launcher', hostfile')
  <2>1. CASE scalers'[s].conds = {} BY <2>1 DEF Shown
  <2>2. QED BY <1>3, <1>4, <2>1, ScalersStay
<1>5. ASSUME NEW s \in Ins, s \in DOMAIN update' PROVE Shown(update'[s], launcher', hostfile')
  BY <1>3, <1>5, ScalersStay
<1>6. QED BY <1>2, <1>4, <1>5 DEF ShownInv

LEMMA HandleShows ==
  ASSUME IInv, CachesAgree, CopyInv, LifeInv, SerialInv, LaunchInv, ShownInv, Handle,
         Steady, LauncherPolicy = "Never", Rewriting
  PROVE  /\ LaunchInv' /\ ShownInv'
         /\ mine.phase = "Scaling" /\ mine.scaler \in Ins /\ launcher = "Running"
            => (DOMAIN pods \ DOMAIN pods') \cap hostfile' = {}
<1> DEFINE o == Observed
<1>1. /\ DOMAIN scalerCache = DOMAIN scalers
      /\ \A s \in DOMAIN scalers : scalerCache[s] = scalers[s]
  BY CachedScalers
<1>2. PICK w : /\ Leave(w) /\ Leads(w, o)
               /\ mine.phase \in {"New", "Created"} => DOMAIN w.update = {}
               /\ mine.phase = "Running" => TakesUp(w, o)
               /\ mine.phase = "Scaling" => /\ DOMAIN w.update \subseteq {mine.scaler}
                                            /\ mine.scaler \in Ins => ScalesIn(w, o, mine.scaler)
               /\ mine.phase \in {"Succeeded", "Failed", "Suspended"} =>
                    DOMAIN w.update = {} /\ (SameCluster(w, o) \/ w.launcher = "None")
  BY <1>1, HandleLeads DEF ShownInv
<1>3. /\ UNCHANGED <<job, scalers>> /\ mine' = w.st /\ update' = w.update
      /\ pods' = w.pods /\ launcher' = w.launcher /\ hostfile' = w.hostfile
      /\ launcherCache' \in {w.seenLauncher, w.launcher}
  BY <1>2 DEF Leave
<1>4. /\ o.st = mine /\ o.known = scalerCache /\ o.pods = pods
      /\ o.launcher = launcher /\ o.hostfile = hostfile /\ o.seenLauncher = launcherCache
  BY DEF Observed
<1> HIDE DEF o
<1>5. pc = "handle"
  BY DEF Handle, HandleCreated, HandleRunning, HandleScaling, HandleSucceeded, HandleFailed,
     HandleSuspended, AtHandler
<1>6. /\ mine \in JobStatus /\ job.status \in JobStatus /\ Consistent(mine)
      /\ read = job.status
  BY <1>5 DEF IInv, TypeOK, Job, Copies, LifeInv
<1>7. mine = job.status \/ (mine.phase = "Suspended" /\ mine.scaler = job.status.scaler)
  BY <1>5, <1>6 DEF LifeInv, updateStatus, updateJobConditions, JobStatus
<1>8. Settled(mine, launcher) BY <1>7 DEF LaunchInv, Settled
<1>9. mine'.phase \in {"New", "Created"} => mine.phase \in {"New", "Created"}
  <2>1. Early(mine) /\ Crewed(Observed)
    BY DEF CopyInv, Copies, Crewed, Observed, HostsComplete
  <2>2. PICK x : Leave(x) /\ Follows(x, Observed) BY <2>1, HandleFollows
  <2>3. Moves(mine, mine') BY <2>2 DEF Leave, Follows, Observed
  <2>4. ~needRestartJob(mine) BY <1>6, NumbersAssumption DEF needRestartJob, Steady, JobStatus
  <2>5. QED BY <1>6, <2>3, <2>4 DEF Moves, Lifecycle!Progress, JobStatus, Phase
<1>10. LaunchInv'
  <2>1. CASE mine.phase \in {"New", "Created"}
    <3>1. mine = job.status /\ mine.scaler = NoScaler BY <1>7, <1>8, <2>1 DEF Settled
    <3>2. /\ w.st.scaler = NoScaler /\ w.seenLauncher = launcherCache
          /\ \/ w.launcher = launcher /\ (w.st.phase = "Running" => launcherCache = "Running")
             \/ launcherCache = "None" /\ w.launcher = "Pending" /\ w.st.phase # "Running"
      BY <1>2, <1>4, <2>1, <3>1 DEF Leads
    <3>3. CreatedOnce(launcher, launcherCache) BY DEF LaunchInv
    <3>4. Settled(w.st, w.launcher) BY <3>2, <3>3 DEF Settled, CreatedOnce
    <3>5. Settled(job.status, w.launcher) BY <2>1, <3>1 DEF Settled
    <3>6. CreatedOnce(w.launcher, launcherCache') BY <1>3, <3>2, <3>3 DEF CreatedOnce
    <3>7. QED BY <1>3, <3>4, <3>5, <3>6 DEF LaunchInv
  <2>2. CASE mine.phase \notin {"New", "Created"}
    <3>1. /\ w.launcher \in {launcher, "None"}
          /\ mine.phase \in {"Succeeded", "Failed", "Suspended"} =>
               w.st = mine /\ w.seenLauncher = launcherCache
      BY <1>2, <1>4, <2>2 DEF Leads
    <3>2. w.launcher = "Pending" => launcher = "Pending" BY <3>1
    <3>3. launcher = "Pending" => mine.phase \in {"Succeeded", "Failed", "Suspended"}
      BY <1>6, <1>8, <2>2 DEF Settled, Consistent, ScalingHasScaler, JobStatus, Phase
    <3>4. Settled(w.st, w.launcher)
      BY <1>3, <1>8, <1>9, <2>2, <3>1, <3>2, <3>3 DEF Settled
    <3>5. Settled(job.status, w.launcher) BY <3>2 DEF LaunchInv, Settled
    <3>6. CreatedOnce(w.launcher, launcherCache')
      BY <1>3, <3>1, <3>2, <3>3 DEF LaunchInv, CreatedOnce
    <3>7. QED BY <1>3, <3>4, <3>5, <3>6 DEF LaunchInv
  <2>3. QED BY <2>1, <2>2
<1>11. ASSUME NEW s \in Ins, s \in DOMAIN scalers,
              "ScriptExecuted" \in scalers[s].conds, ~isScaleFinished(scalers[s])
       PROVE  Holds(mine, s)
  BY <1>5, <1>11, ExecutedIsHeld, MineHolds
<1>12. ASSUME NEW s \in Ins, s \in DOMAIN scalers PROVE Shown(scalers[s], w.launcher, w.hostfile)
  <2> SUFFICES ASSUME "ScriptExecuted" \in scalers[s].conds, ~isScaleFinished(scalers[s])
               PROVE  Shown(scalers[s], w.launcher, w.hostfile)
    BY DEF Shown
  <2>1. Shown(scalers[s], launcher, hostfile) BY <1>12 DEF ShownInv
  <2>2. Holds(mine, s) BY <1>11, <1>12
  <2>3. CASE mine.phase = "Scaling"
    <3>1. ScalesIn(w, o, s) BY <1>2, <2>2, <2>3 DEF Holds
    <3>2. w.launcher = launcher /\ w.hostfile = hostfile
      BY <1>1, <1>4, <1>12, <3>1 DEF ScalesIn
    <3>3. QED BY <2>1, <3>2
  <2>4. CASE mine.phase # "Scaling"
    <3>1. SameCluster(w, o) \/ w.launcher = "None" BY <1>2, <2>2, <2>4 DEF Holds
    <3>2. QED BY <1>4, <2>1, <3>1 DEF SameCluster, Shown
  <2>5. QED BY <2>3, <2>4
<1>13. ASSUME NEW s \in Ins, s \in DOMAIN w.update PROVE Shown(w.update[s], w.launcher, w.hostfile)
  <2>1. mine.phase \in {"Running", "Scaling"} BY <1>2, <1>6, <1>13 DEF JobStatus, Phase
  <2>2. CASE mine.phase = "Running"
    <3>1. /\ s \in DOMAIN scalers /\ w.update[s].pods = scalers[s].pods
          /\ w.update[s].conds = scalers[s].conds \cup {"Scaling"}
      BY <1>1, <1>2, <1>4, <1>13, <2>2 DEF TakesUp
    <3>2. ASSUME "ScriptExecuted" \in w.update[s].conds, ~isScaleFinished(w.update[s]) PROVE FALSE
      <4>1. "ScriptExecuted" \in scalers[s].conds /\ ~isScaleFinished(scalers[s])
        BY <3>1, <3>2 DEF isScaleFinished
      <4>2. QED BY <1>11, <2>2, <3>1, <4>1 DEF Holds
    <3>3. QED BY <3>2 DEF Shown
  <2>3. CASE mine.phase = "Scaling"
    <3>1. s = mine.scaler BY <1>2, <1>13, <2>3
    <3>2. ScalesIn(w, o, s) BY <1>2, <2>3, <3>1
    <3>3. QED BY <1>13, <3>2 DEF ScalesIn
  <2>4. QED BY <2>1, <2>2, <2>3
<1>14. ShownInv' BY <1>3, <1>12, <1>13 DEF ShownInv
<1>15. ASSUME mine.phase = "Scaling", mine.scaler \in Ins, launcher = "Running"
       PROVE  (DOMAIN pods \ DOMAIN pods') \cap hostfile' = {}
  BY <1>2, <1>3, <1>4, <1>15 DEF ScalesIn, Deleted
<1>16. QED BY <1>10, <1>14, <1>15

\* "Firstly, it will update the host config" (README.md:35-40): a ScaleIn that says
\* how many workers to delete deletes none that the hostfile of the running launcher
\* still lists (scalein.go:16-76). The hostfile is rewritten in one reconcile and
\* the workers may go in later ones, which know of it from the scaler's status alone:
\* it must reach them, and no other reconcile, scaler or launcher may have written
\* the hostfile in between.
THEOREM ScaleInsFollowTheHostfile ==
  ASSUME Steady, LauncherPolicy = "Never", Rewriting
  PROVE  Spec => ScaledInAfterHostfile
<1> DEFINE All == IInv /\ CachesAgree /\ CopyInv /\ UpdateInv /\ LifeInv /\ SerialInv
<1>1. "job" \notin Lagging BY DEF Steady
<1>2. Init => UpdateInv /\ LifeInv /\ SerialInv /\ LaunchInv /\ ShownInv
  <2> SUFFICES ASSUME Init PROVE LaunchInv /\ ShownInv
    BY UpdateInit, SerialInit DEF Init, LifeInv
  <2>1. Settled(NewJob, "None") BY DEF Settled, NewJob
  <2>2. QED BY <2>1 DEF Init, LaunchInv, CreatedOnce, ShownInv, EmptyMap
<1>3. All /\ LaunchInv /\ ShownInv /\ [Next]_vars => LaunchInv' /\ ShownInv'
  BY OthersShow, HandleShows
<1>4. All /\ [Next]_vars => UpdateInv' /\ LifeInv' /\ SerialInv'
  BY <1>1, UpdateStep, LifeStep, SerialStep
<1>5. All /\ LaunchInv /\ ShownInv /\ [Next]_vars
      => [\A s \in Scalers : Scales(s) /\ ScalerSpec[s].kind = "in" /\ launcher = "Running"
            => (DOMAIN pods \ DOMAIN pods') \cap hostfile' = {}]_vars
  <2> SUFFICES ASSUME All, LaunchInv, ShownInv, [Next]_vars, NEW s \in Scalers,
                      Scales(s), ScalerSpec[s].kind = "in", launcher = "Running"
               PROVE  (DOMAIN pods \ DOMAIN pods') \cap hostfile' = {}
    OBVIOUS
  <2>1. pc = "handle" /\ pc' \in {"writeScaler", "writeJob"} /\ mine.phase = "Scaling" /\ mine.scaler = s
    BY DEF Scales
  <2>2. Handle BY <2>1, StatusesStay
  <2>3. s \in Ins BY DEF Ins
  <2>4. QED BY <2>1, <2>2, <2>3, HandleShows
<1>6. QED
  BY <1>2, <1>3, <1>4, <1>5, Inductive, CachesAreCurrent, CopiesKeep, PTL
  DEF Spec, ScaledInAfterHostfile
=============================================================================
