------------------------ MODULE CFSScheduler_proofs ------------------------
(***************************************************************************)
(* For every number of tasks, entities and pool blocks and every guest:    *)
(* the scheduler never loses, duplicates or deletes twice a task, its task *)
(* counter is exact, it never holds more than MaxTasks nodes, an entity is *)
(* in the tree once and in its order, and a crash kills all other tasks    *)
(* than those of the entity that was running.                              *)
(***************************************************************************)
EXTENDS CFSScheduler, FiniteSetTheorems, SequenceTheorems, WellFoundedInduction, TLAPS

USE SchedulerAssumption DEF Crashed

Elem == [key : Nat, se : SE]

\* Adding a node makes the in-order sequence one element longer.
LEMMA InsertProperties ==
  ASSUME NEW s \in Seq(Elem), NEW e \in Elem
  PROVE  /\ InsertByKey(s, e) \in Seq(Elem)
         /\ Len(InsertByKey(s, e)) = Len(s) + 1
<1> DEFINE p == Cardinality({i \in 1 .. Len(s) : s[i].key < e.key})
<1>1. Len(s) \in Nat /\ s \in [1 .. Len(s) -> Elem]
  BY LenProperties
<1>2. p \in 0 .. Len(s)
  <2>1. 1 \in Int /\ Len(s) \in Int
    BY <1>1
  <2>2. IsFiniteSet(1 .. Len(s)) /\ Cardinality(1 .. Len(s)) = Len(s)
    <3>1. /\ IsFiniteSet(1 .. Len(s))
          /\ Cardinality(1 .. Len(s)) = IF 1 > Len(s) THEN 0 ELSE Len(s) - 1 + 1
      BY <2>1, FS_Interval
    <3> QED
      BY <1>1, <3>1
  <2>3. {i \in 1 .. Len(s) : s[i].key < e.key} \in SUBSET (1 .. Len(s))
    OBVIOUS
  <2>4. IsFiniteSet({i \in 1 .. Len(s) : s[i].key < e.key}) /\ p <= Len(s)
    BY <2>2, <2>3, FS_Subset
  <2>5. p \in Nat
    BY <2>4, FS_CardinalityType
  <2> QED
    BY <1>1, <2>4, <2>5
<1> HIDE DEF p
<1>3. /\ SubSeq(s, 1, p) \in Seq(Elem)
      /\ Len(SubSeq(s, 1, p)) = p
  <2>1. 1 \in Int /\ p \in Int /\ \A i \in 1 .. p : s[i] \in Elem
    BY <1>1, <1>2
  <2> QED
    BY <2>1, <1>2, SubSeqProperties
<1>4. /\ SubSeq(s, p + 1, Len(s)) \in Seq(Elem)
      /\ Len(SubSeq(s, p + 1, Len(s))) = Len(s) - p
  <2>1. p + 1 \in Int /\ Len(s) \in Int /\ \A i \in p + 1 .. Len(s) : s[i] \in Elem
    BY <1>1, <1>2
  <2>2. /\ SubSeq(s, p + 1, Len(s)) \in Seq(Elem)
        /\ Len(SubSeq(s, p + 1, Len(s))) =
             IF p + 1 <= Len(s) THEN Len(s) - (p + 1) + 1 ELSE 0
    BY <2>1, SubSeqProperties
  <2>3. \A n \in Nat : \A m \in 0 .. n :
          (IF m + 1 <= n THEN n - (m + 1) + 1 ELSE 0) = n - m
    OBVIOUS
  <2> QED
    BY <1>1, <1>2, <2>2, <2>3
<1>5. <<e>> \in Seq(Elem) /\ Len(<<e>>) = 1
  OBVIOUS
<1>6. /\ SubSeq(s, 1, p) \o <<e>> \in Seq(Elem)
      /\ Len(SubSeq(s, 1, p) \o <<e>>) = p + 1
  BY <1>3, <1>5, ConcatProperties
<1>7. /\ (SubSeq(s, 1, p) \o <<e>>) \o SubSeq(s, p + 1, Len(s)) \in Seq(Elem)
      /\ Len((SubSeq(s, 1, p) \o <<e>>) \o SubSeq(s, p + 1, Len(s)))
           = (p + 1) + (Len(s) - p)
  BY <1>4, <1>6, ConcatProperties
<1>8. InsertByKey(s, e)
        = (SubSeq(s, 1, p) \o <<e>>) \o SubSeq(s, p + 1, Len(s))
  BY Zenon DEF InsertByKey, p
<1>9. (p + 1) + (Len(s) - p) = Len(s) + 1
  BY <1>1, <1>2
<1> QED
  BY <1>7, <1>8, <1>9

\* ScheduleThread and Run push a task at the back of an entity's queue.
LEMMA AppendQueue ==
  ASSUME NEW q \in [SE -> Seq(Task)], NEW s \in SE, NEW t \in Task,
         NEW r, r = [q EXCEPT ![s] = Append(@, t)]
  PROVE  /\ r \in [SE -> Seq(Task)]
         /\ Len(r[s]) = Len(q[s]) + 1
         /\ \A x \in SE : x # s => r[x] = q[x]
         /\ \A i \in DOMAIN q[s] : i \in DOMAIN r[s] /\ r[s][i] = q[s][i]
         /\ Len(q[s]) + 1 \in DOMAIN r[s] /\ r[s][Len(q[s]) + 1] = t
         /\ \A i \in DOMAIN r[s] : i \in DOMAIN q[s] \/ i = Len(q[s]) + 1
<1>1. q[s] \in Seq(Task) /\ r[s] = Append(q[s], t)
  OBVIOUS
<1>2. Len(q[s]) \in Nat /\ DOMAIN q[s] = 1 .. Len(q[s])
  BY <1>1, LenProperties
<1>3. /\ Append(q[s], t) \in Seq(Task)
      /\ Len(Append(q[s], t)) = Len(q[s]) + 1
      /\ \A i \in 1 .. Len(q[s]) : Append(q[s], t)[i] = q[s][i]
      /\ Append(q[s], t)[Len(q[s]) + 1] = t
  BY <1>1, AppendProperties
<1>4. DOMAIN r[s] = 1 .. Len(q[s]) + 1
  BY <1>1, <1>3, LenProperties
<1>5. r \in [SE -> Seq(Task)]
  BY <1>1, <1>3
<1>6. \A i \in 1 .. Len(q[s]) + 1 : i \in 1 .. Len(q[s]) \/ i = Len(q[s]) + 1
  BY <1>2
<1>7. \A i \in 1 .. Len(q[s]) : i \in 1 .. Len(q[s]) + 1
  BY <1>2
<1>8. Len(q[s]) + 1 \in 1 .. Len(q[s]) + 1
  BY <1>2
<1> QED
  BY <1>1, <1>2, <1>3, <1>4, <1>5, <1>6, <1>7, <1>8

\* Run pops the task at the front.
LEMMA PopQueue ==
  ASSUME NEW q \in [SE -> Seq(Task)], NEW s \in SE, Len(q[s]) > 0,
         NEW r, r = [q EXCEPT ![s] = Tail(@)]
  PROVE  /\ r \in [SE -> Seq(Task)]
         /\ Len(r[s]) = Len(q[s]) - 1
         /\ \A x \in SE : x # s => r[x] = q[x]
         /\ 1 \in DOMAIN q[s] /\ Head(q[s]) = q[s][1] /\ Head(q[s]) \in Task
         /\ \A i \in DOMAIN r[s] : i + 1 \in DOMAIN q[s] /\ r[s][i] = q[s][i + 1]
         /\ \A i \in DOMAIN q[s] : i # 1 =>
              i - 1 \in DOMAIN r[s] /\ r[s][i - 1] = q[s][i]
         /\ DOMAIN r[s] \subseteq Nat \ {0}
<1>1. q[s] \in Seq(Task) /\ r[s] = Tail(q[s])
  OBVIOUS
<1>2. Len(q[s]) \in Nat /\ DOMAIN q[s] = 1 .. Len(q[s])
  BY <1>1, LenProperties
<1>3. q[s] # <<>>
  BY <1>2, EmptySeq
<1>4. /\ Head(q[s]) = q[s][1] /\ Head(q[s]) \in Task
      /\ Tail(q[s]) \in Seq(Task) /\ Len(Tail(q[s])) = Len(q[s]) - 1
      /\ \A i \in 1 .. Len(Tail(q[s])) : Tail(q[s])[i] = q[s][i + 1]
  BY <1>1, <1>3, HeadTailProperties
<1>5. DOMAIN r[s] = 1 .. Len(q[s]) - 1
  BY <1>1, <1>4, LenProperties
<1>6. /\ \A i \in 1 .. Len(q[s]) - 1 : i + 1 \in 1 .. Len(q[s]) /\ i \in Nat \ {0}
      /\ \A i \in 1 .. Len(q[s]) : i # 1 =>
           i - 1 \in 1 .. Len(q[s]) - 1 /\ (i - 1) + 1 = i
      /\ 1 \in 1 .. Len(q[s])
  BY <1>2
<1>7. r \in [SE -> Seq(Task)] /\ \A x \in SE : x # s => r[x] = q[x]
  BY <1>1, <1>4
<1>8. \A i \in DOMAIN r[s] : i + 1 \in DOMAIN q[s] /\ r[s][i] = q[s][i + 1]
  BY <1>1, <1>2, <1>4, <1>5, <1>6
<1>9. \A i \in DOMAIN q[s] : i # 1 =>
        i - 1 \in DOMAIN r[s] /\ r[s][i - 1] = q[s][i]
  BY <1>2, <1>5, <1>6, <1>8
<1> QED
  BY <1>1, <1>2, <1>4, <1>5, <1>6, <1>7, <1>8, <1>9
-----------------------------------------------------------------------------
(* TaskInOnePlace as a relation of queues q, running task run, killed      *)
(* tasks k and existing tasks a.                                           *)

InQueue(q, t) == \E s \in SE : \E i \in DOMAIN q[s] : q[s][i] = t

OnePlace(q, run, k, a) ==
  /\ \A s, r \in SE : \A i \in DOMAIN q[s], m \in DOMAIN q[r] :
       q[s][i] = q[r][m] => s = r /\ i = m
  /\ \A s \in SE : \A i \in DOMAIN q[s] : q[s][i] \in a \ (k \cup {run})
  /\ run # NULL => run \in a \ k
  /\ \A t \in a : t = run \/ t \in k \/ InQueue(q, t)

\* The form of TaskInOnePlace the lemmas below use is the property itself.
LEMMA OnePlaceIsTaskInOnePlace ==
  TaskInOnePlace <=> OnePlace(my_rq, to_run, killed, alive)
  BY Zenon DEF TaskInOnePlace, OnePlace, InQueue

\* Queueing a task that no queue holds, the running one or a new one.
LEMMA OnePlaceAppend ==
  ASSUME NEW q \in [SE -> Seq(Task)], NEW s \in SE, NEW t \in Task,
         NEW r, r = [q EXCEPT ![s] = Append(@, t)],
         NEW run, NEW next, NEW k, NEW a,
         OnePlace(q, run, k, a), ~InQueue(q, t), t \notin k,
         \/ t = run /\ next = NULL
         \/ t # run /\ next = run
  PROVE  OnePlace(r, next, k, a \cup {t})
<1> USE DEF InQueue
<1> DEFINE n == Len(q[s]) + 1
<1>1. /\ \A x \in SE : x # s => r[x] = q[x]
      /\ \A i \in DOMAIN q[s] : i \in DOMAIN r[s] /\ r[s][i] = q[s][i]
      /\ n \in DOMAIN r[s] /\ r[s][n] = t
      /\ \A i \in DOMAIN r[s] : i \in DOMAIN q[s] \/ i = n
  BY AppendQueue
<1> HIDE DEF n
<1>2. t # NULL
  OBVIOUS
<1>3. \A x \in SE : \A i \in DOMAIN r[x] :
        \/ i \in DOMAIN q[x] /\ r[x][i] = q[x][i]
        \/ x = s /\ i = n /\ r[x][i] = t
  BY <1>1
<1>4. ASSUME NEW x \in SE, NEW z \in SE, NEW i \in DOMAIN r[x],
             NEW m \in DOMAIN r[z], r[x][i] = r[z][m]
      PROVE  x = z /\ i = m
  <2>1. \A w \in SE : \A h \in DOMAIN q[w] : q[w][h] # t
    OBVIOUS
  <2>2. /\ \/ i \in DOMAIN q[x] /\ r[x][i] = q[x][i]
           \/ x = s /\ i = n /\ r[x][i] = t
        /\ \/ m \in DOMAIN q[z] /\ r[z][m] = q[z][m]
           \/ z = s /\ m = n /\ r[z][m] = t
    BY <1>3, Zenon
  <2>3. \A h \in DOMAIN q[x], l \in DOMAIN q[z] :
          q[x][h] = q[z][l] => x = z /\ h = l
    BY DEF OnePlace
  <2> QED
    BY <1>4, <2>1, <2>2, <2>3
<1>5. ASSUME NEW x \in SE, NEW i \in DOMAIN r[x]
      PROVE  r[x][i] \in (a \cup {t}) \ (k \cup {next})
  <2>1. CASE i \in DOMAIN q[x] /\ r[x][i] = q[x][i]
    <3>1. q[x][i] \in a \ (k \cup {run}) /\ q[x][i] # NULL
      <4>1. q[x] \in Seq(Task)
        OBVIOUS
      <4>2. q[x][i] \in Task
        BY <2>1, <4>1, LenProperties
      <4> QED
        BY <2>1, <4>2 DEF OnePlace
    <3> QED
      BY <2>1, <3>1
  <2>2. CASE r[x][i] = t
    BY <2>2, <1>2
  <2> QED
    BY <1>3, <2>1, <2>2
<1>6. next # NULL => next \in (a \cup {t}) \ k
  BY DEF OnePlace
<1>7. ASSUME NEW u \in a \cup {t}
      PROVE  u = next \/ u \in k \/ \E x \in SE : \E i \in DOMAIN r[x] : r[x][i] = u
  <2>1. CASE u = t
    BY <2>1, <1>1
  <2>2. CASE u # t
    <3>1. u = next \/ u \in k \/ InQueue(q, u)
      BY <2>2, Zenon DEF OnePlace
    <3>2. ASSUME NEW x \in SE, NEW i \in DOMAIN q[x], q[x][i] = u
          PROVE  i \in DOMAIN r[x] /\ r[x][i] = u
      BY <1>1, <3>2
    <3> QED
      BY <3>1, <3>2
  <2> QED
    BY <2>1, <2>2
<1> QED
  BY <1>4, <1>5, <1>6, <1>7, Zenon DEF OnePlace

\* Popping the front task while none is running.
LEMMA OnePlacePop ==
  ASSUME NEW q \in [SE -> Seq(Task)], NEW s \in SE, Len(q[s]) > 0,
         NEW r, r = [q EXCEPT ![s] = Tail(@)], NEW k, NEW a,
         OnePlace(q, NULL, k, a), NULL \notin a
  PROVE  OnePlace(r, Head(q[s]), k, a)
<1> USE DEF InQueue
<1>1. /\ \A x \in SE : x # s => r[x] = q[x]
      /\ 1 \in DOMAIN q[s] /\ Head(q[s]) = q[s][1]
      /\ \A i \in DOMAIN r[s] : i + 1 \in DOMAIN q[s] /\ r[s][i] = q[s][i + 1]
      /\ \A i \in DOMAIN q[s] : i # 1 =>
           i - 1 \in DOMAIN r[s] /\ r[s][i - 1] = q[s][i]
      /\ DOMAIN r[s] \subseteq Nat \ {0}
  BY PopQueue
<1>2. ASSUME NEW x \in SE, NEW z \in SE, NEW i \in DOMAIN r[x],
             NEW m \in DOMAIN r[z], r[x][i] = r[z][m]
      PROVE  x = z /\ i = m
  <2>1. CASE x = s /\ z = s
    <3>1. i + 1 = m + 1 /\ i \in Nat /\ m \in Nat
      BY <1>1, <1>2, <2>1 DEF OnePlace
    <3> QED
      BY <2>1, <3>1
  <2>2. CASE x = s /\ z # s
    BY <1>1, <1>2, <2>2 DEF OnePlace
  <2>3. CASE x # s /\ z = s
    BY <1>1, <1>2, <2>3 DEF OnePlace
  <2>4. CASE x # s /\ z # s
    BY <1>1, <1>2, <2>4 DEF OnePlace
  <2> QED
    BY <2>1, <2>2, <2>3, <2>4
<1>3. ASSUME NEW x \in SE, NEW i \in DOMAIN r[x]
      PROVE  r[x][i] \in a \ (k \cup {Head(q[s])})
  <2>1. CASE x = s
    <3>1. i + 1 \in DOMAIN q[s] /\ r[s][i] = q[s][i + 1] /\ i + 1 # 1
      BY <1>1, <2>1
    <3> QED
      BY <1>1, <2>1, <3>1 DEF OnePlace
  <2>2. CASE x # s
    BY <1>1, <2>2 DEF OnePlace
  <2> QED
    BY <2>1, <2>2
<1>4. Head(q[s]) \in a \ k
  BY <1>1 DEF OnePlace
<1>5. ASSUME NEW u \in a
      PROVE  u = Head(q[s]) \/ u \in k \/ InQueue(r, u)
  <2>1. CASE u \in k
    BY <2>1
  <2>2. ASSUME NEW x \in SE, NEW i \in DOMAIN q[x], q[x][i] = u
        PROVE  u = Head(q[s]) \/ InQueue(r, u)
    <3>1. CASE x # s
      BY <1>1, <2>2, <3>1
    <3>2. CASE x = s /\ i = 1
      BY <1>1, <2>2, <3>2
    <3>3. CASE x = s /\ i # 1
      <4>1. i - 1 \in DOMAIN r[s] /\ r[s][i - 1] = u
        BY <1>1, <2>2, <3>3
      <4> QED
        BY <4>1
    <3> QED
      BY <3>1, <3>2, <3>3
  <2>3. u \in k \/ InQueue(q, u)
    BY Zenon DEF OnePlace
  <2> QED
    BY <2>1, <2>2, <2>3
<1> QED
  BY <1>2, <1>3, <1>4, <1>5 DEF OnePlace

\* Deleting the running task.
LEMMA OnePlaceDrop ==
  ASSUME NEW q \in [SE -> Seq(Task)], NEW run \in Task, NEW k, NEW a,
         OnePlace(q, run, k, a)
  PROVE  OnePlace(q, NULL, k, a \ {run})
<1>1. \A s \in SE : \A i \in DOMAIN q[s] : q[s][i] # NULL
  <2> TAKE s \in SE
  <2>1. q[s] \in Seq(Task)
    OBVIOUS
  <2> QED
    BY <2>1, LenProperties
<1> QED
  BY <1>1, Zenon DEF OnePlace, InQueue
-----------------------------------------------------------------------------
\* What the program counter says of Run's locals, of the queue of the entity
\* it is running, and of the number of nodes.
Control ==
  /\ pc \in {"slice", "exec", "ended", "place"} => node \in SE
  /\ pc \in {"pick", "returned"} => node = NULL
  /\ pc \in {"exec", "ended"} => to_run \in Task
  /\ pc \in {"pick", "slice", "place", "returned"} => to_run = NULL
  /\ pc = "slice" => y < num_tasks /\ Len(my_rq[node]) >= num_tasks - y
  /\ pc \in {"exec", "ended"} =>
       y < num_tasks /\ Len(my_rq[node]) >= (num_tasks - y) - 1
  /\ m_next_se # NULL =>
       pc = "ended" /\ rc = "THREAD_EXIT" /\ Len(tree) < MaxTasks - 1
  /\ ~Crashed => killed = {}
  /\ m_size >= Len(tree)
  /\ NodesBounded

\* The entity a task holds is the one that queues it.
Membership ==
  /\ \A s \in SE : \A i \in DOMAIN my_rq[s] : m_se[my_rq[s][i]] = s
  /\ pc \in {"exec", "ended"} => m_se[to_run] = node

Counted == IsFiniteSet(alive) /\ TaskCount /\ m_num_tasks <= MaxTasks

\* The inductive invariant.
IInv == TypeOK /\ Control /\ Membership /\ Counted /\ TaskInOnePlace

\* main schedules the first task: one entity in the tree, one task in its queue.
LEMMA InitIInv == Init => IInv
<1> SUFFICES ASSUME Init PROVE IInv
  OBVIOUS
<1>0. PICK t \in Task, s \in SE, v \in InitVruntime, z \in InitSize :
        Init!(t, s, v, z)
  BY DEF Init
<1> USE <1>0
<1>1. v \in Nat /\ z \in Nat /\ t # NULL /\ s # NULL
  OBVIOUS
<1>2. tree \in Seq(Elem) /\ Len(tree) = 1
  <2>1. [key |-> v, se |-> s] \in Elem
    BY <1>1 DEF Elem
  <2> QED
    BY <2>1
<1>3. my_rq \in [SE -> Seq(Task)]
  OBVIOUS
<1>4. TypeOK
  BY <1>1, <1>2, <1>3 DEF TypeOK, Elem, States
<1>5. Control
  BY <1>1, <1>2 DEF Control, NodesBounded, Count
<1>6. IsFiniteSet(alive) /\ Cardinality(alive) = 1
  BY FS_Singleton
<1>7. Counted
  BY <1>6 DEF Counted, TaskCount
<1>8. \A r \in SE : \A i \in DOMAIN my_rq[r] : r = s /\ i = 1 /\ my_rq[r][i] = t
  OBVIOUS
<1>9. 1 \in DOMAIN my_rq[s] /\ my_rq[s][1] = t
  OBVIOUS
<1>10. TaskInOnePlace
  BY <1>1, <1>8, <1>9 DEF TaskInOnePlace
<1>11. Membership
  BY <1>8 DEF Membership
<1> QED
  BY <1>4, <1>5, <1>7, <1>10, <1>11 DEF IInv

\* The calls and stretches of Run that leave queues and tasks alone.
LEMMA QuietIInv ==
  ASSUME IInv,
         OtherCall \/ ErrorCall \/ Exit \/ Fault \/ SliceOver \/ Return
           \/ PickNothing
  PROVE  IInv'
<1> USE DEF OtherCall, ErrorCall, Exit, Fault, SliceOver, Return, PickNothing,
            MayCall, InSlice, tasks, round
<1>1. TypeOK'
  <2>1. /\ UNCHANGED <<tree, m_size, my_rq, vruntime, entities, nodes, alive,
                        m_se, spid, m_num_tasks, node, num_tasks,
                        num_entities, m_next_se, y, to_run, killed>>
        /\ j' \in {j, j + 1}
        /\ rc' \in {rc, "SUCCESS", "ERROR", "THREAD_EXIT", "FAULT"}
        /\ pc' \in States
    BY DEF IInv, TypeOK, States, queues
  <2>2. j' \in Nat /\ rc' \in {"SUCCESS", "THREAD_EXIT", "FAULT", "ERROR"}
    BY <2>1 DEF IInv, TypeOK
  <2> HIDE DEF OtherCall, ErrorCall, Exit, Fault, SliceOver, Return, PickNothing
  <2> QED
    BY <2>1, <2>2 DEF IInv, TypeOK
<1>2. UNCHANGED <<my_rq, alive, killed, to_run, m_se, m_num_tasks, tree,
                  m_size, nodes, node, num_tasks, y, m_next_se>>
  BY DEF queues
<1>3. /\ pc \in {"exec", "pick"}
      /\ pc = "exec" => pc' \in {"exec", "ended"}
      /\ pc = "pick" => pc' \in {"returned", "segv"}
  OBVIOUS
<1>4. Control'
  BY <1>2, <1>3 DEF IInv, Control, NodesBounded, Count
<1>5. Membership' /\ Counted' /\ TaskInOnePlace'
  BY <1>2, <1>3 DEF IInv, Membership, Counted, TaskCount, TaskInOnePlace
<1> QED
  BY <1>1, <1>4, <1>5 DEF IInv

\* sys_setsid creates an entity that no task is queued on yet.
LEMMA SetsidIInv == ASSUME IInv, Setsid PROVE IInv'
<1> USE DEF Setsid, InSlice, TreeFull, tasks, round
<1>1. m_se[to_run] = node /\ node \in SE
  BY DEF IInv, Membership, Control
<1>2. TypeOK'
  BY <1>1 DEF IInv, TypeOK, States
<1>3. Len(tree) \in Nat
  BY DEF IInv, TypeOK
<1>4. Control'
  BY <1>3 DEF IInv, Control, NodesBounded, Count
<1>5. Membership' /\ Counted' /\ TaskInOnePlace'
  BY DEF IInv, Membership, Counted, TaskCount, TaskInOnePlace
<1> QED
  BY <1>2, <1>4, <1>5 DEF IInv

\* Run takes the leftmost node out of the tree, and its entity's tasks stay put.
LEMMA PickEntityIInv == ASSUME IInv, PickEntity PROVE IInv'
<1> USE DEF PickEntity, tasks
<1>1. tree \in Seq(Elem) /\ tree # <<>>
  BY DEF IInv, TypeOK, Elem
<1>2. Head(tree) \in Elem /\ Tail(tree) \in Seq(Elem) /\ Len(Tail(tree)) = Len(tree) - 1
  BY <1>1, HeadTailProperties
<1>3. node' \in SE /\ node' # NULL
  BY <1>2 DEF Elem
<1>4. /\ Len(tree) \in Nat /\ Len(my_rq[node']) \in Nat /\ Len(tree) > 0
      /\ m_size \in Nat /\ m_size >= Len(tree)
  <2>1. Len(Tail(tree)) \in Nat
    BY <1>2
  <2> QED
    BY <1>1, <1>2, <1>3, <2>1 DEF IInv, TypeOK, Control
<1>5. TypeOK'
  <2>1. m_size' \in Nat
    BY <1>4
  <2> QED
    BY <1>2, <1>3, <1>4, <2>1 DEF IInv, TypeOK, Elem, States
<1>6. node = NULL /\ to_run = NULL /\ m_next_se = NULL /\ killed = {}
  BY DEF IInv, Control
<1>7. NodesBounded'
  BY <1>2, <1>3, <1>4, <1>6 DEF IInv, Control, NodesBounded, Count, TypeOK
<1>8. Control'
  BY <1>2, <1>3, <1>4, <1>6, <1>7 DEF Control
<1>9. Membership' /\ Counted' /\ TaskInOnePlace'
  BY DEF IInv, Membership, Counted, TaskCount, TaskInOnePlace
<1> QED
  BY <1>5, <1>8, <1>9 DEF IInv

\* Run pops the next task of the round into to_run.
LEMMA PopTaskIInv == ASSUME IInv, PopTask PROVE IInv'
<1> USE DEF PopTask, tasks, round
<1>1. /\ node \in SE /\ to_run = NULL /\ y < num_tasks
      /\ Len(my_rq[node]) >= num_tasks - y
      /\ y \in Nat /\ num_tasks \in Nat /\ my_rq \in [SE -> Seq(Task)]
  BY DEF IInv, Control, TypeOK
<1>2. Len(my_rq[node]) \in Nat /\ Len(my_rq[node]) > 0
  BY <1>1
<1>3. /\ my_rq' \in [SE -> Seq(Task)]
      /\ Len(my_rq'[node]) = Len(my_rq[node]) - 1
      /\ to_run' \in Task /\ 1 \in DOMAIN my_rq[node] /\ to_run' = my_rq[node][1]
      /\ \A x \in SE : x # node => my_rq'[x] = my_rq[x]
      /\ \A i \in DOMAIN my_rq'[node] :
           i + 1 \in DOMAIN my_rq[node] /\ my_rq'[node][i] = my_rq[node][i + 1]
  BY <1>1, <1>2, PopQueue
<1>4. TypeOK'
  BY <1>3 DEF IInv, TypeOK, States
<1>5. Control'
  BY <1>1, <1>2, <1>3 DEF IInv, Control, NodesBounded, Count
<1>6. Membership'
  <2>1. ASSUME NEW s \in SE, NEW i \in DOMAIN my_rq'[s]
        PROVE  m_se[my_rq'[s][i]] = s
    BY <1>3 DEF IInv, Membership
  <2>2. m_se[to_run'] = node
    BY <1>1, <1>3 DEF IInv, Membership
  <2> QED
    BY <2>1, <2>2 DEF Membership
<1>7. Counted'
  BY DEF IInv, Counted, TaskCount
<1>8. TaskInOnePlace'
  <2>1. OnePlace(my_rq, NULL, killed, alive) /\ NULL \notin alive
    BY <1>1, OnePlaceIsTaskInOnePlace DEF IInv, TypeOK
  <2>2. OnePlace(my_rq', Head(my_rq[node]), killed, alive)
    BY <1>1, <1>2, <2>1, OnePlacePop
  <2> QED
    BY <2>2 DEF TaskInOnePlace, OnePlace, InQueue
<1> QED
  BY <1>4, <1>5, <1>6, <1>7, <1>8 DEF IInv

\* sys_split_proc queues the child it counts, on its parent's entity.
LEMMA SplitIInv == ASSUME IInv, Split PROVE IInv'
<1> USE DEF Split, MayCall, InSlice, round
<1>1. PICK child \in Task \ alive :
        /\ alive' = alive \cup {child}
        /\ m_se' = [m_se EXCEPT ![child] = m_se[to_run]]
        /\ spid' = [spid EXCEPT ![child] = m_num_tasks + 1]
        /\ my_rq' = [my_rq EXCEPT ![m_se[to_run]] = Append(@, child)]
  BY Zenon
<1>2. /\ m_se[to_run] = node /\ node \in SE /\ my_rq \in [SE -> Seq(Task)]
      /\ to_run \in Task /\ killed = {} /\ m_se \in [Task -> SE \cup {NULL}]
      /\ m_num_tasks \in Nat /\ m_num_tasks < MaxTasks /\ pc = "exec"
  BY DEF IInv, Membership, Control, TypeOK, CanScheduleMore
<1>3. pc' = "exec"
  BY <1>2
<1>4. /\ my_rq' \in [SE -> Seq(Task)]
      /\ Len(my_rq'[node]) = Len(my_rq[node]) + 1
      /\ \A x \in SE : x # node => my_rq'[x] = my_rq[x]
      /\ \A i \in DOMAIN my_rq[node] :
           i \in DOMAIN my_rq'[node] /\ my_rq'[node][i] = my_rq[node][i]
      /\ my_rq'[node][Len(my_rq[node]) + 1] = child
      /\ \A i \in DOMAIN my_rq'[node] :
           i \in DOMAIN my_rq[node] \/ i = Len(my_rq[node]) + 1
  <2>1. my_rq' = [my_rq EXCEPT ![node] = Append(@, child)]
    BY <1>1, <1>2
  <2> QED
    BY <1>2, <2>1, AppendQueue
<1>5. TypeOK'
  BY <1>1, <1>2, <1>3, <1>4, SMTT(30) DEF IInv, TypeOK, States
<1>6. Control'
  <2>1. Len(my_rq[node]) \in Nat /\ y \in Nat /\ num_tasks \in Nat
    BY <1>2 DEF IInv, TypeOK
  <2> QED
    BY <1>2, <1>3, <1>4, <2>1 DEF IInv, Control, NodesBounded, Count
<1>7. to_run # child /\ \A s \in SE : \A i \in DOMAIN my_rq[s] : my_rq[s][i] # child
  BY <1>2 DEF IInv, TaskInOnePlace
<1>8. Membership'
  <2>1. ASSUME NEW s \in SE, NEW i \in DOMAIN my_rq'[s]
        PROVE  m_se'[my_rq'[s][i]] = s
    <3>1. CASE i \in DOMAIN my_rq[s] /\ my_rq'[s][i] = my_rq[s][i]
      <4>1. my_rq[s] \in Seq(Task)
        BY <1>2
      <4>2. my_rq[s][i] \in Task /\ my_rq[s][i] # child
        BY <3>1, <4>1, <1>7, LenProperties
      <4>3. m_se[my_rq[s][i]] = s
        BY <3>1 DEF IInv, Membership
      <4> QED
        BY <3>1, <4>2, <4>3, <1>1, <1>2
    <3>2. CASE s = node /\ my_rq'[s][i] = child
      BY <3>2, <1>1, <1>2
    <3> QED
      BY <3>1, <3>2, <1>4
  <2>2. m_se'[to_run] = node
    BY <1>1, <1>2, <1>7
  <2> QED
    BY <2>1, <2>2, <1>2, <1>3 DEF Membership
<1>9. Counted'
  <2>1. IsFiniteSet(alive) /\ Cardinality(alive) = m_num_tasks
    BY DEF IInv, Counted, TaskCount
  <2>2. IsFiniteSet(alive') /\ Cardinality(alive') = Cardinality(alive) + 1
    BY <1>1, <2>1, FS_AddElement
  <2> QED
    BY <1>2, <1>3, <2>1, <2>2 DEF Counted, TaskCount
<1>10. TaskInOnePlace'
  <2>1. OnePlace(my_rq, to_run, killed, alive)
    BY OnePlaceIsTaskInOnePlace DEF IInv
  <2>2. ~InQueue(my_rq, child) /\ child \notin killed
    BY <1>2, <1>7 DEF InQueue
  <2>3. my_rq' = [my_rq EXCEPT ![node] = Append(@, child)]
    BY <1>1, <1>2
  <2>4. OnePlace(my_rq', to_run, killed, alive \cup {child})
    BY <1>2, <1>7, <2>1, <2>2, <2>3, OnePlaceAppend
  <2> QED
    BY <1>1, <2>4 DEF TaskInOnePlace, OnePlace, InQueue
<1> QED
  BY <1>5, <1>6, <1>8, <1>9, <1>10 DEF IInv

\* The end of the loop body charges the entity and clears to_run.
LEMMA ChargeSliceTypes ==
  ASSUME node \in SE, vruntime \in [SE -> Nat], j \in Nat, y \in Nat, ChargeSlice
  PROVE  /\ vruntime' \in [SE -> Nat] /\ y' \in Nat /\ pc' \in {"slice", "place"}
         /\ to_run' = NULL
<1>1. vruntime' \in [SE -> Nat]
  <2>1. vruntime[node] + j \in Nat
    OBVIOUS
  <2> QED
    BY <2>1 DEF ChargeSlice
<1> QED
  BY <1>1 DEF ChargeSlice

\* Run pushes a task whose slice is over back on the queue it came from.
LEMMA KeepTaskIInv == ASSUME IInv, KeepTask PROVE IInv'
<1> USE DEF KeepTask, ChargeSlice, tasks, round
<1>1. /\ m_se[to_run] = node /\ node \in SE /\ my_rq \in [SE -> Seq(Task)]
      /\ to_run \in Task /\ killed = {} /\ to_run # NULL /\ m_next_se = NULL
      /\ y < num_tasks /\ Len(my_rq[node]) >= (num_tasks - y) - 1
      /\ y \in Nat /\ num_tasks \in Nat /\ Len(my_rq[node]) \in Nat
  BY DEF IInv, Membership, Control, TypeOK
<1>2. /\ my_rq' \in [SE -> Seq(Task)]
      /\ Len(my_rq'[node]) = Len(my_rq[node]) + 1
      /\ \A x \in SE : x # node => my_rq'[x] = my_rq[x]
      /\ \A i \in DOMAIN my_rq[node] :
           i \in DOMAIN my_rq'[node] /\ my_rq'[node][i] = my_rq[node][i]
      /\ my_rq'[node][Len(my_rq[node]) + 1] = to_run
      /\ \A i \in DOMAIN my_rq'[node] :
           i \in DOMAIN my_rq[node] \/ i = Len(my_rq[node]) + 1
  <2>1. my_rq' = [my_rq EXCEPT ![node] = Append(@, to_run)]
    OBVIOUS
  <2> HIDE DEF KeepTask
  <2> QED
    BY <1>1, <2>1, AppendQueue
<1>3. TypeOK'
  <2>1. /\ UNCHANGED <<tasks, tree, m_size, entities, nodes, round, m_next_se, j,
                        rc, killed>>
        /\ vruntime' \in [SE -> Nat] /\ y' \in Nat /\ to_run' = NULL
        /\ pc' \in States
    BY <1>1 DEF IInv, TypeOK, States
  <2> HIDE DEF KeepTask
  <2> QED
    BY <1>2, <2>1 DEF IInv, TypeOK
<1>4. Control'
  BY <1>1, <1>2 DEF IInv, Control, NodesBounded, Count
<1>5. Membership'
  BY <1>1, <1>2 DEF IInv, Membership
<1>6. Counted'
  BY DEF IInv, Counted, TaskCount
<1>7. TaskInOnePlace'
  <2>1. OnePlace(my_rq, to_run, killed, alive)
    BY OnePlaceIsTaskInOnePlace DEF IInv
  <2>2. ~InQueue(my_rq, to_run) /\ to_run \notin killed /\ alive \cup {to_run} = alive
    BY <1>1, <2>1 DEF OnePlace, InQueue
  <2>3. OnePlace(my_rq', NULL, killed, alive \cup {to_run})
    BY <1>1, <2>1, <2>2, OnePlaceAppend
  <2> QED
    BY <2>2, <2>3 DEF TaskInOnePlace, OnePlace, InQueue
<1> QED
  BY <1>3, <1>4, <1>5, <1>6, <1>7 DEF IInv

\* Run deletes a task that ended and counts it out.
LEMMA DropTaskIInv == ASSUME IInv, DropTask PROVE IInv'
<1> USE DEF DropTask, ChargeSlice, round
<1>1. /\ node \in SE /\ my_rq \in [SE -> Seq(Task)]
      /\ to_run \in Task /\ killed = {} /\ to_run # NULL /\ m_next_se = NULL
      /\ y < num_tasks /\ Len(my_rq[node]) >= (num_tasks - y) - 1
      /\ y \in Nat /\ num_tasks \in Nat /\ Len(my_rq[node]) \in Nat
  BY DEF IInv, Control, TypeOK
<1>2. OnePlace(my_rq, to_run, killed, alive) /\ to_run \in alive
  BY <1>1, OnePlaceIsTaskInOnePlace DEF IInv, TaskInOnePlace
<1>3. /\ IsFiniteSet(alive) /\ Cardinality(alive) = m_num_tasks
      /\ m_num_tasks \in Nat /\ m_num_tasks <= MaxTasks
  BY DEF IInv, Counted, TaskCount, TypeOK
<1>4. /\ IsFiniteSet(alive') /\ Cardinality(alive') = m_num_tasks - 1
      /\ Cardinality(alive') \in Nat
  BY <1>2, <1>3, FS_RemoveElement, FS_CardinalityType
<1>5. TypeOK'
  BY <1>1, <1>3, <1>4 DEF IInv, TypeOK, States
<1>6. Control'
  BY <1>1 DEF IInv, Control, NodesBounded, Count
<1>7. Membership'
  <2>1. \A s \in SE : \A i \in DOMAIN my_rq[s] :
          my_rq[s][i] # to_run /\ my_rq[s][i] \in Task
    BY <1>1, <1>2 DEF OnePlace, IInv, TypeOK
  <2> QED
    BY <1>1, <2>1 DEF IInv, Membership, TypeOK
<1>8. Counted'
  BY <1>3, <1>4 DEF Counted, TaskCount
<1>9. TaskInOnePlace'
  <2>1. OnePlace(my_rq, NULL, killed, alive \ {to_run})
    BY <1>1, <1>2, OnePlaceDrop
  <2> QED
    BY <2>1 DEF TaskInOnePlace, OnePlace, InQueue
<1> QED
  BY <1>5, <1>6, <1>7, <1>8, <1>9 DEF IInv

\* Run moves the task that called setsid to its new entity, and adds its node.
LEMMA MoveTaskIInv == ASSUME IInv, MoveTask PROVE IInv'
<1> USE DEF ChargeSlice, round
<1>1. /\ m_se[to_run] = node /\ node \in SE /\ my_rq \in [SE -> Seq(Task)]
      /\ to_run \in Task /\ killed = {} /\ to_run # NULL /\ m_next_se \in SE
      /\ y < num_tasks /\ Len(my_rq[node]) >= (num_tasks - y) - 1
      /\ y \in Nat /\ num_tasks \in Nat /\ Len(my_rq[node]) \in Nat
      /\ rc = "THREAD_EXIT" /\ Len(tree) < MaxTasks - 1
      /\ tree \in Seq(Elem) /\ Len(tree) \in Nat /\ vruntime \in [SE -> Nat]
      /\ nodes = Len(tree) + 1 /\ m_size \in Nat /\ m_size >= Len(tree)
  <2>1. pc = "ended" /\ m_next_se # NULL
    BY DEF MoveTask
  <2>2. /\ node \in SE /\ my_rq \in [SE -> Seq(Task)] /\ m_next_se \in SE
        /\ y \in Nat /\ num_tasks \in Nat /\ Len(my_rq[node]) \in Nat
        /\ tree \in Seq(Elem) /\ Len(tree) \in Nat /\ vruntime \in [SE -> Nat]
        /\ m_size \in Nat
    BY <2>1 DEF IInv, Control, TypeOK, Elem
  <2>3. nodes = Len(tree) + 1
    BY <2>1, <2>2 DEF IInv, Control, NodesBounded, Count
  <2> QED
    BY <2>1, <2>2, <2>3 DEF IInv, Membership, Control
<1> DEFINE e == [key |-> vruntime[m_next_se], se |-> m_next_se]
<1>2. /\ m_se' = [m_se EXCEPT ![to_run] = m_next_se]
      /\ spid' = [spid EXCEPT ![to_run] = m_num_tasks + 1]
      /\ tree' = InsertByKey(tree, e) /\ m_size' = m_size + 1
      /\ nodes' = nodes + 1
      /\ my_rq' = [my_rq EXCEPT ![m_next_se] = Append(@, to_run)]
      /\ m_next_se' = NULL
      /\ ChargeSlice
      /\ UNCHANGED <<alive, m_num_tasks, entities, round, j, rc, killed>>
      /\ pc = "ended"
  BY <1>1 DEF MoveTask
<1>3. e \in Elem
  BY <1>1 DEF Elem
<1>4. tree' \in Seq(Elem) /\ Len(tree') = Len(tree) + 1
  BY <1>1, <1>2, <1>3, InsertProperties
<1> HIDE DEF e
<1>5. /\ my_rq' \in [SE -> Seq(Task)]
      /\ Len(my_rq'[m_next_se]) = Len(my_rq[m_next_se]) + 1
      /\ \A x \in SE : x # m_next_se => my_rq'[x] = my_rq[x]
      /\ \A i \in DOMAIN my_rq[m_next_se] :
           /\ i \in DOMAIN my_rq'[m_next_se]
           /\ my_rq'[m_next_se][i] = my_rq[m_next_se][i]
      /\ my_rq'[m_next_se][Len(my_rq[m_next_se]) + 1] = to_run
      /\ \A i \in DOMAIN my_rq'[m_next_se] :
           i \in DOMAIN my_rq[m_next_se] \/ i = Len(my_rq[m_next_se]) + 1
  BY <1>1, <1>2, AppendQueue
<1>6. TypeOK'
  <2>1. /\ m_se' \in [Task -> SE \cup {NULL}] /\ spid' \in [Task -> Nat]
        /\ nodes' \in Nat /\ m_size' \in Nat
    BY <1>1, <1>2, SMTT(30) DEF IInv, TypeOK
  <2>2. /\ vruntime' \in [SE -> Nat] /\ y' \in Nat /\ pc' \in States
        /\ to_run' = NULL
    <3>1. vruntime \in [SE -> Nat] /\ j \in Nat /\ y \in Nat
      BY DEF IInv, TypeOK
    <3> HIDE DEF ChargeSlice
    <3>2. ChargeSlice
      BY <1>2
    <3> QED
      BY <1>1, <3>1, <3>2, ChargeSliceTypes DEF States
  <2> QED
    BY <1>2, <1>4, <1>5, <2>1, <2>2 DEF IInv, TypeOK, Elem
<1>7. Len(my_rq'[node]) >= Len(my_rq[node]) /\ Len(my_rq'[node]) \in Nat
  <2>1. CASE node = m_next_se
    BY <1>1, <1>5, <2>1
  <2>2. CASE node # m_next_se
    <3>1. my_rq'[node] = my_rq[node]
      BY <1>1, <1>5, <2>2
    <3> QED
      BY <1>1, <3>1
  <2> QED
    BY <2>1, <2>2
<1>8. Control'
  <2>1. NodesBounded'
    BY <1>1, <1>2, <1>4 DEF NodesBounded, Count
  <2> QED
    BY <1>1, <1>2, <1>4, <1>7, <2>1 DEF Control
<1>9. OnePlace(my_rq, to_run, killed, alive)
  BY OnePlaceIsTaskInOnePlace DEF IInv
<1>10. ~InQueue(my_rq, to_run) /\ to_run \notin killed /\ alive \cup {to_run} = alive
  BY <1>1, <1>9 DEF OnePlace, InQueue
<1>11. Membership'
  <2>1. ASSUME NEW s \in SE, NEW i \in DOMAIN my_rq'[s]
        PROVE  m_se'[my_rq'[s][i]] = s
    <3>1. CASE i \in DOMAIN my_rq[s] /\ my_rq'[s][i] = my_rq[s][i]
      <4>1. my_rq[s] \in Seq(Task)
        BY <1>1
      <4>2. my_rq[s][i] \in Task /\ my_rq[s][i] # to_run
        BY <3>1, <4>1, <1>10, LenProperties DEF InQueue
      <4>3. m_se[my_rq[s][i]] = s
        BY <3>1 DEF IInv, Membership
      <4> QED
        BY <3>1, <4>2, <4>3, <1>2
    <3>2. CASE s = m_next_se /\ my_rq'[s][i] = to_run
      BY <3>2, <1>1, <1>2 DEF IInv, TypeOK
    <3> QED
      BY <3>1, <3>2, <1>5
  <2> QED
    BY <2>1, <1>2 DEF Membership
<1>12. Counted'
  BY <1>2 DEF IInv, Counted, TaskCount
<1>13. TaskInOnePlace'
  <2>1. OnePlace(my_rq', NULL, killed, alive \cup {to_run})
    BY <1>1, <1>2, <1>9, <1>10, OnePlaceAppend
  <2> QED
    BY <1>2, <1>10, <2>1 DEF TaskInOnePlace, OnePlace, InQueue
<1> QED
  BY <1>6, <1>8, <1>11, <1>12, <1>13 DEF IInv

\* The fault in add with an exhausted pool happens with the task still in to_run.
LEMMA MoveTaskNoBlockIInv == ASSUME IInv, MoveTaskNoBlock PROVE IInv'
<1> USE DEF MoveTaskNoBlock, round, queues
<1>1. /\ node \in SE /\ to_run \in Task /\ to_run # NULL /\ m_next_se \in SE
      /\ killed = {}
  BY DEF IInv, Control, TypeOK
<1>2. TypeOK'
  BY <1>1 DEF IInv, TypeOK, States
<1>3. Control'
  BY <1>1 DEF IInv, Control, NodesBounded, Count
<1>4. Membership'
  <2>1. \A s \in SE : \A i \in DOMAIN my_rq[s] :
          my_rq[s][i] # to_run /\ my_rq[s][i] \in Task
    BY <1>1 DEF IInv, TaskInOnePlace, TypeOK
  <2> QED
    BY <1>1, <2>1 DEF IInv, Membership, TypeOK
<1>5. Counted' /\ TaskInOnePlace'
  BY DEF IInv, Counted, TaskCount, TaskInOnePlace
<1> QED
  BY <1>2, <1>3, <1>4, <1>5 DEF IInv

\* Run puts the node of an entity with tasks back into the tree.
LEMMA ReinsertIInv == ASSUME IInv, Reinsert PROVE IInv'
<1> USE DEF Reinsert, tasks
<1> DEFINE e == [key |-> vruntime[node], se |-> node]
<1>1. /\ node \in SE /\ node # NULL /\ to_run = NULL /\ m_next_se = NULL
      /\ tree \in Seq(Elem) /\ Len(tree) \in Nat /\ vruntime \in [SE -> Nat]
      /\ m_size \in Nat /\ m_size >= Len(tree)
  BY DEF IInv, Control, TypeOK, Elem
<1>2. tree' \in Seq(Elem) /\ Len(tree') = Len(tree) + 1
  <2>1. e \in Elem
    BY <1>1 DEF Elem
  <2> HIDE DEF e
  <2>2. tree' = InsertByKey(tree, e)
    BY DEF e
  <2> HIDE DEF Reinsert
  <2> QED
    BY <1>1, <2>1, <2>2, InsertProperties
<1> HIDE DEF e
<1>3. TypeOK'
  <2>1. m_size' \in Nat
    BY <1>1
  <2> QED
    BY <1>2, <2>1 DEF IInv, TypeOK, States, Elem
<1>4. NodesBounded'
  BY <1>1, <1>2 DEF IInv, Control, NodesBounded, Count
<1>5. Control'
  BY <1>1, <1>2, <1>4 DEF IInv, Control
<1>6. Membership' /\ Counted' /\ TaskInOnePlace'
  BY DEF IInv, Membership, Counted, TaskCount, TaskInOnePlace
<1> QED
  BY <1>3, <1>5, <1>6 DEF IInv

\* Run deletes an entity whose queue is empty, with its node.
LEMMA DropEntityIInv == ASSUME IInv, DropEntity PROVE IInv'
<1> USE DEF DropEntity, tasks
<1>1. /\ node \in SE /\ node # NULL /\ to_run = NULL /\ m_next_se = NULL
      /\ tree \in Seq(Elem) /\ Len(tree) \in Nat
      /\ nodes = Len(tree) + 1 /\ nodes <= MaxTasks
  BY DEF IInv, Control, TypeOK, Elem, NodesBounded, Count
<1>2. TypeOK'
  BY <1>1 DEF IInv, TypeOK, States
<1>3. Control'
  BY <1>1 DEF IInv, Control, NodesBounded, Count
<1>4. Membership' /\ Counted' /\ TaskInOnePlace'
  BY DEF IInv, Membership, Counted, TaskCount, TaskInOnePlace
<1> QED
  BY <1>2, <1>3, <1>4 DEF IInv

\* The SIGSEGV handler empties the queues it kills the tasks of.
LEMMA KillTasksIInv == ASSUME IInv, KillTasks PROVE IInv'
<1> USE DEF tasks, round
<1> DEFINE queued == {tree[i].se : i \in DOMAIN tree}
<1>1. /\ pc = "segv" /\ pc' \in {"segv", "died"}
      /\ killed' = killed \cup {t \in Task : \E s \in queued :
                                  \E i \in DOMAIN my_rq[s] : my_rq[s][i] = t}
      /\ my_rq' = [s \in SE |-> IF s \in queued THEN <<>> ELSE my_rq[s]]
      /\ tree' = <<>> /\ m_size' = m_size - Len(tree)
      /\ UNCHANGED <<tasks, vruntime, entities, nodes, round, m_next_se, y,
                     to_run, j, rc>>
  BY DEF KillTasks
<1>2. /\ tree \in Seq(Elem) /\ my_rq \in [SE -> Seq(Task)]
      /\ queued \subseteq SE
  <2>1. tree \in Seq(Elem) /\ my_rq \in [SE -> Seq(Task)]
    BY DEF IInv, TypeOK, Elem
  <2>2. \A i \in DOMAIN tree : tree[i] \in Elem
    BY <2>1, LenProperties
  <2> QED
    BY <2>1, <2>2 DEF Elem
<1> HIDE DEF queued
<1>3. my_rq' \in [SE -> Seq(Task)] /\ Len(tree') = 0 /\ m_size' \in Nat
  <2>1. Len(tree) \in Nat /\ m_size \in Nat /\ m_size >= Len(tree)
    BY <1>2 DEF IInv, TypeOK, Control
  <2> QED
    BY <1>1, <1>2, <2>1
<1>4. TypeOK'
  BY <1>1, <1>3 DEF IInv, TypeOK, States
<1>5. Control'
  BY <1>1, <1>3 DEF IInv, Control, NodesBounded
<1>6. \A s \in SE : \/ DOMAIN my_rq'[s] = {} /\ s \in queued
                    \/ my_rq'[s] = my_rq[s] /\ s \notin queued
  BY <1>1
<1>7. Membership'
  BY <1>1, <1>6 DEF IInv, Membership
<1>8. Counted'
  BY <1>1 DEF IInv, Counted, TaskCount
<1>9. TaskInOnePlace'
  <2> DEFINE caught == {t \in Task : \E s \in queued :
                          \E i \in DOMAIN my_rq[s] : my_rq[s][i] = t}
  <2>1. OnePlace(my_rq, to_run, killed, alive) /\ alive \subseteq Task
    BY OnePlaceIsTaskInOnePlace DEF IInv, TypeOK
  <2>2. ASSUME NEW s \in SE, NEW r \in SE, NEW i \in DOMAIN my_rq'[s],
               NEW k \in DOMAIN my_rq'[r], my_rq'[s][i] = my_rq'[r][k]
        PROVE  s = r /\ i = k
    BY <1>6, <2>1, <2>2 DEF OnePlace
  <2>3. ASSUME NEW s \in SE, NEW i \in DOMAIN my_rq'[s]
        PROVE  my_rq'[s][i] \in alive \ (killed \cup caught \cup {to_run})
    <3>1. my_rq'[s] = my_rq[s] /\ s \notin queued
      BY <1>6, <2>3
    <3>2. my_rq[s][i] \in alive \ (killed \cup {to_run})
      BY <2>1, <2>3, <3>1 DEF OnePlace
    <3>3. ASSUME NEW x \in queued, NEW l \in DOMAIN my_rq[x]
          PROVE  my_rq[x][l] # my_rq[s][i]
      BY <1>2, <2>1, <2>3, <3>1 DEF OnePlace
    <3> QED
      BY <3>1, <3>2, <3>3
  <2>4. to_run # NULL => to_run \in alive \ (killed \cup caught)
    <3> HAVE to_run # NULL
    <3>1. to_run \in alive \ killed
      BY <2>1 DEF OnePlace
    <3>2. ASSUME NEW x \in queued, NEW l \in DOMAIN my_rq[x]
          PROVE  my_rq[x][l] # to_run
      BY <1>2, <2>1 DEF OnePlace
    <3> QED
      BY <3>1, <3>2
  <2>5. ASSUME NEW t \in alive
        PROVE  t = to_run \/ t \in killed \cup caught \/ InQueue(my_rq', t)
    <3>1. CASE InQueue(my_rq, t)
      <4>1. PICK s \in SE : \E i \in DOMAIN my_rq[s] : my_rq[s][i] = t
        BY <3>1, Zenon DEF InQueue
      <4>2. CASE s \in queued
        BY <2>1, <4>1, <4>2
      <4>3. CASE s \notin queued
        <5>1. my_rq'[s] = my_rq[s]
          BY <1>6, <4>3
        <5> QED
          BY <4>1, <5>1 DEF InQueue
      <4> QED
        BY <4>2, <4>3
    <3>2. CASE t = to_run \/ t \in killed
      BY <3>2
    <3>3. t = to_run \/ t \in killed \/ InQueue(my_rq, t)
      BY <2>1, Zenon DEF OnePlace
    <3> QED
      BY <3>1, <3>2, <3>3
  <2>6. killed' = killed \cup caught /\ UNCHANGED <<alive, to_run>>
    BY <1>1
  <2> HIDE DEF caught
  <2>7. OnePlace(my_rq', to_run, killed \cup caught, alive)
    BY <2>2, <2>3, <2>4, <2>5, Zenon DEF OnePlace
  <2> QED
    BY <2>6, <2>7 DEF TaskInOnePlace, OnePlace, InQueue
<1> QED
  BY <1>4, <1>5, <1>7, <1>8, <1>9 DEF IInv
-----------------------------------------------------------------------------
\* Every step of Run and every call of a guest keeps the invariant.
LEMMA NextIInv == IInv /\ [Next]_vars => IInv'
<1> SUFFICES ASSUME IInv, [Next]_vars PROVE IInv'
  OBVIOUS
<1>1. CASE PickEntity
  BY <1>1, PickEntityIInv
<1>2. CASE PopTask
  BY <1>2, PopTaskIInv
<1>3. CASE \/ OtherCall \/ ErrorCall \/ Exit \/ Fault \/ SliceOver \/ Return
             \/ PickNothing
  BY <1>3, QuietIInv
<1>4. CASE Split
  BY <1>4, SplitIInv
<1>5. CASE Setsid
  BY <1>5, SetsidIInv
<1>6. CASE KeepTask
  BY <1>6, KeepTaskIInv
<1>7. CASE DropTask
  BY <1>7, DropTaskIInv
<1>8. CASE MoveTask
  BY <1>8, MoveTaskIInv
<1>9. CASE MoveTaskNoBlock
  BY <1>9, MoveTaskNoBlockIInv
<1>10. CASE Reinsert
  BY <1>10, ReinsertIInv
<1>11. CASE DropEntity
  BY <1>11, DropEntityIInv
<1>12. CASE KillTasks
  BY <1>12, KillTasksIInv
<1>13. CASE UNCHANGED vars
  BY <1>13 DEF vars, tasks, queues, round, IInv, TypeOK, Control, Membership,
               Counted, TaskCount, TaskInOnePlace, NodesBounded, Count, States
<1> QED
  BY <1>1, <1>2, <1>3, <1>4, <1>5, <1>6, <1>7, <1>8, <1>9, <1>10, <1>11,
     <1>12, <1>13 DEF Next, Finished

\* The inductive invariant holds whatever the guests do, and with any pool.
THEOREM SchedulerInvariant == Spec => []IInv
  BY InitIInv, NextIInv, PTL DEF Spec

\* The members of CFSScheduler and the locals of Run keep their types; in
\* particular to_run and node are never NULL where Run dereferences them.
THEOREM TypeCorrect == Spec => []TypeOK
<1>1. IInv => TypeOK
  BY DEF IInv
<1> QED
  BY <1>1, SchedulerInvariant, PTL

\* No task is ever lost, queued twice or deleted twice.
THEOREM TaskInOnePlaceCorrect == Spec => []TaskInOnePlace
<1>1. IInv => TaskInOnePlace
  BY DEF IInv
<1> QED
  BY <1>1, SchedulerInvariant, PTL

\* m_num_tasks is the number of tasks, and neither the abort in ScheduleThread
\* nor the assert in Run is reached.
THEOREM TaskCountCorrect == Spec => []TaskCount
<1>1. IInv => TaskCount
  BY DEF IInv, Counted
<1> QED
  BY <1>1, SchedulerInvariant, PTL

\* The test in sys_setsid bounds the nodes by MaxTasks although it does not
\* count the node that is being run.
THEOREM NodesBoundedCorrect == Spec => []NodesBounded
<1>1. IInv => NodesBounded
  BY DEF IInv, Control
<1> QED
  BY <1>1, SchedulerInvariant, PTL

-----------------------------------------------------------------------------
(* The order of the tree.                                                  *)

Ordered(s)  == \A i, k \in 1 .. Len(s) : i <= k => s[i].key <= s[k].key
Once(s)     == \A i, k \in 1 .. Len(s) : s[i].se = s[k].se => i = k
Holds(s, x) == \E i \in 1 .. Len(s) : s[i].se = x

\* In an ordered sequence the smaller keys are a prefix.
LEMMA SmallerKeys ==
  ASSUME NEW s \in Seq(Elem), Ordered(s), NEW key \in Nat
  PROVE  \E p \in 0 .. Len(s) : {i \in 1 .. Len(s) : s[i].key < key} = 1 .. p
<1> DEFINE A == {i \in 1 .. Len(s) : s[i].key < key}
           B == (1 .. Len(s) + 1) \ A
<1>1. Len(s) \in Nat /\ \A i \in 1 .. Len(s) : s[i] \in Elem /\ s[i].key \in Nat
  <2>1. Len(s) \in Nat /\ s \in [1 .. Len(s) -> Elem]
    BY LenProperties
  <2> QED
    BY <2>1 DEF Elem
<1>2. B \subseteq Nat /\ Len(s) + 1 \in B
  BY <1>1
<1>3. PICK m \in B : \A i \in B : ~(<<i, m>> \in OpToRel(<, Nat))
  <2> HIDE DEF B
  <2> QED
    BY <1>2, NatLessThanWellFounded, WFMin, Zenon
<1>4. \A i \in B : m <= i
  <2>1. \A i \in B : ~(i < m)
    BY <1>2, <1>3 DEF OpToRel
  <2> QED
    BY <1>2, <2>1
<1>5. m - 1 \in 0 .. Len(s)
  BY <1>1
<1>6. ASSUME NEW i \in 1 .. Len(s)
      PROVE  i \in A <=> i < m
  <2>1. i < m => i \in A
    BY <1>1, <1>4
  <2>2. ASSUME i \in A, m <= i
        PROVE  FALSE
    <3>1. m \in 1 .. Len(s) /\ m \notin A
      BY <1>1, <2>2
    <3>2. s[m].key <= s[i].key /\ s[i].key < key
      BY <2>2, <3>1 DEF Ordered
    <3> QED
      BY <1>1, <3>1, <3>2
  <2> QED
    BY <1>1, <2>1, <2>2
<1>7. A = 1 .. m - 1
  <2>1. A \subseteq 1 .. Len(s)
    OBVIOUS
  <2>2. m \in 1 .. Len(s) + 1
    OBVIOUS
  <2> HIDE DEF A, B
  <2>3. ASSUME NEW i \in A PROVE i \in 1 .. m - 1
    BY <1>1, <1>6, <2>1, <2>2
  <2>4. ASSUME NEW i \in 1 .. m - 1 PROVE i \in A
    BY <1>1, <1>6, <2>2
  <2> QED
    BY <2>3, <2>4
<1> QED
  BY <1>5, <1>7

\* add puts an element after the smaller keys and before the others.
LEMMA InsertPlaces ==
  ASSUME NEW s \in Seq(Elem), Ordered(s), NEW e \in Elem
  PROVE  \E p \in 0 .. Len(s) :
           /\ \A i \in 1 .. p : s[i].key < e.key /\ InsertByKey(s, e)[i] = s[i]
           /\ InsertByKey(s, e)[p + 1] = e
           /\ \A i \in p + 1 .. Len(s) :
                e.key <= s[i].key /\ InsertByKey(s, e)[i + 1] = s[i]
<1>1. Len(s) \in Nat /\ \A i \in 1 .. Len(s) : s[i] \in Elem /\ s[i].key \in Nat
  <2>1. Len(s) \in Nat /\ s \in [1 .. Len(s) -> Elem]
    BY LenProperties
  <2> QED
    BY <2>1 DEF Elem
<1>2. e.key \in Nat
  BY DEF Elem
<1>3. PICK p \in 0 .. Len(s) : {i \in 1 .. Len(s) : s[i].key < e.key} = 1 .. p
  BY <1>2, SmallerKeys
<1>4. Cardinality(1 .. p) = p
  <2>1. Cardinality(1 .. p) = IF 1 > p THEN 0 ELSE p - 1 + 1
    BY <1>1, FS_Interval
  <2> QED
    BY <1>1, <2>1
<1> DEFINE a == SubSeq(s, 1, p)
           b == SubSeq(s, p + 1, Len(s))
<1>5. InsertByKey(s, e) = (a \o <<e>>) \o b
  BY <1>3, <1>4, Zenon DEF InsertByKey
<1>6. a \in Seq(Elem) /\ Len(a) = p /\ \A i \in 1 .. p : a[i] = s[i]
  <2>1. 1 \in Int /\ p \in Int /\ \A i \in 1 .. p : s[i] \in Elem
    BY <1>1
  <2>2. /\ a \in Seq(Elem) /\ Len(a) = IF 1 <= p THEN p - 1 + 1 ELSE 0
        /\ \A i \in 1 .. p - 1 + 1 : a[i] = s[1 + i - 1]
    BY <2>1, SubSeqProperties
  <2>3. \A i \in 1 .. p : i \in 1 .. p - 1 + 1 /\ 1 + i - 1 = i
    BY <1>1
  <2> HIDE DEF a
  <2> QED
    BY <1>1, <2>2, <2>3
<1>7. /\ b \in Seq(Elem) /\ Len(b) = Len(s) - p
      /\ \A i \in 1 .. Len(s) - p : b[i] = s[p + i]
  <2>1. p + 1 \in Int /\ Len(s) \in Int /\ \A i \in p + 1 .. Len(s) : s[i] \in Elem
    BY <1>1
  <2>2. /\ b \in Seq(Elem)
        /\ Len(b) = IF p + 1 <= Len(s) THEN Len(s) - (p + 1) + 1 ELSE 0
        /\ \A i \in 1 .. Len(s) - (p + 1) + 1 : b[i] = s[(p + 1) + i - 1]
    BY <2>1, SubSeqProperties
  <2>3. \A i \in 1 .. Len(s) - p :
          i \in 1 .. Len(s) - (p + 1) + 1 /\ (p + 1) + i - 1 = p + i
    BY <1>1
  <2> HIDE DEF b
  <2> QED
    BY <1>1, <2>2, <2>3
<1> HIDE DEF a, b
<1>8. /\ a \o <<e>> \in Seq(Elem) /\ Len(a \o <<e>>) = p + 1
      /\ \A i \in 1 .. p + 1 : (a \o <<e>>)[i] = IF i <= p THEN a[i] ELSE e
  BY <1>1, <1>6, ConcatProperties
<1>9. \A i \in 1 .. (p + 1) + (Len(s) - p) :
        InsertByKey(s, e)[i] = IF i <= p + 1 THEN (a \o <<e>>)[i] ELSE b[i - (p + 1)]
  <2>1. \A i \in 1 .. Len(a \o <<e>>) + Len(b) :
          ((a \o <<e>>) \o b)[i] = IF i <= Len(a \o <<e>>) THEN (a \o <<e>>)[i]
                                   ELSE b[i - Len(a \o <<e>>)]
    BY <1>7, <1>8, ConcatProperties
  <2> QED
    BY <1>5, <1>7, <1>8, <2>1
<1>10. ASSUME NEW i \in 1 .. p
       PROVE  s[i].key < e.key /\ InsertByKey(s, e)[i] = s[i]
  <2>1. i \in 1 .. p + 1 /\ i \in 1 .. (p + 1) + (Len(s) - p) /\ i <= p + 1 /\ i <= p
    BY <1>1
  <2>2. InsertByKey(s, e)[i] = (a \o <<e>>)[i] /\ (a \o <<e>>)[i] = a[i] /\ a[i] = s[i]
    BY <1>6, <1>8, <1>9, <2>1
  <2>3. s[i].key < e.key
    BY <1>3
  <2> QED
    BY <2>2, <2>3
<1>11. InsertByKey(s, e)[p + 1] = e
  <2>1. /\ p + 1 \in 1 .. p + 1 /\ p + 1 \in 1 .. (p + 1) + (Len(s) - p)
        /\ p + 1 <= p + 1 /\ ~(p + 1 <= p)
    BY <1>1
  <2>2. /\ InsertByKey(s, e)[p + 1] = (a \o <<e>>)[p + 1]
        /\ (a \o <<e>>)[p + 1] = e
    BY <1>8, <1>9, <2>1
  <2> QED
    BY <2>2
<1>12. ASSUME NEW i \in p + 1 .. Len(s)
       PROVE  e.key <= s[i].key /\ InsertByKey(s, e)[i + 1] = s[i]
  <2>1. i \in 1 .. Len(s) /\ i \notin 1 .. p
    BY <1>1
  <2>2. e.key <= s[i].key
    BY <1>1, <1>2, <1>3, <2>1
  <2>3. /\ i + 1 \in 1 .. (p + 1) + (Len(s) - p) /\ ~(i + 1 <= p + 1)
        /\ (i + 1) - (p + 1) \in 1 .. Len(s) - p /\ p + ((i + 1) - (p + 1)) = i
    BY <1>1
  <2> QED
    BY <1>7, <1>9, <2>2, <2>3
<1> QED
  BY <1>10, <1>11, <1>12

\* add keeps the order, and puts in the tree the entity it is given and no other.
LEMMA InsertOrdered ==
  ASSUME NEW s \in Seq(Elem), Ordered(s), Once(s), NEW e \in Elem, ~Holds(s, e.se),
         NEW r, r = InsertByKey(s, e)
  PROVE  /\ Ordered(r) /\ Once(r)
         /\ \A x : Holds(r, x) <=> Holds(s, x) \/ x = e.se
         /\ \A i \in 1 .. Len(r) : r[i] = e \/ \E k \in 1 .. Len(s) : r[i] = s[k]
<1>1. Len(s) \in Nat /\ e.key \in Nat /\ \A i \in 1 .. Len(s) : s[i].key \in Nat
  <2>1. Len(s) \in Nat /\ s \in [1 .. Len(s) -> Elem]
    BY LenProperties
  <2> QED
    BY <2>1 DEF Elem
<1>2. Len(r) = Len(s) + 1
  BY InsertProperties
<1>3. PICK p \in 0 .. Len(s) :
        /\ \A i \in 1 .. p : s[i].key < e.key /\ r[i] = s[i]
        /\ r[p + 1] = e
        /\ \A i \in p + 1 .. Len(s) : e.key <= s[i].key /\ r[i + 1] = s[i]
  <2>1. PICK q \in 0 .. Len(s) :
          /\ \A i \in 1 .. q : s[i].key < e.key /\ InsertByKey(s, e)[i] = s[i]
          /\ InsertByKey(s, e)[q + 1] = e
          /\ \A i \in q + 1 .. Len(s) : e.key <= s[i].key /\ InsertByKey(s, e)[i + 1] = s[i]
    BY InsertPlaces
  <2> QED
    BY <2>1
<1>4. ASSUME NEW i \in 1 .. Len(r)
      PROVE  \/ i <= p /\ i \in 1 .. Len(s) /\ r[i] = s[i] /\ s[i].key < e.key
             \/ i = p + 1 /\ r[i] = e
             \/ /\ i > p + 1 /\ i - 1 \in 1 .. Len(s) /\ r[i] = s[i - 1]
                /\ e.key <= s[i - 1].key
  <2>1. CASE i <= p
    BY <1>1, <1>2, <1>3, <2>1
  <2>2. CASE i = p + 1
    BY <1>3, <2>2
  <2>3. CASE i > p + 1
    <3>1. i - 1 \in p + 1 .. Len(s) /\ i - 1 \in 1 .. Len(s) /\ (i - 1) + 1 = i
      BY <1>1, <1>2, <2>3
    <3>2. e.key <= s[i - 1].key /\ r[(i - 1) + 1] = s[i - 1]
      BY <1>3, <3>1
    <3> QED
      BY <2>3, <3>1, <3>2
  <2> QED
    BY <1>1, <1>2, <2>1, <2>2, <2>3
<1>5. Ordered(r)
  <2> SUFFICES ASSUME NEW i \in 1 .. Len(r), NEW k \in 1 .. Len(r), i <= k
               PROVE  r[i].key <= r[k].key
    BY DEF Ordered
  <2>1. CASE k <= p
    BY <1>1, <1>4, <2>1 DEF Ordered
  <2>2. CASE k = p + 1
    BY <1>1, <1>4, <2>2
  <2>3. CASE k > p + 1
    <3>1. r[k] = s[k - 1] /\ k - 1 \in 1 .. Len(s) /\ e.key <= s[k - 1].key
      BY <1>1, <1>4, <2>3
    <3>2. CASE i <= p + 1
      <4>1. r[i].key <= e.key /\ r[i].key \in Nat
        BY <1>1, <1>4, <3>2
      <4> QED
        BY <1>1, <3>1, <4>1
    <3>3. CASE i > p + 1
      <4>1. r[i] = s[i - 1] /\ i - 1 \in 1 .. Len(s) /\ i - 1 <= k - 1
        BY <1>1, <1>4, <3>3
      <4> QED
        BY <3>1, <4>1 DEF Ordered
    <3> QED
      BY <1>1, <3>2, <3>3
  <2> QED
    BY <1>1, <2>1, <2>2, <2>3
<1>6. Once(r)
  <2> SUFFICES ASSUME NEW i \in 1 .. Len(r), NEW k \in 1 .. Len(r), r[i].se = r[k].se
               PROVE  i = k
    BY DEF Once
  <2>1. \A m \in 1 .. Len(s) : s[m].se # e.se
    BY DEF Holds
  <2>2. \A m, n \in 1 .. Len(s) : s[m].se = s[n].se => m = n
    BY DEF Once
  <2>3. \/ i = p + 1 /\ r[i] = e
        \/ \E m \in 1 .. Len(s) : r[i] = s[m] /\ i = IF m <= p THEN m ELSE m + 1
    BY <1>1, <1>4
  <2>4. \/ k = p + 1 /\ r[k] = e
        \/ \E m \in 1 .. Len(s) : r[k] = s[m] /\ k = IF m <= p THEN m ELSE m + 1
    BY <1>1, <1>4
  <2> QED
    BY <2>1, <2>2, <2>3, <2>4
<1>7. \A i \in 1 .. Len(r) : r[i] = e \/ \E k \in 1 .. Len(s) : r[i] = s[k]
  BY <1>4
<1>8. ASSUME NEW k \in 1 .. Len(s)
      PROVE  \E i \in 1 .. Len(r) : r[i] = s[k]
  <2>1. CASE k <= p
    <3>1. k \in 1 .. Len(r) /\ r[k] = s[k]
      BY <1>1, <1>2, <1>3, <2>1
    <3> QED
      BY <3>1
  <2>2. CASE k > p
    <3>1. k + 1 \in 1 .. Len(r) /\ r[k + 1] = s[k]
      BY <1>1, <1>2, <1>3, <2>2
    <3> QED
      BY <3>1
  <2> QED
    BY <1>1, <2>1, <2>2
<1>9. \E i \in 1 .. Len(r) : r[i] = e
  <2>1. p + 1 \in 1 .. Len(r)
    BY <1>1, <1>2
  <2> QED
    BY <1>3, <2>1
<1>10. \A x : Holds(r, x) <=> Holds(s, x) \/ x = e.se
  <2> TAKE x
  <2>1. Holds(r, x) => Holds(s, x) \/ x = e.se
    BY <1>7 DEF Holds
  <2>2. Holds(s, x) => Holds(r, x)
    BY <1>8 DEF Holds
  <2>3. x = e.se => Holds(r, x)
    BY <1>9 DEF Holds
  <2> QED
    BY <2>1, <2>2, <2>3
<1> QED
  BY <1>5, <1>6, <1>7, <1>10

\* removeLeftmostNode takes an element with the least key.
LEMMA TailOrdered ==
  ASSUME NEW s \in Seq(Elem), s # <<>>, Ordered(s), Once(s)
  PROVE  /\ Ordered(Tail(s)) /\ Once(Tail(s))
         /\ \A x : Holds(Tail(s), x) <=> Holds(s, x) /\ x # Head(s).se
         /\ \A i \in 1 .. Len(Tail(s)) : i + 1 \in 1 .. Len(s) /\ Tail(s)[i] = s[i + 1]
         /\ 1 \in 1 .. Len(s) /\ Head(s) = s[1]
         /\ \A i \in 1 .. Len(s) : Head(s).key <= s[i].key
<1> DEFINE r == Tail(s)
<1>1. /\ Len(s) \in Nat /\ Len(s) > 0 /\ Head(s) = s[1] /\ Len(r) = Len(s) - 1
      /\ \A i \in 1 .. Len(r) : r[i] = s[i + 1]
  BY HeadTailProperties, LenProperties, EmptySeq
<1> HIDE DEF r
<1>2. 1 \in 1 .. Len(s) /\ \A i \in 1 .. Len(s) : 1 <= i
  BY <1>1
<1>3. \A i \in 1 .. Len(r) : i + 1 \in 1 .. Len(s) /\ i + 1 # 1 /\ r[i] = s[i + 1]
  BY <1>1
<1>4. \A i \in 1 .. Len(s) : i = 1 \/ (i - 1 \in 1 .. Len(r) /\ r[i - 1] = s[i])
  <2> TAKE i \in 1 .. Len(s)
  <2>1. i # 1 => i - 1 \in 1 .. Len(r) /\ (i - 1) + 1 = i
    BY <1>1
  <2> QED
    BY <1>3, <2>1
<1>5. Ordered(r)
  <2> SUFFICES ASSUME NEW i \in 1 .. Len(r), NEW k \in 1 .. Len(r), i <= k
               PROVE  r[i].key <= r[k].key
    BY DEF Ordered
  <2>1. i + 1 <= k + 1
    OBVIOUS
  <2> QED
    BY <1>3, <2>1 DEF Ordered
<1>6. Once(r)
  <2> SUFFICES ASSUME NEW i \in 1 .. Len(r), NEW k \in 1 .. Len(r), r[i].se = r[k].se
               PROVE  i = k
    BY DEF Once
  <2>1. i + 1 = k + 1
    BY <1>3 DEF Once
  <2> QED
    BY <2>1
<1>7. \A i \in 1 .. Len(s) : Head(s).key <= s[i].key
  BY <1>1, <1>2 DEF Ordered
<1>8. \A x : Holds(r, x) <=> Holds(s, x) /\ x # Head(s).se
  <2> TAKE x
  <2>1. ASSUME Holds(r, x)
        PROVE  Holds(s, x) /\ x # Head(s).se
    <3>1. PICK i \in 1 .. Len(r) : r[i].se = x
      BY <2>1 DEF Holds
    <3> QED
      BY <1>1, <1>2, <1>3, <3>1 DEF Once, Holds
  <2>2. ASSUME Holds(s, x), x # Head(s).se
        PROVE  Holds(r, x)
    BY <1>1, <1>4, <2>2 DEF Holds
  <2> QED
    BY <2>1, <2>2
<1> QED
  BY <1>1, <1>2, <1>3, <1>5, <1>6, <1>7, <1>8 DEF r

-----------------------------------------------------------------------------
(* Where entities are.                                                     *)

\* A queue that has tasks is that of an entity in the tree or of the running one.
QueuesHeld == \A s \in SE : my_rq[s] # <<>> => Holds(tree, s) \/ s = node

\* The tree is ordered by what its entities have used; every entity that exists is
\* in it once, or running, or waiting in m_next_se; those in it have tasks.
TreeRight ==
  /\ Ordered(tree) /\ Once(tree)
  /\ \A i \in 1 .. Len(tree) : tree[i].key = vruntime[tree[i].se]
  /\ \A s \in SE : Holds(tree, s) => s # node /\ s # m_next_se /\ my_rq[s] # <<>>
  /\ node # NULL => node # m_next_se
  /\ \A s \in SE : s \in entities <=> Holds(tree, s) \/ s = node \/ s = m_next_se

Placed == QueuesHeld /\ (~Crashed => TreeRight)

\* What IInv says of the tree.
LEMMA TreeTypes ==
  ASSUME IInv
  PROVE  /\ tree \in Seq(Elem) /\ Len(tree) \in Nat
         /\ \A i \in 1 .. Len(tree) : tree[i] \in Elem /\ tree[i].se \in SE
         /\ my_rq \in [SE -> Seq(Task)] /\ vruntime \in [SE -> Nat]
<1>1. tree \in Seq(Elem) /\ my_rq \in [SE -> Seq(Task)] /\ vruntime \in [SE -> Nat]
  BY DEF IInv, TypeOK, Elem
<1>2. Len(tree) \in Nat /\ tree \in [1 .. Len(tree) -> Elem]
  BY <1>1, LenProperties
<1> QED
  BY <1>1, <1>2 DEF Elem

LEMMA InitPlaced == Init => Placed
<1> SUFFICES ASSUME Init PROVE Placed
  OBVIOUS
<1>1. PICK t \in Task, s \in SE, v \in InitVruntime, z \in InitSize :
        Init!(t, s, v, z)
  BY DEF Init
<1>2. /\ tree = <<[key |-> v, se |-> s]>> /\ entities = {s} /\ node = NULL
      /\ m_next_se = NULL /\ s # NULL
      /\ my_rq = [x \in SE |-> IF x = s THEN <<t>> ELSE <<>>]
      /\ vruntime = [x \in SE |-> IF x = s THEN v ELSE 0]
  BY <1>1
<1>3. /\ Len(tree) = 1 /\ tree[1].se = s /\ tree[1].key = v
      /\ \A i \in 1 .. 1 : i = 1
  BY <1>2
<1>4. \A x : Holds(tree, x) <=> x = s
  BY <1>3 DEF Holds
<1>5. Ordered(tree) /\ Once(tree)
  <2>1. v \in Nat
    BY <1>1
  <2> QED
    BY <1>3, <2>1 DEF Ordered, Once
<1>6. \A i \in 1 .. Len(tree) : tree[i].key = vruntime[tree[i].se]
  BY <1>2, <1>3
<1>7. my_rq[s] # <<>> /\ \A x \in SE : x # s => my_rq[x] = <<>>
  BY <1>2
<1> QED
  BY <1>2, <1>4, <1>5, <1>6, <1>7 DEF Placed, QueuesHeld, TreeRight

\* Steps that change neither the tree nor who runs, and keep the tasks of every queue
\* but the running one's.
LEMMA SamePlaces ==
  ASSUME IInv, Placed, UNCHANGED <<tree, entities, node, m_next_se>>,
         ~Crashed' => ~Crashed,
         \A s \in SE : s # node => my_rq'[s] = my_rq[s] /\ vruntime'[s] = vruntime[s]
  PROVE  Placed'
<1>1. QueuesHeld'
  BY DEF Placed, QueuesHeld, Holds
<1>2. ASSUME TreeRight
      PROVE  TreeRight'
  <2>1. ASSUME NEW i \in 1 .. Len(tree)
        PROVE  tree[i].key = vruntime'[tree[i].se]
    <3>1. Holds(tree, tree[i].se) /\ tree[i].se \in SE
      BY TreeTypes DEF Holds
    <3> QED
      BY <1>2, <3>1 DEF TreeRight
  <2>2. \A s : Holds(tree, s)' <=> Holds(tree, s)
    BY DEF Holds
  <2>3. \A s \in SE : Holds(tree, s) => s # node /\ s # m_next_se /\ my_rq'[s] # <<>>
    BY <1>2 DEF TreeRight
  <2>4. Ordered(tree)' /\ Once(tree)'
    BY <1>2 DEF TreeRight, Ordered, Once
  <2> QED
    BY <1>2, <2>1, <2>2, <2>3, <2>4 DEF TreeRight
<1> QED
  BY <1>1, <1>2 DEF Placed

LEMMA QuietPlaced ==
  ASSUME IInv, Placed,
         \/ OtherCall \/ ErrorCall \/ Exit \/ Fault \/ SliceOver \/ Return
         \/ PickNothing \/ PopTask \/ Split \/ KeepTask \/ DropTask \/ UNCHANGED vars
  PROVE  Placed'
<1>1. my_rq \in [SE -> Seq(Task)] /\ vruntime \in [SE -> Nat]
  BY TreeTypes
<1>2. CASE \/ OtherCall \/ ErrorCall \/ Exit \/ Fault \/ SliceOver \/ Return
           \/ PickNothing \/ UNCHANGED vars
  <2>1. /\ UNCHANGED <<tree, entities, node, m_next_se, my_rq, vruntime>>
        /\ ~Crashed' => ~Crashed
    BY <1>2 DEF OtherCall, ErrorCall, Exit, Fault, SliceOver, Return, PickNothing,
                MayCall, InSlice, vars, queues, round
  <2> QED
    BY <2>1, SamePlaces
<1>3. CASE PopTask \/ KeepTask \/ DropTask
  <2>1. /\ UNCHANGED <<tree, entities, node, m_next_se>> /\ ~Crashed
        /\ \A s \in SE : s # node => my_rq'[s] = my_rq[s] /\ vruntime'[s] = vruntime[s]
    BY <1>1, <1>3 DEF PopTask, KeepTask, DropTask, ChargeSlice, round
  <2> QED
    BY <2>1, SamePlaces
<1>4. CASE Split
  <2>1. /\ UNCHANGED <<tree, entities, node, m_next_se, vruntime>> /\ ~Crashed
        /\ m_se[to_run] = node
    BY <1>4 DEF Split, MayCall, InSlice, round, IInv, Membership
  <2>2. PICK child \in Task \ alive :
          my_rq' = [my_rq EXCEPT ![m_se[to_run]] = Append(@, child)]
    BY <1>4 DEF Split
  <2>3. \A s \in SE : s # node => my_rq'[s] = my_rq[s]
    BY <1>1, <2>1, <2>2
  <2> QED
    BY <2>1, <2>3, SamePlaces
<1> QED
  BY <1>2, <1>3, <1>4

LEMMA SetsidPlaced == ASSUME IInv, Placed, Setsid PROVE Placed'
<1>1. /\ UNCHANGED <<tree, node, my_rq>> /\ ~Crashed /\ m_next_se = NULL /\ node # NULL
      /\ vruntime \in [SE -> Nat]
  BY DEF Setsid, InSlice, round, IInv, Control, TypeOK
<1>2. PICK s \in SE \ entities :
        /\ entities' = entities \cup {s}
        /\ vruntime' = [vruntime EXCEPT ![s] = vruntime[m_se[to_run]]]
        /\ m_next_se' = s
  BY DEF Setsid
<1>3. TreeRight /\ ~Holds(tree, s) /\ s # node /\ s # NULL
  BY <1>1, <1>2 DEF Placed, TreeRight
<1>4. QueuesHeld'
  BY <1>1 DEF Placed, QueuesHeld, Holds
<1>5. ASSUME NEW i \in 1 .. Len(tree)
      PROVE  tree[i].key = vruntime'[tree[i].se]
  <2>1. tree[i].se # s /\ tree[i].se \in SE
    BY <1>3, TreeTypes DEF Holds
  <2> QED
    BY <1>1, <1>2, <1>3, <2>1 DEF TreeRight
<1>6. \A x : Holds(tree, x)' <=> Holds(tree, x)
  BY <1>1 DEF Holds
<1>7. Ordered(tree)' /\ Once(tree)'
  BY <1>1, <1>3 DEF TreeRight, Ordered, Once
<1>8. TreeRight'
  BY <1>1, <1>2, <1>3, <1>5, <1>6, <1>7 DEF TreeRight
<1> QED
  BY <1>4, <1>8 DEF Placed

LEMMA PickEntityPlaced == ASSUME IInv, Placed, PickEntity PROVE Placed'
<1>1. /\ tree # <<>> /\ node' = Head(tree).se /\ tree' = Tail(tree)
      /\ UNCHANGED <<my_rq, vruntime, entities, m_next_se>> /\ ~Crashed
      /\ node = NULL /\ m_next_se = NULL
  BY DEF PickEntity, IInv, Control
<1>2. TreeRight /\ tree \in Seq(Elem)
  BY <1>1, TreeTypes DEF Placed
<1>3. /\ Ordered(tree') /\ Once(tree')
      /\ \A x : Holds(tree', x) <=> Holds(tree, x) /\ x # node'
      /\ \A i \in 1 .. Len(tree') : i + 1 \in 1 .. Len(tree) /\ tree'[i] = tree[i + 1]
      /\ 1 \in 1 .. Len(tree) /\ Head(tree) = tree[1]
  BY <1>1, <1>2, TailOrdered DEF TreeRight
<1>4. Holds(tree, node') /\ node' \in SE /\ node' # NULL
  BY <1>1, <1>3, TreeTypes DEF Holds
<1>5. QueuesHeld'
  <2> SUFFICES ASSUME NEW s \in SE, my_rq[s] # <<>>
               PROVE  Holds(tree', s) \/ s = node'
    BY <1>1 DEF QueuesHeld, Holds
  <2> QED
    BY <1>1, <1>3 DEF Placed, QueuesHeld
<1>6. \A i \in 1 .. Len(tree') : tree'[i].key = vruntime[tree'[i].se]
  BY <1>2, <1>3 DEF TreeRight
<1>7. \A x : Holds(tree, x)' <=> Holds(tree', x)
  BY DEF Holds
<1>8. Ordered(tree)' /\ Once(tree)'
  BY <1>3 DEF Ordered, Once
<1>9. /\ \A s \in SE : Holds(tree', s) => s # node' /\ s # m_next_se' /\ my_rq'[s] # <<>>
      /\ node' # m_next_se'
      /\ \A s \in SE : s \in entities' <=> Holds(tree', s) \/ s = node' \/ s = m_next_se'
  BY <1>1, <1>2, <1>3, <1>4 DEF TreeRight
<1>10. TreeRight'
  BY <1>1, <1>6, <1>7, <1>8, <1>9 DEF TreeRight
<1> QED
  BY <1>5, <1>10 DEF Placed

LEMMA MoveTaskPlaced == ASSUME IInv, Placed, MoveTask PROVE Placed'
<1>1. /\ node \in SE /\ m_next_se \in SE /\ to_run \in Task /\ rc = "THREAD_EXIT"
      /\ ~Crashed
  BY DEF MoveTask, IInv, Control, TypeOK
<1> DEFINE e == [key |-> vruntime[m_next_se], se |-> m_next_se]
<1>2. /\ tree' = InsertByKey(tree, e) /\ m_next_se' = NULL
      /\ my_rq' = [my_rq EXCEPT ![m_next_se] = Append(@, to_run)]
      /\ vruntime' = [vruntime EXCEPT ![node] = @ + j]
      /\ UNCHANGED <<entities, node>>
  BY <1>1 DEF MoveTask, ChargeSlice, round
<1>3. /\ TreeRight /\ tree \in Seq(Elem) /\ Len(tree) \in Nat
      /\ my_rq \in [SE -> Seq(Task)] /\ vruntime \in [SE -> Nat]
  BY <1>1, TreeTypes DEF Placed
<1>4. e \in Elem /\ e.se = m_next_se /\ e.key = vruntime[m_next_se]
  BY <1>1, <1>3 DEF Elem
<1>5. ~Holds(tree, m_next_se) /\ node # m_next_se
  BY <1>1, <1>3 DEF TreeRight
<1> HIDE DEF e
<1>6. /\ Ordered(tree') /\ Once(tree')
      /\ \A x : Holds(tree', x) <=> Holds(tree, x) \/ x = m_next_se
      /\ \A i \in 1 .. Len(tree') : tree'[i] = e \/ \E k \in 1 .. Len(tree) : tree'[i] = tree[k]
  BY <1>2, <1>3, <1>4, <1>5, InsertOrdered DEF TreeRight
<1>7. my_rq'[m_next_se] # <<>> /\ \A s \in SE : s # m_next_se => my_rq'[s] = my_rq[s]
  <2>1. /\ Len(my_rq'[m_next_se]) = Len(my_rq[m_next_se]) + 1
        /\ \A s \in SE : s # m_next_se => my_rq'[s] = my_rq[s]
    BY <1>1, <1>2, <1>3, AppendQueue
  <2>2. Len(my_rq[m_next_se]) \in Nat
    BY <1>1, <1>3
  <2>3. my_rq'[m_next_se] # <<>>
    <3> SUFFICES ASSUME my_rq'[m_next_se] = <<>> PROVE FALSE
      OBVIOUS
    <3>1. Len(my_rq'[m_next_se]) = 0
      OBVIOUS
    <3> QED
      BY <2>1, <2>2, <3>1
  <2> QED
    BY <2>1, <2>3
<1>8. QueuesHeld'
  <2> SUFFICES ASSUME NEW s \in SE, my_rq'[s] # <<>>
               PROVE  Holds(tree', s) \/ s = node'
    BY DEF QueuesHeld, Holds
  <2> QED
    BY <1>2, <1>6, <1>7 DEF Placed, QueuesHeld
<1>9. ASSUME NEW i \in 1 .. Len(tree')
      PROVE  tree'[i].key = vruntime'[tree'[i].se]
  <2>1. CASE tree'[i] = e
    BY <1>1, <1>2, <1>3, <1>4, <1>5, <2>1
  <2>2. ASSUME NEW k \in 1 .. Len(tree), tree'[i] = tree[k]
        PROVE  tree'[i].key = vruntime'[tree'[i].se]
    <3>1. tree[k].se \in SE /\ tree[k].se # node
      BY <1>3, TreeTypes DEF TreeRight, Holds
    <3> QED
      BY <1>2, <1>3, <2>2, <3>1 DEF TreeRight
  <2> QED
    BY <1>6, <2>1, <2>2
<1>10. \A x : Holds(tree, x)' <=> Holds(tree', x)
  BY DEF Holds
<1>11. Ordered(tree)' /\ Once(tree)'
  BY <1>6 DEF Ordered, Once
<1>12. NULL \notin SE
  OBVIOUS
<1>13. /\ \A s \in SE : Holds(tree', s) => s # node' /\ s # m_next_se' /\ my_rq'[s] # <<>>
       /\ node' # m_next_se'
       /\ \A s \in SE : s \in entities' <=> Holds(tree', s) \/ s = node' \/ s = m_next_se'
  BY <1>1, <1>2, <1>3, <1>5, <1>6, <1>7, <1>12 DEF TreeRight
<1>14. TreeRight'
  BY <1>9, <1>10, <1>11, <1>13 DEF TreeRight
<1> QED
  BY <1>8, <1>14 DEF Placed

LEMMA ReinsertPlaced == ASSUME IInv, Placed, Reinsert PROVE Placed'
<1>1. /\ node \in SE /\ node # NULL /\ m_next_se = NULL /\ my_rq[node] # <<>> /\ ~Crashed
  BY DEF Reinsert, IInv, Control
<1> DEFINE e == [key |-> vruntime[node], se |-> node]
<1>2. /\ tree' = InsertByKey(tree, e) /\ node' = NULL
      /\ UNCHANGED <<entities, my_rq, vruntime, m_next_se>>
  BY DEF Reinsert
<1>3. /\ TreeRight /\ tree \in Seq(Elem) /\ Len(tree) \in Nat
      /\ my_rq \in [SE -> Seq(Task)] /\ vruntime \in [SE -> Nat]
  BY <1>1, TreeTypes DEF Placed
<1>4. e \in Elem /\ e.se = node /\ e.key = vruntime[node]
  BY <1>1, <1>3 DEF Elem
<1>5. ~Holds(tree, node)
  BY <1>1, <1>3 DEF TreeRight
<1> HIDE DEF e
<1>6. /\ Ordered(tree') /\ Once(tree')
      /\ \A x : Holds(tree', x) <=> Holds(tree, x) \/ x = node
      /\ \A i \in 1 .. Len(tree') : tree'[i] = e \/ \E k \in 1 .. Len(tree) : tree'[i] = tree[k]
  BY <1>2, <1>3, <1>4, <1>5, InsertOrdered DEF TreeRight
<1>7. QueuesHeld'
  <2> SUFFICES ASSUME NEW s \in SE, my_rq[s] # <<>>
               PROVE  Holds(tree', s) \/ s = node'
    BY <1>2 DEF QueuesHeld, Holds
  <2> QED
    BY <1>6 DEF Placed, QueuesHeld
<1>8. \A i \in 1 .. Len(tree') : tree'[i].key = vruntime[tree'[i].se]
  BY <1>3, <1>4, <1>6 DEF TreeRight
<1>9. \A x : Holds(tree, x)' <=> Holds(tree', x)
  BY DEF Holds
<1>10. Ordered(tree)' /\ Once(tree)'
  BY <1>6 DEF Ordered, Once
<1>11. NULL \notin SE
  OBVIOUS
<1>12. /\ \A s \in SE : Holds(tree', s) => s # node' /\ s # m_next_se' /\ my_rq'[s] # <<>>
       /\ node' = NULL
       /\ \A s \in SE : s \in entities' <=> Holds(tree', s) \/ s = node' \/ s = m_next_se'
  BY <1>1, <1>2, <1>3, <1>6, <1>11 DEF TreeRight
<1>13. TreeRight'
  BY <1>2, <1>8, <1>9, <1>10, <1>12 DEF TreeRight
<1> QED
  BY <1>7, <1>13 DEF Placed

LEMMA DropEntityPlaced == ASSUME IInv, Placed, DropEntity PROVE Placed'
<1>1. /\ node \in SE /\ node # NULL /\ m_next_se = NULL /\ my_rq[node] = <<>> /\ ~Crashed
      /\ entities' = entities \ {node} /\ vruntime' = [vruntime EXCEPT ![node] = 0]
      /\ node' = NULL /\ UNCHANGED <<tree, my_rq, m_next_se>>
  BY DEF DropEntity, IInv, Control
<1>2. TreeRight /\ vruntime \in [SE -> Nat] /\ NULL \notin SE
  BY <1>1, TreeTypes DEF Placed
<1>3. QueuesHeld'
  BY <1>1 DEF Placed, QueuesHeld, Holds
<1>4. ASSUME NEW i \in 1 .. Len(tree)
      PROVE  tree[i].key = vruntime'[tree[i].se]
  <2>1. tree[i].se \in SE /\ tree[i].se # node
    BY <1>2, TreeTypes DEF TreeRight, Holds
  <2> QED
    BY <1>1, <1>2, <2>1 DEF TreeRight
<1>5. \A x : Holds(tree, x)' <=> Holds(tree, x)
  BY <1>1 DEF Holds
<1>6. Ordered(tree)' /\ Once(tree)'
  BY <1>1, <1>2 DEF TreeRight, Ordered, Once
<1>7. TreeRight'
  BY <1>1, <1>2, <1>4, <1>5, <1>6 DEF TreeRight
<1> QED
  BY <1>3, <1>7 DEF Placed

LEMMA CrashedPlaced == ASSUME IInv, Placed, MoveTaskNoBlock \/ KillTasks PROVE Placed'
<1>1. CASE MoveTaskNoBlock
  <2>1. Crashed' /\ UNCHANGED <<tree, my_rq, node>>
    BY <1>1 DEF MoveTaskNoBlock, queues, round
  <2> QED
    BY <2>1 DEF Placed, QueuesHeld, Holds
<1>2. CASE KillTasks
  <2>1. /\ Crashed' /\ node' = node
        /\ my_rq' = [s \in SE |-> IF s \in {tree[i].se : i \in DOMAIN tree} THEN <<>>
                                  ELSE my_rq[s]]
    BY <1>2 DEF KillTasks, round
  <2>2. DOMAIN tree = 1 .. Len(tree)
    BY TreeTypes, LenProperties
  <2>3. \A s \in SE : my_rq'[s] # <<>> => my_rq[s] # <<>> /\ ~Holds(tree, s)
    BY <2>1, <2>2 DEF Holds
  <2>4. QueuesHeld'
    BY <2>1, <2>3 DEF Placed, QueuesHeld, Holds
  <2> QED
    BY <2>1, <2>4 DEF Placed
<1> QED
  BY <1>1, <1>2

LEMMA NextPlaced == IInv /\ Placed /\ [Next]_vars => Placed'
  BY QuietPlaced, SetsidPlaced, PickEntityPlaced, MoveTaskPlaced, ReinsertPlaced,
     DropEntityPlaced, CrashedPlaced DEF Next, Finished

LEMMA PlacedInvariant == Spec => []Placed
  BY InitPlaced, NextPlaced, SchedulerInvariant, PTL DEF Spec

\* How often an entity is in the tree.
LEMMA InTreeCount ==
  ASSUME IInv, Once(tree), NEW s \in SE
  PROVE  /\ Cardinality(InTree(s)) = Count(Holds(tree, s))
         /\ InTree(s) # {} <=> Holds(tree, s)
<1>1. DOMAIN tree = 1 .. Len(tree)
  BY TreeTypes, LenProperties
<1>2. CASE Holds(tree, s)
  <2>1. PICK i \in 1 .. Len(tree) : tree[i].se = s
    BY <1>2 DEF Holds
  <2>2. InTree(s) = {i}
    BY <1>1, <2>1 DEF InTree, Once
  <2> QED
    BY <1>2, <2>2, FS_Singleton DEF Count
<1>3. CASE ~Holds(tree, s)
  <2>1. InTree(s) = {}
    BY <1>1, <1>3 DEF InTree, Holds
  <2> QED
    BY <1>3, <2>1, FS_EmptySet DEF Count
<1> QED
  BY <1>2, <1>3

\* Every entity is in the tree once, or running, or waiting in m_next_se, whatever
\* split, setsid and exit did: "pushing duplicate SEs onto the tree" cannot happen, and
\* Run never finds an empty queue in the tree.
THEOREM EntityInOnePlaceCorrect == Spec => []EntityInOnePlace
<1>1. IInv /\ Placed => EntityInOnePlace
  <2> SUFFICES ASSUME IInv, TreeRight, ~Crashed
               PROVE  /\ \A s \in SE :
                           Cardinality(InTree(s)) + Count(node = s) + Count(m_next_se = s)
                             = Count(s \in entities)
                      /\ \A s \in SE : InTree(s) # {} => my_rq[s] # <<>>
                      /\ \A s \in SE : \A i \in DOMAIN my_rq[s] : m_se[my_rq[s][i]] = s
                      /\ to_run # NULL => m_se[to_run] = node
    BY DEF Placed, EntityInOnePlace
  <2>1. Once(tree)
    BY DEF TreeRight
  <2>2. ASSUME NEW s \in SE
        PROVE  Cardinality(InTree(s)) + Count(node = s) + Count(m_next_se = s)
                 = Count(s \in entities)
    <3>1. /\ Holds(tree, s) => s # node /\ s # m_next_se
          /\ s = node => node # NULL /\ node # m_next_se
          /\ s \in entities <=> Holds(tree, s) \/ s = node \/ s = m_next_se
      BY DEF TreeRight
    <3>2. Cardinality(InTree(s)) = Count(Holds(tree, s))
      BY <2>1, InTreeCount
    <3>3. CASE Holds(tree, s)
      BY <3>1, <3>2, <3>3 DEF Count
    <3>4. CASE ~Holds(tree, s)
      BY <3>1, <3>2, <3>4 DEF Count
    <3> QED
      BY <3>3, <3>4
  <2>3. \A s \in SE : InTree(s) # {} => my_rq[s] # <<>>
    BY <2>1, InTreeCount DEF TreeRight
  <2>4. to_run # NULL => m_se[to_run] = node
    <3>1. to_run # NULL => pc \in {"exec", "ended"}
      BY DEF IInv, TypeOK, States, Control, Counted, TaskCount
    <3> QED
      BY <3>1 DEF IInv, Membership
  <2> QED
    BY <2>2, <2>3, <2>4 DEF IInv, Membership
<1> QED
  BY <1>1, SchedulerInvariant, PlacedInvariant, PTL

\* When nivisor crashes, the SIGSEGV handler kills every task but those of the entity
\* that was running: its node is out of the tree, and no other entity with tasks is.
THEOREM SurvivorsCorrect == Spec => []SurvivorsAreRunning
<1>1. IInv /\ Placed => SurvivorsAreRunning
  <2> SUFFICES ASSUME IInv, Placed, tree = <<>>, NEW t \in alive \ killed, t # to_run
               PROVE  m_se[t] = node
    BY DEF SurvivorsAreRunning
  <2>1. PICK s \in SE : \E i \in DOMAIN my_rq[s] : my_rq[s][i] = t
    BY DEF IInv, TaskInOnePlace
  <2>2. my_rq[s] # <<>> /\ m_se[t] = s
    BY <2>1 DEF IInv, Membership
  <2>3. ~Holds(tree, s)
    BY DEF Holds
  <2> QED
    BY <2>2, <2>3 DEF Placed, QueuesHeld
<1> QED
  BY <1>1, SchedulerInvariant, PlacedInvariant, PTL

\* Run always takes an entity that has used the least, although vruntime changes while
\* its key is in the tree: only that of an entity outside it ever does.
THEOREM LeastVruntimeCorrect == Spec => LeastVruntimeFirst
<1>1. IInv /\ Placed /\ [Next]_vars =>
        [PickEntity => \A s \in SE : InTree(s) # {} => vruntime[node'] <= vruntime[s]]_vars
  <2> SUFFICES ASSUME IInv, Placed, PickEntity, NEW s \in SE, InTree(s) # {}
               PROVE  vruntime[node'] <= vruntime[s]
    OBVIOUS
  <2>1. /\ tree \in Seq(Elem) /\ tree # <<>> /\ Ordered(tree) /\ Once(tree)
        /\ \A i \in 1 .. Len(tree) : tree[i].key = vruntime[tree[i].se]
        /\ node' = Head(tree).se
    BY TreeTypes DEF PickEntity, Placed, TreeRight
  <2>2. PICK i \in 1 .. Len(tree) : tree[i].se = s
    BY <2>1, InTreeCount DEF Holds
  <2>3. /\ 1 \in 1 .. Len(tree) /\ Head(tree) = tree[1]
        /\ \A k \in 1 .. Len(tree) : Head(tree).key <= tree[k].key
    BY <2>1, TailOrdered
  <2> QED
    BY <2>1, <2>2, <2>3
<1> QED
  BY <1>1, SchedulerInvariant, PlacedInvariant, PTL DEF Spec, LeastVruntimeFirst
=============================================================================
