--------------------------- MODULE SchedulerProofs ---------------------------
(***************************************************************************)
(* Proofs about Scheduler, for any workers, finitely many or not, and any  *)
(* number of tasks.  Queue facts are stated over the ids of a queue and    *)
(* whether they are distinct, so that the steps of the program need no     *)
(* more than sets.                                                         *)
(***************************************************************************)
EXTENDS Scheduler, SequenceTheorems, FiniteSetTheorems, TLAPS

Entry == [id : Ids, wait : 0..MaxInterval]

\* The ids of a queue, and that it has none twice.
IdsOf(q) == {q[i].id : i \in DOMAIN q}
Distinct(q) == \A i, j \in DOMAIN q : q[i].id = q[j].id => i = j

\* The bounds are numbers.
LEMMA Bounds == MaxTasks \in Nat /\ MaxInterval \in Nat /\ MaxInterval > 0
<1>1. MaxTasks \in Nat /\ MaxInterval \in Nat \ {0}
  BY SchedulerAssumption
<1> QED
  BY <1>1

-----------------------------------------------------------------------------
(* The queue *)

\* A position of InsertAt is within the queue or just behind it.
LEMMA EarlierCount ==
  ASSUME NEW q \in Seq(Entry), NEW earlier \in SUBSET DOMAIN q
  PROVE  Cardinality(earlier) \in 0..Len(q)
<1>1. IsFiniteSet(1..Len(q)) /\ Cardinality(1..Len(q)) = Len(q)
  <2>1. Len(q) \in Nat
    BY LenProperties
  <2>2. /\ IsFiniteSet(1..Len(q))
        /\ Cardinality(1..Len(q)) = IF 1 > Len(q) THEN 0 ELSE Len(q) - 1 + 1
    BY <2>1, FS_Interval
  <2> QED
    BY <2>1, <2>2
<1>2. earlier \in SUBSET (1..Len(q))
  BY LenProperties
<1>3. IsFiniteSet(earlier) /\ Cardinality(earlier) <= Len(q)
  BY <1>1, <1>2, FS_Subset
<1>4. Cardinality(earlier) \in Nat
  BY <1>3, FS_CardinalityType
<1> QED
  BY <1>3, <1>4, LenProperties

\* InsertAt puts an entry somewhere and moves the ones behind it.
LEMMA InsertAtProperties ==
  ASSUME NEW q \in Seq(Entry), NEW k \in 1..(Len(q) + 1), NEW e \in Entry
  PROVE  /\ InsertAt(q, k, e) \in Seq(Entry)
         /\ Len(InsertAt(q, k, e)) = Len(q) + 1
         /\ InsertAt(q, k, e)[k] = e
         /\ \A i \in 1..(k - 1) : InsertAt(q, k, e)[i] = q[i]
         /\ \A i \in k..Len(q) : InsertAt(q, k, e)[i + 1] = q[i]
<1> DEFINE a == SubSeq(q, 1, k - 1)
           b == SubSeq(q, k, Len(q))
           m == a \o <<e>>
<1>0. Len(q) \in Nat /\ k \in Nat
  BY LenProperties
<1>1. a \in Seq(Entry) /\ Len(a) = k - 1 /\ \A i \in 1..(k - 1) : a[i] = q[i]
  BY <1>0
<1>2. b \in Seq(Entry) /\ Len(b) = Len(q) - k + 1 /\ \A i \in 1..(Len(q) - k + 1) : b[i] = q[k + i - 1]
  BY <1>0
<1> HIDE DEF a, b
<1>3. m \in Seq(Entry) /\ Len(m) = k /\ m[k] = e /\ \A i \in 1..(k - 1) : m[i] = q[i]
  BY <1>0, <1>1
<1> HIDE DEF m
<1>4. /\ m \o b \in Seq(Entry) /\ Len(m \o b) = Len(q) + 1
      /\ \A i \in 1..(Len(q) + 1) : (m \o b)[i] = IF i <= k THEN m[i] ELSE b[i - k]
  <2>1. Len(m) + Len(b) = Len(q) + 1
    BY <1>0, <1>2, <1>3
  <2>2. /\ m \o b \in Seq(Entry) /\ Len(m \o b) = Len(m) + Len(b)
        /\ \A i \in 1..(Len(m) + Len(b)) : (m \o b)[i] = IF i <= Len(m) THEN m[i] ELSE b[i - Len(m)]
    BY <1>2, <1>3, ConcatProperties
  <2> QED
    BY <1>3, <2>1, <2>2
<1>5. \A i \in k..Len(q) : (m \o b)[i + 1] = q[i]
  <2> TAKE i \in k..Len(q)
  <2>1. i + 1 \in 1..(Len(q) + 1) /\ ~(i + 1 <= k) /\ i + 1 - k \in 1..(Len(q) - k + 1)
    BY <1>0
  <2>2. (m \o b)[i + 1] = b[i + 1 - k]
    BY <1>4, <2>1
  <2>3. k + (i + 1 - k) - 1 = i
    BY <1>0
  <2> QED
    BY <1>2, <2>1, <2>2, <2>3
<1>6. (m \o b)[k] = e /\ \A i \in 1..(k - 1) : (m \o b)[i] = q[i]
  BY <1>0, <1>3, <1>4
<1>7. InsertAt(q, k, e) = m \o b
  BY DEF InsertAt, a, b, m
<1> QED
  BY <1>4, <1>5, <1>6, <1>7

\* Insert adds an id to the queue, and none twice if the queue did not have it.
LEMMA InsertLemma ==
  ASSUME tasks \in Seq(Entry), NEW id \in Ids, NEW delay \in 0..MaxInterval
  PROVE  /\ Insert(id, delay) \in Seq(Entry)
         /\ IdsOf(Insert(id, delay)) = IdsOf(tasks) \cup {id}
         /\ Distinct(tasks) /\ id \notin IdsOf(tasks) => Distinct(Insert(id, delay))
<1> DEFINE e == [id |-> id, wait |-> delay]
           k == Cardinality({i \in DOMAIN tasks : tasks[i].wait <= delay}) + 1
           r == Insert(id, delay)
<1>0. Len(tasks) \in Nat /\ DOMAIN tasks = 1..Len(tasks)
  BY LenProperties
<1>1. k \in 1..(Len(tasks) + 1)
  <2>1. Cardinality({i \in DOMAIN tasks : tasks[i].wait <= delay}) \in 0..Len(tasks)
    BY EarlierCount
  <2> QED
    BY <1>0, <2>1
<1>2. e \in Entry /\ e.id = id
  BY DEF Entry
<1>3. r = InsertAt(tasks, k, e)
  BY DEF Insert
<1> HIDE DEF k, e, r
<1>4. /\ r \in Seq(Entry) /\ Len(r) = Len(tasks) + 1 /\ r[k] = e
      /\ \A i \in 1..(k - 1) : r[i] = tasks[i]
      /\ \A i \in k..Len(tasks) : r[i + 1] = tasks[i]
  BY <1>1, <1>2, <1>3, InsertAtProperties
<1>5. DOMAIN r = 1..(Len(tasks) + 1)
  BY <1>4, LenProperties
<1>6. \A i \in DOMAIN r : i # k => \E j \in DOMAIN tasks : r[i] = tasks[j] /\ j = IF i < k THEN i ELSE i - 1
  <2> SUFFICES ASSUME NEW i \in DOMAIN r, i # k
               PROVE  \E j \in DOMAIN tasks : r[i] = tasks[j] /\ j = IF i < k THEN i ELSE i - 1
    OBVIOUS
  <2>1. CASE i < k
    BY <1>0, <1>1, <1>4, <1>5, <2>1
  <2>2. CASE i > k
    <3>1. i - 1 \in k..Len(tasks) /\ (i - 1) + 1 = i /\ i - 1 \in DOMAIN tasks
      BY <1>0, <1>1, <1>5, <2>2
    <3>2. r[i] = tasks[i - 1]
      BY <1>4, <3>1
    <3> QED
      BY <1>0, <1>1, <1>5, <2>2, <3>1, <3>2
  <2> QED
    BY <1>0, <1>1, <1>5, <2>1, <2>2
<1>7. \A j \in DOMAIN tasks : \E i \in DOMAIN r : r[i] = tasks[j]
  <2> TAKE j \in DOMAIN tasks
  <2>1. CASE j < k
    BY <1>0, <1>1, <1>4, <1>5, <2>1
  <2>2. CASE j >= k
    <3>1. j \in k..Len(tasks) /\ j + 1 \in DOMAIN r
      BY <1>0, <1>1, <1>5, <2>2
    <3> QED
      BY <1>4, <3>1
  <2> QED
    BY <1>0, <1>1, <2>1, <2>2
<1>8. IdsOf(r) = IdsOf(tasks) \cup {id}
  <2>1. k \in DOMAIN r
    BY <1>1, <1>5
  <2> QED
    <3>1. ASSUME NEW x \in IdsOf(r)
          PROVE  x \in IdsOf(tasks) \cup {id}
      <4>1. PICK i \in DOMAIN r : x = r[i].id
        BY DEF IdsOf
      <4> QED
        BY <1>2, <1>4, <1>6, <4>1 DEF IdsOf
    <3>2. ASSUME NEW x \in IdsOf(tasks)
          PROVE  x \in IdsOf(r)
      BY <1>7 DEF IdsOf
    <3>3. id \in IdsOf(r)
      BY <1>2, <1>4, <2>1 DEF IdsOf
    <3> QED
      BY <3>1, <3>2, <3>3
<1>9. ASSUME Distinct(tasks), id \notin IdsOf(tasks)
      PROVE  Distinct(r)
  <2> SUFFICES ASSUME NEW i \in DOMAIN r, NEW j \in DOMAIN r, r[i].id = r[j].id
               PROVE  i = j
    BY DEF Distinct
  <2>1. \A n \in DOMAIN r : n # k => r[n].id # id
    BY <1>6, <1>9, Zenon DEF IdsOf
  <2>2. CASE i = k \/ j = k
    BY <1>2, <1>4, <2>1, <2>2
  <2>3. CASE i # k /\ j # k
    <3>1. PICK a \in DOMAIN tasks : r[i] = tasks[a] /\ a = IF i < k THEN i ELSE i - 1
      BY <1>6, <2>3
    <3>2. PICK b \in DOMAIN tasks : r[j] = tasks[b] /\ b = IF j < k THEN j ELSE j - 1
      BY <1>6, <2>3
    <3>3. a = b
      BY <1>9, <3>1, <3>2 DEF Distinct
    <3> QED
      BY <1>0, <1>1, <1>5, <2>3, <3>1, <3>2, <3>3
  <2> QED
    BY <2>2, <2>3
<1> QED
  BY <1>4, <1>8, <1>9 DEF r

\* Taking the first entry takes its id out of the queue.
LEMMA TailLemma ==
  ASSUME tasks \in Seq(Entry), tasks # <<>>
  PROVE  /\ Tail(tasks) \in Seq(Entry)
         /\ Head(tasks).id \in IdsOf(tasks) /\ Head(tasks).id \in Ids
         /\ IdsOf(Tail(tasks)) \cup {Head(tasks).id} = IdsOf(tasks)
         /\ Distinct(tasks) => Distinct(Tail(tasks)) /\ Head(tasks).id \notin IdsOf(Tail(tasks))
<1> DEFINE r == Tail(tasks)
<1>0. Len(tasks) \in Nat \ {0} /\ DOMAIN tasks = 1..Len(tasks) /\ Head(tasks) = tasks[1]
  BY LenProperties, EmptySeq
<1>1. r \in Seq(Entry) /\ Len(r) = Len(tasks) - 1 /\ \A i \in 1..(Len(tasks) - 1) : r[i] = tasks[i + 1]
  BY <1>0, HeadTailProperties
<1>2. DOMAIN r = 1..(Len(tasks) - 1)
  BY <1>1, LenProperties
<1> HIDE DEF r
<1>3. 1 \in DOMAIN tasks /\ tasks[1] \in Entry
  BY <1>0, ElementOfSeq
<1>4. \A i \in DOMAIN r : i + 1 \in DOMAIN tasks /\ r[i] = tasks[i + 1] /\ i + 1 # 1
  BY <1>0, <1>1, <1>2
<1>5. \A j \in DOMAIN tasks : j # 1 => \E i \in DOMAIN r : j = i + 1 /\ r[i] = tasks[j]
  <2> SUFFICES ASSUME NEW j \in DOMAIN tasks, j # 1
               PROVE  \E i \in DOMAIN r : j = i + 1 /\ r[i] = tasks[j]
    OBVIOUS
  <2>1. j - 1 \in DOMAIN r /\ j = (j - 1) + 1
    BY <1>0, <1>2
  <2> QED
    BY <1>4, <2>1
<1>6. IdsOf(r) \cup {tasks[1].id} = IdsOf(tasks)
  <2>1. ASSUME NEW x \in IdsOf(r)
        PROVE  x \in IdsOf(tasks)
    BY <1>4 DEF IdsOf
  <2>2. ASSUME NEW x \in IdsOf(tasks), x # tasks[1].id
        PROVE  x \in IdsOf(r)
    <3>1. PICK j \in DOMAIN tasks : x = tasks[j].id
      BY DEF IdsOf
    <3> QED
      BY <1>5, <2>2, <3>1 DEF IdsOf
  <2>3. tasks[1].id \in IdsOf(tasks)
    BY <1>3 DEF IdsOf
  <2> QED
    BY <2>1, <2>2, <2>3
<1>7. ASSUME Distinct(tasks)
      PROVE  Distinct(r) /\ tasks[1].id \notin IdsOf(r)
  <2>1. \A i \in DOMAIN r : r[i].id # tasks[1].id
    BY <1>3, <1>4, <1>7 DEF Distinct
  <2>2. \A i, j \in DOMAIN r : r[i].id = r[j].id => i + 1 = j + 1
    BY <1>4, <1>7 DEF Distinct
  <2>3. \A i, j \in DOMAIN r : i + 1 = j + 1 => i = j
    BY <1>0, <1>2
  <2> QED
    BY <2>1, <2>2, <2>3 DEF Distinct, IdsOf
<1>8. tasks[1].id \in IdsOf(tasks) /\ tasks[1].id \in Ids
  BY <1>3 DEF IdsOf, Entry
<1> QED
  BY <1>0, <1>1, <1>6, <1>7, <1>8 DEF r

\* Time changes no id.
LEMMA TickLemma ==
  ASSUME tasks \in Seq(Entry), Tick
  PROVE  /\ tasks' \in Seq(Entry)
         /\ IdsOf(tasks') = IdsOf(tasks)
         /\ Distinct(tasks) => Distinct(tasks')
<1>0. Len(tasks) \in Nat /\ DOMAIN tasks = 1..Len(tasks) /\ \A i \in 1..Len(tasks) : tasks[i] \in Entry
  BY LenProperties, ElementOfSeq
<1>1. \A i \in 1..Len(tasks) :
        /\ [tasks[i] EXCEPT !.wait = IF @ = 0 THEN 0 ELSE @ - 1] \in Entry
        /\ [tasks[i] EXCEPT !.wait = IF @ = 0 THEN 0 ELSE @ - 1].id = tasks[i].id
  BY <1>0, Bounds, SMTT(40) DEF Entry
<1>2. tasks' = [i \in 1..Len(tasks) |-> [tasks[i] EXCEPT !.wait = IF @ = 0 THEN 0 ELSE @ - 1]]
  BY <1>0 DEF Tick
<1>3. tasks' \in [1..Len(tasks) -> Entry] /\ \A i \in 1..Len(tasks) : tasks'[i].id = tasks[i].id
  BY <1>1, <1>2
<1>4. tasks' \in Seq(Entry) /\ DOMAIN tasks' = DOMAIN tasks
  BY <1>0, <1>3, SeqDef
<1> QED
  BY <1>0, <1>3, <1>4, Zenon DEF IdsOf, Distinct

-----------------------------------------------------------------------------
(* The types *)

\* notify_one wakes a waiting worker or nobody.
LEMMA NotifyOneLemma ==
  ASSUME NEW PC, "woken" \in PC, pc \in [Workers -> PC], NotifyOne(pc')
  PROVE  /\ pc' \in [Workers -> PC]
         /\ \A w \in Workers : pc'[w] = pc[w] \/ (pc[w] = "wait" /\ pc'[w] = "woken")
<1>1. CASE Waiting = {}
  BY <1>1 DEF NotifyOne
<1>2. CASE Waiting # {}
  <2>1. PICK w \in Waiting : pc' = [pc EXCEPT ![w] = "woken"]
    BY <1>2 DEF NotifyOne
  <2>2. w \in Workers /\ pc[w] = "wait"
    BY DEF Waiting
  <2> QED
    BY <2>1, <2>2
<1> QED
  BY <1>1, <1>2

\* A race of a lookup is a flag per worker.
LEMMA RaceType ==
  ASSUME Race
  PROVE  raced' \in [Workers -> BOOLEAN]
BY Zenon DEF Race

\* Every step keeps the types; a worker that has a task has one of the ids.
LEMMA TypeStep ==
  ASSUME TypeOK, IdsHandedOut, [Next]_vars
  PROVE  TypeOK'
<1> USE Bounds DEF Ids, Once, table, threads, history
<1>0. /\ tasks \in Seq(Entry) /\ nextId \in 1..MaxTasks + 1
      /\ byId \subseteq Ids /\ interval \in [Ids -> 0..MaxInterval]
      /\ pc \in [Workers -> {"check", "enter", "wait", "woken", "find", "execute", "finish", "done"}]
      /\ cur \in [Workers -> 0..MaxTasks]
      /\ runs \in [Ids -> Nat] /\ missed \subseteq Ids
  BY Zenon DEF TypeOK, Entry
<1>1. CASE UNCHANGED vars
  BY <1>1 DEF vars, TypeOK
<1>2. CASE Tick
  <2>1. tasks' \in Seq(Entry)
    BY <1>0, <1>2, TickLemma
  <2> QED
    BY <1>2, <2>1 DEF Tick, TypeOK, Entry
<1>3. CASE RunEvery
  <2>1. PICK length \in 1..MaxInterval :
          interval' = [interval EXCEPT ![nextId] = length] /\ tasks' = Insert(nextId, length)
    BY <1>3 DEF RunEvery
  <2>2. nextId \in Ids /\ length \in 0..MaxInterval
    BY <1>3 DEF RunEvery, TypeOK
  <2>3. tasks' \in Seq(Entry)
    BY <1>0, <2>1, <2>2, InsertLemma
  <2>4. raced' \in [Workers -> BOOLEAN]
    BY <1>3, RaceType DEF RunEvery
  <2>5. nextId' \in 1..MaxTasks + 1 /\ byId' \subseteq Ids /\ interval' \in [Ids -> Once..MaxInterval]
    BY <1>3, <2>1, <2>2 DEF RunEvery, TypeOK
  <2> QED
    BY <1>3, <2>3, <2>4, <2>5 DEF RunEvery, TypeOK, Entry
<1>4. CASE RunOnce
  <2>1. nextId \in Ids /\ tasks' = Insert(nextId, 0) /\ 0 \in 0..MaxInterval
    BY <1>4 DEF RunOnce, TypeOK
  <2>2. tasks' \in Seq(Entry)
    BY <1>0, <2>1, InsertLemma
  <2>3. raced' \in [Workers -> BOOLEAN]
    BY <1>4, RaceType DEF RunOnce
  <2>4. nextId' \in 1..MaxTasks + 1 /\ byId' \subseteq Ids /\ interval' = interval
    BY <1>4, <2>1 DEF RunOnce, TypeOK
  <2>5. pc' \in [Workers -> {"check", "enter", "wait", "woken", "find", "execute", "finish", "done"}]
    BY <1>4, NotifyOneLemma DEF RunOnce, TypeOK
  <2> QED
    BY <1>4, <2>2, <2>3, <2>4, <2>5 DEF RunOnce, TypeOK, Entry
<1>5. ASSUME NEW id \in Ids, RemoveTask(id)
      PROVE  TypeOK'
  <2>1. raced' \in [Workers -> BOOLEAN]
    BY <1>5, RaceType DEF RemoveTask, TypeOK
  <2> QED
    BY <1>5, <2>1 DEF RemoveTask, TypeOK
<1>6. CASE MainCheck
  BY <1>6 DEF MainCheck, TypeOK
<1>7. CASE MainScan
  <2>1. pc' \in [Workers -> {"check", "enter", "wait", "woken", "find", "execute", "finish", "done"}]
    BY <1>7, NotifyOneLemma DEF MainScan, TypeOK
  <2> QED
    BY <1>7, <2>1 DEF MainScan, TypeOK
<1>8. ASSUME NEW w \in Workers, WorkerCheck(w) \/ WorkerWait(w) \/ SpuriousWakeup(w) \/ WorkerExecuted(w)
      PROVE  TypeOK'
  BY <1>8 DEF WorkerCheck, WorkerWait, SpuriousWakeup, WorkerExecuted, Goto, TypeOK
<1>9. ASSUME NEW w \in Workers, WorkerWoken(w)
      PROVE  TypeOK'
  <2>1. CASE stop \/ ~Due
    BY <1>9, <2>1 DEF WorkerWoken, Goto, TypeOK
  <2>2. CASE ~(stop \/ ~Due)
    <3>1. /\ cur' = [cur EXCEPT ![w] = Head(tasks).id] /\ raced' = [raced EXCEPT ![w] = FALSE]
          /\ tasks' = Tail(tasks) /\ pc' = [pc EXCEPT ![w] = "find"]
      BY <1>9, <2>2 DEF WorkerWoken, Goto
    <3>2. tasks' \in Seq(Entry) /\ Head(tasks).id \in Ids
      BY <1>0, <2>2, <3>1, TailLemma DEF Due
    <3>3. raced' \in [Workers -> BOOLEAN]
      BY <3>1, Zenon DEF TypeOK
    <3>4. cur' \in [Workers -> 0..MaxTasks]
      BY <1>0, <3>1, <3>2
    <3> QED
      BY <1>9, <3>1, <3>2, <3>3, <3>4 DEF WorkerWoken, TypeOK, Entry
  <2> QED
    BY <2>1, <2>2
<1>10. ASSUME NEW w \in Workers, WorkerFind(w)
       PROVE  TypeOK'
  <2>1. cur[w] \in Ids
    <3>1. cur[w] \in 1..nextId - 1
      BY <1>10 DEF WorkerFind, IdsHandedOut
    <3> QED
      BY <1>0, <3>1
  <2>2. runs' \in [Ids -> Nat] /\ missed' \subseteq Ids
    <3>1. \/ runs' = runs
          \/ runs' = [runs EXCEPT ![cur[w]] = @ + 1]
      BY <1>10 DEF WorkerFind
    <3>2. \/ missed' = missed
          \/ missed' = missed \cup (byId \cap {cur[w]})
      BY <1>10 DEF WorkerFind
    <3>3. runs' \in [Ids -> Nat]
      <4>1. runs \in [Ids -> Nat] /\ runs[cur[w]] + 1 \in Nat
        BY <1>0, <2>1
      <4> QED
        BY <2>1, <3>1, <4>1
    <3>4. missed' \subseteq Ids
      BY <1>0, <3>2
    <3> QED
      BY <3>3, <3>4
  <2>3. pc' \in [Workers -> {"check", "enter", "wait", "woken", "find", "execute", "finish", "done"}]
    BY <1>10 DEF WorkerFind, Goto, TypeOK
  <2> QED
    BY <1>10, <2>2, <2>3 DEF WorkerFind, TypeOK
<1>11. ASSUME NEW w \in Workers, WorkerFinish(w)
       PROVE  TypeOK'
  <2>1. cur[w] \in Ids
    <3>1. cur[w] \in 1..nextId - 1
      BY <1>11 DEF WorkerFinish, IdsHandedOut
    <3> QED
      BY <1>0, <3>1
  <2>2. PICK length \in IntervalsOf(cur[w]) :
          IF length # Once
            THEN tasks' = Insert(cur[w], length) /\ UNCHANGED <<byId, raced>>
            ELSE byId' = byId \ {cur[w]} /\ Race /\ UNCHANGED tasks
    BY <1>11 DEF WorkerFinish
  <2>3. length \in 0..MaxInterval
    BY <1>0, <2>1 DEF IntervalsOf
  <2>4. tasks' \in Seq(Entry) /\ byId' \subseteq Ids
    BY <1>0, <2>1, <2>2, <2>3, InsertLemma
  <2>5. raced' \in [Workers -> BOOLEAN]
    BY <2>2, RaceType DEF TypeOK
  <2> QED
    BY <1>11, <2>4, <2>5 DEF WorkerFinish, Goto, TypeOK, Entry
<1>12. CASE Stop \/ JoinWorkers
  BY <1>12 DEF Stop, JoinWorkers, TypeOK
<1>13. CASE JoinMain
  BY <1>13 DEF JoinMain, TypeOK
<1> QED
  BY <1>1, <1>2, <1>3, <1>4, <1>5, <1>6, <1>7, <1>8, <1>9, <1>10, <1>11, <1>12, <1>13
  DEF Next, WorkerStep

-----------------------------------------------------------------------------
(* What a step does to the places a task can be in *)

Searching(w) == pc[w] = "find"
Working(w) == pc[w] \in {"execute", "finish"}
Busy(w) == Searching(w) \/ Working(w)

\* No worker takes a task, finds one or is done with one.
SameHolders ==
  /\ cur' = cur
  /\ \A w \in Workers : (Searching(w)' <=> Searching(w)) /\ (Working(w)' <=> Working(w))

\* Only worker w does, and its task is now id.
OthersSame(w, id) ==
  /\ cur'[w] = id
  /\ \A v \in Workers \ {w} :
       cur'[v] = cur[v] /\ (Searching(v)' <=> Searching(v)) /\ (Working(v)' <=> Working(v))

\* The queue has the same ids, or one more that it did not have.
SameIds == IdsOf(tasks') = IdsOf(tasks) /\ (Distinct(tasks) => Distinct(tasks'))
QueueAdds(id) ==
  /\ IdsOf(tasks') = IdsOf(tasks) \cup {id}
  /\ Distinct(tasks) /\ id \notin IdsOf(tasks) => Distinct(tasks')

\* The steps by what they do: nothing; add a task; remove one; take one from
\* the queue; find it; not find it; queue it again; erase it.
Idles == SameHolders /\ SameIds /\ UNCHANGED <<byId, interval, nextId, runs, removed, missed>>
Adds ==
  /\ nextId \in Ids /\ nextId' = nextId + 1
  /\ byId' = byId \cup {nextId} /\ QueueAdds(nextId)
  /\ \A id \in Ids \ {nextId} : interval'[id] = interval[id]
  /\ SameHolders /\ UNCHANGED <<runs, removed, missed>>
Removes(id) ==
  /\ id < nextId /\ byId' = byId \ {id} /\ removed' = removed \cup {id}
  /\ SameHolders /\ UNCHANGED <<tasks, interval, nextId, runs, missed>>
Takes(w, id) ==
  /\ id \in Ids /\ ~Busy(w) /\ Searching(w)' /\ ~Working(w)' /\ OthersSame(w, id)
  /\ IdsOf(tasks') \cup {id} = IdsOf(tasks)
  /\ Distinct(tasks) => Distinct(tasks') /\ id \notin IdsOf(tasks')
  /\ UNCHANGED <<byId, interval, nextId, runs, removed, missed>>
Finds(w, id) ==
  /\ cur[w] = id /\ id \in byId
  /\ Searching(w) /\ ~Working(w) /\ Working(w)' /\ ~Searching(w)' /\ OthersSame(w, id)
  /\ runs' = IF interval[id] = Once THEN [runs EXCEPT ![id] = @ + 1] ELSE runs
  /\ UNCHANGED <<tasks, byId, interval, nextId, removed, missed>>
Misses(w, id) ==
  /\ cur[w] = id /\ Searching(w) /\ ~Working(w) /\ ~Busy(w)' /\ OthersSame(w, id)
  /\ missed' = missed \cup (byId \cap {id})
  /\ UNCHANGED <<tasks, byId, interval, nextId, runs, removed>>
Requeues(w, id) ==
  /\ cur[w] = id /\ Working(w) /\ ~Busy(w)' /\ OthersSame(w, id)
  /\ id \in byId => interval[id] # Once
  /\ QueueAdds(id)
  /\ UNCHANGED <<byId, interval, nextId, runs, removed, missed>>
Erases(w, id) ==
  /\ cur[w] = id /\ Working(w) /\ ~Busy(w)' /\ OthersSame(w, id)
  /\ byId' = byId \ {id}
  /\ UNCHANGED <<tasks, interval, nextId, runs, removed, missed>>

Effect ==
  \/ Idles \/ Adds
  \/ \E id \in Ids : Removes(id)
  \/ \E w \in Workers :
       Takes(w, Head(tasks).id) \/ Finds(w, cur[w]) \/ Misses(w, cur[w])
         \/ Requeues(w, cur[w]) \/ Erases(w, cur[w])

\* Every step of the program has one of these effects.
LEMMA StepEffect ==
  ASSUME TypeOK, IdsHandedOut, [Next]_vars
  PROVE  Effect
<1> USE DEF table, threads, history
<1>0. /\ tasks \in Seq(Entry) /\ nextId \in 1..MaxTasks + 1
      /\ byId \subseteq Ids /\ interval \in [Ids -> 0..MaxInterval]
      /\ pc \in [Workers -> {"check", "enter", "wait", "woken", "find", "execute", "finish", "done"}]
      /\ cur \in [Workers -> 0..MaxTasks]
  BY Zenon DEF TypeOK, Entry, Once
<1>1. CASE UNCHANGED vars
  BY <1>1 DEF vars, Effect, Idles, SameHolders, SameIds, Searching, Working
<1>2. CASE Tick
  <2>1. SameIds
    BY <1>0, <1>2, TickLemma DEF SameIds
  <2> QED
    BY <1>2, <2>1 DEF Tick, Effect, Idles, SameHolders, Searching, Working
<1>3. CASE RunEvery
  <2>1. PICK length \in 1..MaxInterval :
          interval' = [interval EXCEPT ![nextId] = length] /\ tasks' = Insert(nextId, length)
    BY <1>3 DEF RunEvery
  <2>2. nextId \in Ids /\ length \in 0..MaxInterval
    BY <1>0, <1>3, Bounds DEF RunEvery, Ids
  <2>3. QueueAdds(nextId)
    BY <1>0, <2>1, <2>2, InsertLemma DEF QueueAdds
  <2>4. \A id \in Ids \ {nextId} : interval'[id] = interval[id]
    BY <1>0, <2>1
  <2>5. SameHolders
    BY <1>3 DEF RunEvery, SameHolders, Searching, Working
  <2> QED
    BY <1>3, <2>2, <2>3, <2>4, <2>5 DEF RunEvery, Effect, Adds
<1>4. CASE RunOnce
  <2>1. nextId \in Ids /\ tasks' = Insert(nextId, 0) /\ 0 \in 0..MaxInterval
    BY <1>0, <1>4, Bounds DEF RunOnce, Ids
  <2>2. QueueAdds(nextId)
    BY <1>0, <2>1, InsertLemma DEF QueueAdds
  <2>3. \A w \in Workers : pc'[w] = pc[w] \/ (pc[w] = "wait" /\ pc'[w] = "woken")
    BY <1>0, <1>4, NotifyOneLemma, ZenonT(60) DEF RunOnce
  <2>4. SameHolders
    BY <1>4, <2>3 DEF RunOnce, SameHolders, Searching, Working
  <2> QED
    BY <1>4, <2>1, <2>2, <2>4 DEF RunOnce, Effect, Adds
<1>5. ASSUME NEW id \in Ids, RemoveTask(id)
      PROVE  Effect
  BY <1>5 DEF RemoveTask, Effect, Removes, SameHolders, Searching, Working
<1>6. CASE MainCheck
  BY <1>6 DEF MainCheck, Effect, Idles, SameHolders, SameIds, Searching, Working
<1>7. CASE MainScan
  <2>1. \A w \in Workers : pc'[w] = pc[w] \/ (pc[w] = "wait" /\ pc'[w] = "woken")
    BY <1>0, <1>7, NotifyOneLemma, ZenonT(60) DEF MainScan
  <2>2. SameHolders
    BY <1>7, <2>1 DEF MainScan, SameHolders, Searching, Working
  <2> QED
    BY <1>7, <2>2 DEF MainScan, Effect, Idles, SameIds
<1>8. ASSUME NEW w \in Workers, WorkerCheck(w) \/ WorkerWait(w) \/ SpuriousWakeup(w) \/ WorkerExecuted(w)
      PROVE  Effect
  <2>1. /\ tasks' = tasks /\ cur' = cur
        /\ UNCHANGED <<byId, interval, nextId, runs, removed, missed>>
    BY <1>8 DEF WorkerCheck, WorkerWait, SpuriousWakeup, WorkerExecuted
  <2>2. SameHolders
    BY <1>0, <1>8 DEF WorkerCheck, WorkerWait, SpuriousWakeup, WorkerExecuted, Goto,
                      SameHolders, Searching, Working
  <2> QED
    BY <2>1, <2>2 DEF Effect, Idles, SameIds
<1>9. ASSUME NEW w \in Workers, WorkerWoken(w)
      PROVE  Effect
  <2>1. CASE stop \/ ~Due
    <3>1. /\ tasks' = tasks /\ cur' = cur
          /\ UNCHANGED <<byId, interval, nextId, runs, removed, missed>>
      BY <1>9, <2>1 DEF WorkerWoken
    <3>2. SameHolders
      BY <1>0, <1>9, <2>1 DEF WorkerWoken, Goto, SameHolders, Searching, Working
    <3> QED
      BY <3>1, <3>2 DEF Effect, Idles, SameIds
  <2>2. CASE ~(stop \/ ~Due)
    <3>1. /\ cur' = [cur EXCEPT ![w] = Head(tasks).id] /\ pc[w] = "woken"
          /\ tasks' = Tail(tasks) /\ pc' = [pc EXCEPT ![w] = "find"]
          /\ UNCHANGED <<byId, interval, nextId, runs, removed, missed>>
      BY <1>9, <2>2 DEF WorkerWoken, Goto
    <3>2. /\ Head(tasks).id \in Ids
          /\ IdsOf(tasks') \cup {Head(tasks).id} = IdsOf(tasks)
          /\ Distinct(tasks) => Distinct(tasks') /\ Head(tasks).id \notin IdsOf(tasks')
      BY <1>0, <2>2, <3>1, TailLemma DEF Due
    <3>3. /\ ~Busy(w) /\ Searching(w)' /\ ~Working(w)' /\ OthersSame(w, Head(tasks).id)
      BY <1>0, <3>1 DEF Busy, Searching, Working, OthersSame
    <3> QED
      BY <3>1, <3>2, <3>3 DEF Effect, Takes
  <2> QED
    BY <2>1, <2>2
<1>10. ASSUME NEW w \in Workers, WorkerFind(w)
       PROVE  Effect
  <2>1. pc[w] = "find" /\ cur' = cur /\ UNCHANGED <<tasks, byId, interval, nextId, removed>>
    BY <1>10 DEF WorkerFind
  <2>2. \/ /\ cur[w] \in byId /\ pc' = [pc EXCEPT ![w] = "execute"]
           /\ runs' = IF interval[cur[w]] = Once THEN [runs EXCEPT ![cur[w]] = @ + 1] ELSE runs
           /\ UNCHANGED missed
        \/ /\ pc' = [pc EXCEPT ![w] = "check"]
           /\ missed' = missed \cup (byId \cap {cur[w]})
           /\ UNCHANGED runs
    BY <1>10, Zenon DEF WorkerFind, Goto
  <2>3. CASE pc' = [pc EXCEPT ![w] = "execute"]
    <3>1. Searching(w) /\ ~Working(w) /\ Working(w)' /\ ~Searching(w)' /\ OthersSame(w, cur[w])
      BY <1>0, <2>1, <2>3 DEF Searching, Working, OthersSame
    <3>2. pc' # [pc EXCEPT ![w] = "check"]
      BY <1>0, <2>3
    <3> QED
      BY <2>1, <2>2, <3>1, <3>2, Zenon DEF Effect, Finds
  <2>4. CASE pc' = [pc EXCEPT ![w] = "check"]
    <3>1. Searching(w) /\ ~Working(w) /\ ~Busy(w)' /\ OthersSame(w, cur[w])
      BY <1>0, <2>1, <2>4 DEF Searching, Working, Busy, OthersSame
    <3>2. pc' # [pc EXCEPT ![w] = "execute"]
      BY <1>0, <2>4
    <3> QED
      BY <2>1, <2>2, <3>1, <3>2, Zenon DEF Effect, Misses
  <2> QED
    BY <2>2, <2>3, <2>4
<1>11. ASSUME NEW w \in Workers, WorkerFinish(w)
       PROVE  Effect
  <2>1. cur[w] \in Ids
    <3>1. cur[w] \in 1..nextId - 1
      BY <1>11 DEF WorkerFinish, IdsHandedOut
    <3> QED
      BY <1>0, <3>1, Bounds DEF Ids
  <2>2. PICK length \in IntervalsOf(cur[w]) :
          IF length # Once
            THEN tasks' = Insert(cur[w], length) /\ UNCHANGED <<byId, raced>>
            ELSE byId' = byId \ {cur[w]} /\ Race /\ UNCHANGED tasks
    BY <1>11 DEF WorkerFinish
  <2>3. length \in 0..MaxInterval /\ (cur[w] \in byId => length = interval[cur[w]])
    BY <1>0, <2>1 DEF IntervalsOf, Once
  <2>4. /\ pc[w] = "finish" /\ cur' = cur /\ pc' = [pc EXCEPT ![w] = "check"]
        /\ UNCHANGED <<interval, nextId, runs, removed, missed>>
    BY <1>11 DEF WorkerFinish, Goto
  <2>5. Working(w) /\ ~Busy(w)' /\ OthersSame(w, cur[w])
    BY <1>0, <2>4 DEF Searching, Working, Busy, OthersSame
  <2>6. CASE length # Once
    <3>1. tasks' = Insert(cur[w], length) /\ UNCHANGED byId
      BY <2>2, <2>6
    <3>2. QueueAdds(cur[w])
      BY <1>0, <2>1, <2>3, <3>1, InsertLemma DEF QueueAdds
    <3> QED
      BY <2>3, <2>4, <2>5, <2>6, <3>1, <3>2 DEF Effect, Requeues
  <2>7. CASE length = Once
    <3>1. byId' = byId \ {cur[w]} /\ UNCHANGED tasks
      BY <2>2, <2>7
    <3> QED
      BY <2>4, <2>5, <3>1 DEF Effect, Erases
  <2> QED
    BY <2>6, <2>7
<1>12. CASE Stop \/ JoinWorkers
  BY <1>12 DEF Stop, JoinWorkers, Effect, Idles, SameHolders, SameIds, Searching, Working
<1>13. CASE JoinMain
  <2>1. SameHolders
    BY <1>13 DEF JoinMain, SameHolders, Searching, Working
  <2> QED
    BY <1>13, <2>1 DEF JoinMain, Effect, Idles, SameIds
<1> QED
  BY <1>1, <1>2, <1>3, <1>4, <1>5, <1>6, <1>7, <1>8, <1>9, <1>10, <1>11, <1>12, <1>13
  DEF Next, WorkerStep

-----------------------------------------------------------------------------
(* The invariants over effects *)

\* OnePlace, over the ids of the queue.
Places ==
  /\ Distinct(tasks)
  /\ \A w, v \in Workers : Busy(w) /\ Busy(v) /\ cur[w] = cur[v] => w = v
  /\ \A w \in Workers : Busy(w) => cur[w] \notin IdsOf(tasks)

\* IdsHandedOut, over the ids of the queue.
Known ==
  /\ \A id \in byId \cup removed \cup IdsOf(tasks) : id < nextId
  /\ \A w \in Workers : Busy(w) => cur[w] \in Ids /\ cur[w] < nextId
  /\ \A id \in Ids : runs[id] > 0 => id < nextId

Types ==
  /\ tasks \in Seq(Entry) /\ byId \subseteq Ids /\ removed \subseteq Ids
  /\ nextId \in Nat /\ nextId <= MaxTasks + 1
  /\ runs \in [Ids -> Nat]

\* A task stays in one place.
LEMMA PlacesStep ==
  ASSUME Types, Known, Places, Effect
  PROVE  Places'
<1> USE DEF Types, Known, Places, Busy, SameHolders, OthersSame, SameIds, QueueAdds
<1>1. CASE Idles
  BY <1>1 DEF Idles
<1>2. CASE Adds
  BY <1>2 DEF Adds
<1>3. ASSUME NEW id \in Ids, Removes(id)
      PROVE  Places'
  BY <1>3 DEF Removes
<1>4. ASSUME NEW w \in Workers, Takes(w, Head(tasks).id)
      PROVE  Places'
  BY <1>4 DEF Takes
<1>5. ASSUME NEW w \in Workers, Finds(w, cur[w])
      PROVE  Places'
  BY <1>5 DEF Finds
<1>6. ASSUME NEW w \in Workers, Misses(w, cur[w])
      PROVE  Places'
  BY <1>6 DEF Misses
<1>7. ASSUME NEW w \in Workers, Requeues(w, cur[w])
      PROVE  Places'
  BY <1>7 DEF Requeues
<1>8. ASSUME NEW w \in Workers, Erases(w, cur[w])
      PROVE  Places'
  BY <1>8 DEF Erases
<1> QED
  BY <1>1, <1>2, <1>3, <1>4, <1>5, <1>6, <1>7, <1>8 DEF Effect

\* Ids are handed out once.
LEMMA KnownStep ==
  ASSUME Types, Known, Effect
  PROVE  Known'
<1> USE DEF Types, Known, Busy, SameHolders, OthersSame, SameIds, QueueAdds
<1>1. CASE Idles
  BY <1>1 DEF Idles
<1>2. CASE Adds
  BY <1>2 DEF Adds
<1>3. ASSUME NEW id \in Ids, Removes(id)
      PROVE  Known'
  BY <1>3 DEF Removes
<1>4. ASSUME NEW w \in Workers, Takes(w, Head(tasks).id)
      PROVE  Known'
  BY <1>4 DEF Takes
<1>5. ASSUME NEW w \in Workers, Finds(w, cur[w])
      PROVE  Known'
  BY <1>5 DEF Finds
<1>6. ASSUME NEW w \in Workers, Misses(w, cur[w])
      PROVE  Known'
  BY <1>6 DEF Misses
<1>7. ASSUME NEW w \in Workers, Requeues(w, cur[w])
      PROVE  Known'
  BY <1>7 DEF Requeues
<1>8. ASSUME NEW w \in Workers, Erases(w, cur[w])
      PROVE  Known'
  BY <1>8 DEF Erases
<1> QED
  BY <1>1, <1>2, <1>3, <1>4, <1>5, <1>6, <1>7, <1>8 DEF Effect

\* A worker loses the entry of the task it runs by RemoveTask only.
LEMMA DanglingStep ==
  ASSUME Types, Places, DanglingOnlyIfRemoved, Effect
  PROVE  DanglingOnlyIfRemoved'
<1> USE DEF Types, Places, Busy, SameHolders, OthersSame
<1>0. DanglingOnlyIfRemoved <=> \A w \in Workers : Working(w) => cur[w] \in byId \cup removed
  BY DEF DanglingOnlyIfRemoved, Working
<1>9. DanglingOnlyIfRemoved' <=> \A w \in Workers : Working(w)' => cur'[w] \in byId' \cup removed'
  BY DEF DanglingOnlyIfRemoved, Working
<1>1. CASE Idles
  BY <1>0, <1>9, <1>1 DEF Idles
<1>2. CASE Adds
  BY <1>0, <1>9, <1>2 DEF Adds
<1>3. ASSUME NEW id \in Ids, Removes(id)
      PROVE  DanglingOnlyIfRemoved'
  BY <1>0, <1>9, <1>3 DEF Removes
<1>4. ASSUME NEW w \in Workers, Takes(w, Head(tasks).id)
      PROVE  DanglingOnlyIfRemoved'
  BY <1>0, <1>9, <1>4 DEF Takes
<1>5. ASSUME NEW w \in Workers, Finds(w, cur[w])
      PROVE  DanglingOnlyIfRemoved'
  BY <1>0, <1>9, <1>5 DEF Finds
<1>6. ASSUME NEW w \in Workers, Misses(w, cur[w])
      PROVE  DanglingOnlyIfRemoved'
  BY <1>0, <1>9, <1>6 DEF Misses
<1>7. ASSUME NEW w \in Workers, Requeues(w, cur[w])
      PROVE  DanglingOnlyIfRemoved'
  BY <1>0, <1>9, <1>7 DEF Requeues
<1>8. ASSUME NEW w \in Workers, Erases(w, cur[w])
      PROVE  DanglingOnlyIfRemoved'
  BY <1>0, <1>9, <1>8 DEF Erases
<1> QED
  BY <1>0, <1>9, <1>1, <1>2, <1>3, <1>4, <1>5, <1>6, <1>7, <1>8 DEF Effect

\* StartedIsOver and OnceAtMostOnce.
Started ==
  \A id \in Ids :
    runs[id] > 0 =>
      /\ runs[id] = 1 /\ interval[id] = Once
      /\ id \in byId => \E w \in Workers : Working(w) /\ cur[w] = id

\* A one-time task is started once.
LEMMA StartedStep ==
  ASSUME Types, Known, Places, Started, Effect
  PROVE  Started'
<1> USE DEF Types, Known, Places, Started, Busy, SameHolders, OthersSame
<1>1. CASE Idles
  BY <1>1 DEF Idles
<1>2. CASE Adds
  BY <1>2 DEF Adds
<1>3. ASSUME NEW id \in Ids, Removes(id)
      PROVE  Started'
  BY <1>3 DEF Removes
<1>4. ASSUME NEW w \in Workers, Takes(w, Head(tasks).id)
      PROVE  Started'
  BY <1>4 DEF Takes
<1>5. ASSUME NEW w \in Workers, Finds(w, cur[w])
      PROVE  Started'
  BY <1>5 DEF Finds
<1>6. ASSUME NEW w \in Workers, Misses(w, cur[w])
      PROVE  Started'
  BY <1>6 DEF Misses
<1>7. ASSUME NEW w \in Workers, Requeues(w, cur[w])
      PROVE  Started'
  BY <1>7 DEF Requeues
<1>8. ASSUME NEW w \in Workers, Erases(w, cur[w])
      PROVE  Started'
  BY <1>8 DEF Erases
<1> QED
  BY <1>1, <1>2, <1>3, <1>4, <1>5, <1>6, <1>7, <1>8 DEF Effect

\* NoTaskForgotten, over the ids of the queue.
Remembered ==
  \A id \in byId \ missed : id \in IdsOf(tasks) \/ \E w \in Workers : Busy(w) /\ cur[w] = id

\* A task is not forgotten.
LEMMA RememberedStep ==
  ASSUME Types, Remembered, Effect
  PROVE  Remembered'
<1> USE DEF Types, Remembered, Busy, SameHolders, OthersSame, SameIds, QueueAdds
<1>1. CASE Idles
  BY <1>1 DEF Idles
<1>2. CASE Adds
  BY <1>2 DEF Adds
<1>3. ASSUME NEW id \in Ids, Removes(id)
      PROVE  Remembered'
  BY <1>3 DEF Removes
<1>4. ASSUME NEW w \in Workers, Takes(w, Head(tasks).id)
      PROVE  Remembered'
  BY <1>4 DEF Takes
<1>5. ASSUME NEW w \in Workers, Finds(w, cur[w])
      PROVE  Remembered'
  BY <1>5 DEF Finds
<1>6. ASSUME NEW w \in Workers, Misses(w, cur[w])
      PROVE  Remembered'
  BY <1>6 DEF Misses
<1>7. ASSUME NEW w \in Workers, Requeues(w, cur[w])
      PROVE  Remembered'
  BY <1>7 DEF Requeues
<1>8. ASSUME NEW w \in Workers, Erases(w, cur[w])
      PROVE  Remembered'
  BY <1>8 DEF Erases
<1> QED
  BY <1>1, <1>2, <1>3, <1>4, <1>5, <1>6, <1>7, <1>8 DEF Effect

-----------------------------------------------------------------------------
(* The theorems *)

\* The types the effects need.
LEMMA TypesOfTypeOK ==
  ASSUME TypeOK
  PROVE  Types
<1>1. /\ tasks \in Seq(Entry) /\ nextId \in 1..MaxTasks + 1 /\ byId \subseteq Ids
      /\ removed \subseteq Ids /\ runs \in [Ids -> Nat]
  BY Zenon DEF TypeOK, Entry
<1> QED
  BY <1>1, Bounds DEF Types

\* The two ways to say that ids are handed out in order.
LEMMA KnownIsHandedOut ==
  ASSUME Types
  PROVE  Known <=> IdsHandedOut
<1>1. IdsOf(tasks) \subseteq Ids
  <2> SUFFICES ASSUME NEW i \in DOMAIN tasks
               PROVE  tasks[i].id \in Ids
    BY DEF IdsOf
  <2> QED
    <3>1. tasks \in Seq(Entry)
      BY DEF Types
    <3>2. i \in 1..Len(tasks)
      BY <3>1, LenProperties
    <3>3. tasks[i] \in Entry
      BY <3>1, <3>2, ElementOfSeq
    <3> QED
      BY <3>3 DEF Entry
<1>2. ASSUME NEW id \in Ids
      PROVE  id < nextId <=> id \in 1..nextId - 1
  BY Bounds DEF Ids, Types
<1>3. (\A i \in DOMAIN tasks : tasks[i].id < nextId) <=> \A id \in IdsOf(tasks) : id < nextId
  BY DEF IdsOf
<1>4. byId \cup removed \subseteq 1..nextId - 1 <=> \A id \in byId \cup removed : id < nextId
  BY <1>2 DEF Types
<1>5. ASSUME NEW w \in Workers
      PROVE  cur[w] \in 1..nextId - 1 => cur[w] < nextId /\ cur[w] \in Ids
  BY Bounds DEF Types, Ids
<1>6. Known => IdsHandedOut
  BY <1>2, <1>3, <1>4 DEF Known, IdsHandedOut, Busy, Searching, Working
<1>7. IdsHandedOut => Known
  BY <1>3, <1>4, <1>5 DEF Known, IdsHandedOut, Busy, Searching, Working
<1> QED
  BY <1>6, <1>7

\* A task in one place is counted once.
LEMMA PlacesCount ==
  ASSUME Places
  PROVE  OnePlace
<1> SUFFICES ASSUME NEW id \in Ids
             PROVE  Cardinality({i \in DOMAIN tasks : tasks[i].id = id})
                      + Cardinality({w \in Workers : Has(w, id)}) <= 1
  BY DEF OnePlace
<1> DEFINE Q == {i \in DOMAIN tasks : tasks[i].id = id}
           H == {w \in Workers : Has(w, id)}
<1>1. \A w \in Workers : Has(w, id) <=> Busy(w) /\ cur[w] = id
  BY DEF Has, Busy, Searching, Working
<1>2. H = {} \/ \E w : H = {w}
  BY <1>1 DEF Places
<1>3. Q = {} \/ \E i : Q = {i}
  BY DEF Places, Distinct
<1>4. Q = {} \/ H = {}
  BY <1>1 DEF Places, IdsOf
<1> HIDE DEF Q, H
<1>5. Cardinality(Q) \in {0, 1} /\ (Q = {} => Cardinality(Q) = 0)
  BY <1>3, FS_EmptySet, FS_Singleton
<1>6. Cardinality(H) \in {0, 1} /\ (H = {} => Cardinality(H) = 0)
  BY <1>2, FS_EmptySet, FS_Singleton
<1>7. Cardinality(Q) + Cardinality(H) <= 1
  BY <1>4, <1>5, <1>6
<1> QED
  BY <1>7 DEF Q, H

\* The inductive invariant: all of it holds together.
SchedulerIInv ==
  TypeOK /\ Known /\ Places /\ Started /\ DanglingOnlyIfRemoved /\ Remembered

\* No step breaks the inductive invariant.
LEMMA InvariantStep ==
  ASSUME SchedulerIInv, [Next]_vars
  PROVE  SchedulerIInv'
<1> USE DEF SchedulerIInv
<1>1. Types /\ IdsHandedOut
  BY TypesOfTypeOK, KnownIsHandedOut
<1>2. TypeOK' /\ Effect
  BY <1>1, TypeStep, StepEffect
<1> QED
  BY <1>1, <1>2, KnownStep, PlacesStep, StartedStep, DanglingStep, RememberedStep

\* The inductive invariant holds at first, when there is no task.
LEMMA InvariantInit ==
  ASSUME Init
  PROVE  SchedulerIInv
<1>0. /\ tasks = <<>> /\ byId = {} /\ removed = {} /\ missed = {} /\ nextId = 1
      /\ interval = [id \in Ids |-> Once] /\ runs = [id \in Ids |-> 0]
      /\ pc = [w \in Workers |-> "check"] /\ cur = [w \in Workers |-> 0]
      /\ main = "check" /\ owner = "alive"
  BY DEF Init
<1>1. raced \in [Workers -> BOOLEAN]
  BY Zenon DEF Init
<1>2. DOMAIN tasks = {} /\ tasks \in Seq([id : Ids, wait : 0..MaxInterval])
  BY <1>0
<1>3. \A w \in Workers : ~Busy(w) /\ ~Working(w)
  BY <1>0 DEF Busy, Searching, Working
<1>4. IdsOf(tasks) = {} /\ Distinct(tasks)
  BY <1>2, Zenon DEF IdsOf, Distinct
<1>5. TypeOK
  BY <1>0, <1>1, <1>2, Bounds DEF TypeOK, Once
<1>6. Known /\ Places /\ Started /\ Remembered
  BY <1>0, <1>3, <1>4 DEF Known, Places, Started, Remembered
<1>7. DanglingOnlyIfRemoved
  BY <1>3 DEF DanglingOnlyIfRemoved, Working
<1> QED
  BY <1>5, <1>6, <1>7 DEF SchedulerIInv

\* It is an invariant of the specification.
LEMMA InductiveInvariant == Spec => []SchedulerIInv
BY InvariantInit, InvariantStep, PTL DEF Spec

\* However tasks are added, removed, queued again and raced for, every task is in
\* one place, no id is used twice and a one-time task is over once it was started.
THEOREM SchedulerInvariant == Spec => []SchedulerInv
<1>1. ASSUME SchedulerIInv
      PROVE  SchedulerInv
  <2>1. TypeOK /\ OnePlace /\ IdsHandedOut
    BY <1>1, TypesOfTypeOK, KnownIsHandedOut, PlacesCount DEF SchedulerIInv
  <2>2. StartedIsOver
    BY <1>1 DEF SchedulerIInv, Started, StartedIsOver, Has, Working
  <2> QED
    BY <2>1, <2>2 DEF SchedulerInv
<1> QED
  BY <1>1, InductiveInvariant, PTL

\* A task given to RunOnce is never run twice.
THEOREM RunsAtMostOnce == Spec => []OnceAtMostOnce
<1>1. ASSUME SchedulerIInv
      PROVE  OnceAtMostOnce
  <2>1. Started /\ \A id \in Ids : runs[id] \in Nat
    BY <1>1, TypesOfTypeOK DEF SchedulerIInv, Types
  <2> QED
    BY <2>1 DEF Started, OnceAtMostOnce
<1> QED
  BY <1>1, InductiveInvariant, PTL

\* Only RemoveTask can take the entry away that a worker is using.
THEOREM NoDanglingEntry == Spec => []DanglingOnlyIfRemoved
<1>1. SchedulerIInv => DanglingOnlyIfRemoved
  BY DEF SchedulerIInv
<1> QED
  BY <1>1, InductiveInvariant, PTL

\* Only a lookup without the mutex that races with a change of the table can
\* lose a task.
THEOREM TasksKept == Spec => []NoTaskForgotten
<1>1. ASSUME SchedulerIInv
      PROVE  NoTaskForgotten
  <2>1. Remembered
    BY <1>1 DEF SchedulerIInv
  <2> QED
    BY <2>1 DEF Remembered, NoTaskForgotten, IdsOf, Has, Busy, Searching, Working
<1> QED
  BY <1>1, InductiveInvariant, PTL

==============================================================================
