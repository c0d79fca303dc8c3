----------------------------- MODULE Scheduler -----------------------------
(***************************************************************************)
(* Scheduler (include/mw/core/common/Scheduler.h): a main thread that      *)
(* watches the tasks, workers that wait on a condition variable, clients   *)
(* that add and remove tasks, and the destructor.                          *)
(*                                                                         *)
(* What a thread does under m_taskMutex is one step; what it does without  *)
(* it (the test of m_stop, the lookup in m_tasksById, the task itself) is  *)
(* a step of its own.  Time is discrete; an entry of m_tasks is a task and *)
(* how long it is until its time point, 0 for one that has passed.         *)
(***************************************************************************)
EXTENDS Naturals, Sequences, FiniteSets, SequencesExt

CONSTANTS Workers,       \* the worker threads
          MaxTasks,      \* bound: the tasks added
          MaxInterval,   \* bound: the longest interval, in units of time
          MayRemove,     \* whether RemoveTask is called
          MayStop        \* whether the scheduler is destroyed

ASSUME SchedulerAssumption ==
  /\ MaxTasks \in Nat /\ MaxInterval \in Nat \ {0}
  /\ MayRemove \in BOOLEAN /\ MayStop \in BOOLEAN

VARIABLES
  stop,      \* m_stop
  tasks,     \* m_tasks, in the order of its time points
  byId,      \* the keys of m_tasksById
  interval,  \* interval[id]: m_intervalOpt of the task, Once without one
  nextId,    \* m_nextId
  main,      \* where the main thread is
  pc,        \* pc[w]: where worker w is
  cur,       \* cur[w]: the task it took from m_tasks
  raced,     \* m_tasksById has changed during its lookup
  owner,     \* where the destructor is
  runs,      \* history: how often a one-time task was run
  removed,   \* history: the ids RemoveTask was called with
  missed     \* history: the ids a racing lookup did not find

vars == <<stop, tasks, byId, interval, nextId, main, pc, cur, raced, owner, runs, removed, missed>>
table == <<byId, interval, nextId>>
threads == <<main, pc, cur, raced>>
history == <<runs, removed, missed>>

Ids == 1..MaxTasks

Once == 0

Init ==
  /\ stop = FALSE
  /\ tasks = <<>>
  /\ byId = {} /\ interval = [id \in Ids |-> Once] /\ nextId = 1
  /\ main = "check"
  /\ pc = [w \in Workers |-> "check"]
  /\ cur = [w \in Workers |-> 0]
  /\ raced = [w \in Workers |-> FALSE]
  /\ owner = "alive"
  /\ runs = [id \in Ids |-> 0]
  /\ removed = {} /\ missed = {}

-----------------------------------------------------------------------------
Waiting == {w \in Workers : pc[w] = "wait"}

\* std::condition_variable::notify_one, as the new value p of pc: one of the
\* waiting workers is woken, if there is one.
NotifyOne(p) ==
  IF Waiting = {} THEN p = pc ELSE \E w \in Waiting : p = [pc EXCEPT ![w] = "woken"]

\* m_tasks.insert({ now + delay, id }): after the entries of the same time.
Insert(id, delay) ==
  LET earlier == {i \in DOMAIN tasks : tasks[i].wait <= delay}
  IN  InsertAt(tasks, Cardinality(earlier) + 1, [id |-> id, wait |-> delay])

\* The first task's time has come.
Due == tasks # <<>> /\ Head(tasks).wait = 0

\* m_tasksById changes while other workers may be looking something up in it.
Race == raced' = [w \in Workers |-> raced[w] \/ pc[w] = "find"]

Tick ==
  /\ \E i \in DOMAIN tasks : tasks[i].wait > 0
  /\ tasks' = [i \in DOMAIN tasks |->
                 [tasks[i] EXCEPT !.wait = IF @ = 0 THEN 0 ELSE @ - 1]]
  /\ UNCHANGED <<stop, table, threads, owner, history>>

-----------------------------------------------------------------------------
(* The clients, until the destructor runs.                                 *)

\* m_nextId is atomic and is taken before the lock; nobody else reads it, so that one
\* step does both.
RunEvery ==
  /\ owner = "alive" /\ nextId <= MaxTasks
  /\ nextId' = nextId + 1
  /\ byId' = byId \cup {nextId}
  /\ \E length \in 1..MaxInterval :
       /\ interval' = [interval EXCEPT ![nextId] = length]
       /\ tasks' = Insert(nextId, length)
  /\ Race
  /\ UNCHANGED <<stop, main, pc, cur, owner, history>>

RunOnce ==
  /\ owner = "alive" /\ nextId <= MaxTasks
  /\ nextId' = nextId + 1
  /\ byId' = byId \cup {nextId} /\ UNCHANGED interval
  /\ tasks' = Insert(nextId, 0)
  /\ NotifyOne(pc')
  /\ Race
  /\ UNCHANGED <<stop, main, cur, owner, history>>

\* Only m_tasksById forgets the task.
RemoveTask(id) ==
  /\ MayRemove /\ owner = "alive" /\ id < nextId
  /\ id \notin removed
  /\ byId' = byId \ {id}
  /\ removed' = removed \cup {id}
  /\ IF id \in byId THEN Race ELSE UNCHANGED raced
  /\ UNCHANGED <<stop, tasks, interval, nextId, main, pc, cur, owner, runs, missed>>

-----------------------------------------------------------------------------
(* MainThread *)

MainCheck ==
  /\ main = "check"
  /\ main' = IF stop THEN "done" ELSE "scan"
  /\ UNCHANGED <<stop, tasks, table, pc, cur, raced, owner, history>>

\* Mutant of MainScan: nobody is notified of a task that is due.
MainScanSilent ==
  /\ main = "scan"
  /\ main' = "check"
  /\ UNCHANGED <<stop, tasks, table, pc, cur, raced, owner, history>>

\* Notify when the first task is due; sleep a millisecond otherwise.
MainScan ==
  /\ main = "scan"
  /\ main' = "check"
  /\ IF Due THEN NotifyOne(pc') ELSE UNCHANGED pc
  /\ UNCHANGED <<stop, tasks, table, cur, raced, owner, history>>

-----------------------------------------------------------------------------
(* Worker *)

Goto(w, label) == pc' = [pc EXCEPT ![w] = label]

WorkerCheck(w) ==
  /\ pc[w] = "check"
  /\ Goto(w, IF stop THEN "done" ELSE "enter")
  /\ UNCHANGED <<stop, tasks, table, main, cur, raced, owner, history>>

\* Lock the mutex and wait, without a predicate.
WorkerWait(w) ==
  /\ pc[w] = "enter"
  /\ Goto(w, "wait")
  /\ UNCHANGED <<stop, tasks, table, main, cur, raced, owner, history>>

SpuriousWakeup(w) ==
  /\ pc[w] = "wait"
  /\ Goto(w, "woken")
  /\ UNCHANGED <<stop, tasks, table, main, cur, raced, owner, history>>

\* Mutant of WorkerWoken: the task is not erased from m_tasks.
WorkerWokenKeeps(w) ==
  /\ pc[w] = "woken"
  /\ IF stop \/ ~Due
       THEN /\ Goto(w, IF stop THEN "done" ELSE "check")
            /\ UNCHANGED <<cur, raced>>
       ELSE /\ Goto(w, "find")
            /\ cur' = [cur EXCEPT ![w] = Head(tasks).id]
            /\ raced' = [raced EXCEPT ![w] = FALSE]
  /\ UNCHANGED <<stop, tasks, table, main, owner, history>>

\* Woken, with the mutex: leave, go back, or take the first task.
WorkerWoken(w) ==
  /\ pc[w] = "woken"
  /\ IF stop \/ ~Due
       THEN /\ Goto(w, IF stop THEN "done" ELSE "check")
            /\ UNCHANGED <<tasks, cur, raced>>
       ELSE /\ Goto(w, "find")
            /\ cur' = [cur EXCEPT ![w] = Head(tasks).id]
            /\ raced' = [raced EXCEPT ![w] = FALSE]
            /\ tasks' = Tail(tasks)
  /\ UNCHANGED <<stop, table, main, owner, history>>

\* m_tasksById.find(taskId), without the mutex: when the table changes at the
\* same time it may miss a task that is there.  The task starts when found.
WorkerFind(w) ==
  /\ pc[w] = "find"
  /\ \/ /\ cur[w] \in byId
        /\ Goto(w, "execute")
        /\ runs' = IF interval[cur[w]] = Once THEN [runs EXCEPT ![cur[w]] = @ + 1] ELSE runs
        /\ UNCHANGED missed
     \/ /\ cur[w] \notin byId \/ raced[w]
        /\ Goto(w, "check")
        /\ missed' = missed \cup (byId \cap {cur[w]})
        /\ UNCHANGED runs
  /\ UNCHANGED <<stop, tasks, table, main, cur, raced, owner, removed>>

\* The task returns, or throws what Execute catches.
WorkerExecuted(w) ==
  /\ pc[w] = "execute"
  /\ Goto(w, "finish")
  /\ UNCHANGED <<stop, tasks, table, main, cur, raced, owner, history>>

\* What GetInterval returns; anything once the entry has been erased, for the
\* iterator then leads to freed memory.
IntervalsOf(id) == IF id \in byId THEN {interval[id]} ELSE Once..MaxInterval

\* Mutant of WorkerFinish: every task is queued again.
WorkerFinishRequeues(w) ==
  /\ pc[w] = "finish"
  /\ Goto(w, "check")
  /\ \E length \in IntervalsOf(cur[w]) : tasks' = Insert(cur[w], length)
  /\ UNCHANGED <<stop, table, main, cur, raced, owner, history>>

\* Mutant of WorkerFinish: no task is queued again.
WorkerFinishForgets(w) ==
  /\ pc[w] = "finish"
  /\ Goto(w, "check")
  /\ IF interval[cur[w]] = Once THEN byId' = byId \ {cur[w]} /\ Race ELSE UNCHANGED <<byId, raced>>
  /\ UNCHANGED <<stop, tasks, interval, nextId, main, cur, owner, history>>

\* With the mutex again: a task with an interval is queued again, another one
\* is erased from m_tasksById.  (Erasing the end iterator, when it is no longer
\* there, is undefined; where it does not crash it changes nothing.)
WorkerFinish(w) ==
  /\ pc[w] = "finish"
  /\ Goto(w, "check")
  /\ \E length \in IntervalsOf(cur[w]) :
       IF length # Once
         THEN tasks' = Insert(cur[w], length) /\ UNCHANGED <<byId, raced>>
         ELSE byId' = byId \ {cur[w]} /\ Race /\ UNCHANGED tasks
  /\ UNCHANGED <<stop, interval, nextId, main, cur, owner, history>>

-----------------------------------------------------------------------------
(* ~Scheduler *)

Stop ==
  /\ MayStop /\ owner = "alive"
  /\ stop' = TRUE
  /\ owner' = "join main"
  /\ UNCHANGED <<tasks, table, threads, history>>

\* ThreadUtil::Join returns once the thread has, and JoinAll waits for one after another.
Join(thread) == thread = "done"
JoinAll(pool) == \A w \in Workers : Join(pool[w])

\* Join the main thread, then notify_all.
JoinMain ==
  /\ owner = "join main" /\ Join(main)
  /\ pc' = [w \in Workers |-> IF pc[w] = "wait" THEN "woken" ELSE pc[w]]
  /\ owner' = "join workers"
  /\ UNCHANGED <<stop, tasks, table, main, cur, raced, history>>

JoinWorkers ==
  /\ owner = "join workers" /\ JoinAll(pc)
  /\ owner' = "destroyed"
  /\ UNCHANGED <<stop, tasks, table, threads, history>>

-----------------------------------------------------------------------------
WorkerStep(w) ==
  \/ WorkerCheck(w) \/ WorkerWait(w) \/ WorkerWoken(w) \/ WorkerFind(w)
  \/ WorkerExecuted(w) \/ WorkerFinish(w)

Next ==
  \/ Tick
  \/ RunEvery \/ RunOnce \/ \E id \in Ids : RemoveTask(id)
  \/ MainCheck \/ MainScan
  \/ \E w \in Workers : WorkerStep(w) \/ SpuriousWakeup(w)
  \/ Stop \/ JoinMain \/ JoinWorkers

Spec == Init /\ [][Next]_vars

\* Time passes, the threads run, and the mutex is granted to whoever asks for
\* it long enough.  Nothing makes a client call or a wakeup happen.
Fairness ==
  /\ WF_vars(Tick)
  /\ WF_vars(MainCheck \/ MainScan)
  /\ \A w \in Workers : WF_vars(WorkerStep(w))
  /\ WF_vars(JoinMain) /\ WF_vars(JoinWorkers)

FairSpec == Spec /\ Fairness

-----------------------------------------------------------------------------
(* Properties *)

\* The queue holds known ids and every thread is somewhere in its code.
TypeOK ==
  /\ tasks \in Seq([id : Ids, wait : 0..MaxInterval])
  /\ byId \subseteq Ids /\ interval \in [Ids -> Once..MaxInterval]
  /\ nextId \in 1..MaxTasks + 1
  /\ main \in {"check", "scan", "done"}
  /\ pc \in [Workers -> {"check", "enter", "wait", "woken", "find", "execute", "finish", "done"}]
  /\ cur \in [Workers -> 0..MaxTasks] /\ raced \in [Workers -> BOOLEAN]
  /\ owner \in {"alive", "join main", "join workers", "destroyed"}
  /\ runs \in [Ids -> Nat] /\ removed \subseteq Ids /\ missed \subseteq Ids

\* A worker has task id: it was taken from the queue and not yet given back.
Has(w, id) == cur[w] = id /\ pc[w] \in {"find", "execute", "finish"}

\* A task is in one place: once in the tasks, or with one worker.  So no task is
\* ever run by two workers at the same time, although it is queued again and
\* again and removed at any time.
OnePlace ==
  \A id \in Ids :
    Cardinality({i \in DOMAIN tasks : tasks[i].id = id})
      + Cardinality({w \in Workers : Has(w, id)}) <= 1

\* Nothing knows an id that m_nextId has still to hand out.
IdsHandedOut ==
  /\ byId \cup removed \subseteq 1..nextId - 1
  /\ \A i \in DOMAIN tasks : tasks[i].id < nextId
  /\ \A w \in Workers : pc[w] \in {"find", "execute", "finish"} => cur[w] \in 1..nextId - 1
  /\ \A id \in Ids : runs[id] > 0 => id < nextId

\* A one-time task that was started is still with its worker, or gone from
\* m_tasksById: wherever else its id turns up, it is not found again.
StartedIsOver ==
  \A id \in Ids :
    runs[id] > 0 =>
      /\ interval[id] = Once
      /\ id \in byId => \E w \in Workers : Has(w, id) /\ pc[w] # "find"

\* The scheduler's types, with every task in one place, ids that are handed out
\* once, and one-time tasks that are over once they were started.
SchedulerInv == TypeOK /\ OnePlace /\ IdsHandedOut /\ StartedIsOver

\* A task given to RunOnce is never run twice.
OnceAtMostOnce == \A id \in Ids : runs[id] <= 1

\* A worker only uses an entry of m_tasksById that is gone (the iterator it got
\* from find, and erase(find(taskId)) at the end) when RemoveTask was called
\* for that task.
DanglingOnlyIfRemoved ==
  \A w \in Workers :
    pc[w] \in {"execute", "finish"} => cur[w] \in byId \cup removed

\* No task is forgotten but by a lookup that raced with a change of the table:
\* what is in m_tasksById is in the queue or with a worker.
NoTaskForgotten ==
  \A id \in byId \ missed : (\E i \in DOMAIN tasks : tasks[i].id = id) \/ (\E w \in Workers : Has(w, id))

\* The causes for which a task may never be run.
Lost(id) == stop \/ id \in removed \/ id \in missed

\* Every task given to RunOnce is run, unless the scheduler is stopped, the task
\* removed, or forgotten by a racing lookup: no notification is lost for good,
\* although the workers wait without a predicate.
OnceRuns ==
  \A id \in Ids : (id \in byId /\ interval[id] = Once) ~> (runs[id] > 0 \/ Lost(id))

\* ... and one given to RunEvery is run again and again.
EveryRuns ==
  \A id \in Ids :
    []<>(id \in byId /\ interval[id] # Once => Lost(id) \/ \E w \in Workers : Has(w, id) /\ pc[w] = "execute")

\* ~Scheduler returns.
DestructorReturns == stop ~> owner = "destroyed"

=============================================================================
