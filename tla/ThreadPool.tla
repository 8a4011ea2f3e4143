----------------------------- MODULE ThreadPool -----------------------------
(***************************************************************************)
(* The thread pool of server/ThreadPool: the worker function workThread,   *)
(* the constructor, addTask, addThread and destroy, over three mutexes and *)
(* one condition variable.  One thread, Main, owns the pool: it constructs *)
(* it, adds tasks one after the other and may destroy it, the way          *)
(* server/test.cpp and the pool's README use it.                           *)
(*                                                                         *)
(* A step is the code between two points where another thread can          *)
(* intervene.  Every lock is a step of its own; a release is part of the   *)
(* step before it.  destroy() takes no lock, so each of its reads and      *)
(* writes is a step.                                                       *)
(***************************************************************************)
EXTENDS Naturals, Sequences, FiniteSets, StdList

CONSTANTS
  Threads,        \* the pthread ids the system can hand out
  Main,           \* the thread that owns the pool
  None,           \* no thread: owner of a free mutex, value of an unset pthread_t
  MaxTasks,       \* bound: how many times Main calls addTask
  Size,           \* argument of the constructor
  MIN_POOL_SIZE,  \* ThreadPool.h: 4
  CreateMayFail   \* whether pthread_create may return an error

ASSUME PoolAssumption ==
  /\ IsFiniteSet(Threads)
  /\ Main \notin Threads
  /\ None \notin Threads \cup {Main}
  /\ MaxTasks \in Nat
  /\ Size \in Nat
  /\ MIN_POOL_SIZE \in Nat
  /\ CreateMayFail \in BOOLEAN

VARIABLES
  m_pool_size,      \* size_t
  m_pool_state,     \* "ALIVE" or "DESTROY"
  m_task,           \* queue of tasks, by the number of their addTask call
  m_threadid,       \* list of ids of threads that wait
  m_threadid_work,  \* ids of threads that work
  owner,            \* which thread holds each mutex
  waiting,          \* threads blocked in m_task_cond
  pc,               \* where each worker is in workThread
  task,             \* each worker's local "task", 0 when it has none
  main,             \* where Main is
  i,                \* loop counter of the constructor and of addThread
  threadid,         \* local "threadid" of the constructor and of addThread
  joinee,           \* argument of pthread_join in destroy
  submitted,        \* number of addTask calls that queued their task
  runs,             \* how often each task's function was called
  finished,         \* tasks whose function has returned
  failed            \* number of pthread_create calls that failed

listVars == <<m_threadid, m_threadid_work>>
poolVars == <<m_pool_size, m_pool_state, listVars>>
callVars == <<i, threadid, joinee>>
historyVars == <<submitted, runs, finished, failed>>
vars == <<poolVars, m_task, owner, waiting, pc, task, main, callVars, historyVars>>

Tasks == 1..MaxTasks
Agents == Threads \cup {Main}
Mutexes == {"task", "size", "thread"}

WorkerPC ==
  {"none",         \* no such thread: not created, or joined, or detached and gone
   "loop",         \* 6   while(getPoolState() == POOL_ALIVE)
   "lock",         \* 8   getTaskMutex().mutexLock()
   "check",        \* 10  state and queue tested before waiting
   "wait",         \* 12  about to enter synWaitTime
   "waiting",      \* 12  inside pthread_cond_timedwait
   "relock",       \* 12  woken, taking m_task_mutex again
   "test",         \* 15  state and queue tested after waiting
   "work_lock",    \* 27  getThreadMutex().mutexLock()
   "to_work",      \* 28  moves itself to m_threadid_work
   "run",          \* 32  about to call task.run()
   "running",      \* 32  inside the task's function
   "idle_lock",    \* 34  getThreadMutex().mutexLock()
   "to_idle",      \* 35  moves itself to m_threadid
   "size_lock",    \* 43  getSizeMutex().mutexLock()
   "thread_lock",  \* 44  getThreadMutex().mutexLock()
   "trim",         \* 45  too many idle threads?
   "detach",       \* 59  pthread_detach(pthread_self())
   "exited"}       \* 18, 69  ended, not joined yet

MainPC ==
  {"ctor", "ctor_push", "ready",
   "add", "push", "add_size", "add_thread", "grow_test", "grow", "grow_push",
   "destroy_work", "destroy_task", "destroy_set", "broadcast",
   "join_test", "join_back", "join", "pop", "done", "aborted"}

\* m_task_cond(m_task_mutex), POOL_ALIVE, and no thread yet: line 83 is next.
Init ==
  /\ m_pool_size = Size
  /\ m_pool_state = "ALIVE"
  /\ m_task = <<>>
  /\ m_threadid = <<>>
  /\ m_threadid_work = {}
  /\ owner = [m \in Mutexes |-> None]
  /\ waiting = {}
  /\ pc = [t \in Threads |-> "none"]
  /\ task = [t \in Threads |-> 0]
  /\ main = "ctor"
  /\ i = 0
  /\ threadid = None
  /\ joinee = None
  /\ submitted = 0
  /\ runs = [k \in Tasks |-> 0]
  /\ finished = {}
  /\ failed = 0

------------------------------------------------------------------------------
(* Mutex and SynThread, and the steps that need no more. *)

\* mutexLock() of m by x.
Lock(m, x) == owner[m] = None /\ owner' = [owner EXCEPT ![m] = x]

\* mutexUnlock() of every mutex in ms.
Unlock(ms) == owner' = [m \in Mutexes |-> IF m \in ms THEN None ELSE owner[m]]

\* Worker t is about to do the step named label, in a process that still runs.
At(t, label) == main # "aborted" /\ pc[t] = label

Goto(t, label) == pc' = [pc EXCEPT ![t] = label]

\* A step of worker t that only locks m.
Acquire(t, label, m, next) ==
  /\ At(t, label)
  /\ Lock(m, t)
  /\ Goto(t, next)
  /\ UNCHANGED <<poolVars, m_task, waiting, task, main, callVars, historyVars>>

\* A step of worker t that only goes on.
Proceed(t, label, next) ==
  /\ At(t, label)
  /\ Goto(t, next)
  /\ UNCHANGED <<poolVars, m_task, owner, waiting, task, main, callVars, historyVars>>

\* A step of Main that only goes on, if cond holds.
MainProceed(label, cond, next) ==
  /\ main = label
  /\ cond
  /\ main' = next
  /\ UNCHANGED <<poolVars, m_task, owner, waiting, pc, task, callVars, historyVars>>

\* A step of Main that only locks m.
MainAcquire(label, m, next) ==
  /\ main = label
  /\ Lock(m, Main)
  /\ main' = next
  /\ UNCHANGED <<poolVars, m_task, waiting, pc, task, callVars, historyVars>>

\* In place of Signal: a slip as those below.
NoSignal == UNCHANGED <<waiting, pc>>

\* synSignal(): one waiter, whichever, is unblocked; without waiters it is lost.
Signal ==
  IF waiting = {}
  THEN UNCHANGED <<waiting, pc>>
  ELSE \E t \in waiting :
         /\ waiting' = waiting \ {t}
         /\ Goto(t, "relock")

\* synBroadcast(): every waiter is unblocked.
Broadcast ==
  /\ waiting' = {}
  /\ pc' = [t \in Threads |-> IF t \in waiting THEN "relock" ELSE pc[t]]

\* Task k becomes the worker's, and the queue rest.
TakeTask(t, k, rest) ==
  /\ At(t, "test") /\ Goto(t, "work_lock")
  /\ m_pool_state = "ALIVE"
  /\ m_task # <<>>
  /\ task' = [task EXCEPT ![t] = k]
  /\ m_task' = rest
  /\ Unlock({"task"})
  /\ UNCHANGED <<poolVars, waiting, main, callVars, historyVars>>

------------------------------------------------------------------------------
(* Slips the properties are to catch: each operator here takes the place, in a *)
(* run of its own, of the definition its comment names.                        *)

NoTimeout(t) == FALSE                        \* Timeout: synWait for synWaitTime
RelockOther(t) ==                            \* Relock: m_task_cond on another mutex
  Acquire(t, "relock", "size", "test")
LockThreadTwice(t) ==                        \* LockSize: the wrong mutex locked
  Acquire(t, "size_lock", "thread", "thread_lock")
TakeKeeping(t) ==                            \* Take: pop_front forgotten
  TakeTask(t, Head(m_task), m_task)
TakeNewest(t) ==                             \* Take: back and pop_back used
  TakeTask(t, Back(m_task), PopBack(m_task))
NotListed(t) == m_threadid                   \* IdleList: push_back forgotten
TooManyIdleAtMinimum ==                      \* TooManyIdle: >= for >
  m_pool_size >= MIN_POOL_SIZE /\ m_pool_size \div 2 < Len(m_threadid)
TooManyIdleAtAnySize ==                      \* TooManyIdle: the minimum forgotten
  m_pool_size \div 2 < Len(m_threadid)
PushIndex ==                                 \* PushThreadid: both are integers there
  m_threadid' = Append(m_threadid, i) /\ i' = i + 1
GrownUncounted == m_pool_size                \* GrownSize: += forgotten

------------------------------------------------------------------------------
(* workThread. *)

\* while(pool->getPoolState() == POOL_ALIVE), read without a lock.
Loop(t) == Proceed(t, "loop", IF m_pool_state = "ALIVE" THEN "lock" ELSE "exited")

LockTask(t) == Acquire(t, "lock", "task", "check")

\* An if, not a while: the worker waits at most once per turn of the loop.
Check(t) ==
  Proceed(t, "check", IF m_pool_state = "ALIVE" /\ m_task = <<>> THEN "wait" ELSE "test")

\* pthread_cond_timedwait blocks the caller and releases m_task_mutex in one step.
Wait(t) ==
  /\ At(t, "wait") /\ Goto(t, "waiting")
  /\ waiting' = waiting \cup {t} /\ Unlock({"task"})
  /\ UNCHANGED <<poolVars, m_task, task, main, callVars, historyVars>>

\* The 60 seconds are over.  Time is not modelled, so this is also the spurious
\* wakeup that pthread_cond_timedwait allows; synWaitTime does not tell them apart.
Timeout(t) ==
  /\ At(t, "waiting") /\ Goto(t, "relock")
  /\ waiting' = waiting \ {t}
  /\ UNCHANGED <<poolVars, m_task, owner, task, main, callVars, historyVars>>

Relock(t) == Acquire(t, "relock", "task", "test")

\* The pool is being destroyed: pthread_exit.
Leave(t) ==
  /\ At(t, "test") /\ Goto(t, "exited")
  /\ m_pool_state = "DESTROY"
  /\ Unlock({"task"})
  /\ UNCHANGED <<poolVars, m_task, waiting, task, main, callVars, historyVars>>

\* front() and pop_front().
Take(t) == TakeTask(t, Head(m_task), Tail(m_task))

\* Nothing to do: on to the test for too many idle threads.
Idle(t) ==
  /\ At(t, "test") /\ Goto(t, "size_lock")
  /\ m_pool_state = "ALIVE"
  /\ m_task = <<>>
  /\ Unlock({"task"})
  /\ UNCHANGED <<poolVars, m_task, waiting, task, main, callVars, historyVars>>

LockToWork(t) == Acquire(t, "work_lock", "thread", "to_work")

ToWork(t) ==
  /\ At(t, "to_work") /\ Goto(t, "run")
  /\ m_threadid_work' = m_threadid_work \cup {t}
  /\ m_threadid' = RemoveAll(m_threadid, t)
  /\ Unlock({"thread"})
  /\ UNCHANGED <<m_pool_size, m_pool_state, m_task, waiting, task, main, callVars,
                 historyVars>>

\* task.run() calls m_fun(arg).
Run(t) ==
  /\ At(t, "run") /\ Goto(t, "running")
  /\ runs' = [runs EXCEPT ![task[t]] = @ + 1]
  /\ UNCHANGED <<poolVars, m_task, owner, waiting, task, main, callVars, submitted,
                 finished, failed>>

\* task.run() returns.
Return(t) ==
  /\ At(t, "running") /\ Goto(t, "idle_lock")
  /\ finished' = finished \cup {task[t]}
  /\ task' = [task EXCEPT ![t] = 0]
  /\ UNCHANGED <<poolVars, m_task, owner, waiting, main, callVars, submitted, runs,
                 failed>>

LockToIdle(t) == Acquire(t, "idle_lock", "thread", "to_idle")

\* The worker is pushed back on the list of those that wait.
IdleList(t) == Append(m_threadid, t)

ToIdle(t) ==
  /\ At(t, "to_idle") /\ Goto(t, "loop")
  /\ m_threadid' = IdleList(t)
  /\ m_threadid_work' = m_threadid_work \ {t}
  /\ Unlock({"thread"})
  /\ UNCHANGED <<m_pool_size, m_pool_state, m_task, waiting, task, main, callVars,
                 historyVars>>

LockSize(t) == Acquire(t, "size_lock", "size", "thread_lock")

LockThread(t) == Acquire(t, "thread_lock", "thread", "trim")

\* (psize > MIN_POOL_SIZE) && (psize/2 < idlesize)
TooManyIdle ==
  /\ m_pool_size > MIN_POOL_SIZE
  /\ m_pool_size \div 2 < Len(m_threadid)

\* The worker takes itself off the pool's books; it is still running.
Retire(t) ==
  /\ At(t, "trim") /\ Goto(t, "detach")
  /\ TooManyIdle
  /\ m_threadid' = RemoveAll(m_threadid, t)
  /\ m_pool_size' = m_pool_size - 1
  /\ Unlock({"size", "thread"})
  /\ UNCHANGED <<m_pool_state, m_threadid_work, m_task, waiting, task, main, callVars,
                 historyVars>>

Stay(t) ==
  /\ At(t, "trim") /\ Goto(t, "loop")
  /\ ~TooManyIdle
  /\ Unlock({"size", "thread"})
  /\ UNCHANGED <<poolVars, m_task, waiting, task, main, callVars, historyVars>>

\* pthread_detach and pthread_exit: the id is free again.
Detach(t) ==
  /\ At(t, "detach") /\ Goto(t, "none")
  /\ UNCHANGED <<poolVars, m_task, owner, waiting, task, main, callVars, historyVars>>

Worker(t) ==
  \/ Loop(t) \/ LockTask(t) \/ Check(t) \/ Wait(t) \/ Timeout(t) \/ Relock(t)
  \/ Leave(t) \/ Take(t) \/ Idle(t)
  \/ LockToWork(t) \/ ToWork(t) \/ Run(t) \/ Return(t) \/ LockToIdle(t) \/ ToIdle(t)
  \/ LockSize(t) \/ LockThread(t) \/ Retire(t) \/ Stay(t) \/ Detach(t)

------------------------------------------------------------------------------
(* Main: the constructor. *)

\* pthread_create(&threadid, NULL, workThread, this).  An error is only logged,
\* and leaves any value in threadid, which the code does not initialise.
PthreadCreate ==
  \/ \E t \in Threads :
       /\ pc[t] = "none"
       /\ Goto(t, "loop")
       /\ threadid' = t
       /\ UNCHANGED failed
  \/ /\ CreateMayFail
     /\ threadid' \in Threads \cup {None}
     /\ failed' = failed + 1
     /\ UNCHANGED pc

\* m_threadid.push_back(threadid), whether or not the creation succeeded.
PushThreadid ==
  /\ m_threadid' = Append(m_threadid, threadid)
  /\ i' = i + 1

CtorCreate ==
  /\ main = "ctor" /\ main' = "ctor_push"
  /\ i < m_pool_size
  /\ PthreadCreate
  /\ UNCHANGED <<poolVars, m_task, owner, waiting, task, i, joinee, submitted, runs, finished>>

CtorPush ==
  /\ main = "ctor_push" /\ main' = "ctor"
  /\ PushThreadid
  /\ UNCHANGED <<m_pool_size, m_pool_state, m_threadid_work, m_task, owner, waiting, pc, task,
                 threadid, joinee, historyVars>>

CtorReturn ==
  /\ main = "ctor" /\ main' = "ready"
  /\ i >= m_pool_size
  /\ i' = 0 /\ threadid' = None
  /\ UNCHANGED <<poolVars, m_task, owner, waiting, pc, task, joinee, historyVars>>

------------------------------------------------------------------------------
(* Main: addTask and addThread. *)

AddTask == MainProceed("ready", submitted < MaxTasks, "add")

AddLock == MainAcquire("add", "task", "push")

\* push_back(task) and synSignal(), under m_task_mutex.
Push ==
  /\ main = "push" /\ main' = "add_size"
  /\ submitted' = submitted + 1
  /\ m_task' = Append(m_task, submitted')
  /\ Signal
  /\ UNCHANGED <<poolVars, owner, task, callVars, runs, finished, failed>>

AddLockSize == MainAcquire("add_size", "size", "add_thread")

AddLockThread == MainAcquire("add_thread", "thread", "grow_test")

\* m_pool_size*2 < m_task.size()
TooManyTasks == m_pool_size * 2 < Len(m_task)

\* addThread has nothing to add; both functions return and release their locks.
NoGrowth ==
  /\ main = "grow_test" /\ main' = "ready"
  /\ ~TooManyTasks
  /\ Unlock(Mutexes)
  /\ UNCHANGED <<poolVars, m_task, waiting, pc, task, callVars, historyVars>>

Grow == MainProceed("grow_test", TooManyTasks, "grow")

GrowCreate ==
  /\ main = "grow" /\ main' = "grow_push"
  /\ i < m_pool_size \div 2
  /\ PthreadCreate
  /\ UNCHANGED <<poolVars, m_task, owner, waiting, task, i, joinee, submitted, runs, finished>>

GrowPush ==
  /\ main = "grow_push" /\ main' = "grow"
  /\ PushThreadid
  /\ UNCHANGED <<m_pool_size, m_pool_state, m_threadid_work, m_task, owner, waiting, pc, task,
                 threadid, joinee, historyVars>>

\* m_pool_size += m_pool_size/2
GrownSize == m_pool_size + m_pool_size \div 2

\* Both functions return.
GrowReturn ==
  /\ main = "grow" /\ main' = "ready"
  /\ i >= m_pool_size \div 2
  /\ m_pool_size' = GrownSize
  /\ Unlock(Mutexes)
  /\ i' = 0 /\ threadid' = None
  /\ UNCHANGED <<m_pool_state, listVars, m_task, waiting, pc, task, joinee, historyVars>>

------------------------------------------------------------------------------
(* Main: destroy, called directly or by ~ThreadPool. *)

Destroy == MainProceed("ready", TRUE, "destroy_work")

\* !m_threadid_work.empty() is false; while it is true destroy sleeps.
SeeNoWork == MainProceed("destroy_work", m_threadid_work = {}, "destroy_task")

\* !m_task.empty(): true, sleep and evaluate both again; false, leave the loop.
SeeTasks ==
  MainProceed("destroy_task", TRUE, IF m_task = <<>> THEN "destroy_set" ELSE "destroy_work")

SetDestroy ==
  /\ main = "destroy_set" /\ main' = "broadcast"
  /\ m_pool_state' = "DESTROY"
  /\ UNCHANGED <<m_pool_size, listVars, m_task, owner, waiting, pc, task, callVars,
                 historyVars>>

WakeAll ==
  /\ main = "broadcast" /\ main' = "join_test"
  /\ Broadcast
  /\ UNCHANGED <<poolVars, m_task, owner, task, callVars, historyVars>>

\* while(!m_threadid.empty())
JoinTest ==
  MainProceed("join_test", TRUE, IF m_threadid = <<>> THEN "done" ELSE "join_back")

\* m_threadid.back(): a worker may have taken the last entry since the test,
\* and what back() then returns names no thread.
JoinBack ==
  /\ main = "join_back" /\ main' = "join"
  /\ joinee' = IF m_threadid = <<>> THEN None ELSE Back(m_threadid)
  /\ UNCHANGED <<poolVars, m_task, owner, waiting, pc, task, i, threadid, historyVars>>

\* pthread_join returns when the thread has ended, and at once, with an error
\* nobody looks at, for an id that names no thread any more.
Join ==
  /\ main = "join" /\ main' = "pop"
  /\ joinee \in Threads => pc[joinee] \in {"exited", "none"}
  /\ pc' = [t \in Threads |-> IF t = joinee THEN "none" ELSE pc[t]]
  /\ UNCHANGED <<poolVars, m_task, owner, waiting, task, callVars, historyVars>>

\* pop_back() erases whatever entry is last now, if there is one.
Pop ==
  /\ main = "pop" /\ main' = "join_test"
  /\ m_threadid' = PopBack(m_threadid)
  /\ UNCHANGED <<m_pool_size, m_pool_state, m_threadid_work, m_task, owner, waiting, pc, task,
                 callVars, historyVars>>

\* What Main does to m_threadid without m_thread_mutex.
UnguardedVisit == main \in {"ctor_push", "join_test", "join_back", "pop"}

\* What is undefined may kill the process: to join an id that names no joinable
\* thread, back() or pop_back() on an empty list, and a visit of the list while
\* a worker, which holds m_thread_mutex, changes it.  It may also go unnoticed:
\* then the steps above are what happens.
Undefined ==
  \/ main = "join" /\ ~ \E t \in Threads : t = joinee /\ pc[t] \notin {"none", "detach"}
  \/ main \in {"join_back", "pop"} /\ m_threadid = <<>>
  \/ UnguardedVisit /\ \E t \in Threads : pc[t] \in {"to_work", "to_idle", "trim"}

Abort == MainProceed(main, Undefined, "aborted")

MainStep ==
  \/ CtorCreate \/ CtorPush \/ CtorReturn
  \/ AddTask \/ AddLock \/ Push \/ AddLockSize \/ AddLockThread
  \/ NoGrowth \/ Grow \/ GrowCreate \/ GrowPush \/ GrowReturn
  \/ Destroy \/ SeeNoWork \/ SeeTasks \/ SetDestroy \/ WakeAll
  \/ JoinTest \/ JoinBack \/ Join \/ Pop \/ Abort

\* destroy has returned and every worker has ended, or the process is gone.
Ended ==
  /\ \/ main = "aborted"
     \/ main = "done" /\ \A t \in Threads : pc[t] \in {"none", "exited"}
  /\ UNCHANGED vars

Next ==
  \/ \E t \in Threads : Worker(t)
  \/ MainStep
  \/ Ended

Spec == Init /\ [][Next]_vars

------------------------------------------------------------------------------
(* What must hold of the pool. *)

TypeOK ==
  /\ m_pool_size \in Nat
  /\ m_pool_state \in {"ALIVE", "DESTROY"}
  /\ m_task \in Seq(Tasks)
  /\ m_threadid \in Seq(Threads \cup {None})
  /\ m_threadid_work \in SUBSET Threads
  /\ owner \in [Mutexes -> Agents \cup {None}]
  /\ waiting \in SUBSET Threads
  /\ pc \in [Threads -> WorkerPC]
  /\ task \in [Threads -> Tasks \cup {0}]
  /\ main \in MainPC
  /\ i \in Nat
  /\ threadid \in Threads \cup {None}
  /\ joinee \in Threads \cup {None}
  /\ submitted \in 0..MaxTasks
  /\ runs \in [Tasks -> Nat]
  /\ finished \in SUBSET Tasks
  /\ failed \in Nat

\* Where a thread is when its next step locks m.
WhenAboutToLock(m) ==
  CASE m = "task"   -> {"lock", "relock", "add"}
    [] m = "size"   -> {"size_lock", "add_size"}
    [] m = "thread" -> {"work_lock", "idle_lock", "thread_lock", "add_thread"}

Wants(x, m) == (IF x = Main THEN main ELSE pc[x]) \in WhenAboutToLock(m)

BlockedOn(x, y) == \E m \in Mutexes : Wants(x, m) /\ owner[m] = y

\* No set of threads, Main included, where each waits for a mutex that another
\* of them holds: addTask, which nests three locks, and a worker that trims the
\* pool, which nests two, take them in compatible orders.
NoCircularWait ==
  ~ \E S \in SUBSET Agents :
      S # {} /\ \A x \in S : \E y \in S : BlockedOn(x, y)

\* Two threads are never both inside a region that the same mutex guards:
\* between its mutexLock and mutexUnlock, with synWaitTime giving the mutex up
\* and taking it back.
Inside(m) ==
  {t \in Threads :
     pc[t] \in CASE m = "task"   -> {"check", "wait", "test"}
                 [] m = "size"   -> {"thread_lock", "trim"}
                 [] m = "thread" -> {"to_work", "to_idle", "trim"}}
  \cup
  {x \in {Main} :
     main \in CASE m = "task"   -> {"push", "add_size", "add_thread",
                                    "grow_test", "grow", "grow_push"}
                [] m = "size"   -> {"add_thread", "grow_test", "grow", "grow_push"}
                [] m = "thread" -> {"grow_test", "grow", "grow_push"}}

MutualExclusion ==
  \A m \in Mutexes : \A x, y \in Inside(m) : x = y

\* Workers that hold task k, popped from the queue and not yet run to its end.
Holders(k) == {t \in Threads : task[t] = k}

\* No task is lost, duplicated or reordered between addTask and the return of
\* its function, whatever the workers, the growth and the destruction of the
\* pool do: the queue is the newest tasks in addTask order, every older task is
\* either finished or in the hands of exactly one worker, and its function was
\* called once if it is finished or running and otherwise not yet.
TaskConservation ==
  /\ \A n \in 1..Len(m_task) : m_task[n] = submitted - Len(m_task) + n
  /\ \A k \in Tasks :
       IF k > submitted - Len(m_task)
       THEN Holders(k) = {} /\ k \notin finished /\ runs[k] = 0
       ELSE \/ k \in finished /\ Holders(k) = {} /\ runs[k] = 1
            \/ /\ k \notin finished
               /\ \E t \in Threads :
                    /\ Holders(k) = {t}
                    /\ runs[k] = IF pc[t] = "running" THEN 1 ELSE 0

\* Workers that will look at the queue, or are on their way to do so.
Awake == {t \in Threads : pc[t] \notin {"none", "waiting", "detach", "exited"}}

\* A queued task is never left to sleeping workers: the one signal per addTask,
\* the single wait per turn of the worker's loop and the retirement of idle
\* workers never leave a task behind with everyone asleep or gone.  A creation
\* that failed stays in m_pool_size, so that one worker more than it should may
\* retire; fewer failures than the constructor asked for threads are survived.
\* With an argument above the minimum the constructor may list workers that have
\* retired, and those that then retire for their sake leave none.
NoStrandedTask ==
  Size <= MIN_POOL_SIZE /\ failed < Size /\ m_task # <<>> /\ main # "push" => Awake # {}

\* Threads the pool has started and that have not retired.
Live == {t \in Threads : pc[t] \notin {"none", "detach", "exited"}}

\* The pool is in use and no thread is inside m_thread_mutex.
ListsAtRest ==
  m_pool_state = "ALIVE" /\ main \notin {"ctor", "ctor_push"} /\ owner["thread"] = None

\* m_pool_size, which addThread doubles and compares and a retiring worker
\* compares with MIN_POOL_SIZE, exceeds the live workers by the creations that
\* failed, through all growth and retirement, and the size that grows by half
\* is the size that the loop of creations had in mind.  If none failed, the two
\* lists partition the live workers and each is listed once.  This is for a
\* constructor argument that lets no worker retire while the constructor, which
\* takes no lock, is filling m_threadid.
PoolAccounting ==
  Size <= MIN_POOL_SIZE /\ ListsAtRest =>
    /\ m_pool_size = Cardinality(Live) + failed
    /\ failed = 0 =>
         /\ Elements(m_threadid) \cup m_threadid_work = Live
         /\ Elements(m_threadid) \cap m_threadid_work = {}
         /\ Cardinality(Elements(m_threadid)) = Len(m_threadid)

\* Whatever value a failed creation pushes, a stale or a doubled id, and whoever
\* retires while the constructor is still listing, no worker is forgotten: every
\* live one is in a list that destroy looks at.
NoWorkerForgotten ==
  ListsAtRest => Live \subseteq Elements(m_threadid) \cup m_threadid_work

\* Idle workers never retire below the minimum, though each decides alone.
KeepsMinimum ==
  m_pool_size >= IF Size < MIN_POOL_SIZE THEN Size ELSE MIN_POOL_SIZE

------------------------------------------------------------------------------
(* Progress. *)

Locks(t) ==
  \/ LockTask(t) \/ Relock(t) \/ LockToWork(t) \/ LockToIdle(t) \/ LockSize(t) \/ LockThread(t)

MainLocks == AddLock \/ AddLockSize \/ AddLockThread

\* A thread that can go on does, the 60 seconds of a wait pass, and a thread
\* that finds a mutex free again and again gets it in the end.  Nothing obliges
\* Main to call addTask or destroy.
Fairness ==
  /\ \A t \in Threads : WF_vars(Worker(t)) /\ SF_vars(Locks(t))
  /\ WF_vars(MainStep /\ ~AddTask /\ ~Destroy)
  /\ SF_vars(MainLocks)

FairSpec == Spec /\ Fairness

\* Every task that addTask has queued is run to its end, unless the process is
\* killed in destroy.
TasksFinish ==
  \A k \in Tasks : k <= submitted ~> k \in finished \/ main = "aborted"

\* destroy comes to an end although it may broadcast while a worker that has
\* just seen the pool alive is about to wait: that worker's timeout saves it.
DestroyEnds == main = "destroy_work" ~> main \in {"done", "aborted"}

Service == INSTANCE TaskService WITH
  queue <- m_task,
  running <- {task[t] : t \in Threads} \ {0}

\* The pool implements the service: no step of any thread changes the queue,
\* the running tasks or the finished ones other than as one submission, start
\* or completion.
ImplementsService == Service!ServiceSpec

------------------------------------------------------------------------------
(* What the repository says of the pool and the code does not do. *)

\* README of the pool: "if you destroy the pool it will destroy until all task
\* is finished".
DestroyWaitsForTasks == main = "done" => finished = 1..submitted

==============================================================================
