--------------------------- MODULE ThreadPoolProofs ---------------------------
(***************************************************************************)
(* The pool for any number of threads and tasks, any size and any minimum: *)
(* its type, the exclusion of its three mutexes, the absence of a circular *)
(* wait among them, the minimum size, the conservation of tasks, the       *)
(* refinement of TaskService, and what the lists and the size say of the   *)
(* workers.  They rest on PoolAssumption and on two inductive invariants,  *)
(* Inductive and, with it, BooksInv.                                       *)
(***************************************************************************)
EXTENDS ThreadPool, StdListProofs

------------------------------------------------------------------------------
(* Types, and the steps at which a task is in hand or a worker asleep. *)

\* Where the program counters tie other variables: a task is accepted only below
\* the bound, a worker holds a task exactly between popping it and finishing it,
\* and the sleepers are the workers inside pthread_cond_timedwait.
Holding == {"work_lock", "to_work", "run", "running"}

PhaseInv ==
  /\ main \in {"add", "push"} => submitted < MaxTasks
  /\ \A t \in Threads : task[t] # 0 <=> pc[t] \in Holding
  /\ \A t \in Threads : t \in waiting <=> pc[t] = "waiting"

TypeInv == TypeOK /\ PhaseInv

\* Types and phases hold of the constructed object.
LEMMA TypeInit == Init => TypeInv
BY PoolAssumption DEF Init, TypeInv, PhaseInv, TypeOK, WorkerPC, MainPC, Agents, Mutexes, Tasks,
     Holding

\* What pthread_create leaves behind, whether it succeeds or fails.
LEMMA Creation ==
  ASSUME TypeOK, PthreadCreate
  PROVE  /\ threadid' \in Threads \cup {None}
         /\ failed' \in Nat
         /\ pc' \in [Threads -> WorkerPC]
         /\ \A t \in Threads : pc'[t] = pc[t] \/ (pc[t] = "none" /\ pc'[t] = "loop")
<1>1. CASE \E t \in Threads :
             pc[t] = "none" /\ Goto(t, "loop") /\ threadid' = t /\ UNCHANGED failed
  BY <1>1 DEF TypeOK, Goto, WorkerPC
<1>2. CASE /\ CreateMayFail
           /\ threadid' \in Threads \cup {None}
           /\ failed' = failed + 1
           /\ UNCHANGED pc
  BY <1>2 DEF TypeOK
<1> QED BY <1>1, <1>2 DEF PthreadCreate

\* Every action keeps them.
LEMMA TypeNext == TypeInv /\ [Next]_vars => TypeInv'
<1> SUFFICES ASSUME TypeInv, [Next]_vars PROVE TypeInv'
  OBVIOUS
<1> USE PoolAssumption DEF TypeInv, PhaseInv, TypeOK, WorkerPC, MainPC, Agents, Mutexes, Tasks,
                           Holding, At, Goto, Lock, Unlock, poolVars, listVars, callVars,
                           historyVars
<1>1. ASSUME NEW t \in Threads, Loop(t) PROVE TypeInv'
  BY <1>1 DEF Loop, Proceed
<1>2. ASSUME NEW t \in Threads, LockTask(t) PROVE TypeInv'
  BY <1>2 DEF LockTask, Acquire
<1>3. ASSUME NEW t \in Threads, Check(t) PROVE TypeInv'
  BY <1>3 DEF Check, Proceed
<1>4. ASSUME NEW t \in Threads, Wait(t) PROVE TypeInv'
  BY SMTT(30), ZenonT(40), <1>4 DEF Wait
<1>5. ASSUME NEW t \in Threads, Timeout(t) PROVE TypeInv'
  BY <1>5 DEF Timeout
<1>6. ASSUME NEW t \in Threads, Relock(t) PROVE TypeInv'
  BY <1>6 DEF Relock, Acquire
<1>7. ASSUME NEW t \in Threads, Leave(t) PROVE TypeInv'
  BY <1>7 DEF Leave
<1>8. ASSUME NEW t \in Threads, Take(t) PROVE TypeInv'
  <2>1. Head(m_task) \in Tasks /\ Tail(m_task) \in Seq(Tasks)
    BY <1>8 DEF Take, TakeTask
  <2>2. task' \in [Threads -> Tasks \cup {0}] /\ pc' \in [Threads -> WorkerPC]
    BY <1>8, <2>1 DEF Take, TakeTask
  <2>3. \A u \in Threads : task'[u] # 0 <=> pc'[u] \in Holding
    <3>1. task'[t] # 0 /\ pc'[t] = "work_lock"
      BY <1>8, <2>1 DEF Take, TakeTask
    <3>2. \A u \in Threads : u # t => task'[u] = task[u] /\ pc'[u] = pc[u]
      BY <1>8 DEF Take, TakeTask
    <3> QED BY <3>1, <3>2
  <2> QED BY SMTT(30), ZenonT(40), <1>8, <2>1, <2>2, <2>3 DEF Take, TakeTask
<1>9. ASSUME NEW t \in Threads, Idle(t) PROVE TypeInv'
  BY <1>9 DEF Idle
<1>10. ASSUME NEW t \in Threads, LockToWork(t) PROVE TypeInv'
  BY <1>10 DEF LockToWork, Acquire
<1>11. ASSUME NEW t \in Threads, ToWork(t) PROVE TypeInv'
  <2>1. RemoveAll(m_threadid, t) \in Seq(Threads \cup {None})
    BY RemoveAllType
  <2> QED BY <1>11, <2>1 DEF ToWork
<1>12. ASSUME NEW t \in Threads, Run(t) PROVE TypeInv'
  BY <1>12 DEF Run
<1>13. ASSUME NEW t \in Threads, Return(t) PROVE TypeInv'
  BY SMTT(30), ZenonT(40), <1>13 DEF Return
<1>14. ASSUME NEW t \in Threads, LockToIdle(t) PROVE TypeInv'
  BY SMTT(30), ZenonT(40), <1>14 DEF LockToIdle, Acquire
<1>15. ASSUME NEW t \in Threads, ToIdle(t) PROVE TypeInv'
  BY <1>15 DEF ToIdle, IdleList
<1>16. ASSUME NEW t \in Threads, LockSize(t) PROVE TypeInv'
  BY <1>16 DEF LockSize, Acquire
<1>17. ASSUME NEW t \in Threads, LockThread(t) PROVE TypeInv'
  BY <1>17 DEF LockThread, Acquire
<1>18. ASSUME NEW t \in Threads, Retire(t) PROVE TypeInv'
  <2>1. RemoveAll(m_threadid, t) \in Seq(Threads \cup {None})
    BY RemoveAllType
  <2>2. m_pool_size - 1 \in Nat
    BY <1>18 DEF Retire, TooManyIdle
  <2> QED BY <1>18, <2>1, <2>2 DEF Retire
<1>19. ASSUME NEW t \in Threads, Stay(t) PROVE TypeInv'
  BY SMTT(30), ZenonT(40), <1>19 DEF Stay
<1>20. ASSUME NEW t \in Threads, Detach(t) PROVE TypeInv'
  BY <1>20 DEF Detach
<1>21. CASE CtorCreate
  <2>1. /\ threadid' \in Threads \cup {None} /\ failed' \in Nat /\ pc' \in [Threads -> WorkerPC]
        /\ \A t \in Threads : pc'[t] = pc[t] \/ (pc[t] = "none" /\ pc'[t] = "loop")
    BY <1>21, Creation DEF CtorCreate
  <2>2. \A t \in Threads : (t \in waiting) = (pc'[t] = "waiting")
    BY <2>1
  <2>3. \A t \in Threads : (task[t] # 0) = (pc'[t] \in Holding)
    BY <2>1
  <2> QED BY <1>21, <2>1, <2>2, <2>3 DEF CtorCreate
<1>22. CASE CtorPush
  BY <1>22 DEF CtorPush, PushThreadid
<1>23. CASE CtorReturn
  BY <1>23 DEF CtorReturn
<1>24. CASE AddTask
  BY <1>24 DEF AddTask, MainProceed
<1>25. CASE AddLock
  BY <1>25 DEF AddLock, MainAcquire
<1>26. CASE Push
  <2>1. submitted' \in 0..MaxTasks /\ m_task' \in Seq(Tasks)
    BY <1>26 DEF Push
  <2>2. \/ UNCHANGED <<waiting, pc>>
        \/ \E t \in Threads : /\ pc[t] = "waiting"
                            /\ waiting' = waiting \ {t}
                            /\ pc' = [pc EXCEPT ![t] = "relock"]
    BY <1>26 DEF Push, Signal
  <2>3. waiting' \in SUBSET Threads
    BY <2>2
  <2>4. pc' \in [Threads -> WorkerPC]
    BY <2>2
  <2>5. \A t \in Threads : t \in waiting' <=> pc'[t] = "waiting"
    BY <2>2
  <2>6. \A t \in Threads : pc'[t] \in Holding <=> pc[t] \in Holding
    BY <2>2
  <2> QED BY <1>26, <2>1, <2>3, <2>4, <2>5, <2>6 DEF Push
<1>27. CASE AddLockSize
  BY <1>27 DEF AddLockSize, MainAcquire
<1>28. CASE AddLockThread
  BY <1>28 DEF AddLockThread, MainAcquire
<1>29. CASE NoGrowth
  BY <1>29 DEF NoGrowth
<1>30. CASE Grow
  BY <1>30 DEF Grow, MainProceed
<1>31. CASE GrowCreate
  <2>1. /\ threadid' \in Threads \cup {None} /\ failed' \in Nat /\ pc' \in [Threads -> WorkerPC]
        /\ \A t \in Threads : pc'[t] = pc[t] \/ (pc[t] = "none" /\ pc'[t] = "loop")
    BY <1>31, Creation DEF GrowCreate
  <2>2. \A t \in Threads : (t \in waiting) = (pc'[t] = "waiting")
    BY <2>1
  <2>3. \A t \in Threads : (task[t] # 0) = (pc'[t] \in Holding)
    BY <2>1
  <2> QED BY <1>31, <2>1, <2>2, <2>3 DEF GrowCreate
<1>32. CASE GrowPush
  BY <1>32 DEF GrowPush, PushThreadid
<1>33. CASE GrowReturn
  BY <1>33 DEF GrowReturn, GrownSize
<1>34. CASE Destroy
  BY <1>34 DEF Destroy, MainProceed
<1>35. CASE SeeNoWork
  BY <1>35 DEF SeeNoWork, MainProceed
<1>36. CASE SeeTasks
  BY <1>36 DEF SeeTasks, MainProceed
<1>37. CASE SetDestroy
  BY <1>37 DEF SetDestroy
<1>38. CASE WakeAll
  BY <1>38 DEF WakeAll, Broadcast
<1>39. CASE JoinTest
  BY <1>39 DEF JoinTest, MainProceed
<1>40. CASE JoinBack
  BY <1>40 DEF JoinBack, Back
<1>41. CASE Join
  BY <1>41 DEF Join
<1>42. CASE Pop
  BY <1>42 DEF Pop, PopBack
<1>43. CASE Abort
  BY <1>43 DEF Abort, Undefined, UnguardedVisit, MainProceed
<1>44. CASE UNCHANGED vars
  BY <1>44 DEF vars
<1> QED
  BY <1>1, <1>2, <1>3, <1>4, <1>5, <1>6, <1>7, <1>8, <1>9, <1>10, <1>11,
     <1>12, <1>13, <1>14, <1>15, <1>16, <1>17, <1>18, <1>19, <1>20, <1>21,
     <1>22, <1>23, <1>24, <1>25, <1>26, <1>27, <1>28, <1>29, <1>30, <1>31,
     <1>32, <1>33, <1>34, <1>35, <1>36, <1>37, <1>38, <1>39, <1>40, <1>41,
     <1>42, <1>43, <1>44
     DEF Next, Worker, MainStep, Ended

------------------------------------------------------------------------------
(* The three mutexes. *)

\* A mutex is held by exactly the thread that is inside its region.  This is
\* why Lock, which only looks at the owner, keeps everybody else out.
Owns ==
  /\ \A t \in Threads :
       /\ owner["task"] = t <=> pc[t] \in {"check", "wait", "test"}
       /\ owner["size"] = t <=> pc[t] \in {"thread_lock", "trim"}
       /\ owner["thread"] = t <=> pc[t] \in {"to_work", "to_idle", "trim"}
  /\ owner["task"] = Main <=> main \in {"push", "add_size", "add_thread",
                                        "grow_test", "grow", "grow_push"}
  /\ owner["size"] = Main <=> main \in {"add_thread", "grow_test", "grow", "grow_push"}
  /\ owner["thread"] = Main <=> main \in {"grow_test", "grow", "grow_push"}

\* Nobody is inside and no mutex is held.
LEMMA OwnsInit == Init => Owns
BY PoolAssumption DEF Init, Owns, Mutexes

\* Every action that enters or leaves a region locks or unlocks its mutex.
LEMMA OwnsNext == TypeInv /\ Owns /\ [Next]_vars => Owns'
<1> SUFFICES ASSUME TypeInv, Owns, [Next]_vars PROVE Owns'
  OBVIOUS
<1> USE PoolAssumption DEF TypeInv, PhaseInv, TypeOK, Owns, Mutexes, Agents, At, Goto, Lock,
     Unlock,
                           poolVars, listVars, callVars, historyVars
<1>1. ASSUME NEW t \in Threads, Loop(t) PROVE Owns'
  BY <1>1 DEF Loop, Proceed
<1>2. ASSUME NEW t \in Threads, LockTask(t) PROVE Owns'
  BY <1>2 DEF LockTask, Acquire
<1>3. ASSUME NEW t \in Threads, Check(t) PROVE Owns'
  BY <1>3 DEF Check, Proceed
<1>4. ASSUME NEW t \in Threads, Wait(t) PROVE Owns'
  BY <1>4 DEF Wait
<1>5. ASSUME NEW t \in Threads, Timeout(t) PROVE Owns'
  BY <1>5 DEF Timeout
<1>6. ASSUME NEW t \in Threads, Relock(t) PROVE Owns'
  BY <1>6 DEF Relock, Acquire
<1>7. ASSUME NEW t \in Threads, Leave(t) PROVE Owns'
  BY <1>7 DEF Leave
<1>8. ASSUME NEW t \in Threads, Take(t) PROVE Owns'
  BY <1>8 DEF Take, TakeTask
<1>9. ASSUME NEW t \in Threads, Idle(t) PROVE Owns'
  BY <1>9 DEF Idle
<1>10. ASSUME NEW t \in Threads, LockToWork(t) PROVE Owns'
  BY <1>10 DEF LockToWork, Acquire
<1>11. ASSUME NEW t \in Threads, ToWork(t) PROVE Owns'
  BY <1>11 DEF ToWork
<1>12. ASSUME NEW t \in Threads, Run(t) PROVE Owns'
  BY <1>12 DEF Run
<1>13. ASSUME NEW t \in Threads, Return(t) PROVE Owns'
  BY <1>13 DEF Return
<1>14. ASSUME NEW t \in Threads, LockToIdle(t) PROVE Owns'
  BY <1>14 DEF LockToIdle, Acquire
<1>15. ASSUME NEW t \in Threads, ToIdle(t) PROVE Owns'
  BY <1>15 DEF ToIdle, IdleList
<1>16. ASSUME NEW t \in Threads, LockSize(t) PROVE Owns'
  BY <1>16 DEF LockSize, Acquire
<1>17. ASSUME NEW t \in Threads, LockThread(t) PROVE Owns'
  BY <1>17 DEF LockThread, Acquire
<1>18. ASSUME NEW t \in Threads, Retire(t) PROVE Owns'
  BY <1>18 DEF Retire, TooManyIdle
<1>19. ASSUME NEW t \in Threads, Stay(t) PROVE Owns'
  BY <1>19 DEF Stay
<1>20. ASSUME NEW t \in Threads, Detach(t) PROVE Owns'
  BY <1>20 DEF Detach
<1>21. CASE CtorCreate
  BY <1>21 DEF CtorCreate, PthreadCreate
<1>22. CASE CtorPush
  BY <1>22 DEF CtorPush, PushThreadid
<1>23. CASE CtorReturn
  BY <1>23 DEF CtorReturn
<1>24. CASE AddTask
  BY <1>24 DEF AddTask, MainProceed
<1>25. CASE AddLock
  BY <1>25 DEF AddLock, MainAcquire
<1>26. CASE Push
  BY <1>26 DEF Push, Signal
<1>27. CASE AddLockSize
  BY <1>27 DEF AddLockSize, MainAcquire
<1>28. CASE AddLockThread
  BY <1>28 DEF AddLockThread, MainAcquire
<1>29. CASE NoGrowth
  BY <1>29 DEF NoGrowth
<1>30. CASE Grow
  BY <1>30 DEF Grow, MainProceed
<1>31. CASE GrowCreate
  BY <1>31 DEF GrowCreate, PthreadCreate
<1>32. CASE GrowPush
  BY <1>32 DEF GrowPush, PushThreadid
<1>33. CASE GrowReturn
  BY <1>33 DEF GrowReturn, GrownSize
<1>34. CASE Destroy
  BY <1>34 DEF Destroy, MainProceed
<1>35. CASE SeeNoWork
  BY <1>35 DEF SeeNoWork, MainProceed
<1>36. CASE SeeTasks
  BY <1>36 DEF SeeTasks, MainProceed
<1>37. CASE SetDestroy
  BY <1>37 DEF SetDestroy
<1>38. CASE WakeAll
  BY <1>38 DEF WakeAll, Broadcast
<1>39. CASE JoinTest
  BY <1>39 DEF JoinTest, MainProceed
<1>40. CASE JoinBack
  BY <1>40 DEF JoinBack, Back
<1>41. CASE Join
  BY <1>41 DEF Join
<1>42. CASE Pop
  BY <1>42 DEF Pop, PopBack
<1>43. CASE Abort
  BY <1>43 DEF Abort, Undefined, UnguardedVisit, MainProceed
<1>44. CASE UNCHANGED vars
  BY <1>44 DEF vars
<1> QED
  BY <1>1, <1>2, <1>3, <1>4, <1>5, <1>6, <1>7, <1>8, <1>9, <1>10, <1>11,
     <1>12, <1>13, <1>14, <1>15, <1>16, <1>17, <1>18, <1>19, <1>20, <1>21,
     <1>22, <1>23, <1>24, <1>25, <1>26, <1>27, <1>28, <1>29, <1>30, <1>31,
     <1>32, <1>33, <1>34, <1>35, <1>36, <1>37, <1>38, <1>39, <1>40, <1>41,
     <1>42, <1>43, <1>44
     DEF Next, Worker, MainStep, Ended

\* Inside a region means owning its mutex.
LEMMA OwnsInside ==
  ASSUME TypeInv, Owns, NEW m \in Mutexes, NEW x \in Inside(m)
  PROVE  x \in Agents /\ owner[m] = x
BY PoolAssumption DEF Owns, Inside, Mutexes, Agents, TypeInv, TypeOK

\* Two threads inside a region would both own its mutex.
LEMMA OwnsExclude == TypeInv /\ Owns => MutualExclusion
<1> SUFFICES ASSUME TypeInv, Owns, NEW m \in Mutexes, NEW x \in Inside(m), NEW y \in Inside(m)
             PROVE  x = y
  BY DEF MutualExclusion
<1> QED BY OwnsInside

\* The order in which the code locks.
Rank(m) == IF m = "task" THEN 1 ELSE IF m = "size" THEN 2 ELSE 3

\* A thread that owns m and waits for n has m before n in that order.
LEMMA LocksAscend ==
  ASSUME TypeInv, Owns, NEW y \in Agents, NEW m \in Mutexes, NEW n \in Mutexes,
         owner[m] = y, Wants(y, n)
  PROVE  Rank(m) < Rank(n)
<1>1. CASE y = Main
  BY <1>1 DEF Wants, WhenAboutToLock, Owns, Mutexes, Rank
<1>2. CASE y \in Threads
  <2>1. y # Main
    BY <1>2, PoolAssumption
  <2> QED BY <1>2, <2>1 DEF Wants, WhenAboutToLock, Owns, Mutexes, Rank
<1> QED BY <1>1, <1>2 DEF Agents

\* Four threads, each waiting for the next, would need four mutexes.
LEMMA OwnsNoCycle == TypeInv /\ Owns => NoCircularWait
<1> SUFFICES ASSUME TypeInv, Owns, NEW S \in SUBSET Agents, S # {},
                    \A x \in S : \E y \in S : BlockedOn(x, y)
             PROVE  FALSE
  BY DEF NoCircularWait
<1>1. PICK x1 \in S : TRUE
  OBVIOUS
<1>2. PICK x2 \in S, m1 \in Mutexes : Wants(x1, m1) /\ owner[m1] = x2
  BY DEF BlockedOn
<1>3. PICK x3 \in S, m2 \in Mutexes : Wants(x2, m2) /\ owner[m2] = x3
  BY DEF BlockedOn
<1>4. PICK x4 \in S, m3 \in Mutexes : Wants(x3, m3) /\ owner[m3] = x4
  BY DEF BlockedOn
<1>5. PICK x5 \in S, m4 \in Mutexes : Wants(x4, m4) /\ owner[m4] = x5
  BY DEF BlockedOn
<1>6. Rank(m1) < Rank(m2) /\ Rank(m2) < Rank(m3) /\ Rank(m3) < Rank(m4)
  BY <1>2, <1>3, <1>4, <1>5, LocksAscend
<1>7. \A m : Rank(m) \in 1..3
  BY DEF Rank
<1> QED BY <1>6, <1>7

------------------------------------------------------------------------------
(* The minimum size: only Retire shrinks the pool, and not at the minimum. *)

\* The constructor starts at or above it.
LEMMA MinimumInit == Init => KeepsMinimum
BY PoolAssumption DEF Init, KeepsMinimum

\* Only three things happen to m_pool_size.
LEMMA MinimumNext == TypeInv /\ KeepsMinimum /\ [Next]_vars => KeepsMinimum'
<1> SUFFICES ASSUME TypeInv, KeepsMinimum, [Next]_vars PROVE KeepsMinimum'
  OBVIOUS
<1>0. m_pool_size \in Nat
  BY DEF TypeInv, TypeOK
<1>1. \/ m_pool_size' = m_pool_size
      \/ m_pool_size > MIN_POOL_SIZE /\ m_pool_size' = m_pool_size - 1
      \/ m_pool_size' = m_pool_size + m_pool_size \div 2
  BY DEF Next, Worker, MainStep, Ended, vars, poolVars, Loop, LockTask, Check, Wait, Timeout,
     Relock, Leave, Take, Idle, LockToWork, ToWork, Run, Return, LockToIdle, ToIdle, LockSize,
     LockThread, Retire, Stay, Detach,
     CtorCreate, CtorPush, CtorReturn, AddTask, AddLock, Push, AddLockSize, AddLockThread,
     NoGrowth, Grow, GrowCreate, GrowPush, GrowReturn, Destroy, SeeNoWork, SeeTasks, SetDestroy,
     WakeAll, JoinTest, JoinBack, Join, Pop, Abort, TooManyIdle, Acquire, Proceed, TakeTask,
     IdleList, GrownSize, MainAcquire,
     MainProceed
<1> QED BY <1>0, <1>1, PoolAssumption DEF KeepsMinimum

------------------------------------------------------------------------------
(* The tasks. *)

\* How many tasks have left the queue: they are tasks 1 to Popped.
Popped == submitted - Len(m_task)

\* The queue is the submitted tasks that have not left it, oldest first.
QueueInOrder ==
  /\ Len(m_task) <= submitted
  /\ \A n \in 1..Len(m_task) : m_task[n] = Popped + n

\* A task in hand has left the queue, is unfinished, and was called once if its
\* worker runs it.
HeldTasks ==
  \A t \in Threads :
    task[t] # 0 => /\ task[t] <= Popped
                   /\ task[t] \notin finished
                   /\ runs[task[t]] = IF pc[t] = "running" THEN 1 ELSE 0

OneHolder == \A t, u \in Threads : task[t] # 0 /\ task[t] = task[u] => t = u

QueuedTasks == \A k \in Tasks : k > Popped => k \notin finished /\ runs[k] = 0

FinishedTasks == \A k \in finished : runs[k] = 1

NoneLost ==
  \A k \in Tasks : k <= Popped => k \in finished \/ \E t \in Threads : task[t] = k

\* TaskConservation with its counts spelled out for the workers, the queue and
\* the finished tasks separately: what each action needs to find before it.
TaskInv ==
  QueueInOrder /\ HeldTasks /\ OneHolder /\ QueuedTasks /\ FinishedTasks /\ NoneLost

\* No task exists.
LEMMA TasksInit == Init => TaskInv
BY PoolAssumption DEF Init, TaskInv, Popped, QueueInOrder, HeldTasks, OneHolder, QueuedTasks,
     FinishedTasks,
                       NoneLost, Tasks

\* Push adds the newest task, Take moves the oldest from the queue to one worker.
LEMMA TasksNext == TypeInv /\ TaskInv /\ [Next]_vars => TaskInv'
<1> SUFFICES ASSUME TypeInv, TaskInv, [Next]_vars PROVE TaskInv'
  OBVIOUS
<1> USE PoolAssumption DEF TypeInv, PhaseInv, TypeOK, TaskInv, Popped, QueueInOrder, HeldTasks,
                           OneHolder, QueuedTasks, FinishedTasks, NoneLost, Holding, Tasks, At,
                           Goto, Lock, Unlock,
                           poolVars, listVars, callVars, historyVars
<1>1. ASSUME NEW t \in Threads, Loop(t) PROVE TaskInv'
  BY <1>1 DEF Loop, Proceed
<1>2. ASSUME NEW t \in Threads, LockTask(t) PROVE TaskInv'
  BY <1>2 DEF LockTask, Acquire
<1>3. ASSUME NEW t \in Threads, Check(t) PROVE TaskInv'
  BY SMTT(30), ZenonT(40), <1>3 DEF Check, Proceed
<1>4. ASSUME NEW t \in Threads, Wait(t) PROVE TaskInv'
  BY <1>4 DEF Wait
<1>5. ASSUME NEW t \in Threads, Timeout(t) PROVE TaskInv'
  BY <1>5 DEF Timeout
<1>6. ASSUME NEW t \in Threads, Relock(t) PROVE TaskInv'
  BY <1>6 DEF Relock, Acquire
<1>7. ASSUME NEW t \in Threads, Leave(t) PROVE TaskInv'
  BY <1>7 DEF Leave
<1>8. ASSUME NEW t \in Threads, Take(t) PROVE TaskInv'
  <2> DEFINE k == Head(m_task)
  <2>0. /\ m_task \in Seq(Tasks) /\ m_task # <<>> /\ m_task' = Tail(m_task)
        /\ submitted \in Nat
    BY <1>8 DEF Take, TakeTask
  <2>1. /\ Len(m_task) \in Nat \ {0} /\ submitted \in Nat
        /\ k = m_task[1] /\ k = Popped + 1 /\ k \in Tasks /\ k # 0
    BY SMTT(30), ZenonT(40), <2>0
  <2>2. /\ Len(m_task') = Len(m_task) - 1
        /\ \A n \in 1..Len(m_task') : m_task'[n] = m_task[n + 1]
    BY <2>0, <2>1
  <2>3. /\ UNCHANGED <<submitted, runs, finished>>
        /\ task' = [task EXCEPT ![t] = k]
        /\ pc' = [pc EXCEPT ![t] = "work_lock"]
        /\ task[t] = 0
    BY <1>8 DEF Take, TakeTask
  <2>4. Popped \in Nat /\ Popped' = Popped + 1
    BY <2>1, <2>2, <2>3
  <2>5. k \notin finished /\ runs[k] = 0 /\ \A u \in Threads : task[u] # k
    BY SMTT(30), ZenonT(40), <2>1, <2>4
  <2>6. QueueInOrder'
    <3>1. \A n \in 1..Len(m_task') : m_task[n + 1] = Popped + (n + 1)
      BY SMTT(30), ZenonT(40), <2>1, <2>2
    <3> QED BY SMTT(30), ZenonT(40), <2>1, <2>2, <2>3, <2>4, <3>1
  <2> HIDE DEF k
  <2>7. \A u \in Threads : u # t => task'[u] = task[u] /\ pc'[u] = pc[u]
    BY <2>3
  <2>8. task'[t] = k /\ pc'[t] = "work_lock"
    BY <2>3
  <2>9. HeldTasks'
    <3> SUFFICES ASSUME NEW u \in Threads, task'[u] # 0
                 PROVE  /\ task'[u] <= Popped'
                        /\ task'[u] \notin finished
                        /\ runs[task'[u]] = IF pc'[u] = "running" THEN 1 ELSE 0
      BY <2>3
    <3>1. CASE u = t
      BY <3>1, <2>1, <2>4, <2>5, <2>8
    <3>2. CASE u # t
      BY SMTT(30), ZenonT(40), <3>2, <2>4, <2>7
    <3> QED BY <3>1, <3>2
  <2>10. OneHolder'
    <3> SUFFICES ASSUME NEW u \in Threads, NEW v \in Threads, task'[u] # 0, task'[u] = task'[v]
                 PROVE  u = v
      BY Zenon DEF OneHolder
    <3>1. CASE u # t /\ v # t
      BY <3>1, <2>7
    <3>2. CASE u = t \/ v = t
      BY <3>2, <2>5, <2>7, <2>8
    <3> QED BY <3>1, <3>2
  <2>11. QueuedTasks'
    BY SMTT(30), ZenonT(40), <2>3, <2>4
  <2>12. FinishedTasks'
    BY <2>3
  <2>13. NoneLost'
    <3> SUFFICES ASSUME NEW j \in Tasks, j <= Popped + 1, j \notin finished
                 PROVE  \E u \in Threads : task'[u] = j
      BY <2>3, <2>4
    <3>0. j \in Nat /\ k \in Nat
      BY <2>1
    <3>1. CASE j = k
      BY <3>1, <2>8
    <3>2. CASE j # k
      <4>1. j <= Popped
        <5>1. Popped \in Nat /\ k = Popped + 1 /\ j <= Popped + 1
          BY <2>1, <2>4
        <5> HIDE DEF Popped
        <5> QED BY <3>0, <3>2, <5>1
      <4>2. PICK u \in Threads : task[u] = j
        BY <4>1
      <4>3. j # 0
        OBVIOUS
      <4>4. u # t
        BY <2>3, <4>2, <4>3
      <4> QED BY <2>7, <4>2, <4>4
    <3> QED BY <3>1, <3>2
  <2> QED BY <2>6, <2>9, <2>10, <2>11, <2>12, <2>13
<1>9. ASSUME NEW t \in Threads, Idle(t) PROVE TaskInv'
  BY <1>9 DEF Idle
<1>10. ASSUME NEW t \in Threads, LockToWork(t) PROVE TaskInv'
  BY <1>10 DEF LockToWork, Acquire
<1>11. ASSUME NEW t \in Threads, ToWork(t) PROVE TaskInv'
  <2>1. UNCHANGED <<m_task, task, historyVars>>
    BY <1>11 DEF ToWork
  <2>2. \A u \in Threads : pc'[u] = IF u = t THEN "run" ELSE pc[u]
    BY <1>11 DEF ToWork
  <2>3. pc[t] = "to_work"
    BY <1>11 DEF ToWork
  <2> QED BY SMTT(30), ZenonT(40), <2>1, <2>2, <2>3
<1>12. ASSUME NEW t \in Threads, Run(t) PROVE TaskInv'
  <2>1. UNCHANGED <<m_task, task, submitted, finished>>
    BY <1>12 DEF Run
  <2>2. task[t] \in Tasks /\ task[t] # 0 /\ pc'[t] = "running" /\ runs[task[t]] = 0
    BY <1>12 DEF Run
  <2>3. \A k \in Tasks : runs'[k] = IF k = task[t] THEN runs[k] + 1 ELSE runs[k]
    BY <1>12 DEF Run
  <2>4. \A u \in Threads : u # t => pc'[u] = pc[u] /\ task[u] # task[t]
    BY <1>12, <2>2 DEF Run
  <2>5. HeldTasks'
    <3> SUFFICES ASSUME NEW u \in Threads, task[u] # 0
                 PROVE  /\ task[u] <= Popped
                        /\ task[u] \notin finished
                        /\ runs'[task[u]] = IF pc'[u] = "running" THEN 1 ELSE 0
      BY <2>1
    <3>1. task[u] \in Tasks
      OBVIOUS
    <3>2. CASE u = t
      BY <3>2, <2>2, <2>3
    <3>3. CASE u # t
      BY <3>1, <3>3, <2>3, <2>4
    <3> QED BY <3>2, <3>3
  <2>6. QueuedTasks'
    BY <2>1, <2>2, <2>3
  <2>7. FinishedTasks'
    BY <2>1, <2>2, <2>3
  <2> QED BY <2>1, <2>5, <2>6, <2>7
<1>13. ASSUME NEW t \in Threads, Return(t) PROVE TaskInv'
  BY <1>13 DEF Return
<1>14. ASSUME NEW t \in Threads, LockToIdle(t) PROVE TaskInv'
  BY <1>14 DEF LockToIdle, Acquire
<1>15. ASSUME NEW t \in Threads, ToIdle(t) PROVE TaskInv'
  BY <1>15 DEF ToIdle, IdleList
<1>16. ASSUME NEW t \in Threads, LockSize(t) PROVE TaskInv'
  BY <1>16 DEF LockSize, Acquire
<1>17. ASSUME NEW t \in Threads, LockThread(t) PROVE TaskInv'
  BY <1>17 DEF LockThread, Acquire
<1>18. ASSUME NEW t \in Threads, Retire(t) PROVE TaskInv'
  BY <1>18 DEF Retire, TooManyIdle
<1>19. ASSUME NEW t \in Threads, Stay(t) PROVE TaskInv'
  BY <1>19 DEF Stay
<1>20. ASSUME NEW t \in Threads, Detach(t) PROVE TaskInv'
  BY <1>20 DEF Detach
<1>21. CASE CtorCreate
  <2>1. UNCHANGED <<m_task, task, submitted, runs, finished>>
    BY <1>21 DEF CtorCreate
  <2>2. \A t \in Threads : pc'[t] = pc[t] \/ (pc[t] = "none" /\ pc'[t] = "loop")
    BY <1>21, Creation DEF CtorCreate
  <2>3. HeldTasks'
    <3>1. \A t \in Threads : (pc'[t] = "running") = (pc[t] = "running")
      BY <2>2
    <3> QED BY <2>1, <3>1
  <2>4. QueueInOrder' /\ OneHolder' /\ QueuedTasks' /\ FinishedTasks' /\ NoneLost'
    BY <2>1
  <2> QED BY <2>1, <2>3, <2>4
<1>22. CASE CtorPush
  BY <1>22 DEF CtorPush, PushThreadid
<1>23. CASE CtorReturn
  BY <1>23 DEF CtorReturn
<1>24. CASE AddTask
  BY <1>24 DEF AddTask, MainProceed
<1>25. CASE AddLock
  BY <1>25 DEF AddLock, MainAcquire
<1>26. CASE Push
  <2>1. /\ UNCHANGED <<task, runs, finished>> /\ submitted' = submitted + 1
        /\ m_task' = Append(m_task, submitted + 1)
    BY <1>26 DEF Push
  <2>2. \A t \in Threads : pc'[t] = pc[t] \/ (pc[t] = "waiting" /\ pc'[t] = "relock")
    BY <1>26 DEF Push, Signal
  <2>3. /\ submitted \in Nat /\ submitted + 1 \in Tasks /\ Len(m_task) \in Nat
        /\ Len(m_task') = Len(m_task) + 1
        /\ m_task'[Len(m_task) + 1] = submitted + 1
        /\ \A n \in 1..Len(m_task) : m_task'[n] = m_task[n]
    BY <1>26, <2>1 DEF Push
  <2>4. /\ Len(m_task') <= submitted'
        /\ submitted' - Len(m_task') = submitted - Len(m_task)
    BY <2>1, <2>3
  <2>5. ASSUME NEW n \in 1..Len(m_task')
        PROVE  m_task'[n] = submitted' - Len(m_task') + n
    <3>1. CASE n = Len(m_task) + 1
      <4>1. m_task'[n] = submitted + 1
        BY <3>1, <2>3
      <4> QED BY <4>1, <3>1, <2>1, <2>3
    <3>2. CASE n # Len(m_task) + 1
      <4>1. n \in 1..Len(m_task)
        <5>1. n \in Nat /\ 1 <= n /\ n <= Len(m_task) + 1
          BY <2>3
        <5> QED BY <5>1, <3>2, <2>3
      <4>2. m_task'[n] = m_task[n] /\ m_task[n] = submitted - Len(m_task) + n
        BY <4>1, <2>3
      <4> QED BY <4>2, <2>4
    <3> QED BY <3>1, <3>2
  <2>6. HeldTasks'
    <3>1. \A t \in Threads : (pc'[t] = "running") = (pc[t] = "running")
      BY <2>2
    <3> QED BY <2>1, <2>4, <3>1
  <2>7. OneHolder' /\ FinishedTasks'
    BY <2>1
  <2>8. QueuedTasks' /\ NoneLost'
    BY <2>1, <2>4
  <2> QED BY <2>4, <2>5, <2>6, <2>7, <2>8
<1>27. CASE AddLockSize
  BY <1>27 DEF AddLockSize, MainAcquire
<1>28. CASE AddLockThread
  BY <1>28 DEF AddLockThread, MainAcquire
<1>29. CASE NoGrowth
  BY <1>29 DEF NoGrowth
<1>30. CASE Grow
  BY <1>30 DEF Grow, MainProceed
<1>31. CASE GrowCreate
  <2>1. UNCHANGED <<m_task, task, submitted, runs, finished>>
    BY <1>31 DEF GrowCreate
  <2>2. \A t \in Threads : pc'[t] = pc[t] \/ (pc[t] = "none" /\ pc'[t] = "loop")
    BY <1>31, Creation DEF GrowCreate
  <2>3. HeldTasks'
    <3>1. \A t \in Threads : (pc'[t] = "running") = (pc[t] = "running")
      BY <2>2
    <3> QED BY <2>1, <3>1
  <2>4. QueueInOrder' /\ OneHolder' /\ QueuedTasks' /\ FinishedTasks' /\ NoneLost'
    BY <2>1
  <2> QED BY <2>1, <2>3, <2>4
<1>32. CASE GrowPush
  BY <1>32 DEF GrowPush, PushThreadid
<1>33. CASE GrowReturn
  BY <1>33 DEF GrowReturn, GrownSize
<1>34. CASE Destroy
  BY <1>34 DEF Destroy, MainProceed
<1>35. CASE SeeNoWork
  BY <1>35 DEF SeeNoWork, MainProceed
<1>36. CASE SeeTasks
  BY <1>36 DEF SeeTasks, MainProceed
<1>37. CASE SetDestroy
  BY <1>37 DEF SetDestroy
<1>38. CASE WakeAll
  <2>1. UNCHANGED <<m_task, task, historyVars>>
    BY <1>38 DEF WakeAll
  <2>2. \A t \in Threads : pc'[t] = pc[t] \/ (pc[t] = "waiting" /\ pc'[t] = "relock")
    BY <1>38 DEF WakeAll, Broadcast
  <2>3. \A t \in Threads : (pc'[t] = "running") = (pc[t] = "running")
    BY <2>2
  <2>4. HeldTasks'
    BY <2>1, <2>3
  <2>5. (QueueInOrder /\ OneHolder /\ FinishedTasks)'
    BY <2>1
  <2>6. (QueuedTasks /\ NoneLost)'
    BY <2>1
  <2> QED BY <2>4, <2>5, <2>6
<1>39. CASE JoinTest
  BY <1>39 DEF JoinTest, MainProceed
<1>40. CASE JoinBack
  BY <1>40 DEF JoinBack, Back
<1>41. CASE Join
  BY <1>41 DEF Join
<1>42. CASE Pop
  BY <1>42 DEF Pop, PopBack
<1>43. CASE Abort
  BY <1>43 DEF Abort, Undefined, UnguardedVisit, MainProceed
<1>44. CASE UNCHANGED vars
  BY <1>44 DEF vars
<1> QED
  BY <1>1, <1>2, <1>3, <1>4, <1>5, <1>6, <1>7, <1>8, <1>9, <1>10, <1>11,
     <1>12, <1>13, <1>14, <1>15, <1>16, <1>17, <1>18, <1>19, <1>20, <1>21,
     <1>22, <1>23, <1>24, <1>25, <1>26, <1>27, <1>28, <1>29, <1>30, <1>31,
     <1>32, <1>33, <1>34, <1>35, <1>36, <1>37, <1>38, <1>39, <1>40, <1>41,
     <1>42, <1>43, <1>44
     DEF Next, Worker, MainStep, Ended

\* The invariant is strong enough.
LEMMA TaskInvConserves == TypeInv /\ TaskInv => TaskConservation
<1> SUFFICES ASSUME TypeInv, TaskInv PROVE TaskConservation
  OBVIOUS
<1> USE DEF TypeInv, PhaseInv, TypeOK, TaskInv, Holding
<1>1. \A n \in 1..Len(m_task) : m_task[n] = submitted - Len(m_task) + n
  BY DEF QueueInOrder, Popped
<1>2. ASSUME NEW k \in Tasks, k > submitted - Len(m_task)
      PROVE  Holders(k) = {} /\ k \notin finished /\ runs[k] = 0
  <2>1. \A t \in Threads : task[t] # k
    BY <1>2 DEF HeldTasks, Popped, Tasks
  <2> QED BY <1>2, <2>1 DEF QueuedTasks, Popped, Holders
<1>3. ASSUME NEW k \in Tasks, ~(k > submitted - Len(m_task))
      PROVE  \/ k \in finished /\ Holders(k) = {} /\ runs[k] = 1
             \/ /\ k \notin finished
                /\ \E t \in Threads :
                     /\ Holders(k) = {t}
                     /\ runs[k] = IF pc[t] = "running" THEN 1 ELSE 0
  <2>0. k # 0 /\ k <= Popped
    BY <1>3 DEF Popped, Tasks
  <2>1. CASE k \in finished
    BY <2>0, <2>1 DEF HeldTasks, FinishedTasks, Holders
  <2>2. CASE k \notin finished
    <3>1. PICK t \in Threads : task[t] = k
      BY <2>0, <2>2 DEF NoneLost
    <3>2. Holders(k) = {t}
      BY <2>0, <3>1 DEF OneHolder, Holders
    <3> QED BY <2>0, <2>2, <3>1, <3>2 DEF HeldTasks
  <2> QED BY <2>1, <2>2
<1> QED BY <1>1, <1>2, <1>3 DEF TaskConservation

------------------------------------------------------------------------------
(* The pool and the service it implements. *)

\* The tasks in hand, as Service has them.
Running == {task[t] : t \in Threads} \ {0}

\* A pool under construction is an idle service.
LEMMA ServiceInitMapped == Init => Service!ServiceInit
BY DEF Init, Service!ServiceInit

\* Push submits, Take starts and Return finishes; nothing else is visible.
LEMMA ServiceStep ==
  TypeInv /\ TaskInv /\ [Next]_vars => [Service!ServiceNext]_Service!serviceVars
<1> SUFFICES ASSUME TypeInv, TaskInv, [Next]_vars
             PROVE  [Service!ServiceNext]_Service!serviceVars
  OBVIOUS
<1>1. ASSUME Push
      PROVE  Service!ServiceNext
  <2>1. UNCHANGED <<task, finished>>
    BY <1>1 DEF Push
  <2>2. Service!Submit
    BY <1>1, <2>1 DEF Push, Service!Submit, TypeInv, PhaseInv
  <2> QED BY <2>2 DEF Service!ServiceNext
<1>2. ASSUME NEW t \in Threads, Take(t)
      PROVE  Service!ServiceNext
  <2>0. m_task \in Seq(Tasks) /\ m_task # <<>>
    BY <1>2 DEF Take, TakeTask, TypeInv, TypeOK
  <2>1. task[t] = 0 /\ Head(m_task) # 0 /\ task' = [task EXCEPT ![t] = Head(m_task)]
    <3>1. Head(m_task) \in Tasks
      BY <2>0
    <3>2. Head(m_task) # 0 /\ pc[t] \notin Holding
      BY <1>2, <3>1 DEF Take, TakeTask, At, Holding, Tasks
    <3> QED BY <1>2, <3>2 DEF Take, TakeTask, TypeInv, PhaseInv
  <2>2. \A u \in Threads : task'[u] = IF u = t THEN Head(m_task) ELSE task[u]
    BY <2>1 DEF TypeInv, TypeOK
  <2>3. Running' = Running \cup {Head(m_task)}
    BY <2>1, <2>2 DEF Running
  <2>4. Service!Start
    BY <1>2, <2>3 DEF Take, TakeTask, historyVars, Running, Service!Start
  <2> QED BY <2>4 DEF Service!ServiceNext
<1>3. ASSUME NEW t \in Threads, Return(t)
      PROVE  Service!ServiceNext
  <2>1. task[t] \in Tasks /\ task[t] # 0 /\ task' = [task EXCEPT ![t] = 0]
    BY <1>3 DEF Return, At, TypeInv, PhaseInv, TypeOK, Holding, Tasks
  <2>2. \A u \in Threads : task'[u] = IF u = t THEN 0 ELSE task[u]
    BY <2>1 DEF TypeInv, TypeOK
  <2>3. \A u \in Threads : u # t => task[u] # task[t]
    BY <2>1 DEF TaskInv, OneHolder
  <2>4. Running' = Running \ {task[t]} /\ task[t] \in Running
    BY <2>1, <2>2, <2>3 DEF Running
  <2>5. PICK k \in 1..MaxTasks : k = task[t]
    BY <2>1 DEF Tasks
  <2>6. Service!Finish(k)
    BY <1>3, <2>4, <2>5 DEF Return, Running, Service!Finish
  <2> QED BY <2>6 DEF Service!ServiceNext
<1>4. CASE /\ ~Push
           /\ \A t \in Threads : ~Take(t) /\ ~Return(t)
  <2>1. UNCHANGED <<submitted, m_task, task, finished>>
    BY <1>4 DEF Next, Worker, MainStep, Ended, vars, historyVars, callVars, poolVars, listVars,
     Loop, LockTask, Check, Wait, Timeout, Relock, Leave, Idle, LockToWork, ToWork, Run,
     LockToIdle, ToIdle, LockSize, LockThread, Retire, Stay, Detach,
     CtorCreate, CtorPush, CtorReturn, AddTask, AddLock, AddLockSize, AddLockThread, NoGrowth,
     Grow, GrowCreate, GrowPush, GrowReturn, Destroy, SeeNoWork, SeeTasks, SetDestroy, WakeAll,
     JoinTest, JoinBack, Join, Pop, Abort, Acquire, Proceed, MainAcquire, MainProceed
  <2> QED BY <2>1 DEF Service!serviceVars
<1> QED BY <1>1, <1>2, <1>3, <1>4

------------------------------------------------------------------------------
(* The inductive invariant. *)

Inductive == TypeInv /\ Owns /\ KeepsMinimum /\ TaskInv

\* Every reachable state satisfies it.
THEOREM AlwaysInductive == Spec => []Inductive
<1>1. Init => Inductive
  BY TypeInit, OwnsInit, MinimumInit, TasksInit DEF Inductive
<1>2. Inductive /\ [Next]_vars => Inductive'
  BY TypeNext, OwnsNext, MinimumNext, TasksNext DEF Inductive
<1> QED BY <1>1, <1>2, PTL DEF Spec

------------------------------------------------------------------------------
(* What it implies. *)

\* Every variable keeps its type, so the model runs into no undefined value.
THEOREM TypeCorrect == Spec => []TypeOK
<1>1. Inductive => TypeOK
  BY DEF Inductive, TypeInv
<1> QED BY <1>1, AlwaysInductive, PTL

\* No two threads are inside a region guarded by the same mutex, although
\* synWaitTime gives m_task_mutex up in the middle of one.
THEOREM MutexesExclude == Spec => []MutualExclusion
<1>1. Inductive => MutualExclusion
  BY OwnsExclude DEF Inductive
<1> QED BY <1>1, AlwaysInductive, PTL

\* addTask, which nests three mutexes, and a worker that trims the pool, which
\* nests two, never wait for each other in a circle.
THEOREM LocksNeverCircular == Spec => []NoCircularWait
<1>1. Inductive => NoCircularWait
  BY OwnsNoCycle DEF Inductive
<1> QED BY <1>1, AlwaysInductive, PTL

\* Idle workers that retire leave the minimum, however many decide at once.
THEOREM MinimumKept == Spec => []KeepsMinimum
<1>1. Inductive => KeepsMinimum
  BY DEF Inductive
<1> QED BY <1>1, AlwaysInductive, PTL

\* No task is lost, run twice or taken out of order, even while the pool grows,
\* shrinks, fails to create threads or is destroyed.
THEOREM TasksConserved == Spec => []TaskConservation
<1>1. Inductive => TaskConservation
  BY TaskInvConserves DEF Inductive
<1> QED BY <1>1, AlwaysInductive, PTL

\* The pool implements TaskService: seen through the queue, the tasks in hand and
\* the finished ones, each of its steps is one submission, start or completion, or
\* changes nothing.
THEOREM PoolImplementsService == Spec => ImplementsService
<1>1. Init => Service!ServiceInit
  BY ServiceInitMapped
<1>2. Inductive /\ [Next]_vars => [Service!ServiceNext]_Service!serviceVars
  BY ServiceStep DEF Inductive
<1> QED BY <1>1, <1>2, AlwaysInductive, PTL
        DEF Spec, ImplementsService, Service!ServiceSpec

------------------------------------------------------------------------------
(* What the pool's books say of its workers: m_pool_size and the two lists   *)
(* against the threads that live, and the queue against those that sleep.    *)
(* The parts of BooksInv below are inductive together with Inductive.        *)

\* Where Main is filling or emptying the lists, and between pthread_create and
\* push_back.
Starting == {"ctor", "ctor_push"}
Growing  == {"grow", "grow_push"}
Pushing  == {"ctor_push", "grow_push"}
Joining  == {"broadcast", "join_test", "join_back", "join", "pop", "done"}

\* Where a worker has a task or is on its way back from one, where it is on the
\* list of those that work, where it may be about to retire, and where it is gone.
Busy    == {"work_lock", "to_work", "run", "running", "idle_lock", "to_idle"}
AtWork  == {"run", "running", "idle_lock", "to_idle"}
Leaving == {"size_lock", "thread_lock", "trim"}
Gone    == {"none", "detach", "exited"}

InUse == m_pool_state = "ALIVE" /\ main # "aborted"

\* Nothing is queued before the pool is constructed nor after destroy has found
\* the queue empty, and nobody waits beside a task.
StageInv ==
  /\ main \in Starting =>
       /\ m_task = <<>>
       /\ \A t \in Threads : pc[t] \notin Busy
       /\ Size <= MIN_POOL_SIZE => m_pool_size = Size
  /\ main \in Joining \cup {"destroy_set", "aborted"} => m_task = <<>>
  /\ main \in Joining => m_pool_state = "DESTROY"
  /\ m_pool_state = "DESTROY" => main \in Joining \cup {"aborted"}
  /\ main = "aborted" /\ m_pool_state = "ALIVE" => owner["thread"] # None
  /\ \A t \in Threads : pc[t] = "wait" => m_task = <<>>

\* m_threadid_work is right about who is at work.
WorkInv == \A t \in Threads : t \in m_threadid_work <=> pc[t] \in AtWork

\* The thread asked for and not yet in m_threadid: their number and, perhaps, its id.
Created == IF main \in Pushing THEN 1 ELSE 0
Unlisted == IF main \in Pushing THEN {threadid} ELSE {}

\* How many threads the pool has asked for and not seen retire.
Asked == (IF main \in Starting THEN 0 ELSE m_pool_size) + i + Created

\* The loop counters say how far m_pool_size is from the creations made.
CountInv ==
  /\ i + Created <= CASE main \in Starting -> Size
                      [] main \in Growing  -> m_pool_size \div 2
                      [] OTHER             -> 0
  /\ Cardinality(Live) + failed = Asked

\* Every live worker is in a list, or about to be.
ListInv == Live \subseteq Elements(m_threadid) \cup m_threadid_work \cup Unlisted

\* Nobody else is, and nobody twice.
UniqueInv ==
  /\ Elements(m_threadid) \cup m_threadid_work = Live \ Unlisted
  /\ Elements(m_threadid) \cap m_threadid_work = {}
  /\ Unlisted \subseteq Live
  /\ Distinct(m_threadid)

\* Beside a queued task somebody is up who will look at the queue before it
\* sleeps or retires, or nobody sleeps.
HuntInv ==
  m_task # <<>> /\ main # "push" =>
    waiting = {} \/ \E t \in Threads : pc[t] \notin Gone \cup Leaving \cup {"waiting"}

BooksInv ==
  /\ StageInv
  /\ WorkInv
  /\ InUse /\ Size <= MIN_POOL_SIZE => CountInv
  /\ InUse => ListInv
  /\ InUse /\ Size <= MIN_POOL_SIZE /\ failed = 0 => UniqueInv
  /\ HuntInv

------------------------------------------------------------------------------
(* Every part holds of the constructed object. *)

LEMMA BooksInit == Init => BooksInv
<1> SUFFICES ASSUME Init PROVE BooksInv
  OBVIOUS
<1>1. Live = {} /\ Elements(m_threadid) = {} /\ Unlisted = {} /\ Created = 0 /\ Asked = 0
  BY DEF Init, Live, Elements, Unlisted, Created, Asked, Pushing, Starting
<1>2. Cardinality(Live) = 0
  BY <1>1, FS_EmptySet
<1>3. StageInv /\ WorkInv /\ HuntInv
  BY PoolAssumption DEF Init, StageInv, WorkInv, HuntInv, Busy, AtWork, Starting, Joining
<1>4. CountInv
  BY <1>1, <1>2, PoolAssumption DEF Init, CountInv, Starting
<1>5. ListInv /\ UniqueInv
  BY <1>1 DEF Init, ListInv, UniqueInv, Distinct
<1> QED BY <1>3, <1>4, <1>5 DEF BooksInv

------------------------------------------------------------------------------
(* The parts that speak of the program counters. *)

\* No step queues a task early or late.
LEMMA StageNext == TypeInv /\ Owns /\ StageInv /\ [Next]_vars => StageInv'
<1> SUFFICES ASSUME TypeInv, Owns, StageInv, [Next]_vars PROVE StageInv'
  OBVIOUS
<1> USE PoolAssumption DEF TypeInv, PhaseInv, TypeOK, Owns, StageInv, Starting, Joining, Busy, At, Goto, Lock, Unlock, Mutexes,
     poolVars, listVars, callVars, historyVars
<1>1. ASSUME NEW t \in Threads, Loop(t) PROVE StageInv'
  BY <1>1 DEF Loop, Proceed
<1>2. ASSUME NEW t \in Threads, LockTask(t) PROVE StageInv'
  BY <1>2 DEF LockTask, Acquire
<1>3. ASSUME NEW t \in Threads, Check(t) PROVE StageInv'
  BY <1>3 DEF Check, Proceed
<1>4. ASSUME NEW t \in Threads, Wait(t) PROVE StageInv'
  BY <1>4 DEF Wait
<1>5. ASSUME NEW t \in Threads, Timeout(t) PROVE StageInv'
  BY <1>5 DEF Timeout
<1>6. ASSUME NEW t \in Threads, Relock(t) PROVE StageInv'
  BY <1>6 DEF Relock, Acquire
<1>7. ASSUME NEW t \in Threads, Leave(t) PROVE StageInv'
  BY <1>7 DEF Leave
<1>8. ASSUME NEW t \in Threads, Take(t) PROVE StageInv'
  BY <1>8 DEF Take, TakeTask
<1>9. ASSUME NEW t \in Threads, Idle(t) PROVE StageInv'
  BY <1>9 DEF Idle
<1>10. ASSUME NEW t \in Threads, LockToWork(t) PROVE StageInv'
  BY <1>10 DEF LockToWork, Acquire
<1>11. ASSUME NEW t \in Threads, ToWork(t) PROVE StageInv'
  BY <1>11 DEF ToWork
<1>12. ASSUME NEW t \in Threads, Run(t) PROVE StageInv'
  BY <1>12 DEF Run
<1>13. ASSUME NEW t \in Threads, Return(t) PROVE StageInv'
  BY <1>13 DEF Return
<1>14. ASSUME NEW t \in Threads, LockToIdle(t) PROVE StageInv'
  BY <1>14 DEF LockToIdle, Acquire
<1>15. ASSUME NEW t \in Threads, ToIdle(t) PROVE StageInv'
  BY <1>15 DEF ToIdle, IdleList
<1>16. ASSUME NEW t \in Threads, LockSize(t) PROVE StageInv'
  BY <1>16 DEF LockSize, Acquire
<1>17. ASSUME NEW t \in Threads, LockThread(t) PROVE StageInv'
  BY <1>17 DEF LockThread, Acquire
<1>18. ASSUME NEW t \in Threads, Retire(t) PROVE StageInv'
  BY <1>18 DEF Retire, TooManyIdle
<1>19. ASSUME NEW t \in Threads, Stay(t) PROVE StageInv'
  BY <1>19 DEF Stay
<1>20. ASSUME NEW t \in Threads, Detach(t) PROVE StageInv'
  BY <1>20 DEF Detach
<1>21. CASE CtorCreate
  BY <1>21, Creation DEF CtorCreate
<1>22. CASE CtorPush
  BY <1>22 DEF CtorPush, PushThreadid
<1>23. CASE CtorReturn
  BY <1>23 DEF CtorReturn
<1>24. CASE AddTask
  BY <1>24 DEF AddTask, MainProceed
<1>25. CASE AddLock
  BY <1>25 DEF AddLock, MainAcquire
<1>26. CASE Push
  BY <1>26 DEF Push, Signal
<1>27. CASE AddLockSize
  BY <1>27 DEF AddLockSize, MainAcquire
<1>28. CASE AddLockThread
  BY <1>28 DEF AddLockThread, MainAcquire
<1>29. CASE NoGrowth
  BY <1>29 DEF NoGrowth
<1>30. CASE Grow
  BY <1>30 DEF Grow, MainProceed
<1>31. CASE GrowCreate
  BY <1>31, Creation DEF GrowCreate
<1>32. CASE GrowPush
  BY <1>32 DEF GrowPush, PushThreadid
<1>33. CASE GrowReturn
  BY <1>33 DEF GrowReturn, GrownSize
<1>34. CASE Destroy
  BY <1>34 DEF Destroy, MainProceed
<1>35. CASE SeeNoWork
  BY <1>35 DEF SeeNoWork, MainProceed
<1>36. CASE SeeTasks
  BY <1>36 DEF SeeTasks, MainProceed
<1>37. CASE SetDestroy
  BY <1>37 DEF SetDestroy
<1>38. CASE WakeAll
  BY <1>38 DEF WakeAll, Broadcast
<1>39. CASE JoinTest
  BY <1>39 DEF JoinTest, MainProceed
<1>40. CASE JoinBack
  BY <1>40 DEF JoinBack, Back
<1>41. CASE Join
  BY <1>41 DEF Join
<1>42. CASE Pop
  BY <1>42 DEF Pop, PopBack
<1>43. CASE Abort
  BY <1>43 DEF Abort, Undefined, UnguardedVisit, MainProceed
<1>44. CASE UNCHANGED vars
  BY <1>44 DEF vars
<1> QED
  BY <1>1, <1>2, <1>3, <1>4, <1>5, <1>6, <1>7, <1>8, <1>9, <1>10, <1>11, <1>12, <1>13, <1>14,
     <1>15, <1>16, <1>17, <1>18, <1>19, <1>20, <1>21, <1>22, <1>23, <1>24, <1>25, <1>26, <1>27,
     <1>28, <1>29, <1>30, <1>31, <1>32, <1>33, <1>34, <1>35, <1>36, <1>37, <1>38, <1>39, <1>40,
     <1>41, <1>42, <1>43, <1>44
     DEF Next, Worker, MainStep, Ended

\* m_threadid_work changes exactly where workers go to work and come back.
LEMMA WorkNext == TypeInv /\ WorkInv /\ [Next]_vars => WorkInv'
<1> SUFFICES ASSUME TypeInv, WorkInv, [Next]_vars PROVE WorkInv'
  OBVIOUS
<1> USE PoolAssumption DEF TypeInv, PhaseInv, TypeOK, WorkInv, AtWork, At, Goto, Lock, Unlock, Mutexes,
     poolVars, listVars, callVars, historyVars
<1>1. ASSUME NEW t \in Threads, Loop(t) PROVE WorkInv'
  BY <1>1 DEF Loop, Proceed
<1>2. ASSUME NEW t \in Threads, LockTask(t) PROVE WorkInv'
  BY <1>2 DEF LockTask, Acquire
<1>3. ASSUME NEW t \in Threads, Check(t) PROVE WorkInv'
  BY <1>3 DEF Check, Proceed
<1>4. ASSUME NEW t \in Threads, Wait(t) PROVE WorkInv'
  BY <1>4 DEF Wait
<1>5. ASSUME NEW t \in Threads, Timeout(t) PROVE WorkInv'
  BY <1>5 DEF Timeout
<1>6. ASSUME NEW t \in Threads, Relock(t) PROVE WorkInv'
  BY <1>6 DEF Relock, Acquire
<1>7. ASSUME NEW t \in Threads, Leave(t) PROVE WorkInv'
  BY <1>7 DEF Leave
<1>8. ASSUME NEW t \in Threads, Take(t) PROVE WorkInv'
  BY <1>8 DEF Take, TakeTask
<1>9. ASSUME NEW t \in Threads, Idle(t) PROVE WorkInv'
  BY <1>9 DEF Idle
<1>10. ASSUME NEW t \in Threads, LockToWork(t) PROVE WorkInv'
  BY <1>10 DEF LockToWork, Acquire
<1>11. ASSUME NEW t \in Threads, ToWork(t) PROVE WorkInv'
  BY <1>11 DEF ToWork
<1>12. ASSUME NEW t \in Threads, Run(t) PROVE WorkInv'
  BY <1>12 DEF Run
<1>13. ASSUME NEW t \in Threads, Return(t) PROVE WorkInv'
  BY <1>13 DEF Return
<1>14. ASSUME NEW t \in Threads, LockToIdle(t) PROVE WorkInv'
  BY <1>14 DEF LockToIdle, Acquire
<1>15. ASSUME NEW t \in Threads, ToIdle(t) PROVE WorkInv'
  BY <1>15 DEF ToIdle, IdleList
<1>16. ASSUME NEW t \in Threads, LockSize(t) PROVE WorkInv'
  BY <1>16 DEF LockSize, Acquire
<1>17. ASSUME NEW t \in Threads, LockThread(t) PROVE WorkInv'
  BY <1>17 DEF LockThread, Acquire
<1>18. ASSUME NEW t \in Threads, Retire(t) PROVE WorkInv'
  BY <1>18 DEF Retire, TooManyIdle
<1>19. ASSUME NEW t \in Threads, Stay(t) PROVE WorkInv'
  BY <1>19 DEF Stay
<1>20. ASSUME NEW t \in Threads, Detach(t) PROVE WorkInv'
  BY <1>20 DEF Detach
<1>21. CASE CtorCreate
  BY <1>21, Creation DEF CtorCreate
<1>22. CASE CtorPush
  BY <1>22 DEF CtorPush, PushThreadid
<1>23. CASE CtorReturn
  BY <1>23 DEF CtorReturn
<1>24. CASE AddTask
  BY <1>24 DEF AddTask, MainProceed
<1>25. CASE AddLock
  BY <1>25 DEF AddLock, MainAcquire
<1>26. CASE Push
  BY <1>26 DEF Push, Signal
<1>27. CASE AddLockSize
  BY <1>27 DEF AddLockSize, MainAcquire
<1>28. CASE AddLockThread
  BY <1>28 DEF AddLockThread, MainAcquire
<1>29. CASE NoGrowth
  BY <1>29 DEF NoGrowth
<1>30. CASE Grow
  BY <1>30 DEF Grow, MainProceed
<1>31. CASE GrowCreate
  BY <1>31, Creation DEF GrowCreate
<1>32. CASE GrowPush
  BY <1>32 DEF GrowPush, PushThreadid
<1>33. CASE GrowReturn
  BY <1>33 DEF GrowReturn, GrownSize
<1>34. CASE Destroy
  BY <1>34 DEF Destroy, MainProceed
<1>35. CASE SeeNoWork
  BY <1>35 DEF SeeNoWork, MainProceed
<1>36. CASE SeeTasks
  BY <1>36 DEF SeeTasks, MainProceed
<1>37. CASE SetDestroy
  BY <1>37 DEF SetDestroy
<1>38. CASE WakeAll
  BY <1>38 DEF WakeAll, Broadcast
<1>39. CASE JoinTest
  BY <1>39 DEF JoinTest, MainProceed
<1>40. CASE JoinBack
  BY <1>40 DEF JoinBack, Back
<1>41. CASE Join
  BY <1>41 DEF Join
<1>42. CASE Pop
  BY <1>42 DEF Pop, PopBack
<1>43. CASE Abort
  BY <1>43 DEF Abort, Undefined, UnguardedVisit, MainProceed
<1>44. CASE UNCHANGED vars
  BY <1>44 DEF vars
<1> QED
  BY <1>1, <1>2, <1>3, <1>4, <1>5, <1>6, <1>7, <1>8, <1>9, <1>10, <1>11, <1>12, <1>13, <1>14,
     <1>15, <1>16, <1>17, <1>18, <1>19, <1>20, <1>21, <1>22, <1>23, <1>24, <1>25, <1>26, <1>27,
     <1>28, <1>29, <1>30, <1>31, <1>32, <1>33, <1>34, <1>35, <1>36, <1>37, <1>38, <1>39, <1>40,
     <1>41, <1>42, <1>43, <1>44
     DEF Next, Worker, MainStep, Ended

\* addTask signals, and a worker that gives up looking has seen no task.
LEMMA HuntNext == TypeInv /\ Owns /\ StageInv /\ HuntInv /\ [Next]_vars => HuntInv'
<1> SUFFICES ASSUME TypeInv, Owns, StageInv, HuntInv, [Next]_vars PROVE HuntInv'
  OBVIOUS
<1> USE PoolAssumption DEF TypeInv, PhaseInv, TypeOK, Owns, StageInv, HuntInv, Starting, Joining, Gone, Leaving, At, Goto, Lock, Unlock, Mutexes,
     poolVars, listVars, callVars, historyVars
<1>1. ASSUME NEW t \in Threads, Loop(t) PROVE HuntInv'
  BY <1>1 DEF Loop, Proceed
<1>2. ASSUME NEW t \in Threads, LockTask(t) PROVE HuntInv'
  BY <1>2 DEF LockTask, Acquire
<1>3. ASSUME NEW t \in Threads, Check(t) PROVE HuntInv'
  BY <1>3 DEF Check, Proceed
<1>4. ASSUME NEW t \in Threads, Wait(t) PROVE HuntInv'
  BY <1>4 DEF Wait
<1>5. ASSUME NEW t \in Threads, Timeout(t) PROVE HuntInv'
  BY <1>5 DEF Timeout
<1>6. ASSUME NEW t \in Threads, Relock(t) PROVE HuntInv'
  BY <1>6 DEF Relock, Acquire
<1>7. ASSUME NEW t \in Threads, Leave(t) PROVE HuntInv'
  BY <1>7 DEF Leave
<1>8. ASSUME NEW t \in Threads, Take(t) PROVE HuntInv'
  BY <1>8 DEF Take, TakeTask
<1>9. ASSUME NEW t \in Threads, Idle(t) PROVE HuntInv'
  BY <1>9 DEF Idle
<1>10. ASSUME NEW t \in Threads, LockToWork(t) PROVE HuntInv'
  BY <1>10 DEF LockToWork, Acquire
<1>11. ASSUME NEW t \in Threads, ToWork(t) PROVE HuntInv'
  BY <1>11 DEF ToWork
<1>12. ASSUME NEW t \in Threads, Run(t) PROVE HuntInv'
  BY <1>12 DEF Run
<1>13. ASSUME NEW t \in Threads, Return(t) PROVE HuntInv'
  BY <1>13 DEF Return
<1>14. ASSUME NEW t \in Threads, LockToIdle(t) PROVE HuntInv'
  BY <1>14 DEF LockToIdle, Acquire
<1>15. ASSUME NEW t \in Threads, ToIdle(t) PROVE HuntInv'
  BY <1>15 DEF ToIdle, IdleList
<1>16. ASSUME NEW t \in Threads, LockSize(t) PROVE HuntInv'
  BY <1>16 DEF LockSize, Acquire
<1>17. ASSUME NEW t \in Threads, LockThread(t) PROVE HuntInv'
  BY <1>17 DEF LockThread, Acquire
<1>18. ASSUME NEW t \in Threads, Retire(t) PROVE HuntInv'
  BY <1>18 DEF Retire, TooManyIdle
<1>19. ASSUME NEW t \in Threads, Stay(t) PROVE HuntInv'
  BY <1>19 DEF Stay
<1>20. ASSUME NEW t \in Threads, Detach(t) PROVE HuntInv'
  BY <1>20 DEF Detach
<1>21. CASE CtorCreate
  BY <1>21, Creation DEF CtorCreate
<1>22. CASE CtorPush
  BY <1>22 DEF CtorPush, PushThreadid
<1>23. CASE CtorReturn
  BY <1>23 DEF CtorReturn
<1>24. CASE AddTask
  BY <1>24 DEF AddTask, MainProceed
<1>25. CASE AddLock
  BY <1>25 DEF AddLock, MainAcquire
<1>26. CASE Push
  BY SMTT(30), ZenonT(40), <1>26 DEF Push, Signal
<1>27. CASE AddLockSize
  BY <1>27 DEF AddLockSize, MainAcquire
<1>28. CASE AddLockThread
  BY <1>28 DEF AddLockThread, MainAcquire
<1>29. CASE NoGrowth
  BY <1>29 DEF NoGrowth
<1>30. CASE Grow
  BY <1>30 DEF Grow, MainProceed
<1>31. CASE GrowCreate
  BY <1>31, Creation DEF GrowCreate
<1>32. CASE GrowPush
  BY <1>32 DEF GrowPush, PushThreadid
<1>33. CASE GrowReturn
  BY <1>33 DEF GrowReturn, GrownSize
<1>34. CASE Destroy
  BY <1>34 DEF Destroy, MainProceed
<1>35. CASE SeeNoWork
  BY <1>35 DEF SeeNoWork, MainProceed
<1>36. CASE SeeTasks
  BY <1>36 DEF SeeTasks, MainProceed
<1>37. CASE SetDestroy
  BY <1>37 DEF SetDestroy
<1>38. CASE WakeAll
  BY <1>38 DEF WakeAll, Broadcast
<1>39. CASE JoinTest
  BY <1>39 DEF JoinTest, MainProceed
<1>40. CASE JoinBack
  BY <1>40 DEF JoinBack, Back
<1>41. CASE Join
  BY <1>41 DEF Join
<1>42. CASE Pop
  BY <1>42 DEF Pop, PopBack
<1>43. CASE Abort
  BY <1>43 DEF Abort, Undefined, UnguardedVisit, MainProceed
<1>44. CASE UNCHANGED vars
  BY <1>44 DEF vars
<1> QED
  BY <1>1, <1>2, <1>3, <1>4, <1>5, <1>6, <1>7, <1>8, <1>9, <1>10, <1>11, <1>12, <1>13, <1>14,
     <1>15, <1>16, <1>17, <1>18, <1>19, <1>20, <1>21, <1>22, <1>23, <1>24, <1>25, <1>26, <1>27,
     <1>28, <1>29, <1>30, <1>31, <1>32, <1>33, <1>34, <1>35, <1>36, <1>37, <1>38, <1>39, <1>40,
     <1>41, <1>42, <1>43, <1>44
     DEF Next, Worker, MainStep, Ended

------------------------------------------------------------------------------
(* The parts that count and list, for a pool in use. *)

\* A step that books nothing.
Quiet ==
  /\ UNCHANGED <<m_pool_size, listVars, i, threadid, failed>>
  /\ \A t \in Threads : pc'[t] \in Gone <=> pc[t] \in Gone
  /\ \/ main' = main
     \/ main \notin Starting \cup Growing /\ main' \notin Starting \cup Pushing

\* A step that does.
Entry ==
  \/ \E t \in Threads : ToWork(t) \/ ToIdle(t) \/ Retire(t)
  \/ CtorCreate \/ CtorPush \/ CtorReturn \/ GrowCreate \/ GrowPush \/ GrowReturn

\* A pool that is in use has been so all along, and its steps are of one kind
\* or the other.
LEMMA StepKind ==
  ASSUME TypeInv, Owns, StageInv, [Next]_vars, InUse'
  PROVE  InUse /\ (Quiet \/ Entry)
<1> USE DEF TypeInv, PhaseInv, TypeOK, Owns, StageInv, InUse, Starting, Joining, Growing, Pushing,
     Gone, At, Goto, Lock, Unlock, poolVars, listVars, callVars, historyVars
<1>1. ASSUME NEW t \in Threads, Loop(t) PROVE InUse /\ (Quiet \/ Entry)
  BY <1>1 DEF Quiet, Loop, Proceed
<1>2. ASSUME NEW t \in Threads, LockTask(t) PROVE InUse /\ (Quiet \/ Entry)
  BY <1>2 DEF Quiet, LockTask, Acquire
<1>3. ASSUME NEW t \in Threads, Check(t) PROVE InUse /\ (Quiet \/ Entry)
  BY <1>3 DEF Quiet, Check, Proceed
<1>4. ASSUME NEW t \in Threads, Wait(t) PROVE InUse /\ (Quiet \/ Entry)
  BY <1>4 DEF Quiet, Wait
<1>5. ASSUME NEW t \in Threads, Timeout(t) PROVE InUse /\ (Quiet \/ Entry)
  BY <1>5 DEF Quiet, Timeout
<1>6. ASSUME NEW t \in Threads, Relock(t) PROVE InUse /\ (Quiet \/ Entry)
  BY <1>6 DEF Quiet, Relock, Acquire
<1>7. ASSUME NEW t \in Threads, Leave(t) PROVE InUse /\ (Quiet \/ Entry)
  BY <1>7 DEF Quiet, Leave
<1>8. ASSUME NEW t \in Threads, Take(t) PROVE InUse /\ (Quiet \/ Entry)
  BY <1>8 DEF Quiet, Take, TakeTask
<1>9. ASSUME NEW t \in Threads, Idle(t) PROVE InUse /\ (Quiet \/ Entry)
  BY <1>9 DEF Quiet, Idle
<1>10. ASSUME NEW t \in Threads, LockToWork(t) PROVE InUse /\ (Quiet \/ Entry)
  BY <1>10 DEF Quiet, LockToWork, Acquire
<1>11. ASSUME NEW t \in Threads, ToWork(t) PROVE InUse /\ (Quiet \/ Entry)
  BY <1>11 DEF Entry, ToWork
<1>12. ASSUME NEW t \in Threads, Run(t) PROVE InUse /\ (Quiet \/ Entry)
  BY <1>12 DEF Quiet, Run
<1>13. ASSUME NEW t \in Threads, Return(t) PROVE InUse /\ (Quiet \/ Entry)
  BY <1>13 DEF Quiet, Return
<1>14. ASSUME NEW t \in Threads, LockToIdle(t) PROVE InUse /\ (Quiet \/ Entry)
  BY <1>14 DEF Quiet, LockToIdle, Acquire
<1>15. ASSUME NEW t \in Threads, ToIdle(t) PROVE InUse /\ (Quiet \/ Entry)
  BY <1>15 DEF Entry, ToIdle
<1>16. ASSUME NEW t \in Threads, LockSize(t) PROVE InUse /\ (Quiet \/ Entry)
  BY <1>16 DEF Quiet, LockSize, Acquire
<1>17. ASSUME NEW t \in Threads, LockThread(t) PROVE InUse /\ (Quiet \/ Entry)
  BY <1>17 DEF Quiet, LockThread, Acquire
<1>18. ASSUME NEW t \in Threads, Retire(t) PROVE InUse /\ (Quiet \/ Entry)
  BY <1>18 DEF Entry, Retire
<1>19. ASSUME NEW t \in Threads, Stay(t) PROVE InUse /\ (Quiet \/ Entry)
  BY <1>19 DEF Quiet, Stay
<1>20. ASSUME NEW t \in Threads, Detach(t) PROVE InUse /\ (Quiet \/ Entry)
  BY <1>20 DEF Quiet, Detach
<1>21. CASE CtorCreate
  BY <1>21 DEF Entry, CtorCreate
<1>22. CASE CtorPush
  BY <1>22 DEF Entry, CtorPush
<1>23. CASE CtorReturn
  BY <1>23 DEF Entry, CtorReturn
<1>24. CASE AddTask
  BY <1>24 DEF Quiet, AddTask, MainProceed
<1>25. CASE AddLock
  BY <1>25 DEF Quiet, AddLock, MainAcquire
<1>26. CASE Push
  BY <1>26 DEF Quiet, Push, Signal
<1>27. CASE AddLockSize
  BY <1>27 DEF Quiet, AddLockSize, MainAcquire
<1>28. CASE AddLockThread
  BY <1>28 DEF Quiet, AddLockThread, MainAcquire
<1>29. CASE NoGrowth
  BY <1>29 DEF Quiet, NoGrowth
<1>30. CASE Grow
  BY <1>30 DEF Quiet, Grow, MainProceed
<1>31. CASE GrowCreate
  BY <1>31 DEF Entry, GrowCreate
<1>32. CASE GrowPush
  BY <1>32 DEF Entry, GrowPush
<1>33. CASE GrowReturn
  BY <1>33 DEF Entry, GrowReturn
<1>34. CASE Destroy
  BY <1>34 DEF Quiet, Destroy, MainProceed
<1>35. CASE SeeNoWork
  BY <1>35 DEF Quiet, SeeNoWork, MainProceed
<1>36. CASE SeeTasks
  BY <1>36 DEF Quiet, SeeTasks, MainProceed
<1>37. CASE SetDestroy
  BY <1>37 DEF Quiet, SetDestroy
<1>38. CASE WakeAll
  BY <1>38 DEF Quiet, WakeAll, Broadcast
<1>39. CASE JoinTest
  BY <1>39 DEF Quiet, JoinTest, MainProceed
<1>40. CASE JoinBack
  BY <1>40 DEF Quiet, JoinBack, Back
<1>41. CASE Join
  BY <1>41 DEF Quiet, Join
<1>42. CASE Pop
  BY <1>42 DEF Quiet, Pop, PopBack
<1>43. CASE Abort
  BY <1>43 DEF Quiet, Abort, Undefined, UnguardedVisit, MainProceed
<1>44. CASE UNCHANGED vars
  BY <1>44 DEF Quiet, vars
<1> QED
  BY <1>1, <1>2, <1>3, <1>4, <1>5, <1>6, <1>7, <1>8, <1>9, <1>10, <1>11, <1>12, <1>13, <1>14,
     <1>15, <1>16, <1>17, <1>18, <1>19, <1>20, <1>21, <1>22, <1>23, <1>24, <1>25, <1>26, <1>27,
     <1>28, <1>29, <1>30, <1>31, <1>32, <1>33, <1>34, <1>35, <1>36, <1>37, <1>38, <1>39, <1>40,
     <1>41, <1>42, <1>43, <1>44
     DEF Next, Worker, MainStep, Ended

\* What the steps of the two lists make of them.
LEMMA ListSteps ==
  ASSUME TypeInv
  PROVE  /\ \A t \in Threads : ToWork(t) => Elements(m_threadid') = Elements(m_threadid) \ {t}
         /\ \A t \in Threads : Retire(t) => Elements(m_threadid') = Elements(m_threadid) \ {t}
         /\ \A t \in Threads : ToIdle(t) => Elements(m_threadid') = Elements(m_threadid) \cup {t}
         /\ PushThreadid => Elements(m_threadid') = Elements(m_threadid) \cup {threadid}
<1> DEFINE Ids == Threads \cup {None}
<1>1. m_threadid \in Seq(Ids) /\ threadid \in Ids
  BY DEF TypeInv, TypeOK
<1>2. \A t \in Threads : Elements(RemoveAll(m_threadid, t)) = Elements(m_threadid) \ {t}
  <2> HIDE DEF Ids
  <2> QED BY <1>1, RemoveAllElements
<1>3. \A t \in Ids : Elements(Append(m_threadid, t)) = Elements(m_threadid) \cup {t}
  <2> HIDE DEF Ids
  <2> QED BY <1>1, AppendElements
<1> QED BY <1>1, <1>2, <1>3 DEF ToWork, Retire, ToIdle, IdleList, PushThreadid

\* A quiet step leaves the live workers and the thread asked for as they are.
LEMMA QuietStep ==
  ASSUME Quiet
  PROVE  /\ Live' = Live /\ Unlisted' = Unlisted /\ Created' = Created
         /\ UNCHANGED <<m_pool_size, m_threadid, m_threadid_work, i, failed>>
BY DEF Quiet, Live, Unlisted, Created, Gone, Starting, Growing, Pushing, listVars

\* A worker that goes to work or comes back lives on,
LEMMA ListedLives ==
  ASSUME TypeInv, Owns, NEW t \in Threads, ToWork(t) \/ ToIdle(t)
  PROVE  /\ Live' = Live /\ t \in Live /\ main' = main /\ main \notin Growing
         /\ UNCHANGED <<m_pool_size, i, threadid, failed>>
<1> USE DEF TypeInv, TypeOK, Owns, Growing
<1>1. CASE ToWork(t)
  <2>1. pc[t] = "to_work" /\ \A u \in Threads : pc'[u] = IF u = t THEN "run" ELSE pc[u]
    BY <1>1 DEF ToWork, At, Goto
  <2>2. Live' = Live /\ t \in Live
    BY <2>1 DEF Live
  <2> QED BY <1>1, <2>1, <2>2, PoolAssumption DEF ToWork, callVars, historyVars
<1>2. CASE ToIdle(t)
  <2>1. pc[t] = "to_idle" /\ \A u \in Threads : pc'[u] = IF u = t THEN "loop" ELSE pc[u]
    BY <1>2 DEF ToIdle, At, Goto
  <2>2. Live' = Live /\ t \in Live
    BY <2>1 DEF Live
  <2> QED BY <1>2, <2>1, <2>2, PoolAssumption DEF ToIdle, callVars, historyVars
<1> QED BY <1>1, <1>2

\* one that retires does not,
LEMMA RetiredDies ==
  ASSUME TypeInv, Owns, NEW t \in Threads, Retire(t)
  PROVE  /\ Live' = Live \ {t} /\ t \in Live /\ main' = main /\ main \notin Growing
         /\ m_pool_size > MIN_POOL_SIZE /\ m_pool_size' = m_pool_size - 1
         /\ UNCHANGED <<m_threadid_work, i, threadid, failed>>
<1>1. pc[t] = "trim" /\ \A u \in Threads : pc'[u] = IF u = t THEN "detach" ELSE pc[u]
  BY DEF Retire, At, Goto, TypeInv, TypeOK
<1>2. Live' = Live \ {t} /\ t \in Live
  BY <1>1 DEF Live
<1> QED BY <1>1, <1>2, PoolAssumption
        DEF Retire, TooManyIdle, callVars, historyVars, Owns, Growing

\* and one that is created did not live before.
LEMMA CreationLives ==
  ASSUME TypeInv, PthreadCreate
  PROVE  \/ /\ threadid' \in Threads /\ threadid' \notin Live /\ Live' = Live \cup {threadid'}
            /\ failed' = failed
         \/ Live' = Live /\ failed' = failed + 1
<1>1. CASE \E t \in Threads :
             pc[t] = "none" /\ Goto(t, "loop") /\ threadid' = t /\ UNCHANGED failed
  <2>1. PICK t \in Threads :
          pc[t] = "none" /\ Goto(t, "loop") /\ threadid' = t /\ UNCHANGED failed
    BY <1>1
  <2>2. \A u \in Threads : pc'[u] = IF u = t THEN "loop" ELSE pc[u]
    BY <2>1 DEF Goto, TypeInv, TypeOK
  <2> QED BY <2>1, <2>2 DEF Live
<1>2. CASE failed' = failed + 1 /\ UNCHANGED pc
  BY <1>2 DEF Live
<1> QED BY <1>1, <1>2 DEF PthreadCreate

\* No live worker drops out of the lists.
LEMMA ListNext ==
  ASSUME TypeInv, Owns, StageInv, ListInv, [Next]_vars, InUse'
  PROVE  ListInv'
<1>1. CASE Quiet
  BY <1>1, QuietStep DEF ListInv
<1>2. ASSUME NEW t \in Threads, ToWork(t) PROVE ListInv'
  <2>1. Live' = Live /\ Unlisted' = Unlisted
    BY <1>2, ListedLives DEF Unlisted
  <2>2. m_threadid_work' = m_threadid_work \cup {t}
    BY <1>2 DEF ToWork
  <2> QED BY <1>2, <2>1, <2>2, ListSteps DEF ListInv
<1>3. ASSUME NEW t \in Threads, ToIdle(t) PROVE ListInv'
  <2>1. Live' = Live /\ Unlisted' = Unlisted
    BY <1>3, ListedLives DEF Unlisted
  <2>2. m_threadid_work' = m_threadid_work \ {t}
    BY <1>3 DEF ToIdle
  <2> QED BY <1>3, <2>1, <2>2, ListSteps DEF ListInv
<1>4. ASSUME NEW t \in Threads, Retire(t) PROVE ListInv'
  <2>1. Live' = Live \ {t} /\ Unlisted' = Unlisted /\ m_threadid_work' = m_threadid_work
    BY <1>4, RetiredDies DEF Unlisted
  <2> QED BY <1>4, <2>1, ListSteps DEF ListInv
<1>5. CASE CtorCreate \/ GrowCreate
  <2>1. /\ PthreadCreate /\ UNCHANGED <<m_threadid, m_threadid_work>>
        /\ Unlisted = {} /\ Unlisted' = {threadid'}
    BY <1>5 DEF CtorCreate, GrowCreate, poolVars, listVars, Unlisted, Pushing
  <2> QED BY <2>1, CreationLives DEF ListInv
<1>6. CASE CtorPush \/ GrowPush
  <2>1. /\ PushThreadid /\ UNCHANGED <<pc, m_threadid_work>>
        /\ Unlisted = {threadid} /\ Unlisted' = {}
    BY <1>6 DEF CtorPush, GrowPush, Unlisted, Pushing
  <2>2. Live' = Live
    BY <2>1 DEF Live
  <2> QED BY <2>1, <2>2, ListSteps DEF ListInv
<1>7. CASE CtorReturn \/ GrowReturn
  <2>1. UNCHANGED <<pc, m_threadid, m_threadid_work>> /\ Unlisted = {} /\ Unlisted' = {}
    BY <1>7 DEF CtorReturn, GrowReturn, poolVars, listVars, Unlisted, Pushing
  <2>2. Live' = Live
    BY <2>1 DEF Live
  <2> QED BY <2>1, <2>2 DEF ListInv
<1> QED BY <1>1, <1>2, <1>3, <1>4, <1>5, <1>6, <1>7, StepKind DEF Entry

\* m_pool_size is right about how many live, with the loop counters to help it
\* while threads are being created.
LEMMA CountNext ==
  ASSUME TypeInv, Owns, StageInv, Size <= MIN_POOL_SIZE, CountInv, [Next]_vars, InUse'
  PROVE  CountInv'
<1>0. /\ m_pool_size \in Nat /\ i \in Nat /\ failed \in Nat /\ Size \in Nat
      /\ MIN_POOL_SIZE \in Nat /\ m_pool_size \div 2 \in Nat
  BY PoolAssumption DEF TypeInv, TypeOK
<1>00. IsFiniteSet(Live) /\ Cardinality(Live) \in Nat
  <2>1. Live \in SUBSET Threads
    BY DEF Live
  <2>2. IsFiniteSet(Live)
    BY <2>1, PoolAssumption, FS_Subset
  <2> QED BY <2>2, FS_CardinalityType
<1>1. CASE Quiet
  <2>1. \/ main' = main
        \/ main \notin Starting \cup Growing /\ main' \notin Starting \cup Pushing
    BY <1>1 DEF Quiet
  <2>2. CASE main' = main
    BY <1>1, <2>2, QuietStep DEF CountInv, Asked
  <2>3. CASE main \notin Starting \cup Growing /\ main' \notin Starting \cup Pushing
    <3>1. i = 0 /\ Created = 0 /\ Asked' = Asked
      BY <1>0, <1>1, <2>3, QuietStep
         DEF CountInv, Asked, Created, Starting, Growing, Pushing
    <3>2. m_pool_size' \div 2 >= 0
      BY <1>0, <1>1, QuietStep
    <3> QED BY <1>1, <2>3, <3>1, <3>2, QuietStep DEF CountInv
  <2> QED BY <2>1, <2>2, <2>3
<1>2. ASSUME NEW t \in Threads, ToWork(t) \/ ToIdle(t) PROVE CountInv'
  BY <1>2, ListedLives DEF CountInv, Asked, Created
<1>3. ASSUME NEW t \in Threads, Retire(t) PROVE CountInv'
  <2>1. /\ main' = main /\ main \notin Growing /\ m_pool_size' = m_pool_size - 1
        /\ m_pool_size > MIN_POOL_SIZE
        /\ i' = i /\ failed' = failed /\ Created' = Created
    BY <1>3, RetiredDies DEF Created
  <2>2. main \notin Starting
    BY <1>0, <2>1 DEF StageInv
  <2>3. Cardinality(Live') = Cardinality(Live) - 1
    <3>1. Live' = Live \ {t} /\ t \in Live
      BY <1>3, RetiredDies
    <3> QED BY <1>00, <3>1, FS_RemoveElement
  <2>4. Asked' = Asked - 1
    <3>1. Created \in Nat
      BY DEF Created
    <3> QED BY <1>0, <2>1, <2>2, <3>1 DEF Asked
  <2>5. Asked \in Nat
    <3>1. Created \in Nat
      BY DEF Created
    <3> QED BY <1>0, <3>1 DEF Asked
  <2> QED BY <1>0, <1>00, <2>1, <2>2, <2>3, <2>4, <2>5 DEF CountInv, Growing, Starting
<1>4. CASE CtorCreate \/ GrowCreate
  <2>1. /\ PthreadCreate /\ UNCHANGED <<m_pool_size, i>>
        /\ Created = 0 /\ Created' = 1
    BY <1>4 DEF CtorCreate, GrowCreate, poolVars, Created, Pushing
  <2>2. Cardinality(Live') + failed' = Cardinality(Live) + failed + 1
    <3>1. CASE threadid' \notin Live /\ Live' = Live \cup {threadid'} /\ failed' = failed
      <4>1. Cardinality(Live') = Cardinality(Live) + 1
        BY <1>00, <3>1, FS_AddElement
      <4> QED BY <1>0, <1>00, <3>1, <4>1
    <3>2. CASE Live' = Live /\ failed' = failed + 1
      BY <1>0, <1>00, <3>2
    <3> QED BY <2>1, <3>1, <3>2, CreationLives
  <2>3. CASE CtorCreate
    <3>1. main = "ctor" /\ main' = "ctor_push" /\ i < m_pool_size /\ m_pool_size = Size
      BY <2>3 DEF CtorCreate, StageInv, Starting
    <3>2. Asked = i /\ Asked' = i + 1
      BY <1>0, <2>1, <3>1 DEF Asked, Starting
    <3>3. i' + Created' <= Size /\ main' \in Starting /\ main' \notin Growing
      BY <1>0, <2>1, <3>1 DEF Starting, Growing
    <3>4. Cardinality(Live') + failed' = Asked'
      BY <2>2, <3>2 DEF CountInv
    <3> QED BY <3>3, <3>4 DEF CountInv
  <2>4. CASE GrowCreate
    <3>1. main = "grow" /\ main' = "grow_push" /\ i < m_pool_size \div 2
      BY <2>4 DEF GrowCreate
    <3>2. Asked = m_pool_size + i /\ Asked' = m_pool_size + i + 1
      BY <1>0, <2>1, <3>1 DEF Asked, Starting
    <3> QED BY <1>0, <1>00, <2>1, <2>2, <3>1, <3>2 DEF CountInv, Starting, Growing
  <2> QED BY <1>4, <2>3, <2>4
<1>5. CASE CtorPush \/ GrowPush
  <2>1. UNCHANGED <<pc, m_pool_size, failed>> /\ i' = i + 1 /\ Created = 1 /\ Created' = 0
    BY <1>5 DEF CtorPush, GrowPush, PushThreadid, historyVars, Created, Pushing
  <2>2. Live' = Live
    BY <2>1 DEF Live
  <2>3. /\ main \in Starting <=> main' \in Starting
        /\ main \in Growing <=> main' \in Growing
    BY <1>5 DEF CtorPush, GrowPush, Starting, Growing
  <2>4. Asked' = Asked
    BY <1>0, <2>1, <2>3 DEF Asked
  <2> QED BY <1>0, <2>1, <2>2, <2>3, <2>4 DEF CountInv
<1>6. CASE CtorReturn
  <2>1. /\ main = "ctor" /\ main' = "ready" /\ UNCHANGED <<pc, m_pool_size, failed>>
        /\ i >= m_pool_size /\ i' = 0 /\ m_pool_size = Size
    BY <1>6 DEF CtorReturn, poolVars, historyVars, StageInv, Starting
  <2>2. Live' = Live /\ Created = 0 /\ Created' = 0
    BY <2>1 DEF Live, Created, Pushing
  <2>3. i = Size
    BY <1>0, <2>1, <2>2 DEF CountInv, Starting
  <2>4. Asked = Size /\ Asked' = Size
    BY <1>0, <2>1, <2>2, <2>3 DEF Asked, Starting
  <2> QED BY <1>0, <2>1, <2>2, <2>4 DEF CountInv, Starting, Growing
<1>7. CASE GrowReturn
  <2>1. /\ main = "grow" /\ main' = "ready" /\ UNCHANGED <<pc, failed>>
        /\ i >= m_pool_size \div 2 /\ i' = 0 /\ m_pool_size' = m_pool_size + m_pool_size \div 2
    BY <1>7 DEF GrowReturn, GrownSize, historyVars
  <2>2. Live' = Live /\ Created = 0 /\ Created' = 0
    BY <2>1 DEF Live, Created, Pushing
  <2>3. i = m_pool_size \div 2
    BY <1>0, <2>1, <2>2 DEF CountInv, Starting, Growing
  <2>4. Asked' = Asked
    BY <1>0, <2>1, <2>2, <2>3 DEF Asked, Starting
  <2> QED BY <1>0, <2>1, <2>2, <2>4 DEF CountInv, Starting, Growing
<1> QED BY <1>1, <1>2, <1>3, <1>4, <1>5, <1>6, <1>7, StepKind DEF Entry

\* While no creation fails, the lists hold the live workers, each once.
LEMMA UniqueNext ==
  ASSUME TypeInv, Owns, StageInv, WorkInv, Size <= MIN_POOL_SIZE, UniqueInv, [Next]_vars, InUse',
         failed' = failed
  PROVE  UniqueInv'
<1> DEFINE Ids == Threads \cup {None}
<1>0. m_threadid \in Seq(Ids) /\ threadid \in Ids /\ failed \in Nat /\ failed + 1 # failed
  BY DEF TypeInv, TypeOK
<1>1. CASE Quiet
  BY <1>1, QuietStep DEF UniqueInv
<1>2. ASSUME NEW t \in Threads, ToWork(t) PROVE UniqueInv'
  <2>1. Live' = Live /\ t \in Live /\ Unlisted' = Unlisted /\ Unlisted = {}
    <3>1. main # "ctor_push"
      BY <1>2 DEF ToWork, At, StageInv, Starting, Busy
    <3> QED BY <1>2, <3>1, ListedLives DEF Unlisted, Growing, Pushing
  <2>2. m_threadid_work' = m_threadid_work \cup {t} /\ t \notin m_threadid_work
    BY <1>2 DEF ToWork, At, WorkInv, AtWork
  <2>3. Distinct(m_threadid')
    <3>1. m_threadid' = RemoveAll(m_threadid, t)
      BY <1>2 DEF ToWork
    <3> HIDE DEF Ids
    <3> QED BY <1>0, <3>1, RemoveAllDistinct DEF UniqueInv
  <2>4. Elements(m_threadid') = Elements(m_threadid) \ {t}
    BY <1>2, ListSteps
  <2> QED BY <2>1, <2>2, <2>3, <2>4 DEF UniqueInv
<1>3. ASSUME NEW t \in Threads, ToIdle(t) PROVE UniqueInv'
  <2>1. Live' = Live /\ t \in Live /\ Unlisted' = Unlisted
    BY <1>3, ListedLives DEF Unlisted
  <2>2. m_threadid_work' = m_threadid_work \ {t} /\ t \in m_threadid_work
    BY <1>3 DEF ToIdle, At, WorkInv, AtWork
  <2>3. Distinct(m_threadid')
    <3>1. m_threadid' = Append(m_threadid, t)
      BY <1>3 DEF ToIdle, IdleList
    <3>2. t \in Ids /\ t \notin Elements(m_threadid) /\ Distinct(m_threadid)
      BY <2>2 DEF UniqueInv
    <3> HIDE DEF Ids
    <3> QED BY <1>0, <3>1, <3>2, AppendDistinct
  <2>4. Elements(m_threadid') = Elements(m_threadid) \cup {t}
    BY <1>3, ListSteps
  <2> QED BY <2>1, <2>2, <2>3, <2>4 DEF UniqueInv
<1>4. ASSUME NEW t \in Threads, Retire(t) PROVE UniqueInv'
  <2>1. /\ Live' = Live \ {t} /\ t \in Live /\ m_threadid_work' = m_threadid_work
        /\ Unlisted' = Unlisted /\ Unlisted = {}
    <3>1. main \notin Starting
      BY <1>4, RetiredDies, PoolAssumption DEF StageInv
    <3> QED BY <1>4, <3>1, RetiredDies DEF Unlisted, Starting, Growing, Pushing
  <2>2. t \notin m_threadid_work
    BY <1>4 DEF Retire, At, WorkInv, AtWork
  <2>3. Distinct(m_threadid')
    <3>1. m_threadid' = RemoveAll(m_threadid, t)
      BY <1>4 DEF Retire
    <3> HIDE DEF Ids
    <3> QED BY <1>0, <3>1, RemoveAllDistinct DEF UniqueInv
  <2>4. Elements(m_threadid') = Elements(m_threadid) \ {t}
    BY <1>4, ListSteps
  <2> QED BY <2>1, <2>2, <2>3, <2>4 DEF UniqueInv
<1>5. CASE CtorCreate \/ GrowCreate
  <2>1. /\ PthreadCreate /\ UNCHANGED <<m_threadid, m_threadid_work>>
        /\ Unlisted = {} /\ Unlisted' = {threadid'}
    BY <1>5 DEF CtorCreate, GrowCreate, poolVars, listVars, Unlisted, Pushing
  <2>2. threadid' \notin Live /\ Live' = Live \cup {threadid'}
    BY <1>0, <2>1, CreationLives
  <2> QED BY <2>1, <2>2 DEF UniqueInv
<1>6. CASE CtorPush \/ GrowPush
  <2>1. /\ PushThreadid /\ UNCHANGED <<pc, m_threadid_work>>
        /\ Unlisted = {threadid} /\ Unlisted' = {}
    BY <1>6 DEF CtorPush, GrowPush, Unlisted, Pushing
  <2>2. Live' = Live
    BY <2>1 DEF Live
  <2>3. Distinct(m_threadid')
    <3>1. m_threadid' = Append(m_threadid, threadid)
      BY <2>1 DEF PushThreadid
    <3>2. threadid \notin Elements(m_threadid) /\ Distinct(m_threadid)
      BY <2>1 DEF UniqueInv
    <3> HIDE DEF Ids
    <3> QED BY <1>0, <3>1, <3>2, AppendDistinct
  <2>4. Elements(m_threadid') = Elements(m_threadid) \cup {threadid}
    BY <2>1, ListSteps
  <2> QED BY <2>1, <2>2, <2>3, <2>4 DEF UniqueInv
<1>7. CASE CtorReturn \/ GrowReturn
  <2>1. UNCHANGED <<pc, m_threadid, m_threadid_work>> /\ Unlisted = {} /\ Unlisted' = {}
    BY <1>7 DEF CtorReturn, GrowReturn, poolVars, listVars, Unlisted, Pushing
  <2>2. Live' = Live
    BY <2>1 DEF Live
  <2> QED BY <2>1, <2>2 DEF UniqueInv
<1> QED BY <1>1, <1>2, <1>3, <1>4, <1>5, <1>6, <1>7, StepKind DEF Entry

\* A creation that failed is never forgiven.
LEMMA FailedNext ==
  ASSUME TypeInv, Owns, StageInv, [Next]_vars, InUse', failed' = 0
  PROVE  failed = 0
<1>0. failed \in Nat
  BY DEF TypeInv, TypeOK
<1>1. failed' = failed \/ failed' = failed + 1
  <2>1. CASE Quiet
    BY <2>1 DEF Quiet
  <2>2. CASE Entry
    BY <2>2 DEF Entry, ToWork, ToIdle, Retire, CtorCreate, CtorPush, CtorReturn, GrowCreate,
         GrowPush, GrowReturn, PthreadCreate, historyVars
  <2> QED BY <2>1, <2>2, StepKind
<1> QED BY <1>0, <1>1

------------------------------------------------------------------------------
(* The invariant. *)

LEMMA BooksNext == TypeInv /\ Owns /\ BooksInv /\ [Next]_vars => BooksInv'
<1> SUFFICES ASSUME TypeInv, Owns, BooksInv, [Next]_vars PROVE BooksInv'
  OBVIOUS
<1>1. StageInv /\ WorkInv /\ HuntInv
  BY DEF BooksInv
<1>2. StageInv' /\ WorkInv' /\ HuntInv'
  BY <1>1, StageNext, WorkNext, HuntNext
<1>3. ASSUME InUse', Size <= MIN_POOL_SIZE PROVE CountInv'
  <2>1. InUse
    BY <1>1, <1>3, StepKind
  <2> QED BY <1>1, <1>3, <2>1, CountNext DEF BooksInv
<1>4. ASSUME InUse' PROVE ListInv'
  <2>1. InUse
    BY <1>1, <1>4, StepKind
  <2> QED BY <1>1, <1>4, <2>1, ListNext DEF BooksInv
<1>5. ASSUME InUse', Size <= MIN_POOL_SIZE, failed' = 0 PROVE UniqueInv'
  <2>1. InUse /\ failed = 0
    BY <1>1, <1>5, StepKind, FailedNext
  <2> QED BY <1>1, <1>5, <2>1, UniqueNext DEF BooksInv
<1> QED BY <1>2, <1>3, <1>4, <1>5 DEF BooksInv

\* It holds of the reachable states.
THEOREM BooksInductive == Spec => []BooksInv
<1>1. Init => BooksInv
  BY BooksInit
<1>2. Inductive /\ BooksInv /\ [Next]_vars => BooksInv'
  BY BooksNext DEF Inductive
<1> QED BY <1>1, <1>2, AlwaysInductive, PTL DEF Spec

------------------------------------------------------------------------------
(* What it implies. *)

\* The lists and m_pool_size agree with the threads that live, as the counters
\* of the loops that create them are at rest whenever m_thread_mutex is free.
LEMMA BooksAgree == TypeInv /\ Owns /\ BooksInv => PoolAccounting
<1> SUFFICES ASSUME TypeInv, Owns, BooksInv, Size <= MIN_POOL_SIZE, ListsAtRest
             PROVE  /\ m_pool_size = Cardinality(Live) + failed
                    /\ failed = 0 =>
                         /\ Elements(m_threadid) \cup m_threadid_work = Live
                         /\ Elements(m_threadid) \cap m_threadid_work = {}
                         /\ Cardinality(Elements(m_threadid)) = Len(m_threadid)
  BY DEF PoolAccounting
<1>1. InUse /\ main \notin Starting \cup Growing
  BY PoolAssumption DEF ListsAtRest, InUse, BooksInv, StageInv, Owns, Starting, Growing
<1>2. Created = 0 /\ Unlisted = {}
  BY <1>1 DEF Created, Unlisted, Starting, Growing, Pushing
<1>3. m_pool_size = Cardinality(Live) + failed
  <2>1. i = 0
    BY <1>1, <1>2 DEF BooksInv, CountInv, TypeInv, TypeOK
  <2>2. Asked = m_pool_size
    BY <1>1, <1>2, <2>1 DEF Asked, TypeInv, TypeOK
  <2> QED BY <1>1, <2>2 DEF BooksInv, CountInv
<1>4. ASSUME failed = 0
      PROVE  /\ Elements(m_threadid) \cup m_threadid_work = Live
             /\ Elements(m_threadid) \cap m_threadid_work = {}
             /\ Cardinality(Elements(m_threadid)) = Len(m_threadid)
  <2>1. UniqueInv
    BY <1>1, <1>4 DEF BooksInv
  <2>2. m_threadid \in Seq(Threads \cup {None})
    BY DEF TypeInv, TypeOK
  <2>3. Cardinality(Elements(m_threadid)) = Len(m_threadid)
    BY <2>1, <2>2, DistinctCardinality DEF UniqueInv
  <2> QED BY <1>2, <2>1, <2>3 DEF UniqueInv
<1> QED BY <1>3, <1>4

\* Every live worker can be found.
LEMMA BooksList == TypeInv /\ Owns /\ BooksInv => NoWorkerForgotten
<1> SUFFICES ASSUME Owns, BooksInv, ListsAtRest
             PROVE  Live \subseteq Elements(m_threadid) \cup m_threadid_work
  BY DEF NoWorkerForgotten
<1>1. InUse /\ main \notin Starting \cup Growing
  BY PoolAssumption DEF ListsAtRest, InUse, BooksInv, StageInv, Owns, Starting, Growing
<1>2. Unlisted = {}
  BY <1>1 DEF Unlisted, Starting, Growing, Pushing
<1> QED BY <1>1, <1>2 DEF BooksInv, ListInv

\* As many live as the pool has, less the failed; either one of them sleeps, and
\* then somebody else does not, or it is up itself.
LEMMA BooksWake == TypeInv /\ KeepsMinimum /\ BooksInv => NoStrandedTask
<1> SUFFICES ASSUME TypeInv, KeepsMinimum, BooksInv,
                    Size <= MIN_POOL_SIZE, failed < Size, m_task # <<>>, main # "push"
             PROVE  Awake # {}
  BY DEF NoStrandedTask
<1>0. /\ m_pool_size \in Nat /\ i \in Nat /\ failed \in Nat /\ Created \in Nat
      /\ Size \in Nat /\ MIN_POOL_SIZE \in Nat
  BY PoolAssumption DEF TypeInv, TypeOK, Created
<1>1. InUse /\ main \notin Starting
  BY DEF BooksInv, StageInv, InUse, TypeInv, TypeOK
<1>2. m_pool_size >= Size
  BY <1>0 DEF KeepsMinimum
<1>3. Live # {}
  <2>1. Asked >= Size
    BY <1>0, <1>1, <1>2 DEF Asked
  <2>2. Cardinality(Live) + failed = Asked
    BY <1>1 DEF BooksInv, CountInv
  <2>3. Cardinality(Live) # 0
    BY <1>0, <2>1, <2>2
  <2>4. Cardinality({}) = 0
    BY FS_EmptySet
  <2> QED BY <2>3, <2>4
<1>4. PICK t \in Threads : pc[t] \notin Gone
  BY <1>3 DEF Live, Gone
<1>5. CASE pc[t] = "waiting"
  <2>1. waiting # {}
    BY <1>5 DEF TypeInv, PhaseInv
  <2>2. \E u \in Threads : pc[u] \notin Gone \cup Leaving \cup {"waiting"}
    BY <2>1 DEF BooksInv, HuntInv
  <2> QED BY <2>2 DEF Awake, Gone
<1>6. CASE pc[t] # "waiting"
  BY <1>4, <1>6 DEF Awake, Gone
<1> QED BY <1>5, <1>6

\* m_pool_size and the two lists tell the truth about the live workers whenever
\* the pool is in use and m_thread_mutex free.
THEOREM BooksTrue == Spec => []PoolAccounting
<1>1. Inductive /\ BooksInv => PoolAccounting
  BY BooksAgree DEF Inductive
<1> QED BY <1>1, AlwaysInductive, BooksInductive, PTL

\* No live worker is missing from both lists, whatever creations fail.
THEOREM NoneForgotten == Spec => []NoWorkerForgotten
<1>1. Inductive /\ BooksInv => NoWorkerForgotten
  BY BooksList DEF Inductive
<1> QED BY <1>1, AlwaysInductive, BooksInductive, PTL

\* A queued task has somebody awake to find it.
THEOREM NoneStranded == Spec => []NoStrandedTask
<1>1. Inductive /\ BooksInv => NoStrandedTask
  BY BooksWake DEF Inductive
<1> QED BY <1>1, AlwaysInductive, BooksInductive, PTL

==============================================================================
