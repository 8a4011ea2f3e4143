----------------------------- MODULE TaskService -----------------------------
(***************************************************************************)
(* What a user of the thread pool may rely on, without its threads, locks  *)
(* and lists: tasks are numbered by their addTask call, leave the queue in *)
(* that order, run side by side, each exactly once, and all of them finish *)
(* unless the process is killed.  ThreadPool implements this               *)
(* specification.                                                          *)
(***************************************************************************)
EXTENDS Naturals, Sequences

CONSTANT MaxTasks  \* bound on the number of submissions

VARIABLES
  submitted,  \* number of tasks accepted so far
  queue,      \* accepted and not started, oldest first
  running,    \* started and not finished
  finished    \* finished

serviceVars == <<submitted, queue, running, finished>>

ServiceInit ==
  /\ submitted = 0
  /\ queue = <<>>
  /\ running = {}
  /\ finished = {}

Submit ==
  /\ submitted < MaxTasks
  /\ submitted' = submitted + 1
  /\ queue' = Append(queue, submitted')
  /\ UNCHANGED <<running, finished>>

Start ==
  /\ queue # <<>>
  /\ queue' = Tail(queue)
  /\ running' = running \cup {Head(queue)}
  /\ UNCHANGED <<submitted, finished>>

Finish(k) ==
  /\ k \in running
  /\ running' = running \ {k}
  /\ finished' = finished \cup {k}
  /\ UNCHANGED <<submitted, queue>>

ServiceNext == Submit \/ Start \/ \E k \in 1..MaxTasks : Finish(k)

ServiceSpec == ServiceInit /\ [][ServiceNext]_serviceVars

==============================================================================
