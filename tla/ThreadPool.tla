----------------------------- MODULE ThreadPool -----------------------------
(***************************************************************************)
(* The process-wide thread pool (core/thread/thread_pool.cpp): N workers   *)
(* over the queue g_tasks, one scheduler thread over the delay queue       *)
(* g_delayed, and initialize/shutdown, called by one controlling thread.   *)
(*                                                                         *)
(* Every critical section of g_mu is one step.  The condition variables    *)
(* are explicit: a thread asleep in g_cv or g_sched_cv moves only when     *)
(* somebody notifies it, and a notify that the code issues after unlocking *)
(* is a step of its own.  A task is an identifier posted at most once;     *)
(* a periodic task is a sequence of identifiers.                           *)
(***************************************************************************)
EXTENDS Naturals, Sequences, FiniteSets

CONSTANTS
  Tasks,      \* identifiers of the std::function objects posted
  Workers,    \* the pool's worker threads
  MaxInits    \* bound: how often initialize() starts the pool

ASSUME PoolAssumption ==
  /\ Workers # {}
  /\ MaxInits \in Nat

VARIABLES
  g_tasks,     \* std::queue of tasks ready to run
  g_delayed,   \* multimap of delayed tasks, in the order of their due times
  g_stop,      \* the stop flag
  worker,      \* where each worker thread is in worker_loop
  running,     \* the task each worker is executing, as a set of at most one
  scheduler,   \* where the scheduler thread is in scheduler_loop
  control,     \* where the controlling thread is in initialize/shutdown
  notifies,    \* posters between unlocking g_mu and g_cv.notify_one()
  schedNotifies, \* posters between unlocking g_mu and g_sched_cv.notify_one()
  inits,       \* history: initialize() calls that started the pool
  posted,      \* history: tasks handed to post or post_after
  ran,         \* history: tasks a worker has begun to execute
  owed,        \* history: g_tasks at the moment the last shutdown set g_stop
  cancelled,   \* history: delayed tasks that shutdowns removed
  leftover     \* history: delayed tasks pending when a shutdown of a running pool returned

threadVars == <<worker, running, scheduler, control>>
history == <<inits, posted, ran, owed, cancelled, leftover>>
vars == <<g_tasks, g_delayed, g_stop, threadVars, notifies, schedNotifies, history>>

Elements(s) == {s[i] : i \in 1..Len(s)}

Init ==
  /\ g_tasks = <<>>
  /\ g_delayed = <<>>
  /\ g_stop = FALSE
  /\ worker = [w \in Workers |-> "off"]
  /\ running = [w \in Workers |-> {}]
  /\ scheduler = "off"
  /\ control = "down"
  /\ notifies = 0
  /\ schedNotifies = 0
  /\ inits = 0
  /\ posted = {}
  /\ ran = {}
  /\ owed = {}
  /\ cancelled = {}
  /\ leftover = {}

-----------------------------------------------------------------------------
(* Posting: any thread, in any state of the pool (the code has no check). *)

\* post, and post_after with a delay <= 0.
Post(t) ==
  /\ t \notin posted
  /\ posted' = posted \cup {t}
  /\ g_tasks' = Append(g_tasks, t)
  /\ notifies' = notifies + 1
  /\ UNCHANGED <<g_delayed, g_stop, threadVars, schedNotifies,
                 inits, ran, owed, cancelled, leftover>>

\* g_cv.notify_one(): wakes one worker asleep in g_cv, if there is one.
Notify ==
  /\ notifies > 0
  /\ notifies' = notifies - 1
  /\ \/ \E w \in Workers : /\ worker[w] = "waiting"
                           /\ worker' = [worker EXCEPT ![w] = "ready"]
     \/ /\ \A w \in Workers : worker[w] # "waiting"
        /\ UNCHANGED worker
  /\ UNCHANGED <<g_tasks, g_delayed, g_stop, running, scheduler, control,
                 schedNotifies, history>>

\* post_after with a positive delay: the due time decides the position.
PostAfter(t, i) ==
  /\ t \notin posted
  /\ i \in 0..Len(g_delayed)
  /\ posted' = posted \cup {t}
  /\ g_delayed' = SubSeq(g_delayed, 1, i) \o <<t>> \o SubSeq(g_delayed, i + 1, Len(g_delayed))
  /\ schedNotifies' = schedNotifies + 1
  /\ UNCHANGED <<g_tasks, g_stop, threadVars, notifies,
                 inits, ran, owed, cancelled, leftover>>

\* g_sched_cv.notify_one() of post_after.
SchedNotify ==
  /\ schedNotifies > 0
  /\ schedNotifies' = schedNotifies - 1
  /\ scheduler' = IF scheduler \in {"idle", "timed"} THEN "ready" ELSE scheduler
  /\ UNCHANGED <<g_tasks, g_delayed, g_stop, worker, running, control,
                 notifies, history>>

-----------------------------------------------------------------------------
(* worker_loop *)

\* The predicate of g_cv.wait holds and a task is there: pop it and run it.
WorkerTake(w) ==
  /\ worker[w] = "ready"
  /\ g_tasks # <<>>
  /\ worker' = [worker EXCEPT ![w] = "running"]
  /\ running' = [running EXCEPT ![w] = {Head(g_tasks)}]
  /\ g_tasks' = Tail(g_tasks)
  /\ ran' = ran \cup {Head(g_tasks)}
  /\ UNCHANGED <<g_delayed, g_stop, scheduler, control, notifies, schedNotifies,
                 inits, posted, owed, cancelled, leftover>>

\* Mutant of WorkerWait: wait without the predicate on the queue.
WorkerWaitBlindly(w) ==
  /\ worker[w] = "ready"
  /\ ~g_stop
  /\ worker' = [worker EXCEPT ![w] = "waiting"]
  /\ UNCHANGED <<g_tasks, g_delayed, g_stop, running, scheduler, control,
                 notifies, schedNotifies, history>>

\* The predicate of g_cv.wait is false: sleep until notified.
WorkerWait(w) ==
  /\ worker[w] = "ready"
  /\ g_tasks = <<>>
  /\ ~g_stop
  /\ worker' = [worker EXCEPT ![w] = "waiting"]
  /\ UNCHANGED <<g_tasks, g_delayed, g_stop, running, scheduler, control,
                 notifies, schedNotifies, history>>

\* Mutant of WorkerExit: leave the loop as soon as g_stop is set.
WorkerExitEarly(w) ==
  /\ worker[w] = "ready"
  /\ g_stop
  /\ worker' = [worker EXCEPT ![w] = "exited"]
  /\ UNCHANGED <<g_tasks, g_delayed, g_stop, running, scheduler, control,
                 notifies, schedNotifies, history>>

\* Stopping and nothing left to run: the thread returns.
WorkerExit(w) ==
  /\ worker[w] = "ready"
  /\ g_tasks = <<>>
  /\ g_stop
  /\ worker' = [worker EXCEPT ![w] = "exited"]
  /\ UNCHANGED <<g_tasks, g_delayed, g_stop, running, scheduler, control,
                 notifies, schedNotifies, history>>

\* The task returns or throws; either way the loop goes on.
WorkerFinish(w) ==
  /\ worker[w] = "running"
  /\ worker' = [worker EXCEPT ![w] = "ready"]
  /\ running' = [running EXCEPT ![w] = {}]
  /\ UNCHANGED <<g_tasks, g_delayed, g_stop, scheduler, control,
                 notifies, schedNotifies, history>>

-----------------------------------------------------------------------------
(* scheduler_loop: "idle" waits for a delayed task, "timed" for a due time. *)

SchedulerWait ==
  /\ scheduler = "ready"
  /\ ~g_stop
  /\ scheduler' = IF g_delayed = <<>> THEN "idle" ELSE "timed"
  /\ UNCHANGED <<g_tasks, g_delayed, g_stop, worker, running, control,
                 notifies, schedNotifies, history>>

\* The first n delayed tasks are due: each is moved and one worker notified.
SchedulerDue(n) ==
  /\ scheduler = "timed"
  /\ ~g_stop
  /\ n \in 1..Len(g_delayed)
  /\ g_tasks' = g_tasks \o SubSeq(g_delayed, 1, n)
  /\ g_delayed' = SubSeq(g_delayed, n + 1, Len(g_delayed))
  /\ scheduler' = "ready"
  /\ LET asleep == {w \in Workers : worker[w] = "waiting"}
     IN \E woken \in SUBSET asleep :
          /\ IF Cardinality(asleep) <= n THEN woken = asleep ELSE Cardinality(woken) = n
          /\ worker' = [w \in Workers |-> IF w \in woken THEN "ready" ELSE worker[w]]
  /\ UNCHANGED <<g_stop, running, control, notifies, schedNotifies, history>>

\* g_stop is seen after waking, by notification or because a due time passed.
SchedulerExit ==
  /\ scheduler \in {"ready", "timed"}
  /\ g_stop
  /\ scheduler' = "exited"
  /\ UNCHANGED <<g_tasks, g_delayed, g_stop, worker, running, control,
                 notifies, schedNotifies, history>>

-----------------------------------------------------------------------------
(* initialize and shutdown: serial, by the thread that owns the SDK. *)

Initialize ==
  /\ control = "down"
  /\ inits < MaxInits
  /\ inits' = inits + 1
  /\ g_stop' = FALSE
  /\ worker' = [w \in Workers |-> "ready"]
  /\ scheduler' = "ready"
  /\ control' = "up"
  /\ UNCHANGED <<g_tasks, g_delayed, running, notifies, schedNotifies,
                 posted, ran, owed, cancelled, leftover>>

\* The critical section of shutdown: set g_stop, drop what is not yet due.  The
\* code has no check that the pool is up: without threads the joins are empty.
ShutdownFlag ==
  /\ control \in {"up", "down"}
  /\ control' = "stopping"
  /\ g_stop' = TRUE
  /\ g_delayed' = <<>>
  /\ owed' = IF control = "up" THEN Elements(g_tasks) ELSE {}
  /\ cancelled' = cancelled \cup Elements(g_delayed)
  /\ UNCHANGED <<g_tasks, worker, running, scheduler, notifies, schedNotifies,
                 inits, posted, ran, leftover>>

\* Mutant of ShutdownNotify: the scheduler's condition variable is forgotten.
ShutdownNotifyWorkersOnly ==
  /\ control = "stopping"
  /\ control' = "joining"
  /\ worker' = [w \in Workers |-> IF worker[w] = "waiting" THEN "ready" ELSE worker[w]]
  /\ UNCHANGED <<g_tasks, g_delayed, g_stop, running, scheduler, notifies, schedNotifies, history>>

\* notify_all on both condition variables.
ShutdownNotify ==
  /\ control = "stopping"
  /\ control' = "joining"
  /\ worker' = [w \in Workers |-> IF worker[w] = "waiting" THEN "ready" ELSE worker[w]]
  /\ scheduler' = IF scheduler \in {"idle", "timed"} THEN "ready" ELSE scheduler
  /\ UNCHANGED <<g_tasks, g_delayed, g_stop, running, notifies, schedNotifies, history>>

\* Every thread has been joined; what was posted meanwhile is dropped.
ShutdownJoined ==
  /\ control = "joining"
  /\ scheduler \in {"off", "exited"}
  /\ \A w \in Workers : worker[w] \in {"off", "exited"}
  /\ control' = "down"
  /\ scheduler' = "off"
  /\ worker' = [w \in Workers |-> "off"]
  /\ g_tasks' = <<>>
  /\ leftover' = IF scheduler = "exited" THEN leftover \cup Elements(g_delayed) ELSE leftover
  /\ UNCHANGED <<g_delayed, g_stop, running, notifies, schedNotifies,
                 inits, posted, ran, owed, cancelled>>

-----------------------------------------------------------------------------
WorkerStep(w) == WorkerTake(w) \/ WorkerWait(w) \/ WorkerExit(w) \/ WorkerFinish(w)

SchedulerStep ==
  \/ SchedulerWait
  \/ SchedulerExit
  \/ \E n \in 1..Len(g_delayed) : SchedulerDue(n)

PosterStep ==
  \/ Notify
  \/ SchedNotify
  \/ \E t \in Tasks : Post(t)
  \/ \E t \in Tasks : \E i \in 0..Len(g_delayed) : PostAfter(t, i)

ControlStep == Initialize \/ ShutdownFlag \/ ShutdownNotify \/ ShutdownJoined

Next ==
  \/ PosterStep
  \/ SchedulerStep
  \/ ControlStep
  \/ \E w \in Workers : WorkerStep(w)

\* Threads of the pool run; a poster that has unlocked g_mu goes on to notify;
\* a call of shutdown, once made, goes on.  Nobody is obliged to post, to start
\* the pool or to stop it.  That a task returns (WorkerFinish) is the header's
\* condition that only short tasks are posted.
Fairness ==
  /\ \A w \in Workers : WF_vars(WorkerStep(w))
  /\ WF_vars(SchedulerStep)
  /\ WF_vars(Notify) /\ WF_vars(SchedNotify)
  /\ WF_vars(ShutdownNotify) /\ WF_vars(ShutdownJoined)

Spec == Init /\ [][Next]_vars

FairSpec == Spec /\ Fairness

-----------------------------------------------------------------------------
TypeOK ==
  /\ g_tasks \in Seq(Tasks)
  /\ g_delayed \in Seq(Tasks)
  /\ g_stop \in BOOLEAN
  /\ worker \in [Workers -> {"off", "ready", "waiting", "running", "exited"}]
  /\ running \in [Workers -> SUBSET Tasks]
  /\ scheduler \in {"off", "ready", "idle", "timed", "exited"}
  /\ control \in {"down", "up", "stopping", "joining"}
  /\ notifies \in Nat
  /\ schedNotifies \in Nat
  /\ inits \in Nat
  /\ posted \subseteq Tasks
  /\ ran \subseteq Tasks
  /\ owed \subseteq Tasks
  /\ cancelled \subseteq Tasks
  /\ leftover \subseteq Tasks

\* No wakeup of g_cv or g_sched_cv is lost: whenever the pool is up and work is
\* queued, a thread that will look at the queue is awake, or a notify for it is
\* still to come (post unlocks g_mu before it notifies; worker_loop decides to
\* sleep under g_mu).
NoLostWakeup ==
  control = "up" =>
    /\ g_tasks # <<>> =>
         notifies > 0 \/ \E w \in Workers : worker[w] \in {"ready", "running"}
    /\ g_delayed # <<>> =>
         schedNotifies > 0 \/ scheduler \in {"ready", "timed"}

\* shutdown() never waits in join() for a thread that is asleep with nobody left
\* to wake it: after its notify_all no thread sleeps, and none will again.
JoinsTerminate ==
  control = "joining" =>
    /\ \A w \in Workers : worker[w] # "waiting"
    /\ scheduler \notin {"idle", "timed"}

\* What was in g_tasks when shutdown() set g_stop has been executed when shutdown()
\* returns: a worker leaves its loop only on an empty queue.
ShutdownDrains == control = "down" => owed \subseteq ran

\* A delayed task that shutdown() removed from g_delayed is never executed, not by
\* this pool nor by the next one (thread_pool.h: "the task is dropped").
CancelledNeverRuns == cancelled \cap ran = {}

\* What the proofs add to make these inductive: the threads exist exactly while the
\* pool is up or going down, and a worker that has left its loop left nothing owed.
ThreadsMatchControl ==
  /\ control = "down" => scheduler = "off" /\ \A w \in Workers : worker[w] = "off"
  /\ control = "up" => /\ ~g_stop
                       /\ scheduler \in {"ready", "idle", "timed"}
                       /\ \A w \in Workers : worker[w] \in {"ready", "waiting", "running"}
  /\ control \in {"stopping", "joining"} => g_stop

OwedIsQueued ==
  control # "up" =>
    /\ owed \subseteq ran \cup Elements(g_tasks)
    /\ (\E w \in Workers : worker[w] \in {"off", "exited"}) => owed \subseteq ran

PoolInv ==
  /\ TypeOK
  /\ ThreadsMatchControl
  /\ NoLostWakeup
  /\ JoinsTerminate
  /\ OwedIsQueued

\* No task is executed twice: a task a worker begins was not begun before.
RunsOnce == [][\A w \in Workers : WorkerTake(w) => Head(g_tasks) \notin ran]_vars

\* A task queued in a running pool is executed, unless a shutdown() intervenes; and
\* then ShutdownDrains applies.
QueuedRuns ==
  \A t \in Tasks : (control = "up" /\ t \in Elements(g_tasks)) ~> (t \in ran)

\* A call of shutdown() returns.
ShutdownReturns == (control = "stopping") ~> (control = "down")

\* thread_pool.h:34 says that a task whose due time a shutdown() precedes "is dropped
\* and never called".  Not so for a task posted while shutdown() waits in join(): it
\* stays in g_delayed, and the next initialize() gives it to a scheduler again.
DelayedNeverOutlivesShutdown == leftover \cap ran = {}
=============================================================================
