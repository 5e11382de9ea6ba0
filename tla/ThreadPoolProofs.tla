-------------------------- MODULE ThreadPoolProofs --------------------------
(***************************************************************************)
(* Proofs about the thread pool for any non-empty set of workers, any set  *)
(* of tasks and any number of restarts: no wakeup is lost, shutdown never  *)
(* joins a sleeping thread, and shutdown drains what was queued before it. *)
(***************************************************************************)
EXTENDS ThreadPool, SequenceTheorems, FiniteSetTheorems, TLAPS

-----------------------------------------------------------------------------
(* What the queue operations do to the set of queued tasks. *)

\* The elements of an appended sequence.
LEMMA ElementsAppend ==
  ASSUME NEW S, NEW s \in Seq(S), NEW x \in S
  PROVE  Elements(Append(s, x)) = Elements(s) \cup {x}
BY DEF Elements

\* The elements of a sequence are its head and those of its tail.
LEMMA ElementsTail ==
  ASSUME NEW S, NEW s \in Seq(S), s # <<>>
  PROVE  Elements(s) = {Head(s)} \cup Elements(Tail(s))
<1>1. ASSUME NEW x \in Elements(s) PROVE x \in {Head(s)} \cup Elements(Tail(s))
  <2>1. PICK i \in 1..Len(s) : x = s[i]
    BY <1>1 DEF Elements
  <2>2. CASE i = 1
    BY <2>1, <2>2
  <2>3. CASE i # 1
    <3>1. i - 1 \in 1..Len(Tail(s)) /\ Tail(s)[i - 1] = x
      BY <2>1, <2>3
    <3> QED BY <3>1 DEF Elements
  <2> QED BY <2>2, <2>3
<1>2. ASSUME NEW x \in {Head(s)} \cup Elements(Tail(s)) PROVE x \in Elements(s)
  <2>1. CASE x = Head(s)
    <3>1. 1 \in 1..Len(s) /\ s[1] = x
      BY <2>1
    <3> QED BY <3>1 DEF Elements
  <2>2. CASE x \in Elements(Tail(s))
    <3>1. PICK i \in 1..Len(Tail(s)) : x = Tail(s)[i]
      BY <2>2 DEF Elements
    <3>2. i + 1 \in 1..Len(s) /\ s[i + 1] = x
      BY <3>1
    <3> QED BY <3>2 DEF Elements
  <2> QED BY <1>2, <2>1, <2>2
<1> QED BY <1>1, <1>2

\* A concatenation has the elements of its first part.
LEMMA ElementsConcat ==
  ASSUME NEW S, NEW s \in Seq(S), NEW t \in Seq(S)
  PROVE  Elements(s) \subseteq Elements(s \o t)
<1>1. ASSUME NEW i \in 1..Len(s) PROVE s[i] \in Elements(s \o t)
  <2>1. i \in 1..Len(s \o t) /\ (s \o t)[i] = s[i]
    OBVIOUS
  <2> QED BY <2>1 DEF Elements
<1> QED BY <1>1 DEF Elements

\* The elements of a sequence over a set are in the set.
LEMMA ElementsType ==
  ASSUME NEW S, NEW s \in Seq(S)
  PROVE  Elements(s) \subseteq S
BY DEF Elements

\* Cutting a delay queue at a position keeps it a sequence of tasks.
LEMMA SubSeqType ==
  ASSUME NEW S, NEW s \in Seq(S), NEW i \in 0..Len(s)
  PROVE  /\ SubSeq(s, 1, i) \in Seq(S)
         /\ SubSeq(s, i + 1, Len(s)) \in Seq(S)
BY SubSeqProperties

-----------------------------------------------------------------------------
(* The invariant. *)

\* The invariant holds before initialize.
LEMMA PoolInvInit == Init => PoolInv
<1> SUFFICES ASSUME Init PROVE PoolInv
  OBVIOUS
<1>1. TypeOK
  BY EmptySeq DEF Init, TypeOK
<1>2. ThreadsMatchControl /\ NoLostWakeup /\ JoinsTerminate /\ OwedIsQueued
  BY DEF Init, ThreadsMatchControl, NoLostWakeup, JoinsTerminate, OwedIsQueued
<1> QED BY <1>1, <1>2 DEF PoolInv

\* Every step keeps the types.
LEMMA TypeStep == TypeOK /\ [Next]_vars => TypeOK'
<1> SUFFICES ASSUME TypeOK, [Next]_vars PROVE TypeOK'
  OBVIOUS
<1> USE DEF TypeOK, threadVars, history
<1>1. CASE PosterStep
  <2>1. CASE Notify BY <2>1 DEF Notify
  <2>2. CASE SchedNotify BY <2>2 DEF SchedNotify
  <2>3. ASSUME NEW t \in Tasks, Post(t) PROVE TypeOK'
    BY <2>3 DEF Post
  <2>4. ASSUME NEW t \in Tasks, NEW i \in 0..Len(g_delayed), PostAfter(t, i) PROVE TypeOK'
    <3>1. /\ SubSeq(g_delayed, 1, i) \in Seq(Tasks)
          /\ SubSeq(g_delayed, i + 1, Len(g_delayed)) \in Seq(Tasks)
      BY SubSeqType
    <3>2. g_delayed' \in Seq(Tasks)
      BY <2>4, <3>1, ConcatProperties DEF PostAfter
    <3> QED BY <2>4, <3>2 DEF PostAfter
  <2> QED BY <1>1, <2>1, <2>2, <2>3, <2>4 DEF PosterStep
<1>2. CASE SchedulerStep
  <2>1. CASE SchedulerWait BY <2>1 DEF SchedulerWait
  <2>2. CASE SchedulerExit BY <2>2 DEF SchedulerExit
  <2>3. ASSUME NEW n \in 1..Len(g_delayed), SchedulerDue(n) PROVE TypeOK'
    <3>1. g_tasks' \in Seq(Tasks) /\ g_delayed' \in Seq(Tasks)
      BY <2>3, SubSeqType, ConcatProperties DEF SchedulerDue
    <3>2. worker' \in [Workers -> {"off", "ready", "waiting", "running", "exited"}]
      BY <2>3 DEF SchedulerDue
    <3> QED BY <2>3, <3>1, <3>2 DEF SchedulerDue
  <2> QED BY <1>2, <2>1, <2>2, <2>3 DEF SchedulerStep
<1>3. CASE ControlStep
  <2>0. <<>> \in Seq(Tasks) /\ Elements(g_tasks) \subseteq Tasks /\ Elements(g_delayed) \subseteq Tasks
    BY EmptySeq, ElementsType
  <2>1. CASE Initialize
    <3>1. worker' \in [Workers -> {"off", "ready", "waiting", "running", "exited"}]
      BY <2>1 DEF Initialize
    <3>2. inits' \in Nat /\ control' = "up" /\ scheduler' = "ready" /\ g_stop' = FALSE
      BY <2>1 DEF Initialize
    <3>3. UNCHANGED <<g_tasks, g_delayed, running, notifies, schedNotifies,
                      posted, ran, owed, cancelled, leftover>>
      BY <2>1 DEF Initialize
    <3> QED BY <3>1, <3>2, <3>3
  <2>2. CASE ShutdownFlag BY <2>0, <2>2 DEF ShutdownFlag
  <2>3. CASE ShutdownNotify BY <2>3 DEF ShutdownNotify
  <2>4. CASE ShutdownJoined BY <2>0, <2>4 DEF ShutdownJoined
  <2> QED BY <1>3, <2>1, <2>2, <2>3, <2>4 DEF ControlStep
<1>4. ASSUME NEW w \in Workers, WorkerStep(w) PROVE TypeOK'
  <2>1. CASE WorkerTake(w) BY <2>1, HeadTailProperties DEF WorkerTake
  <2>2. CASE WorkerWait(w) BY <2>2 DEF WorkerWait
  <2>3. CASE WorkerExit(w) BY <2>3 DEF WorkerExit
  <2>4. CASE WorkerFinish(w) BY <2>4 DEF WorkerFinish
  <2> QED BY <1>4, <2>1, <2>2, <2>3, <2>4 DEF WorkerStep
<1>5. CASE UNCHANGED vars
  BY <1>5 DEF vars
<1> QED BY <1>1, <1>2, <1>3, <1>4, <1>5 DEF Next

\* The scheduler wakes workers only, and at least one if any sleeps.
LEMMA DueWakes ==
  ASSUME TypeOK, NEW n \in 1..Len(g_delayed), SchedulerDue(n)
  PROVE  /\ \A w \in Workers : worker'[w] # worker[w] => worker[w] = "waiting" /\ worker'[w] = "ready"
         /\ (\E w \in Workers : worker[w] = "waiting") => \E w \in Workers : worker'[w] = "ready"
<1> DEFINE asleep == {w \in Workers : worker[w] = "waiting"}
<1>1. PICK woken \in SUBSET asleep :
        /\ IF Cardinality(asleep) <= n THEN woken = asleep ELSE Cardinality(woken) = n
        /\ worker' = [w \in Workers |-> IF w \in woken THEN "ready" ELSE worker[w]]
  BY DEF SchedulerDue
<1>2. \A w \in Workers : worker'[w] # worker[w] => worker[w] = "waiting" /\ worker'[w] = "ready"
  BY <1>1
<1>3. ASSUME asleep # {}, woken = {} PROVE FALSE
  <2>1. Cardinality(woken) = n
    BY <1>1, <1>3
  <2>2. Cardinality(woken) = 0
    BY <1>3, FS_EmptySet
  <2> QED BY <2>1, <2>2
<1> QED BY <1>1, <1>2, <1>3

\* Every step keeps the threads in places their stage allows.
LEMMA ThreadsStep == PoolInv /\ [Next]_vars => ThreadsMatchControl'
<1> SUFFICES ASSUME PoolInv, [Next]_vars PROVE ThreadsMatchControl'
  OBVIOUS
<1> USE DEF PoolInv, TypeOK, ThreadsMatchControl, threadVars, history
<1>1. CASE PosterStep
  <2>1. CASE Notify BY <2>1 DEF Notify
  <2>2. CASE SchedNotify BY <2>2 DEF SchedNotify
  <2>3. ASSUME NEW t \in Tasks, Post(t) PROVE ThreadsMatchControl'
    BY <2>3 DEF Post
  <2>4. ASSUME NEW t \in Tasks, NEW i \in 0..Len(g_delayed), PostAfter(t, i)
        PROVE  ThreadsMatchControl'
    BY <2>4 DEF PostAfter
  <2> QED BY <1>1, <2>1, <2>2, <2>3, <2>4 DEF PosterStep
<1>2. CASE SchedulerStep
  <2>1. CASE SchedulerWait BY <2>1 DEF SchedulerWait
  <2>2. CASE SchedulerExit BY <2>2 DEF SchedulerExit
  <2>3. ASSUME NEW n \in 1..Len(g_delayed), SchedulerDue(n) PROVE ThreadsMatchControl'
    <3>1. UNCHANGED <<control, g_stop>> /\ scheduler = "timed" /\ scheduler' = "ready"
      BY <2>3 DEF SchedulerDue
    <3> QED BY <2>3, <3>1, DueWakes
  <2> QED BY <1>2, <2>1, <2>2, <2>3 DEF SchedulerStep
<1>3. CASE ControlStep
  BY <1>3 DEF ControlStep, Initialize, ShutdownFlag, ShutdownNotify, ShutdownJoined
<1>4. ASSUME NEW w \in Workers, WorkerStep(w) PROVE ThreadsMatchControl'
  <2>1. CASE WorkerTake(w) BY <2>1 DEF WorkerTake
  <2>2. CASE WorkerWait(w) BY <2>2 DEF WorkerWait
  <2>3. CASE WorkerExit(w) BY <2>3 DEF WorkerExit
  <2>4. CASE WorkerFinish(w) BY <2>4 DEF WorkerFinish
  <2> QED BY <1>4, <2>1, <2>2, <2>3, <2>4 DEF WorkerStep
<1>5. CASE UNCHANGED vars
  BY <1>5 DEF vars
<1> QED BY <1>1, <1>2, <1>3, <1>4, <1>5 DEF Next

\* No step loses a notify.
LEMMA WakeupStep == PoolInv /\ [Next]_vars => NoLostWakeup'
<1> SUFFICES ASSUME PoolInv, [Next]_vars, control' = "up" PROVE NoLostWakeup'
  BY DEF NoLostWakeup
<1> USE DEF PoolInv, TypeOK, NoLostWakeup, threadVars, history
<1>0. Workers # {}
  BY PoolAssumption
<1>1. CASE PosterStep
  <2>1. CASE Notify
    BY <2>1, <1>0 DEF Notify, ThreadsMatchControl
  <2>2. CASE SchedNotify
    BY <2>2 DEF SchedNotify, ThreadsMatchControl
  <2>3. ASSUME NEW t \in Tasks, Post(t) PROVE NoLostWakeup'
    BY <2>3 DEF Post
  <2>4. ASSUME NEW t \in Tasks, NEW i \in 0..Len(g_delayed), PostAfter(t, i) PROVE NoLostWakeup'
    BY <2>4 DEF PostAfter
  <2> QED BY <1>1, <2>1, <2>2, <2>3, <2>4 DEF PosterStep
<1>2. CASE SchedulerStep
  <2>1. CASE SchedulerWait BY <2>1 DEF SchedulerWait
  <2>2. CASE SchedulerExit BY <2>2 DEF SchedulerExit, ThreadsMatchControl
  <2>3. ASSUME NEW n \in 1..Len(g_delayed), SchedulerDue(n) PROVE NoLostWakeup'
    <3>1. control = "up" /\ scheduler' = "ready"
      BY <2>3 DEF SchedulerDue
    <3>2. \E w \in Workers : worker'[w] \in {"ready", "running"}
      <4>1. PICK w \in Workers : TRUE
        BY <1>0
      <4>2. CASE \E u \in Workers : worker[u] = "waiting"
        BY <2>3, <4>2, DueWakes
      <4>3. CASE \A u \in Workers : worker[u] # "waiting"
        BY <2>3, <3>1, <4>1, <4>3, DueWakes DEF ThreadsMatchControl
      <4> QED BY <4>2, <4>3
    <3> QED BY <3>1, <3>2
  <2> QED BY <1>2, <2>1, <2>2, <2>3 DEF SchedulerStep
<1>3. CASE ControlStep
  <2>1. Initialize
    BY <1>3 DEF ControlStep, ShutdownFlag, ShutdownNotify, ShutdownJoined
  <2> QED BY <1>0, <2>1 DEF Initialize
<1>4. ASSUME NEW w \in Workers, WorkerStep(w) PROVE NoLostWakeup'
  <2>1. CASE WorkerTake(w) BY <2>1 DEF WorkerTake
  <2>2. CASE WorkerWait(w) BY <2>2 DEF WorkerWait
  <2>3. CASE WorkerExit(w) BY <2>3 DEF WorkerExit, ThreadsMatchControl
  <2>4. CASE WorkerFinish(w) BY <2>4 DEF WorkerFinish
  <2> QED BY <1>4, <2>1, <2>2, <2>3, <2>4 DEF WorkerStep
<1>5. CASE UNCHANGED vars
  BY <1>5 DEF vars
<1> QED BY <1>1, <1>2, <1>3, <1>4, <1>5 DEF Next

\* No thread goes to sleep while shutdown joins.
LEMMA JoinStep == PoolInv /\ [Next]_vars => JoinsTerminate'
<1> SUFFICES ASSUME PoolInv, [Next]_vars, control' = "joining" PROVE JoinsTerminate'
  BY DEF JoinsTerminate
<1> USE DEF PoolInv, TypeOK, JoinsTerminate, threadVars, history
<1>1. CASE ControlStep
  <2>1. ShutdownNotify
    BY <1>1 DEF ControlStep, Initialize, ShutdownFlag, ShutdownJoined
  <2> QED BY <2>1 DEF ShutdownNotify
<1>2. CASE PosterStep
  <2>1. CASE Notify BY <2>1 DEF Notify
  <2>2. CASE SchedNotify BY <2>2 DEF SchedNotify
  <2>3. ASSUME NEW t \in Tasks, Post(t) PROVE JoinsTerminate'
    BY <2>3 DEF Post
  <2>4. ASSUME NEW t \in Tasks, NEW i \in 0..Len(g_delayed), PostAfter(t, i) PROVE JoinsTerminate'
    BY <2>4 DEF PostAfter
  <2> QED BY <1>2, <2>1, <2>2, <2>3, <2>4 DEF PosterStep
<1>3. CASE SchedulerStep
  <2>1. CASE SchedulerWait BY <2>1 DEF SchedulerWait, ThreadsMatchControl
  <2>2. CASE SchedulerExit BY <2>2 DEF SchedulerExit
  <2>3. ASSUME NEW n \in 1..Len(g_delayed), SchedulerDue(n) PROVE JoinsTerminate'
    BY <2>3 DEF SchedulerDue
  <2> QED BY <1>3, <2>1, <2>2, <2>3 DEF SchedulerStep
<1>4. ASSUME NEW w \in Workers, WorkerStep(w) PROVE JoinsTerminate'
  <2>1. CASE WorkerTake(w) BY <2>1 DEF WorkerTake
  <2>2. CASE WorkerWait(w) BY <2>2 DEF WorkerWait, ThreadsMatchControl
  <2>3. CASE WorkerExit(w) BY <2>3 DEF WorkerExit
  <2>4. CASE WorkerFinish(w) BY <2>4 DEF WorkerFinish
  <2> QED BY <1>4, <2>1, <2>2, <2>3, <2>4 DEF WorkerStep
<1>5. CASE UNCHANGED vars
  BY <1>5 DEF vars
<1> QED BY <1>1, <1>2, <1>3, <1>4, <1>5 DEF Next

\* What shutdown owes stays queued, in hand, or has run.
LEMMA OwedStep == PoolInv /\ [Next]_vars => OwedIsQueued'
<1> SUFFICES ASSUME PoolInv, [Next]_vars, control' # "up" PROVE OwedIsQueued'
  BY DEF OwedIsQueued
<1> USE DEF PoolInv, TypeOK, OwedIsQueued, threadVars, history
<1>0. Workers # {}
  BY PoolAssumption
<1>1. CASE PosterStep
  <2>1. CASE Notify
    BY <2>1 DEF Notify
  <2>2. CASE SchedNotify
    BY <2>2 DEF SchedNotify
  <2>3. ASSUME NEW t \in Tasks, Post(t) PROVE OwedIsQueued'
    BY <2>3, ElementsAppend DEF Post
  <2>4. ASSUME NEW t \in Tasks, NEW i \in 0..Len(g_delayed), PostAfter(t, i) PROVE OwedIsQueued'
    BY <2>4 DEF PostAfter
  <2> QED BY <1>1, <2>1, <2>2, <2>3, <2>4 DEF PosterStep
<1>2. CASE SchedulerStep
  <2>1. CASE SchedulerWait BY <2>1 DEF SchedulerWait
  <2>2. CASE SchedulerExit BY <2>2 DEF SchedulerExit
  <2>3. ASSUME NEW n \in 1..Len(g_delayed), SchedulerDue(n) PROVE OwedIsQueued'
    \* The scheduler moves tasks only while the pool is up.
    <3>1. ~g_stop /\ control' = control /\ scheduler = "timed"
      BY <2>3 DEF SchedulerDue
    <3> QED BY <3>1 DEF ThreadsMatchControl
  <2> QED BY <1>2, <2>1, <2>2, <2>3 DEF SchedulerStep
<1>3. CASE ControlStep
  <2>1. CASE Initialize BY <2>1 DEF Initialize
  <2>2. CASE ShutdownFlag
    <3>1. CASE control = "up"
      BY <2>2, <3>1 DEF ShutdownFlag, ThreadsMatchControl
    <3>2. CASE control = "down"
      BY <2>2, <3>2 DEF ShutdownFlag
    <3> QED BY <2>2, <3>1, <3>2 DEF ShutdownFlag
  <2>3. CASE ShutdownNotify BY <2>3 DEF ShutdownNotify
  <2>4. CASE ShutdownJoined
    <3>1. owed \subseteq ran
      BY <1>0, <2>4 DEF ShutdownJoined
    <3> QED BY <2>4, <3>1 DEF ShutdownJoined
  <2> QED BY <1>3, <2>1, <2>2, <2>3, <2>4 DEF ControlStep
<1>4. ASSUME NEW w \in Workers, WorkerStep(w) PROVE OwedIsQueued'
  <2>1. CASE WorkerTake(w)
    <3>1. Elements(g_tasks) = {Head(g_tasks)} \cup Elements(g_tasks')
      BY <2>1, ElementsTail DEF WorkerTake
    <3> QED BY <2>1, <3>1 DEF WorkerTake
  <2>2. CASE WorkerWait(w) BY <2>2 DEF WorkerWait
  <2>3. CASE WorkerExit(w)
    <3>1. Elements(g_tasks) = {}
      BY <2>3 DEF WorkerExit, Elements
    <3> QED BY <2>3, <3>1 DEF WorkerExit
  <2>4. CASE WorkerFinish(w) BY <2>4 DEF WorkerFinish
  <2> QED BY <1>4, <2>1, <2>2, <2>3, <2>4 DEF WorkerStep
<1>5. CASE UNCHANGED vars
  BY <1>5 DEF vars
<1> QED BY <1>1, <1>2, <1>3, <1>4, <1>5 DEF Next

-----------------------------------------------------------------------------
\* The invariant holds in all behaviours.
LEMMA PoolInvariant == Spec => []PoolInv
<1>1. PoolInv /\ [Next]_vars => PoolInv'
  BY TypeStep, ThreadsStep, WakeupStep, JoinStep, OwedStep DEF PoolInv
<1> QED BY PoolInvInit, <1>1, PTL DEF Spec

\* The variables of the pool keep their types.
THEOREM PoolTypeCorrect == Spec => []TypeOK
BY PoolInvariant, PTL DEF PoolInv

\* post, post_after and the scheduler notify in such a way that queued work never
\* meets a pool that is entirely asleep, for any number of workers and posters.
THEOREM PoolNoLostWakeup == Spec => []NoLostWakeup
BY PoolInvariant, PTL DEF PoolInv

\* shutdown() does not wait in join() for a thread that sleeps.
THEOREM PoolJoinsTerminate == Spec => []JoinsTerminate
BY PoolInvariant, PTL DEF PoolInv

\* When shutdown() has returned, every task that was queued when it set g_stop has run.
THEOREM PoolShutdownDrains == Spec => []ShutdownDrains
<1>1. PoolInv => ShutdownDrains
  BY PoolAssumption DEF PoolInv, ThreadsMatchControl, OwedIsQueued, ShutdownDrains
<1> QED BY PoolInvariant, <1>1, PTL
=============================================================================
