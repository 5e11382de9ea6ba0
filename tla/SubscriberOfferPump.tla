------------------------ MODULE SubscriberOfferPump ------------------------
(***************************************************************************)
(* The queue between the signaling IO thread and the thread pool           *)
(* (service/impl/subscriber_offer_pump.{h,cpp}).  Enqueue puts a peer id   *)
(* into queue_ and posts one DrainOnce task if none is under way; a pool   *)
(* worker executing DrainOnce hands over batches outside the lock; Stop    *)
(* waits on cv_ until no DrainOnce is left.                                *)
(*                                                                         *)
(* The blocks the code executes under mu_ are single steps.  running_ and  *)
(* stopping_ are written without mu_, so Stop takes one step for each.     *)
(* Stop may be called by several threads at once (svc_stop_stream and      *)
(* svc_destroy_stream may be).  Start is called when no Stop is under way: *)
(* Publisher::Start returns at once while streamer_ exists, and Publisher  *)
(* ::Stop keeps it until the pump has stopped.  The pool is seen through   *)
(* what ThreadPool shows of it: a posted task is executed once by some     *)
(* worker, if the pool is up.                                              *)
(***************************************************************************)
EXTENDS Naturals, Sequences

CONSTANTS
  Peers,       \* subscriber ids
  Workers,     \* the pool's workers
  Stoppers,    \* threads that call Stop
  PoolUp,      \* has thread::initialize() been called?
  MaxEnqueues, \* bound on Enqueue calls that are accepted
  MaxStarts    \* bound on Start calls that take effect

ASSUME PumpAssumption ==
  /\ PoolUp \in BOOLEAN
  /\ MaxEnqueues \in Nat
  /\ MaxStarts \in Nat

VARIABLES
  running_, stopping_, dispatching_,
  queue_,
  posted,     \* DrainOnce tasks in the pool's queue
  drain,      \* where each worker is in DrainOnce
  batch,      \* the rest of the batch each worker swapped out of queue_
  calling,    \* the argument of on_dispatch_ of each worker: <<>> or <<p>>
  stop,       \* where each stopper is in Stop
  enqueues,   \* history: accepted Enqueue calls since the first Start
  starts,     \* history: Start calls
  accepted,   \* history: peer ids accepted since the last Start
  handed      \* history: peer ids passed to on_dispatch_ since the last Start

flags == <<running_, stopping_, dispatching_>>
drainVars == <<drain, batch, calling>>
history == <<enqueues, starts, accepted, handed>>
vars == <<flags, queue_, posted, drainVars, stop, history>>

Stopping(s) == stop[s] \in {"flag", "wait", "asleep"}

Init ==
  /\ running_ = FALSE
  /\ stopping_ = FALSE
  /\ dispatching_ = FALSE
  /\ queue_ = <<>>
  /\ posted = 0
  /\ drain = [w \in Workers |-> "none"]
  /\ batch = [w \in Workers |-> <<>>]
  /\ calling = [w \in Workers |-> <<>>]
  /\ stop = [s \in Stoppers |-> "idle"]
  /\ enqueues = 0
  /\ starts = 0
  /\ accepted = <<>>
  /\ handed = <<>>

-----------------------------------------------------------------------------
Start ==
  /\ starts < MaxStarts
  /\ \A s \in Stoppers : ~Stopping(s)
  /\ ~running_
  /\ stopping_' = FALSE
  /\ running_' = TRUE
  /\ starts' = starts + 1
  /\ accepted' = <<>>
  /\ handed' = <<>>
  /\ stop' = [s \in Stoppers |-> "idle"]   \* returns of earlier Stop calls are forgotten
  /\ UNCHANGED <<dispatching_, queue_, posted, drainVars, enqueues>>

\* Enqueue, with ScheduleDispatchLocked when no DrainOnce is under way.
Enqueue(p) ==
  /\ enqueues < MaxEnqueues
  /\ running_
  /\ ~stopping_
  /\ queue_' = Append(queue_, p)
  /\ dispatching_' = TRUE
  /\ posted' = IF dispatching_ THEN posted ELSE posted + 1
  /\ enqueues' = enqueues + 1
  /\ accepted' = Append(accepted, p)
  /\ UNCHANGED <<running_, stopping_, drainVars, stop, starts, handed>>

-----------------------------------------------------------------------------
(* DrainOnce *)

\* A worker takes the posted task.
DrainBegin(w) ==
  /\ PoolUp
  /\ drain[w] = "none"
  /\ posted > 0
  /\ posted' = posted - 1
  /\ drain' = [drain EXCEPT ![w] = "lock"]
  /\ UNCHANGED <<flags, queue_, batch, calling, stop, history>>

\* Mutants of DrainEnd: the emptiness of queue_ is not looked at; nobody is notified.
DrainEndBlindly(w) ==
  /\ drain[w] = "lock"
  /\ dispatching_' = FALSE
  /\ stop' = [s \in Stoppers |-> IF stop[s] = "asleep" THEN "wait" ELSE stop[s]]
  /\ drain' = [drain EXCEPT ![w] = "none"]
  /\ UNCHANGED <<running_, stopping_, queue_, posted, batch, calling, history>>

DrainEndSilent(w) ==
  /\ drain[w] = "lock"
  /\ stopping_ \/ queue_ = <<>>
  /\ dispatching_' = FALSE
  /\ drain' = [drain EXCEPT ![w] = "none"]
  /\ UNCHANGED <<running_, stopping_, queue_, posted, batch, calling, stop, history>>

\* The locked block, when there is nothing to hand over or Stop asked to leave.
DrainEnd(w) ==
  /\ drain[w] = "lock"
  /\ stopping_ \/ queue_ = <<>>
  /\ dispatching_' = FALSE
  /\ stop' = [s \in Stoppers |-> IF stop[s] = "asleep" THEN "wait" ELSE stop[s]]
  /\ drain' = [drain EXCEPT ![w] = "none"]
  /\ UNCHANGED <<running_, stopping_, queue_, posted, batch, calling, history>>

\* Mutant of DrainSwap: the batch is copied and queue_ kept.
DrainCopy(w) ==
  /\ drain[w] = "lock"
  /\ ~stopping_
  /\ queue_ # <<>>
  /\ batch' = [batch EXCEPT ![w] = queue_]
  /\ drain' = [drain EXCEPT ![w] = "item"]
  /\ UNCHANGED <<flags, queue_, posted, calling, stop, history>>

\* The locked block, when there is a batch to take.
DrainSwap(w) ==
  /\ drain[w] = "lock"
  /\ ~stopping_
  /\ queue_ # <<>>
  /\ batch' = [batch EXCEPT ![w] = queue_]
  /\ queue_' = <<>>
  /\ drain' = [drain EXCEPT ![w] = "item"]
  /\ UNCHANGED <<flags, posted, calling, stop, history>>

\* Mutant of DispatchBegin: stopping_ is not read between the items.
DispatchBeginBlindly(w) ==
  /\ drain[w] = "item"
  /\ batch[w] # <<>>
  /\ calling' = [calling EXCEPT ![w] = <<Head(batch[w])>>]
  /\ batch' = [batch EXCEPT ![w] = Tail(batch[w])]
  /\ drain' = [drain EXCEPT ![w] = "call"]
  /\ handed' = Append(handed, Head(batch[w]))
  /\ UNCHANGED <<flags, queue_, posted, stop, enqueues, starts, accepted>>

\* The next item of the batch: on_dispatch_ is entered.
DispatchBegin(w) ==
  /\ drain[w] = "item"
  /\ batch[w] # <<>>
  /\ ~stopping_
  /\ calling' = [calling EXCEPT ![w] = <<Head(batch[w])>>]
  /\ batch' = [batch EXCEPT ![w] = Tail(batch[w])]
  /\ drain' = [drain EXCEPT ![w] = "call"]
  /\ handed' = Append(handed, Head(batch[w]))
  /\ UNCHANGED <<flags, queue_, posted, stop, enqueues, starts, accepted>>

DispatchEnd(w) ==
  /\ drain[w] = "call"
  /\ calling' = [calling EXCEPT ![w] = <<>>]
  /\ drain' = [drain EXCEPT ![w] = "item"]
  /\ UNCHANGED <<flags, queue_, posted, batch, stop, history>>

\* Mutant of BatchEnd: DrainOnce returns after its first batch.
BatchEndReturns(w) ==
  /\ drain[w] = "item"
  /\ stopping_ \/ batch[w] = <<>>
  /\ batch' = [batch EXCEPT ![w] = <<>>]
  /\ drain' = [drain EXCEPT ![w] = "none"]
  /\ UNCHANGED <<flags, queue_, posted, calling, stop, history>>

\* The batch is exhausted, or abandoned because of Stop: next round.
BatchEnd(w) ==
  /\ drain[w] = "item"
  /\ stopping_ \/ batch[w] = <<>>
  /\ batch' = [batch EXCEPT ![w] = <<>>]
  /\ drain' = [drain EXCEPT ![w] = "lock"]
  /\ UNCHANGED <<flags, queue_, posted, calling, stop, history>>

-----------------------------------------------------------------------------
(* Stop *)

\* running_.exchange(false) returned true: this caller stops the pump.
StopBegin(s) ==
  /\ ~Stopping(s)
  /\ running_
  /\ running_' = FALSE
  /\ stop' = [stop EXCEPT ![s] = "flag"]
  /\ UNCHANGED <<stopping_, dispatching_, queue_, posted, drainVars, history>>

\* running_.exchange(false) returned false: return at once.
StopAgain(s) ==
  /\ ~Stopping(s)
  /\ ~running_
  /\ stop' = [stop EXCEPT ![s] = "returned"]
  /\ UNCHANGED <<flags, queue_, posted, drainVars, history>>

StopFlag(s) ==
  /\ stop[s] = "flag"
  /\ stopping_' = TRUE
  /\ stop' = [stop EXCEPT ![s] = "wait"]
  /\ UNCHANGED <<running_, dispatching_, queue_, posted, drainVars, history>>

\* cv_.wait finds dispatching_ set: asleep until DrainOnce notifies.
StopSleep(s) ==
  /\ stop[s] = "wait"
  /\ dispatching_
  /\ stop' = [stop EXCEPT ![s] = "asleep"]
  /\ UNCHANGED <<flags, queue_, posted, drainVars, history>>

\* Mutant of StopReturn: queue_ is not cleared.
StopReturnKeepQueue(s) ==
  /\ stop[s] = "wait"
  /\ ~dispatching_
  /\ stop' = [stop EXCEPT ![s] = "returned"]
  /\ UNCHANGED <<flags, queue_, posted, drainVars, history>>

StopReturn(s) ==
  /\ stop[s] = "wait"
  /\ ~dispatching_
  /\ queue_' = <<>>
  /\ stop' = [stop EXCEPT ![s] = "returned"]
  /\ UNCHANGED <<flags, posted, drainVars, history>>

-----------------------------------------------------------------------------
DrainStep(w) ==
  \/ DrainBegin(w) \/ DrainEnd(w) \/ DrainSwap(w)
  \/ DispatchBegin(w) \/ DispatchEnd(w) \/ BatchEnd(w)

StopProgress(s) == StopFlag(s) \/ StopSleep(s) \/ StopReturn(s)

Next ==
  \/ Start
  \/ \E p \in Peers : Enqueue(p)
  \/ \E w \in Workers : DrainStep(w)
  \/ \E s \in Stoppers : StopBegin(s) \/ StopAgain(s) \/ StopProgress(s)

\* The pool's workers run and on_dispatch_ returns; a Stop that was called goes on.
\* Nobody is obliged to call Start, Enqueue or Stop.
Fairness ==
  /\ \A w \in Workers : WF_vars(DrainStep(w))
  /\ \A s \in Stoppers : WF_vars(StopProgress(s))

Spec == Init /\ [][Next]_vars

FairSpec == Spec /\ Fairness

-----------------------------------------------------------------------------
TypeOK ==
  /\ running_ \in BOOLEAN
  /\ stopping_ \in BOOLEAN
  /\ dispatching_ \in BOOLEAN
  /\ queue_ \in Seq(Peers)
  /\ posted \in Nat
  /\ drain \in [Workers -> {"none", "lock", "item", "call"}]
  /\ batch \in [Workers -> Seq(Peers)]
  /\ calling \in [Workers -> Seq(Peers)]
  /\ stop \in [Stoppers -> {"idle", "flag", "wait", "asleep", "returned"}]
  /\ enqueues \in Nat
  /\ starts \in Nat
  /\ accepted \in Seq(Peers)
  /\ handed \in Seq(Peers)

Draining == {w \in Workers : drain[w] # "none"}

\* What the worker in DrainOnce still holds of its batch; the callback's argument.
\* There is at most one such worker (SingleFlight).
HeldBatch == IF Draining = {} THEN <<>> ELSE batch[CHOOSE w \in Draining : TRUE]

InCallback == IF Draining = {} THEN <<>> ELSE calling[CHOOSE w \in Draining : TRUE]

\* The header's single-flight guarantee, with several pool workers: at most one
\* DrainOnce exists, posted or executing, and dispatching_ says exactly whether it does.
SingleFlight ==
  /\ \A u, v \in Draining : u = v
  /\ posted = (IF dispatching_ /\ Draining = {} THEN 1 ELSE 0)
  /\ Draining # {} => dispatching_

\* Peer ids are handed over in the order of the Enqueue calls, none twice and none
\* skipped, across batches that several workers swap out of queue_.
DispatchOrder == ~stopping_ => accepted = handed \o HeldBatch \o queue_

\* No peer id is stranded in queue_: while the pump is not stopping, whoever waits
\* there has a DrainOnce coming (Enqueue tests dispatching_ and DrainOnce clears it
\* in critical sections of the same mutex).
NothingStranded == (~stopping_ /\ queue_ # <<>>) => dispatching_

\* Once the Stop call that cleared running_ has returned, nothing of the pump is left
\* in the pool and nothing is queued: no late on_dispatch_ on a destroyed Publisher.
StopIsFinal ==
  (~running_ /\ \A s \in Stoppers : ~Stopping(s)) =>
    ~dispatching_ /\ Draining = {} /\ posted = 0 /\ queue_ = <<>>

\* A stopper asleep in cv_ has somebody to wake it.
NoStopperForgotten == (\E s \in Stoppers : stop[s] = "asleep") => dispatching_


\* An accepted peer id is handed to on_dispatch_, or the pump is stopped.
\* (subscriber_offer_pump.h:50 says so even without a pool: "if post is unavailable,
\* e.g. thread_pool not initialised, degrade to a synchronous drain"; the code has no
\* such path, and with PoolUp = FALSE the property fails.)
AcceptedIsHandedOver == dispatching_ ~> (stopping_ \/ handed = accepted)

\* subscriber_offer_pump.h:16 "after Stop returns on_dispatch_ is not called any more;
\* may be called repeatedly, idempotent", read for every caller of Stop.
EveryStopIsFinal ==
  \A s \in Stoppers : (stop[s] = "returned" /\ ~running_) =>
    \A w \in Workers : drain[w] # "call"

-----------------------------------------------------------------------------
(* The inductive invariant of the proofs, in parts. *)

\* A worker holds a batch only inside the batch loop, an argument only in the callback.
LocalsMatchPlace ==
  \A w \in Workers :
    /\ drain[w] \in {"none", "lock"} => batch[w] = <<>>
    /\ (calling[w] = <<>>) <=> (drain[w] # "call")

\* The flags follow the one Stop call that is under way.
FlagsMatchStop ==
  /\ running_ => ~stopping_
  /\ \A s \in Stoppers : Stopping(s) => ~running_
  /\ \A s, t \in Stoppers : Stopping(s) /\ Stopping(t) => s = t
  /\ \A s \in Stoppers : stop[s] = "flag" => ~stopping_
  /\ \A s \in Stoppers : stop[s] \in {"wait", "asleep"} => stopping_

PumpInv ==
  /\ TypeOK
  /\ LocalsMatchPlace
  /\ FlagsMatchStop
  /\ SingleFlight
  /\ NothingStranded
  /\ NoStopperForgotten
  /\ StopIsFinal
  /\ DispatchOrder

-----------------------------------------------------------------------------
(* The pump implements the abstract dispatcher: it is closing from the moment *)
(* running_ is cleared to the return of that Stop; once stopping_ is set      *)
(* nothing more is handed over.                                               *)

Phase == IF running_ THEN "open"
         ELSE IF \E s \in Stoppers : Stopping(s) THEN "closing" ELSE "closed"

Pending == IF stopping_ THEN <<>> ELSE HeldBatch \o queue_

Dispatcher == INSTANCE SerialDispatch WITH
  phase <- Phase, pending <- Pending, current <- InCallback

\* Every behaviour of the pump is one of SerialDispatch: ids are handed over singly
\* and in order, and not at all between the return of Stop and the next Start.
ImplementsDispatcher == Dispatcher!Spec
=============================================================================
