---------------------- MODULE SubscriberOfferPumpProofs ----------------------
(***************************************************************************)
(* Proofs about the SubscriberOfferPump, for any sets of peers, workers    *)
(* and stoppers and any bounds.  PumpInv is inductive; the refinement of   *)
(* SerialDispatch rests on it.                                             *)
(***************************************************************************)
EXTENDS SubscriberOfferPump, SequenceTheorems, TLAPS

-----------------------------------------------------------------------------
(* Facts about sequences, in the forms the steps below need. *)

\* Appending behind a concatenation, as Enqueue does to queue_.
LEMMA AppendBehind ==
  ASSUME NEW S, NEW s \in Seq(S), NEW t \in Seq(S), NEW x \in S
  PROVE  s \o Append(t, x) = Append(s \o t, x)
PROOF
  <1> DEFINE l == s \o Append(t, x)
             r == Append(s \o t, x)
  <1>1. l \in Seq(S) /\ r \in Seq(S) /\ Len(l) = Len(r)
    OBVIOUS
  <1>2. \A i \in 1..Len(l) : l[i] = r[i]
    OBVIOUS
  <1> QED BY <1>1, <1>2, SeqEqual

\* Moving the head of the second part to the end of the first, as DispatchBegin does.
LEMMA MoveHead ==
  ASSUME NEW S, NEW s \in Seq(S), NEW t \in Seq(S), t # <<>>
  PROVE  Append(s, Head(t)) \o Tail(t) = s \o t
PROOF
  <1> DEFINE l == Append(s, Head(t)) \o Tail(t)
             r == s \o t
  <1>1. l \in Seq(S) /\ r \in Seq(S) /\ Len(l) = Len(r)
    OBVIOUS
  <1>2. \A i \in 1..Len(l) : l[i] = r[i]
    OBVIOUS
  <1> QED BY <1>1, <1>2, SeqEqual

\* Taking the head of a concatenation whose first part is not empty.
LEMMA HeadTailConcat ==
  ASSUME NEW S, NEW s \in Seq(S), NEW t \in Seq(S), s # <<>>
  PROVE  /\ s \o t # <<>>
         /\ Head(s \o t) = Head(s)
         /\ Tail(s \o t) = Tail(s) \o t
PROOF
  <1> DEFINE l == Tail(s \o t)
             r == Tail(s) \o t
  <1>1. s \o t # <<>> /\ Head(s \o t) = Head(s)
    OBVIOUS
  <1>2. l \in Seq(S) /\ r \in Seq(S) /\ Len(l) = Len(r)
    OBVIOUS
  <1>3. \A i \in 1..Len(l) : l[i] = r[i]
    OBVIOUS
  <1> QED BY <1>1, <1>2, <1>3, SeqEqual

\* CHOOSE picks the only element there is.
LEMMA ChooseOnly ==
  ASSUME NEW S, NEW w \in S, \A u \in S : u = w
  PROVE  (CHOOSE x \in S : TRUE) = w
OBVIOUS

-----------------------------------------------------------------------------
(* The invariant. *)

\* The invariant holds before Start.
LEMMA PumpInvInit == Init => PumpInv
<1> SUFFICES ASSUME Init PROVE PumpInv
  OBVIOUS
<1> USE DEF Init
<1>1. TypeOK
  BY EmptySeq DEF TypeOK
<1>2. Draining = {}
  BY DEF Draining
<1>3. LocalsMatchPlace /\ FlagsMatchStop
  BY DEF LocalsMatchPlace, FlagsMatchStop, Stopping
<1>4. SingleFlight /\ NothingStranded /\ NoStopperForgotten /\ StopIsFinal
  BY <1>2 DEF SingleFlight, NothingStranded, NoStopperForgotten, StopIsFinal, Stopping
<1>5. DispatchOrder
  BY <1>2, ConcatEmptySeq DEF DispatchOrder, HeldBatch
<1> QED BY <1>1, <1>3, <1>4, <1>5 DEF PumpInv

\* Every step keeps the types.
LEMMA TypeStep == TypeOK /\ [Next]_vars => TypeOK'
<1> SUFFICES ASSUME TypeOK, [Next]_vars PROVE TypeOK'
  OBVIOUS
<1> USE DEF TypeOK, flags, drainVars, history
<1>1. CASE Start
  <2>1. <<>> \in Seq(Peers)
    BY EmptySeq
  <2>2. /\ running_' \in BOOLEAN /\ stopping_' \in BOOLEAN /\ dispatching_' \in BOOLEAN
        /\ queue_' \in Seq(Peers)
    BY <1>1 DEF Start
  <2>3. /\ posted' \in Nat /\ starts' \in Nat /\ enqueues' \in Nat
    BY <1>1 DEF Start
  <2>4. accepted' \in Seq(Peers) /\ handed' \in Seq(Peers)
    BY <1>1, <2>1 DEF Start
  <2>5. UNCHANGED <<drain, batch, calling>>
    BY <1>1 DEF Start
  <2>6. stop' \in [Stoppers -> {"idle", "flag", "wait", "asleep", "returned"}]
    BY <1>1 DEF Start
  <2> QED BY <2>2, <2>3, <2>4, <2>5, <2>6
<1>2. ASSUME NEW p \in Peers, Enqueue(p) PROVE TypeOK'
  BY <1>2 DEF Enqueue
<1>3. ASSUME NEW w \in Workers, DrainStep(w) PROVE TypeOK'
  <2>1. CASE DrainBegin(w) BY <2>1 DEF DrainBegin
  <2>2. CASE DrainEnd(w) BY <2>2 DEF DrainEnd
  <2>3. CASE DrainSwap(w) BY <2>3 DEF DrainSwap
  <2>4. CASE DispatchBegin(w) BY <2>4, HeadTailProperties DEF DispatchBegin
  <2>5. CASE DispatchEnd(w) BY <2>5 DEF DispatchEnd
  <2>6. CASE BatchEnd(w) BY <2>6 DEF BatchEnd
  <2> QED BY <1>3, <2>1, <2>2, <2>3, <2>4, <2>5, <2>6 DEF DrainStep
<1>4. ASSUME NEW s \in Stoppers, StopBegin(s) \/ StopAgain(s) \/ StopProgress(s)
      PROVE  TypeOK'
  BY <1>4, EmptySeq DEF StopBegin, StopAgain, StopProgress, StopFlag, StopSleep, StopReturn
<1>5. CASE UNCHANGED vars
  BY <1>5 DEF vars
<1> QED BY <1>1, <1>2, <1>3, <1>4, <1>5 DEF Next

\* With one worker draining, the mapping functions are that worker's locals.
LEMMA LocalsOfDrainer ==
  ASSUME SingleFlight, NEW w \in Workers, drain[w] # "none"
  PROVE  HeldBatch = batch[w] /\ InCallback = calling[w]
BY ChooseOnly DEF SingleFlight, HeldBatch, InCallback, Draining

\* Every step keeps LocalsMatchPlace.
LEMMA LocalsStep == PumpInv /\ [Next]_vars => LocalsMatchPlace'
<1> SUFFICES ASSUME PumpInv, [Next]_vars PROVE LocalsMatchPlace'
  OBVIOUS
<1> USE DEF PumpInv, TypeOK, LocalsMatchPlace, flags, drainVars, history
<1>1. CASE Start \/ (\E p \in Peers : Enqueue(p)) \/ UNCHANGED vars
  BY <1>1 DEF Start, Enqueue, vars
<1>2. ASSUME NEW w \in Workers, DrainStep(w) PROVE LocalsMatchPlace'
  <2>1. CASE DrainBegin(w) \/ DrainEnd(w) BY <2>1 DEF DrainBegin, DrainEnd
  <2>2. CASE DrainSwap(w) BY <2>2 DEF DrainSwap
  <2>3. CASE DispatchBegin(w) BY <2>3 DEF DispatchBegin
  <2>4. CASE DispatchEnd(w) BY <2>4 DEF DispatchEnd
  <2>5. CASE BatchEnd(w) BY <2>5 DEF BatchEnd
  <2> QED BY <1>2, <2>1, <2>2, <2>3, <2>4, <2>5 DEF DrainStep
<1>3. ASSUME NEW s \in Stoppers, StopBegin(s) \/ StopAgain(s) \/ StopProgress(s)
      PROVE  LocalsMatchPlace'
  BY <1>3 DEF StopBegin, StopAgain, StopProgress, StopFlag, StopSleep, StopReturn
<1> QED BY <1>1, <1>2, <1>3 DEF Next

\* Every step keeps the flags true to the stage of Stop, and wakes the stoppers.
LEMMA FlagsStep == PumpInv /\ [Next]_vars => FlagsMatchStop' /\ NoStopperForgotten'
<1> SUFFICES ASSUME PumpInv, [Next]_vars PROVE FlagsMatchStop' /\ NoStopperForgotten'
  OBVIOUS
<1> USE DEF PumpInv, TypeOK, FlagsMatchStop, NoStopperForgotten, Stopping,
            flags, drainVars, history
<1>1. CASE Start
  BY <1>1 DEF Start
<1>2. CASE (\E p \in Peers : Enqueue(p)) \/ UNCHANGED vars
  BY <1>2 DEF Enqueue, vars
<1>3. ASSUME NEW w \in Workers, DrainStep(w) PROVE FlagsMatchStop' /\ NoStopperForgotten'
  <2>1. CASE DrainEnd(w)
    BY <2>1 DEF DrainEnd
  <2>2. CASE ~DrainEnd(w)
    BY <1>3, <2>2 DEF DrainStep, DrainBegin, DrainSwap, DispatchBegin, DispatchEnd, BatchEnd
  <2> QED BY <2>1, <2>2
<1>4. ASSUME NEW s \in Stoppers, StopBegin(s) \/ StopAgain(s) \/ StopProgress(s)
      PROVE  FlagsMatchStop' /\ NoStopperForgotten'
  <2>1. CASE StopBegin(s) BY <2>1 DEF StopBegin
  <2>2. CASE StopAgain(s) BY <2>2 DEF StopAgain
  <2>3. CASE StopFlag(s) BY <2>3 DEF StopFlag
  <2>4. CASE StopSleep(s) BY <2>4 DEF StopSleep
  <2>5. CASE StopReturn(s) BY <2>5 DEF StopReturn
  <2> QED BY <1>4, <2>1, <2>2, <2>3, <2>4, <2>5 DEF StopProgress
<1> QED BY <1>1, <1>2, <1>3, <1>4 DEF Next

\* How each step changes the set of workers in DrainOnce.
LEMMA DrainingStep ==
  ASSUME TypeOK, NEW w \in Workers
  PROVE  /\ DrainBegin(w) => Draining' = Draining \cup {w}
         /\ DrainEnd(w) => Draining' = Draining \ {w}
         /\ DrainSwap(w) \/ DispatchBegin(w) \/ DispatchEnd(w) \/ BatchEnd(w)
              => Draining' = Draining /\ w \in Draining
BY DEF TypeOK, Draining, DrainBegin, DrainEnd, DrainSwap, DispatchBegin, DispatchEnd,
       BatchEnd, flags, drainVars, history

\* No step makes a second DrainOnce.
LEMMA SingleFlightStep == PumpInv /\ [Next]_vars => SingleFlight'
<1> SUFFICES ASSUME PumpInv, [Next]_vars PROVE SingleFlight'
  OBVIOUS
<1> USE DEF PumpInv, TypeOK, SingleFlight, flags, drainVars, history
<1>1. CASE Start \/ UNCHANGED vars
  BY <1>1 DEF Start, Draining, vars
<1>2. ASSUME NEW p \in Peers, Enqueue(p) PROVE SingleFlight'
  BY <1>2 DEF Enqueue, Draining
<1>3. ASSUME NEW w \in Workers, DrainStep(w) PROVE SingleFlight'
  <2>1. CASE DrainBegin(w)
    <3>1. Draining = {} /\ dispatching_ /\ posted = 1
      BY <2>1 DEF DrainBegin
    <3>2. Draining' = {w}
      BY <2>1, <3>1, DrainingStep
    <3> QED BY <2>1, <3>1, <3>2 DEF DrainBegin
  <2>2. CASE DrainEnd(w)
    <3>1. w \in Draining
      BY <2>2 DEF DrainEnd, Draining
    <3>2. Draining' = {}
      BY <2>2, <3>1, DrainingStep
    <3> QED BY <2>2, <3>1, <3>2 DEF DrainEnd
  <2>3. CASE DrainSwap(w) \/ DispatchBegin(w) \/ DispatchEnd(w) \/ BatchEnd(w)
    BY <2>3, DrainingStep DEF DrainSwap, DispatchBegin, DispatchEnd, BatchEnd
  <2> QED BY <1>3, <2>1, <2>2, <2>3 DEF DrainStep
<1>4. ASSUME NEW s \in Stoppers, StopBegin(s) \/ StopAgain(s) \/ StopProgress(s)
      PROVE  SingleFlight'
  BY <1>4 DEF StopBegin, StopAgain, StopProgress, StopFlag, StopSleep, StopReturn, Draining
<1> QED BY <1>1, <1>2, <1>3, <1>4 DEF Next

\* No step leaves an id in queue_ without a DrainOnce.
LEMMA StrandedStep == PumpInv /\ [Next]_vars => NothingStranded'
<1> SUFFICES ASSUME PumpInv, [Next]_vars PROVE NothingStranded'
  OBVIOUS
<1> USE DEF PumpInv, TypeOK, NothingStranded, flags, drainVars, history
<1>1. CASE Start
  BY <1>1 DEF Start, StopIsFinal
<1>2. CASE (\E p \in Peers : Enqueue(p)) \/ UNCHANGED vars
  BY <1>2 DEF Enqueue, vars
<1>3. ASSUME NEW w \in Workers, DrainStep(w) PROVE NothingStranded'
  BY <1>3 DEF DrainStep, DrainBegin, DrainEnd, DrainSwap, DispatchBegin, DispatchEnd, BatchEnd
<1>4. ASSUME NEW s \in Stoppers, StopBegin(s) \/ StopAgain(s) \/ StopProgress(s)
      PROVE  NothingStranded'
  BY <1>4 DEF StopBegin, StopAgain, StopProgress, StopFlag, StopSleep, StopReturn
<1> QED BY <1>1, <1>2, <1>3, <1>4 DEF Next

\* No step brings anything back after the effective Stop.
LEMMA FinalStep == PumpInv /\ [Next]_vars => StopIsFinal'
<1> SUFFICES ASSUME PumpInv, [Next]_vars PROVE StopIsFinal'
  OBVIOUS
<1> USE DEF PumpInv, TypeOK, StopIsFinal, flags, drainVars, history
<1>1. CASE Start \/ (\E p \in Peers : Enqueue(p))
  BY <1>1 DEF Start, Enqueue
<1>2. CASE UNCHANGED vars
  BY <1>2 DEF vars, Draining, Stopping
\* A worker in DrainOnce means that a Stop is under way or the pump runs.
<1>3. ASSUME NEW w \in Workers, DrainStep(w) PROVE StopIsFinal'
  <2>1. dispatching_
    BY <1>3 DEF DrainStep, DrainBegin, DrainEnd, DrainSwap, DispatchBegin, DispatchEnd,
                BatchEnd, SingleFlight, Draining
  <2>2. \/ running_
        \/ \E s \in Stoppers : Stopping(s)
    BY <2>1
  <2>3. running_' = running_
    BY <1>3 DEF DrainStep, DrainBegin, DrainEnd, DrainSwap, DispatchBegin, DispatchEnd, BatchEnd
  <2>4. \A s \in Stoppers : Stopping(s) => Stopping(s)'
    BY <1>3 DEF DrainStep, DrainBegin, DrainEnd, DrainSwap, DispatchBegin, DispatchEnd,
                BatchEnd, Stopping
  <2> QED BY <2>2, <2>3, <2>4
<1>4. ASSUME NEW s \in Stoppers, StopBegin(s) \/ StopAgain(s) \/ StopProgress(s)
      PROVE  StopIsFinal'
  <2>1. CASE StopBegin(s) \/ StopFlag(s) \/ StopSleep(s)
    BY <2>1 DEF StopBegin, StopFlag, StopSleep, Stopping
  <2>2. CASE StopAgain(s)
    BY <2>2 DEF StopAgain, Stopping, Draining
  <2>3. CASE StopReturn(s)
    BY <2>3 DEF StopReturn, SingleFlight, Draining
  <2> QED BY <1>4, <2>1, <2>2, <2>3 DEF StopProgress
<1> QED BY <1>1, <1>2, <1>3, <1>4 DEF Next

\* Every step keeps the order of arrival.
LEMMA OrderStep == PumpInv /\ [Next]_vars => DispatchOrder'
<1> SUFFICES ASSUME PumpInv, [Next]_vars, ~stopping_'
             PROVE  accepted' = handed' \o HeldBatch' \o queue_'
  BY DEF DispatchOrder
<1> USE DEF PumpInv, TypeOK, flags, drainVars, history
<1>h. HeldBatch \in Seq(Peers)
  BY EmptySeq DEF HeldBatch, Draining
<1>1. CASE Start
  <2>1. Draining = {} /\ queue_ = <<>>
    BY <1>1 DEF Start, StopIsFinal
  <2>2. HeldBatch' = <<>> /\ queue_' = <<>>
    BY <1>1, <2>1 DEF Start, HeldBatch, Draining
  <2> QED BY <1>1, <2>2, EmptySeq, ConcatEmptySeq DEF Start
<1>2. ASSUME NEW p \in Peers, Enqueue(p) PROVE accepted' = handed' \o HeldBatch' \o queue_'
  <2>1. HeldBatch' = HeldBatch
    BY <1>2 DEF Enqueue, HeldBatch, Draining
  <2>2. handed \o HeldBatch \in Seq(Peers)
    BY <1>h, ConcatProperties
  <2>3. accepted = (handed \o HeldBatch) \o queue_
    BY <1>2 DEF Enqueue, DispatchOrder
  <2> QED BY <1>2, <2>1, <2>2, <2>3, AppendBehind DEF Enqueue
<1>3. ASSUME NEW w \in Workers, DrainStep(w)
      PROVE  accepted' = handed' \o HeldBatch' \o queue_'
  <2>0. ~stopping_ /\ accepted = handed \o HeldBatch \o queue_ /\ accepted' = accepted
    BY <1>3 DEF DrainStep, DrainBegin, DrainEnd, DrainSwap, DispatchBegin, DispatchEnd,
                BatchEnd, DispatchOrder
  <2>1. CASE DrainBegin(w)
    <3>0. Draining = {}
      BY <2>1 DEF DrainBegin, SingleFlight
    <3>1. Draining' = {w}
      BY <2>1, <3>0, DrainingStep
    <3>2. batch[w] = <<>>
      BY <2>1 DEF DrainBegin, LocalsMatchPlace
    <3>3. HeldBatch = <<>> /\ HeldBatch' = <<>>
      BY <2>1, <3>0, <3>1, <3>2, ChooseOnly DEF HeldBatch, DrainBegin
    <3> QED BY <2>0, <2>1, <3>3 DEF DrainBegin
  <2>2. CASE DrainEnd(w)
    <3>1. w \in Draining /\ drain[w] # "none" /\ batch[w] = <<>>
      BY <2>2 DEF DrainEnd, Draining, LocalsMatchPlace
    <3>2. Draining' = {}
      BY <2>2, <3>1, DrainingStep DEF SingleFlight
    <3>3. HeldBatch = <<>> /\ HeldBatch' = <<>>
      BY <3>1, <3>2, LocalsOfDrainer DEF HeldBatch
    <3> QED BY <2>0, <2>2, <3>3 DEF DrainEnd
  <2>3. CASE DrainSwap(w)
    <3>1. HeldBatch = <<>>
      BY <2>3, LocalsOfDrainer DEF DrainSwap, LocalsMatchPlace
    <3>2. HeldBatch' = queue_
      <4>1. Draining' = Draining /\ w \in Draining
        BY <2>3, DrainingStep
      <4>2. (CHOOSE x \in Draining' : TRUE) = w
        BY <4>1, ChooseOnly DEF SingleFlight
      <4> QED BY <2>3, <4>1, <4>2 DEF HeldBatch, DrainSwap
    <3> QED BY <2>0, <2>3, <3>1, <3>2, ConcatEmptySeq, ConcatProperties DEF DrainSwap
  <2>4. CASE DispatchBegin(w)
    <3>1. HeldBatch = batch[w]
      BY <2>4, LocalsOfDrainer DEF DispatchBegin
    <3>2. HeldBatch' = Tail(batch[w])
      <4>1. Draining' = Draining /\ w \in Draining
        BY <2>4, DrainingStep
      <4>2. (CHOOSE x \in Draining' : TRUE) = w
        BY <4>1, ChooseOnly DEF SingleFlight
      <4> QED BY <2>4, <4>1, <4>2 DEF HeldBatch, DispatchBegin
    <3>3. handed' \o Tail(batch[w]) = handed \o batch[w]
      BY <2>4, MoveHead DEF DispatchBegin
    <3> QED BY <2>0, <2>4, <3>1, <3>2, <3>3 DEF DispatchBegin
  <2>5. CASE DispatchEnd(w)
    BY <2>0, <2>5, DrainingStep DEF DispatchEnd, HeldBatch
  <2>6. CASE BatchEnd(w)
    <3>1. batch[w] = <<>> /\ batch' = batch
      BY <2>0, <2>6 DEF BatchEnd
    <3> QED BY <2>0, <2>6, <3>1, DrainingStep DEF BatchEnd, HeldBatch
  <2> QED BY <1>3, <2>1, <2>2, <2>3, <2>4, <2>5, <2>6 DEF DrainStep
<1>4. ASSUME NEW s \in Stoppers, StopBegin(s) \/ StopAgain(s) \/ StopProgress(s)
      PROVE  accepted' = handed' \o HeldBatch' \o queue_'
  <2>1. ~StopFlag(s) /\ ~StopReturn(s)
    BY DEF StopFlag, StopReturn, FlagsMatchStop
  <2>2. ~stopping_ /\ UNCHANGED <<accepted, handed, drain, batch, queue_>>
    BY <1>4, <2>1 DEF StopBegin, StopAgain, StopProgress, StopSleep
  <2> QED BY <2>2 DEF DispatchOrder, HeldBatch, Draining
<1>5. CASE UNCHANGED vars
  BY <1>5 DEF vars, DispatchOrder, HeldBatch, Draining
<1> QED BY <1>1, <1>2, <1>3, <1>4, <1>5 DEF Next

\* The invariant is inductive.
LEMMA PumpInvStep == PumpInv /\ [Next]_vars => PumpInv'
BY TypeStep, LocalsStep, FlagsStep, SingleFlightStep, StrandedStep, FinalStep, OrderStep
   DEF PumpInv

\* The invariant holds in all behaviours.
LEMMA PumpInvariant == Spec => []PumpInv
BY PumpInvInit, PumpInvStep, PTL DEF Spec

\* The variables of SubscriberOfferPump keep their types.
THEOREM PumpTypeCorrect == Spec => []TypeOK
BY PumpInvariant, PTL DEF PumpInv

\* Single flight: whatever the number of pool workers, at most one DrainOnce of a
\* pump exists, and dispatching_ says whether it does.
THEOREM PumpSingleFlight == Spec => []SingleFlight
BY PumpInvariant, PTL DEF PumpInv

\* Peer ids are handed to on_dispatch_ in the order of Enqueue, none lost, none twice.
THEOREM PumpDispatchOrder == Spec => []DispatchOrder
BY PumpInvariant, PTL DEF PumpInv

\* After the Stop call that cleared running_ has returned, no DrainOnce is left that
\* could call on_dispatch_.
THEOREM PumpStopIsFinal == Spec => []StopIsFinal
BY PumpInvariant, PTL DEF PumpInv

\* A queued peer id always has a DrainOnce coming, and a sleeping Stop a waker: the
\* tests and updates of dispatching_ under mu_ leave no gap.
THEOREM PumpNoGap == Spec => [](NothingStranded /\ NoStopperForgotten)
BY PumpInvariant, PTL DEF PumpInv

-----------------------------------------------------------------------------
(* The refinement. *)

\* Initial states map to initial states.
LEMMA RefinementInit == Init => Dispatcher!Init
<1> SUFFICES ASSUME Init PROVE Dispatcher!Init
  OBVIOUS
<1>1. Draining = {}
  BY DEF Init, Draining
<1>2. HeldBatch = <<>> /\ InCallback = <<>>
  BY <1>1 DEF HeldBatch, InCallback
<1>3. HeldBatch \o queue_ = <<>>
  BY <1>2, EmptySeq, ConcatEmptySeq DEF Init
<1> QED BY <1>2, <1>3 DEF Init, Dispatcher!Init, Stopping, Phase, Pending

\* Every step of the pump is a step of the abstract dispatcher or changes nothing of it.
LEMMA RefinementStep ==
  PumpInv /\ PumpInv' /\ [Next]_vars => [Dispatcher!Next]_(Dispatcher!vars)
<1> SUFFICES ASSUME PumpInv, PumpInv', [Next]_vars
             PROVE  Dispatcher!Next \/ UNCHANGED <<Phase, Pending, InCallback>>
  BY DEF Phase, Pending, Dispatcher!vars
<1> USE DEF PumpInv, TypeOK, flags, drainVars, history
<1>h. HeldBatch \in Seq(Peers) /\ HeldBatch' \in Seq(Peers)
  BY EmptySeq DEF HeldBatch, Draining
<1>1. CASE Start
  <2>1. Draining = {} /\ queue_ = <<>> /\ Draining' = {} /\ queue_' = <<>>
    BY <1>1 DEF Start, StopIsFinal, Draining
  <2>2. Pending = <<>> /\ Pending' = <<>> /\ InCallback' = InCallback
    BY <2>1, <1>1, EmptySeq, ConcatEmptySeq DEF Pending, HeldBatch, InCallback, Start
  <2>3. Phase = "closed" /\ Phase' = "open"
    BY <1>1 DEF Start, Phase
  <2> QED BY <2>2, <2>3 DEF Phase, Pending, Dispatcher!Next, Dispatcher!Open
<1>2. ASSUME NEW p \in Peers, Enqueue(p) PROVE Dispatcher!Accept(p)
  <2>1. HeldBatch' = HeldBatch /\ InCallback' = InCallback
    BY <1>2 DEF Enqueue, HeldBatch, InCallback, Draining
  <2>2. Phase = "open" /\ Phase' = "open"
    BY <1>2 DEF Enqueue, Phase
  <2>3. Pending' = Append(Pending, p)
    BY <1>2, <1>h, <2>1, AppendBehind DEF Enqueue, Pending
  <2> QED BY <2>1, <2>2, <2>3 DEF Dispatcher!Accept, Phase, Pending
<1>3. ASSUME NEW w \in Workers, DrainStep(w)
      PROVE  Dispatcher!Next \/ UNCHANGED <<Phase, Pending, InCallback>>
  <2>p. Phase' = Phase
    <3>1. running_' = running_ /\ \A s \in Stoppers : Stopping(s)' = Stopping(s)
      BY <1>3 DEF DrainStep, DrainBegin, DrainEnd, DrainSwap, DispatchBegin, DispatchEnd,
                  BatchEnd, Stopping
    <3> QED BY <3>1 DEF Phase
  <2>1. CASE DrainBegin(w)
    <3>0. Draining = {}
      BY <2>1 DEF DrainBegin, SingleFlight
    <3>1. Draining' = {w}
      BY <2>1, <3>0, DrainingStep
    <3>2. batch'[w] = <<>> /\ calling'[w] = <<>>
      BY <2>1 DEF DrainBegin, LocalsMatchPlace
    <3>3. HeldBatch = <<>> /\ InCallback = <<>>
      BY <3>0 DEF HeldBatch, InCallback
    <3>4. HeldBatch' = <<>> /\ InCallback' = <<>>
      BY <3>1, <3>2, ChooseOnly DEF HeldBatch, InCallback
    <3> QED BY <2>p, <2>1, <3>3, <3>4 DEF DrainBegin, Pending
  <2>2. CASE DrainEnd(w)
    <3>1. w \in Draining /\ drain[w] # "none" /\ batch[w] = <<>> /\ calling[w] = <<>>
      BY <2>2 DEF DrainEnd, Draining, LocalsMatchPlace
    <3>2. Draining' = {}
      BY <2>2, <3>1, DrainingStep DEF SingleFlight
    <3>3. HeldBatch = <<>> /\ InCallback = <<>>
      BY <3>1, LocalsOfDrainer
    <3>4. HeldBatch' = <<>> /\ InCallback' = <<>>
      BY <3>2 DEF HeldBatch, InCallback
    <3> QED BY <2>p, <2>2, <3>3, <3>4 DEF DrainEnd, Pending
  <2>3. CASE DrainSwap(w) \/ DispatchBegin(w) \/ DispatchEnd(w) \/ BatchEnd(w)
    <3>1. Draining' = Draining /\ w \in Draining /\ drain[w] # "none"
      BY <2>3, DrainingStep DEF Draining
    <3>2. HeldBatch = batch[w] /\ InCallback = calling[w]
      BY <3>1, LocalsOfDrainer
    <3>3. (CHOOSE x \in Draining' : TRUE) = w
      BY <3>1, ChooseOnly DEF SingleFlight
    <3>4. HeldBatch' = batch'[w] /\ InCallback' = calling'[w]
      BY <3>1, <3>3 DEF HeldBatch, InCallback
    <3>5. CASE DrainSwap(w)
      <4>1. batch[w] = <<>> /\ batch'[w] = queue_ /\ queue_' = <<>> /\ calling' = calling
        BY <3>5 DEF DrainSwap, LocalsMatchPlace
      <4>2. Pending' = Pending
        BY <3>5, <3>2, <3>4, <4>1, ConcatEmptySeq DEF Pending, DrainSwap
      <4> QED BY <2>p, <3>2, <3>4, <4>1, <4>2
    <3>6. CASE DispatchBegin(w)
      <4>1. Phase # "closed"
        BY <3>1 DEF StopIsFinal, Phase
      <4>2. InCallback = <<>> /\ InCallback' = <<Head(batch[w])>>
        BY <3>6, <3>2, <3>4 DEF DispatchBegin, LocalsMatchPlace
      <4>3. Pending = batch[w] \o queue_ /\ Pending' = Tail(batch[w]) \o queue_
        BY <3>6, <3>2, <3>4 DEF DispatchBegin, Pending
      <4>4. /\ Pending # <<>>
            /\ InCallback' = <<Head(Pending)>>
            /\ Pending' = Tail(Pending)
        <5>1. /\ batch[w] \in Seq(Peers) /\ queue_ \in Seq(Peers)
              /\ batch[w] # <<>>
          BY <3>6 DEF DispatchBegin
        <5>2. /\ batch[w] \o queue_ # <<>>
              /\ Head(batch[w] \o queue_) = Head(batch[w])
              /\ Tail(batch[w] \o queue_) = Tail(batch[w]) \o queue_
          BY <5>1, HeadTailConcat
        <5> QED BY <4>2, <4>3, <5>2
      <4> QED BY <2>p, <4>1, <4>2, <4>4
              DEF Dispatcher!Next, Dispatcher!Begin, Phase, Pending
    <3>7. CASE DispatchEnd(w)
      <4>1. InCallback # <<>> /\ InCallback' = <<>>
        BY <3>7, <3>2, <3>4 DEF DispatchEnd, LocalsMatchPlace
      <4>2. Pending' = Pending
        BY <3>7, <3>2, <3>4 DEF DispatchEnd, Pending
      <4> QED BY <2>p, <4>1, <4>2 DEF Dispatcher!Next, Dispatcher!End, Phase, Pending
    <3>8. CASE BatchEnd(w)
      <4>1. InCallback' = InCallback
        BY <3>8, <3>2, <3>4 DEF BatchEnd
      <4>2. Pending' = Pending
        BY <3>8, <3>2, <3>4 DEF BatchEnd, Pending
      <4> QED BY <2>p, <4>1, <4>2
    <3> QED BY <2>3, <3>5, <3>6, <3>7, <3>8
  <2> QED BY <1>3, <2>1, <2>2, <2>3 DEF DrainStep
<1>4. ASSUME NEW s \in Stoppers, StopBegin(s) \/ StopAgain(s) \/ StopProgress(s)
      PROVE  Dispatcher!Next \/ UNCHANGED <<Phase, Pending, InCallback>>
  <2>0. HeldBatch' = HeldBatch /\ InCallback' = InCallback
    <3>1. UNCHANGED <<drain, batch, calling>>
      BY <1>4 DEF StopBegin, StopAgain, StopProgress, StopFlag, StopSleep, StopReturn
    <3> QED BY <3>1 DEF HeldBatch, InCallback, Draining
  <2>1. CASE StopBegin(s)
    <3>1. Phase = "open" /\ Phase' = "closing"
      BY <2>1 DEF StopBegin, Phase, Stopping
    <3>2. Pending' = Pending
      BY <2>1, <2>0 DEF StopBegin, Pending
    <3> QED BY <2>0, <3>1, <3>2 DEF Dispatcher!Next, Dispatcher!BeginClose, Phase, Pending
  <2>2. CASE StopAgain(s) \/ StopSleep(s)
    <3>1. \A t \in Stoppers : Stopping(t)' = Stopping(t)
      BY <2>2 DEF StopAgain, StopSleep, Stopping
    <3>2. Phase' = Phase
      BY <2>2, <3>1 DEF StopAgain, StopSleep, Phase
    <3>3. Pending' = Pending
      BY <2>2, <2>0 DEF StopAgain, StopSleep, Pending
    <3> QED BY <2>0, <3>2, <3>3
  <2>3. CASE StopFlag(s)
    <3>1. Phase = "closing" /\ Phase' = "closing"
      BY <2>3 DEF StopFlag, Phase, Stopping, FlagsMatchStop
    <3>2. Pending' = <<>>
      BY <2>3 DEF StopFlag, Pending
    <3> QED BY <2>0, <3>1, <3>2 DEF Dispatcher!Next, Dispatcher!Discard, Phase, Pending
  <2>4. CASE StopReturn(s)
    <3>1. Phase = "closing" /\ Phase' = "closed"
      BY <2>4 DEF StopReturn, Phase, Stopping, FlagsMatchStop
    <3>2. stopping_ /\ stopping_'
      BY <2>4 DEF StopReturn, FlagsMatchStop
    <3>3. Pending = <<>> /\ Pending' = <<>>
      BY <3>2 DEF Pending
    <3>4. InCallback = <<>>
      BY <2>4 DEF StopReturn, SingleFlight, InCallback
    <3> QED BY <2>0, <3>1, <3>3, <3>4 DEF Dispatcher!Next, Dispatcher!Closed, Phase, Pending
  <2> QED BY <1>4, <2>1, <2>2, <2>3, <2>4 DEF StopProgress
<1>5. CASE UNCHANGED vars
  BY <1>5 DEF vars, Phase, Pending, InCallback, HeldBatch, Draining, Stopping
<1> QED BY <1>1, <1>2, <1>3, <1>4, <1>5 DEF Next, Dispatcher!Next

\* The pump implements SerialDispatch: its header's contract, for one owner.
THEOREM PumpRefinesDispatcher == Spec => ImplementsDispatcher
BY PumpInvariant, RefinementInit, RefinementStep, PTL
   DEF Spec, ImplementsDispatcher, Dispatcher!Spec
=============================================================================
