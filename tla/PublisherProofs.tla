--------------------------- MODULE PublisherProofs ---------------------------
(***************************************************************************)
(* Proofs about a published stream, for any set of subscribers, any number *)
(* of restarts, with and without failures.  PublisherInv is inductive: it  *)
(* says how far Start or Stop is (Control) and where every PeerConnection  *)
(* that is neither closed nor being closed is to be found (NoneLost).      *)
(*                                                                         *)
(* The second and third parts are about the two components a published     *)
(* stream runs on: the camera (CapturePipeline, invariant CaptureInv) and  *)
(* the hardware encoder (RkMppH264Encoder, CallInv and DeviceInv).         *)
(***************************************************************************)
EXTENDS Publisher, CapturePipeline, RkMppH264Encoder, FiniteSetTheorems, SequenceTheorems, TLAPS

-----------------------------------------------------------------------------
(* Start, Stop and the PeerConnections *)

Messages == [kind : {"join", "leave", "answer"}, peer : Peers]

Typed ==
  /\ starts \in Nat
  /\ IsFiniteSet(present) /\ present \subseteq Peers
  /\ inbox \in Seq(Messages)
  /\ pending \in Seq(Peers)
  /\ current = <<>> \/ \E p \in Peers : current = <<p>>
  /\ peer_connections_ \subseteq Peers
  /\ closing \subseteq Nat \X (Peers \union {Default})

\* How far the application's thread is says what streamer_ and the pump are.
Control ==
  \/ app = "idle" /\ streamer_ = "none" /\ phase = "closed"
  \/ app = "idle" /\ streamer_ = "on" /\ phase = "open"
  \/ app \in {"signaling", "streamer"} /\ streamer_ = "made" /\ phase = "closed"
  \/ app = "pump" /\ streamer_ = "on" /\ phase = "closed"
  \/ app = "stopping" /\ streamer_ = "on" /\ phase = "closing"
  \/ app = "shutdown" /\ streamer_ = "on" /\ phase = "closed"
  \/ app \in {"closing", "reset"} /\ streamer_ = "shut" /\ phase = "closed"
  \/ app = "unsignal" /\ streamer_ = "none" /\ phase = "closed"

\* The pump's callback and its queue.
Dispatch ==
  /\ phase = "closed" => current = <<>> /\ pending = <<>>
  /\ (worker = "none") <=> (current = <<>>)

\* The default PeerConnection is up while the streamer streams; no
\* PeerConnection of a streamer to come is being closed.
DefaultUp ==
  /\ streamer_ = "on" => Pc(Default) \in open /\ Pc(Default) \notin closing
  /\ streamer_ = "made" => Pc(Default) \notin closing
  /\ \A pc \in closing : pc[1] <= starts

\* A PeerConnection that nobody closes is the default one, an entry of the map or
\* about to be one.
NoneLost ==
  \A pc \in open \ closing :
    \/ pc = Pc(Default) /\ streamer_ = "on"
    \/ \E p \in peer_connections_ : pc = Pc(p)
    \/ worker = "insert" /\ pc = Pc(current[1])

\* The map is empty outside the life of a streamer.
MapWithinLife ==
  peer_connections_ # {} => streamer_ = "on" \/ app = "closing"

PublisherInv ==
  Typed /\ Control /\ Dispatch /\ DefaultUp /\ NoneLost /\ MapWithinLife

invVars == <<app, streamer_, starts, phase, pending, current, worker, present, inbox,
             peer_connections_, open, closing>>

-----------------------------------------------------------------------------
\* The invariant holds before the first Start.
LEMMA PublisherInit == Init => PublisherInv
PROOF
  <1> SUFFICES ASSUME Init PROVE PublisherInv
    OBVIOUS
  <1> USE DEF Init, OfferPump!Init
  <1>1. Typed
    BY FS_EmptySet DEF Typed
  <1>2. Control /\ Dispatch /\ DefaultUp /\ NoneLost /\ MapWithinLife
    BY DEF Control, Dispatch, DefaultUp, NoneLost, MapWithinLife
  <1> QED BY <1>1, <1>2 DEF PublisherInv

\* A step that leaves what the invariant speaks of.
LEMMA PublisherStutter ==
  ASSUME PublisherInv, UNCHANGED invVars
  PROVE  PublisherInv'
PROOF
  BY DEF PublisherInv, invVars, Typed, Control, Dispatch, DefaultUp, NoneLost,
         MapWithinLife, Pc

\* What the server sends to a publisher that registers.
LEMMA AnnouncementsTyped ==
  ASSUME IsFiniteSet(present), present \subseteq Peers
  PROVE  \A q \in Announcements : q \in Seq(Messages)
PROOF
  <1>1. Cardinality(present) \in Nat
    BY FS_CardinalityType
  <1>2. {Msg("join", p) : p \in present} \subseteq Messages
    BY DEF Msg, Messages
  <1> QED BY <1>1, <1>2 DEF Announcements

\* Publisher::Start.
LEMMA StartKeeps ==
  ASSUME PublisherInv, StartBegins \/ StartStep
  PROVE  PublisherInv'
PROOF
  <1> USE DEF PublisherInv
  <1>1. CASE StartBegins
    <2>1. \A pc \in closing : pc # <<starts + 1, Default>>
      BY <1>1 DEF DefaultUp, Typed
    <2>2. (Typed /\ Control /\ Dispatch /\ MapWithinLife)'
      BY <1>1 DEF StartBegins, Typed, Control, Dispatch, MapWithinLife, pump, server, pcs
    <2>3. DefaultUp'
      BY <1>1, <2>1 DEF StartBegins, DefaultUp, Typed, Control, pcs, Pc
    <2>4. open \ closing = {}
      BY <1>1 DEF StartBegins, NoneLost, MapWithinLife, Dispatch, Control
    <2>5. NoneLost'
      BY <1>1, <2>4 DEF StartBegins, NoneLost, pcs
    <2> QED BY <2>2, <2>3, <2>5
  <1>2. CASE SignalingStarts
    <2>1. inbox' \in Seq(Messages)
      BY <1>2, AnnouncementsTyped DEF SignalingStarts, Typed
    <2> QED BY <1>2, <2>1 DEF SignalingStarts, Typed, Control, Dispatch, DefaultUp, NoneLost,
                              MapWithinLife, pump, server, pcs, Pc
  <1>3. CASE SignalingFails \/ StreamerFails
    <2>1. open \ closing = {}
      BY <1>3 DEF SignalingFails, StreamerFails, NoneLost, MapWithinLife, Dispatch, Control
    <2>2. NoneLost'
      BY <1>3, <2>1 DEF SignalingFails, StreamerFails, NoneLost, pcs
    <2>3. (Typed /\ Control /\ Dispatch /\ MapWithinLife)'
      BY <1>3 DEF SignalingFails, StreamerFails, Typed, Control, Dispatch, MapWithinLife,
                  pump, server, pcs
    <2>4. DefaultUp'
      BY <1>3 DEF SignalingFails, StreamerFails, DefaultUp, pcs, Pc
    <2> QED BY <2>2, <2>3, <2>4
  <1>4. CASE StreamerStarts
    <2>1. (Typed /\ Control /\ Dispatch /\ MapWithinLife)'
      BY <1>4 DEF StreamerStarts, Typed, Control, Dispatch, MapWithinLife, pump, server
    <2>2. DefaultUp'
      BY <1>4 DEF StreamerStarts, DefaultUp, Control, Pc
    <2>3. NoneLost'
      BY <1>4 DEF StreamerStarts, NoneLost, Control, Pc, pump
    <2> QED BY <2>1, <2>2, <2>3
  <1>5. CASE PumpStarts
    BY <1>5 DEF PumpStarts, OfferPump!Open, Typed, Control, Dispatch, DefaultUp, NoneLost,
                MapWithinLife, server, pcs, Pc
  <1> QED BY <1>1, <1>2, <1>3, <1>4, <1>5 DEF StartStep

\* Publisher::Stop.
LEMMA StopKeeps ==
  ASSUME PublisherInv, StopBegins \/ StopStep
  PROVE  PublisherInv'
PROOF
  <1> USE DEF PublisherInv
  <1>1. CASE StopBegins
    BY <1>1 DEF StopBegins, OfferPump!BeginClose, Typed, Control, Dispatch, DefaultUp,
                NoneLost, MapWithinLife, server, pcs, Pc
  <1>2. CASE PumpDiscards
    BY <1>2 DEF PumpDiscards, OfferPump!Discard, Typed, Control, Dispatch, DefaultUp,
                NoneLost, MapWithinLife, server, pcs, Pc
  <1>3. CASE PumpStopped
    BY <1>3 DEF PumpStopped, OfferPump!Closed, Typed, Control, Dispatch, DefaultUp,
                NoneLost, MapWithinLife, server, pcs, Pc
  <1>4. CASE ShutdownBegins
    <2>1. (Typed /\ Control /\ Dispatch /\ MapWithinLife)'
      BY <1>4 DEF ShutdownBegins, Typed, Control, Dispatch, MapWithinLife, pump, server, Pc
    <2>2. DefaultUp'
      BY <1>4 DEF ShutdownBegins, DefaultUp, Typed, Pc
    <2>3. NoneLost'
      BY <1>4 DEF ShutdownBegins, NoneLost, pump, Pc
    <2> QED BY <2>1, <2>2, <2>3
  <1>5. CASE ShutdownCloses
    <2>1. PICK p \in Unclosed : closing' = closing \union {Pc(p)}
      BY <1>5 DEF ShutdownCloses
    <2>2. p \in Peers
      BY <2>1 DEF Unclosed, Typed
    <2>3. (Typed /\ Control /\ Dispatch /\ MapWithinLife)'
      BY <1>5, <2>1, <2>2 DEF ShutdownCloses, Typed, Control, Dispatch, MapWithinLife, pump,
                              server, Pc
    <2>4. DefaultUp'
      BY <1>5, <2>1 DEF ShutdownCloses, DefaultUp, Control, Typed, Pc
    <2>5. NoneLost'
      BY <1>5, <2>1 DEF ShutdownCloses, NoneLost, pump, Pc
    <2> QED BY <2>3, <2>4, <2>5
  <1>6. CASE ShutdownEnds
    <2>1. open \ closing = {}
      BY <1>6 DEF ShutdownEnds, NoneLost, Unclosed, Control, Dispatch
    <2>2. NoneLost'
      BY <1>6, <2>1 DEF ShutdownEnds, NoneLost
    <2>3. (Typed /\ Control /\ Dispatch /\ MapWithinLife)'
      BY <1>6 DEF ShutdownEnds, Typed, Control, Dispatch, MapWithinLife, pump, server
    <2>4. DefaultUp'
      BY <1>6 DEF ShutdownEnds, DefaultUp, Control, Pc
    <2> QED BY <2>2, <2>3, <2>4
  <1>7. CASE StreamerReset
    <2>1. open \ closing = {}
      BY <1>7 DEF StreamerReset, NoneLost, MapWithinLife, Control, Dispatch
    <2>2. NoneLost'
      BY <1>7, <2>1 DEF StreamerReset, NoneLost
    <2>3. (Typed /\ Control /\ Dispatch /\ MapWithinLife)'
      BY <1>7 DEF StreamerReset, Typed, Control, Dispatch, MapWithinLife, pump, server
    <2>4. DefaultUp'
      BY <1>7 DEF StreamerReset, DefaultUp, Pc
    <2> QED BY <2>2, <2>3, <2>4
  <1>8. CASE SignalingStops
    BY <1>8 DEF SignalingStops, Typed, Control, Dispatch, DefaultUp, NoneLost, MapWithinLife,
                pump, server, pcs, Pc
  <1>9. CASE ShutdownGivesUp
    BY <1>9, PublisherStutter DEF ShutdownGivesUp, invVars, pump, server
  <1> QED BY <1>1, <1>2, <1>3, <1>4, <1>5, <1>6, <1>7, <1>8, <1>9 DEF StopStep

\* The signaling IO thread.
LEMMA IoKeeps ==
  ASSUME PublisherInv, IoStep
  PROVE  PublisherInv'
PROOF
  <1> USE DEF PublisherInv
  <1>1. ASSUME inbox # <<>>
        PROVE  Head(inbox).peer \in Peers /\ Tail(inbox) \in Seq(Messages)
    <2>1. Head(inbox) \in Messages /\ Tail(inbox) \in Seq(Messages)
      BY <1>1 DEF Typed
    <2> QED BY <2>1 DEF Messages
  <1>2. CASE IoJoin
    <2>1. inbox' \in Seq(Messages) /\ Head(inbox).peer \in Peers
      BY <1>1, <1>2 DEF IoJoin, IoReads
    <2>2. pending' \in Seq(Peers) /\ current' = current
      BY <1>2, <2>1, SMTT(30) DEF IoJoin, OfferPump!Accept, Typed, pump
    <2>3. Typed'
      BY <1>2, <2>1, <2>2 DEF IoJoin, Typed, server, pcs
    <2>4. (Control /\ Dispatch /\ MapWithinLife)'
      BY <1>2 DEF IoJoin, OfferPump!Accept, Control, Dispatch, MapWithinLife, pump
    <2>5. (DefaultUp /\ NoneLost)'
      BY <1>2 DEF IoJoin, OfferPump!Accept, DefaultUp, NoneLost, pump, pcs, Pc
    <2> QED BY <2>3, <2>4, <2>5
  <1>3. CASE IoLeave \/ IoAnswer
    <2>1. inbox' \in Seq(Messages)
      BY <1>1, <1>3 DEF IoLeave, IoAnswer, IoReads
    <2> QED BY <1>3, <2>1 DEF IoLeave, IoAnswer, Typed, Control, Dispatch, DefaultUp,
                              NoneLost, MapWithinLife, pump, server, pcs, Pc
  <1>4. CASE IoErases /\ io.of = starts /\ io.peer \in peer_connections_
    <2>1. /\ io.peer \in Peers /\ io.peer # Default
          /\ closing' = closing \union {Pc(io.peer)}
          /\ peer_connections_' = peer_connections_ \ {io.peer}
      BY <1>4, PublisherAssumption DEF IoErases, Typed, Pc
    <2>2. (Typed /\ Control /\ Dispatch /\ MapWithinLife)'
      BY <1>4, <2>1 DEF IoErases, Typed, Control, Dispatch, MapWithinLife, pump, server, Pc
    <2>3. DefaultUp'
      BY <1>4, <2>1 DEF IoErases, DefaultUp, Typed, MapWithinLife, Control, Pc
    <2>4. NoneLost'
      BY <1>4, <2>1 DEF IoErases, NoneLost, pump, Pc
    <2> QED BY <2>2, <2>3, <2>4
  <1>5. CASE IoErases /\ ~(io.of = starts /\ io.peer \in peer_connections_)
    BY <1>5, PublisherStutter DEF IoErases, invVars, pump, server
  <1>6. CASE IoGivesUp \/ IoCloses \/ IoApplies
    BY <1>6, PublisherStutter DEF IoGivesUp, IoCloses, IoApplies, invVars, pump, server, pcs
  <1> QED BY <1>2, <1>3, <1>4, <1>5, <1>6 DEF IoStep

\* CreateOfferForPeer on a pool worker.
LEMMA WorkerKeeps ==
  ASSUME PublisherInv, WorkerStep
  PROVE  PublisherInv'
PROOF
  <1> USE DEF PublisherInv
  <1>1. CASE WorkerBegins
    <2>1. Head(pending) \in Peers /\ Tail(pending) \in Seq(Peers)
      BY <1>1 DEF WorkerBegins, OfferPump!Begin, Typed
    <2>2. Typed'
      BY <1>1, <2>1 DEF WorkerBegins, OfferPump!Begin, Typed, server, pcs
    <2>3. (Control /\ Dispatch /\ MapWithinLife)'
      BY <1>1 DEF WorkerBegins, OfferPump!Begin, Control, Dispatch, MapWithinLife
    <2>4. (DefaultUp /\ NoneLost)'
      BY <1>1 DEF WorkerBegins, OfferPump!Begin, DefaultUp, NoneLost, Dispatch, pcs, Pc
    <2> QED BY <2>2, <2>3, <2>4
  <1>2. CASE WaitForCaptureGate \/ EnsureFails
    BY <1>2 DEF WaitForCaptureGate, EnsureFails, Typed, Control, Dispatch, DefaultUp,
                NoneLost, MapWithinLife, pump, server, pcs, Pc
  <1>3. CASE EnsureCreates
    <2>1. (Typed /\ Control /\ Dispatch /\ MapWithinLife)'
      BY <1>3 DEF EnsureCreates, Typed, Control, Dispatch, MapWithinLife, pump, server
    <2>2. DefaultUp'
      BY <1>3 DEF EnsureCreates, DefaultUp, Pc
    <2>3. NoneLost'
      BY <1>3 DEF EnsureCreates, NoneLost, pump, Pc, p_
    <2> QED BY <2>1, <2>2, <2>3
  <1>4. CASE EnsureInserts
    <2>1. p_ \in Peers /\ streamer_ = "on"
      BY <1>4 DEF EnsureInserts, Dispatch, Control, Typed, p_
    <2>2. (Typed /\ Control /\ Dispatch /\ MapWithinLife)'
      BY <1>4, <2>1 DEF EnsureInserts, Typed, Control, Dispatch, MapWithinLife, pump, server,
                        pcs
    <2>3. DefaultUp'
      BY <1>4 DEF EnsureInserts, DefaultUp, pcs, Pc
    <2>4. NoneLost'
      BY <1>4 DEF EnsureInserts, NoneLost, pump, pcs, Pc, p_
    <2> QED BY <2>2, <2>3, <2>4
  <1>5. CASE CreateOfferOnConnection
    BY <1>5 DEF CreateOfferOnConnection, Typed, Control, Dispatch, DefaultUp, NoneLost,
                MapWithinLife, pump, server, pcs, Pc
  <1>6. CASE WorkerEnds
    BY <1>6 DEF WorkerEnds, OfferPump!End, Typed, Control, Dispatch, DefaultUp, NoneLost,
                MapWithinLife, server, pcs, Pc
  <1> QED BY <1>1, <1>2, <1>3, <1>4, <1>5, <1>6 DEF WorkerStep

\* libwebrtc's signaling thread.
LEMMA RtcKeeps ==
  ASSUME PublisherInv, OfferStep \/ Closed
  PROVE  PublisherInv'
PROOF
  <1> USE DEF PublisherInv
  <1>1. CASE Closed
    <2>1. PICK pc \in closing : open' = open \ {pc} /\ closing' = closing \ {pc}
      BY <1>1 DEF Closed
    <2>2. (Typed /\ Control /\ Dispatch /\ MapWithinLife)'
      BY <1>1, <2>1 DEF Closed, Typed, Control, Dispatch, MapWithinLife, pump, server
    <2>3. DefaultUp'
      BY <1>1, <2>1 DEF Closed, DefaultUp, Pc
    <2>4. NoneLost'
      BY <1>1, <2>1 DEF Closed, NoneLost, pump, Pc
    <2> QED BY <2>2, <2>3, <2>4
  <1>2. CASE OfferCreated \/ LocalDescriptionSet \/ OfferFails
    BY <1>2, PublisherStutter DEF OfferCreated, LocalDescriptionSet, OfferFails, invVars, pump,
                                  server, pcs
  <1> QED BY <1>1, <1>2 DEF OfferStep

\* The server and the subscribers.
LEMMA EnvironmentKeeps ==
  ASSUME PublisherInv, Environment
  PROVE  PublisherInv'
PROOF
  <1> USE DEF PublisherInv
  <1>1. ASSUME NEW p \in Peers, NEW k \in {"join", "leave", "answer"}, Tell(Msg(k, p))
        PROVE  inbox' \in Seq(Messages)
    <2>1. Msg(k, p) \in Messages
      BY DEF Msg, Messages
    <2> QED BY <1>1, <2>1 DEF Tell, Typed
  <1>2. ASSUME NEW p \in Peers, SubscriberComes(p)
        PROVE  PublisherInv'
    <2>1. IsFiniteSet(present') /\ present' \subseteq Peers
      BY <1>2, FS_AddElement DEF SubscriberComes, Typed
    <2>2. inbox' \in Seq(Messages)
      BY <1>1, <1>2 DEF SubscriberComes
    <2> QED BY <1>2, <2>1, <2>2 DEF SubscriberComes, Typed, Control, Dispatch, DefaultUp,
                                    NoneLost, MapWithinLife, pump, pcs, Pc
  <1>3. ASSUME NEW p \in Peers, SubscriberGoes(p)
        PROVE  PublisherInv'
    <2>1. IsFiniteSet(present') /\ present' \subseteq Peers
      BY <1>3, FS_RemoveElement DEF SubscriberGoes, Typed
    <2>2. inbox' \in Seq(Messages)
      BY <1>1, <1>3 DEF SubscriberGoes
    <2> QED BY <1>3, <2>1, <2>2 DEF SubscriberGoes, Typed, Control, Dispatch, DefaultUp,
                                    NoneLost, MapWithinLife, pump, pcs, Pc
  <1>4. ASSUME NEW p \in Peers, SubscriberAnswers(p)
        PROVE  PublisherInv'
    <2>1. inbox' \in Seq(Messages)
      BY <1>1, <1>4 DEF SubscriberAnswers
    <2> QED BY <1>4, <2>1 DEF SubscriberAnswers, Typed, Control, Dispatch, DefaultUp,
                              NoneLost, MapWithinLife, pump, pcs, Pc
  <1>5. CASE ConnectionLost
    BY <1>5, PublisherStutter DEF ConnectionLost, invVars, pump, server, pcs
  <1> QED BY <1>2, <1>3, <1>4, <1>5 DEF Environment

\* Every step keeps the invariant.
LEMMA PublisherStep ==
  ASSUME PublisherInv, [Next]_vars
  PROVE  PublisherInv'
PROOF
  <1>1. CASE TickStep \/ PushBegins \/ PushEnds
    BY <1>1, PublisherStutter DEF TickStep, PushBegins, PushEnds, invVars, pump, server, pcs
  <1>2. CASE UNCHANGED vars
    BY <1>2, PublisherStutter DEF vars, invVars, pump, server, pcs
  <1> QED BY <1>1, <1>2, StartKeeps, StopKeeps, IoKeeps, WorkerKeeps, RtcKeeps,
             EnvironmentKeeps DEF Next

\* The invariant of a published stream, for every set of subscribers.
THEOREM PublisherInvariant == Spec => []PublisherInv
PROOF
  BY PublisherInit, PublisherStep, PTL DEF Spec

\* Publisher::Stop stops the pump first: a pool worker is inside the streamer only
\* while it streams and its default PeerConnection is up.
THEOREM WorkerNeverOutlivesStreamer == Spec => []PumpWithinStreamer
PROOF
  <1>1. PublisherInv => PumpWithinStreamer
    BY DEF PublisherInv, Control, Dispatch, DefaultUp, PumpWithinStreamer
  <1> QED BY <1>1, PublisherInvariant, PTL

\* Once streamer_ is gone every PeerConnection is closed or being closed.
THEOREM StopLeavesNothingOpen == Spec => []StopClosesAll
PROOF
  <1>1. PublisherInv => StopClosesAll
    BY DEF PublisherInv, Control, Dispatch, NoneLost, MapWithinLife, StopClosesAll
  <1> QED BY <1>1, PublisherInvariant, PTL

-----------------------------------------------------------------------------
(* Observers.  A PeerConnection::Close that exceeds its deadline (late)     *)
(* leaves the PeerConnection with an observer that is destroyed.            *)

\* When Shutdown is over the default PeerConnection is closed, or its Close was
\* given up: streamer_.reset() destroys its observer.
DefaultClosed ==
  app = "reset" => Pc(Default) \notin open \ late

ObserverInv ==
  PublisherInv /\ ObserverOutlivesPc /\ DefaultClosed

\* Before the first Start there is no PeerConnection.
LEMMA ObserverInit == Init => ObserverInv
PROOF
  BY PublisherInit DEF Init, ObserverInv, ObserverOutlivesPc, DefaultClosed

\* At the end of Shutdown every PeerConnection whose observer goes is closed or
\* given up: the entries of the map by its loop, the default one before it.
LEMMA ShutdownHasClosed ==
  ASSUME PublisherInv, ShutdownEnds
  PROVE  \A p \in peer_connections_ \union {Default} : Pc(p) \notin open \ late
PROOF
  <1>1. \A p \in peer_connections_ \union {Default} :
          Pc(p) \in closing => Pc(p) \notin open \ late
    BY DEF ShutdownEnds, ShutdownWaits, CloseReturns
  <1>2. \A p \in peer_connections_ : Pc(p) \in open => Pc(p) \in closing
    BY DEF ShutdownEnds, Unclosed
  <1>3. /\ streamer_ = "shut" /\ worker = "none"
        /\ peer_connections_ \subseteq Peers /\ Default \notin Peers
    BY PublisherAssumption DEF PublisherInv, ShutdownEnds, Control, Dispatch, Typed
  <1>4. \A p \in peer_connections_ : Pc(p) # Pc(Default)
    BY <1>3 DEF Pc
  <1>5. Pc(Default) \in open => Pc(Default) \in closing
    BY <1>3, <1>4 DEF PublisherInv, NoneLost
  <1> QED BY <1>1, <1>2, <1>5

\* The steps that make a PeerConnection or destroy an observer, and the end of Close.
LEMMA ObserverKeeps ==
  ASSUME ObserverInv, Next
  PROVE  ObserverOutlivesPc' /\ DefaultClosed'
PROOF
  <1> USE DEF ObserverInv, ObserverOutlivesPc, DefaultClosed
  <1>1. CASE StreamerStarts
    BY <1>1 DEF StreamerStarts
  <1>2. CASE ShutdownEnds
    <2>1. \A p \in peer_connections_ \union {Default} : Pc(p) \notin open \ late
      BY <1>2, ShutdownHasClosed
    <2>2. /\ open' = open /\ late' = late /\ starts' = starts
          /\ observers' = observers \ {Pc(p) : p \in peer_connections_}
      BY <1>2 DEF ShutdownEnds
    <2> QED BY <2>1, <2>2 DEF Pc
  <1>3. CASE StreamerReset
    BY <1>3 DEF StreamerReset
  <1>4. CASE IoCloses
    BY <1>4 DEF IoCloses, CloseReturns, Pc
  <1>5. CASE EnsureCreates
    <2>1. app # "reset"
      BY <1>5 DEF EnsureCreates, PublisherInv, Control, Dispatch
    <2> QED BY <1>5, <2>1 DEF EnsureCreates
  <1>6. CASE Closed
    BY <1>6 DEF Closed, Pc
  <1>7. CASE StartBegins \/ SignalingStarts \/ SignalingFails \/ StreamerFails \/ PumpStarts
    BY <1>7 DEF StartBegins, SignalingStarts, SignalingFails, StreamerFails, PumpStarts, pcs
  <1>8. CASE StopBegins \/ PumpDiscards \/ PumpStopped \/ ShutdownBegins \/ ShutdownCloses
             \/ SignalingStops
    BY <1>8 DEF StopBegins, PumpDiscards, PumpStopped, ShutdownBegins, ShutdownCloses,
                SignalingStops, pcs
  <1>9. ASSUME UNCHANGED <<app, starts, open, observers>>, late \subseteq late'
        PROVE  ObserverOutlivesPc' /\ DefaultClosed'
    BY <1>9 DEF Pc
  <1>10. CASE IoJoin \/ IoLeave \/ IoErases \/ IoGivesUp \/ IoAnswer \/ IoApplies
              \/ ShutdownGivesUp
    BY <1>9, <1>10 DEF IoJoin, IoLeave, IoErases, IoGivesUp, IoAnswer, IoApplies,
                       ShutdownGivesUp, pcs
  <1>11. CASE WorkerBegins \/ WaitForCaptureGate \/ EnsureFails \/ EnsureInserts
              \/ CreateOfferOnConnection \/ WorkerEnds
    BY <1>9, <1>11 DEF WorkerBegins, WaitForCaptureGate, EnsureFails, EnsureInserts,
                       CreateOfferOnConnection, WorkerEnds, pcs
  <1>12. CASE OfferCreated \/ LocalDescriptionSet \/ OfferFails \/ TickStep \/ PushBegins
              \/ PushEnds
    BY <1>9, <1>12 DEF OfferCreated, LocalDescriptionSet, OfferFails, TickStep, PushBegins,
                       PushEnds, pcs
  <1>13. CASE Environment
    BY <1>9, <1>13 DEF Environment, SubscriberComes, SubscriberGoes, SubscriberAnswers,
                       ConnectionLost, pcs
  <1> QED BY <1>1, <1>2, <1>3, <1>4, <1>5, <1>6, <1>7, <1>8, <1>10, <1>11, <1>12, <1>13
             DEF Next, StartStep, StopStep, IoStep, WorkerStep, OfferStep

\* libwebrtc never calls an observer that is destroyed: whichever of Shutdown and
\* ClosePeerForSubscriber closes a PeerConnection, its observer goes after Close;
\* the only exceptions are those whose Close exceeded its deadline.
THEOREM ObserversOutlive == Spec => []ObserverOutlivesPc
PROOF
  <1>1. ObserverInv /\ [Next]_vars => ObserverInv'
    <2> SUFFICES ASSUME ObserverInv, [Next]_vars PROVE ObserverInv'
      OBVIOUS
    <2>1. PublisherInv'
      BY PublisherStep DEF ObserverInv
    <2>2. CASE UNCHANGED vars
      BY <2>1, <2>2 DEF ObserverInv, ObserverOutlivesPc, DefaultClosed, vars, pcs, Pc
    <2>3. CASE Next
      BY <2>1, <2>3, ObserverKeeps DEF ObserverInv
    <2> QED BY <2>2, <2>3
  <1>2. ObserverInv => ObserverOutlivesPc
    BY DEF ObserverInv
  <1> QED BY <1>1, <1>2, ObserverInit, PTL DEF Spec

-----------------------------------------------------------------------------
(* The camera: CapturePipeline *)

\* An entry of jpeg_queue_: a buffer and the frame in it.
Entries == [buf : Buffers, frame : 1..MaxFrames]

\* What the capture thread has: a buffer and its frame between DQBUF and QBUF.
CapTyped ==
  /\ frames \in 0..MaxFrames
  /\ cap \in [at : {"none", "loop", "poll", "got", "converting", "requeue", "done"},
              buf : Buffers \union {NoBuf}, frame : 0..MaxFrames]
  /\ cap.at \in {"got", "converting"} => cap.buf \in Buffers /\ cap.frame \in 1..MaxFrames

\* What is converted: it has a buffer, and a slot of the pool while it is decoded into one.
JobTyped ==
  /\ job \in [at : {"none", "decode", "fill", "fallback", "done"},
              buf : Buffers \union {NoBuf}, frame : 0..MaxFrames, slot : Slots \union {NoSlot}]
  /\ job.at # "none" => job.buf \in Buffers
  /\ job.at = "fill" <=> job.slot # NoSlot

\* The queue and the entries taken out of it that wait for their QBUF.
QueuesTyped == dropped \in Seq(Entries) /\ jpeg_queue_ \in Seq(Entries)

\* The NV12 pool.
PoolTyped == slots_in_use \subseteq Slots /\ pictures \subseteq Slots /\ ring \in 0..PoolSlots

\* The types of the variables the invariant is about.
CaptureTyped == CapTyped /\ JobTyped /\ QueuesTyped /\ PoolTyped

\* Before Start every slot is free.
LEMMA PoolInit ==
  ASSUME InitCapture
  PROVE  CaptureTyped /\ SlotExclusive
PROOF
  <1>1. CapTyped /\ JobTyped
    <2>1. /\ cap = [at |-> "none", buf |-> NoBuf, frame |-> 0] /\ frames = 0
          /\ job = [at |-> "none", buf |-> NoBuf, frame |-> 0, slot |-> NoSlot]
      BY DEF InitCapture, NoJob
    <2>2. 0 \in 0..MaxFrames
      BY CaptureAssumption
    <2>3. CapTyped
      BY <2>1, <2>2 DEF CapTyped
    <2> QED BY <2>1, <2>2, <2>3 DEF JobTyped
  <1>2. QueuesTyped
    <2>1. \A X : <<>> \in Seq(X)
      BY EmptySeq, Zenon
    <2> QED BY <2>1, Zenon DEF InitCapture, QueuesTyped
  <1>3. PoolTyped /\ SlotExclusive
    <2>1. slots_in_use = {} /\ pictures = {} /\ ring = 0 /\ job.slot = NoSlot
      BY DEF InitCapture, NoJob
    <2>2. 0 \in 0..PoolSlots
      BY CaptureAssumption
    <2> QED BY <2>1, <2>2 DEF PoolTyped, SlotExclusive
  <1> QED BY <1>1, <1>2, <1>3 DEF CaptureTyped

\* Every non-empty set of natural numbers has a least one.
LEMMA LeastNat ==
  ASSUME NEW S \in SUBSET Nat, S # {}
  PROVE  \E n \in S : \A m \in S : n <= m
PROOF
  <1> DEFINE R == OpToRel(<, Nat)
  <1>1. IsWellFoundedOn(R, Nat)
    BY NatLessThanWellFounded
  <1>3. \A m, n \in Nat : m < n => <<m, n>> \in R
    BY DEF OpToRel
  <1> HIDE DEF R
  <1>2. \E x \in S : \A y \in S : ~(<<y, x>> \in R)
    BY <1>1, WFMin
  <1>4. PICK x \in S : \A y \in S : ~(<<y, x>> \in R)
    BY <1>2
  <1>5. ASSUME NEW y \in S PROVE x <= y
    <2>1. ~(y < x)
      BY <1>3, <1>4
    <2> QED BY <2>1
  <1> QED BY <1>5

\* The search that starts at nv12_ring_next_ ends at a free slot if there is one.
LEMMA FreeSlotIsFree ==
  ASSUME PoolTyped, slots_in_use # Slots
  PROVE  FreeSlot \in Slots \ slots_in_use
PROOF
  <1> DEFINE At(k) == (ring + k) % PoolSlots
             Free == {k \in Slots : At(k) \notin slots_in_use}
  <1>1. PoolSlots \in Nat /\ PoolSlots >= 1 /\ ring \in 0..PoolSlots
    BY CaptureAssumption DEF PoolTyped
  <1>2. \A k \in Slots : At(k) \in Slots
    BY <1>1 DEF Slots
  <1>3. PICK s \in Slots : s \notin slots_in_use
    BY DEF PoolTyped
  <1>4. \E k \in Slots : At(k) = s
    <2>0. s \in 0..(PoolSlots - 1)
      BY DEF Slots
    <2>1. CASE s >= ring
      <3>1. s - ring \in Slots /\ ring + (s - ring) = s /\ s % PoolSlots = s
        BY <1>1, <2>0, <2>1 DEF Slots
      <3> QED BY <3>1
    <2>2. CASE s < ring
      <3>1. s + PoolSlots - ring \in Slots /\ ring + (s + PoolSlots - ring) = s + PoolSlots
        BY <1>1, <2>0, <2>2 DEF Slots
      <3>2. (s + PoolSlots) % PoolSlots = s
        BY <1>1, <2>0
      <3> QED BY <3>1, <3>2
    <2> QED BY <1>1, <2>0, <2>1, <2>2
  <1>5. Free \in SUBSET Nat /\ Free # {}
    <2>1. PICK k \in Slots : At(k) = s
      BY <1>4
    <2>2. k \in Free
      BY <1>3, <2>1
    <2>3. Slots \subseteq Nat
      BY <1>1 DEF Slots
    <2>4. Free \subseteq Slots
      OBVIOUS
    <2> QED BY <2>2, <2>3, <2>4
  <1>6. PICK n \in Free : \A m \in Free : n <= m
    <2> HIDE DEF Free
    <2> QED BY <1>5, LeastNat
  <1>7. n \in Slots /\ At(n) \notin slots_in_use
    BY <1>6
  <1>8. \A j \in 0..(n - 1) : At(j) \in slots_in_use
    <2> SUFFICES ASSUME NEW j \in 0..(n - 1), At(j) \notin slots_in_use PROVE FALSE
      OBVIOUS
    <2>1. j \in Slots /\ j < n
      BY <1>1, <1>7 DEF Slots
    <2>2. j \in Free
      BY <2>1
    <2> HIDE DEF Free
    <2>3. n <= j
      BY <1>6, <2>2
    <2> QED BY <1>1, <1>7, <2>1, <2>3 DEF Slots
  <1> DEFINE Tried(k) == At(k) \notin slots_in_use /\ \A j \in 0..(k - 1) : At(j) \in slots_in_use
             tried == CHOOSE k \in Slots : Tried(k)
  <1>9. tried \in Slots /\ Tried(tried)
    <2>1. \E k \in Slots : Tried(k)
      BY <1>7, <1>8, Zenon
    <2> HIDE DEF Tried
    <2> QED BY <2>1, Zenon
  <1>10. FreeSlot = At(tried)
    BY DEF FreeSlot
  <1> QED BY <1>2, <1>9, <1>10, Zenon

-----------------------------------------------------------------------------
(* Lists of entries, the buffers in them, and that none is in a list twice *)

\* No buffer is twice in the list.
Distinct(q) == \A i, j \in 1..Len(q) : q[i].buf = q[j].buf => i = j

\* The decode thread takes the first entry of a list.
LEMMA HeadLeaves ==
  ASSUME NEW q \in Seq(Entries), q # <<>>
  PROVE  /\ Head(q) \in Entries /\ Tail(q) \in Seq(Entries)
         /\ BufsOf(q) = {Head(q).buf} \union BufsOf(Tail(q))
         /\ Distinct(q) => Head(q).buf \notin BufsOf(Tail(q)) /\ Distinct(Tail(q))
PROOF
  <1>1. /\ Head(q) \in Entries /\ Tail(q) \in Seq(Entries) /\ Head(q) = q[1]
        /\ Len(q) \in Nat /\ Len(q) >= 1
        /\ Len(Tail(q)) = Len(q) - 1
        /\ \A i \in 1..(Len(q) - 1) : Tail(q)[i] = q[i + 1]
    BY HeadTailProperties, LenProperties
  <1>2. BufsOf(q) = {Head(q).buf} \union BufsOf(Tail(q))
    <2>1. ASSUME NEW b \in BufsOf(q) PROVE b \in {Head(q).buf} \union BufsOf(Tail(q))
      <3>1. PICK i \in 1..Len(q) : b = q[i].buf
        BY DEF BufsOf
      <3>2. CASE i = 1
        BY <1>1, <3>1, <3>2
      <3>3. CASE i # 1
        <4>1. i - 1 \in 1..(Len(q) - 1) /\ (i - 1) + 1 = i
          BY <1>1, <3>3
        <4>2. Tail(q)[i - 1].buf = b /\ i - 1 \in 1..Len(Tail(q))
          BY <1>1, <3>1, <4>1
        <4> QED BY <4>2 DEF BufsOf
      <3> QED BY <3>2, <3>3
    <2>2. Head(q).buf \in BufsOf(q)
      <3>1. 1 \in 1..Len(q)
        BY <1>1
      <3> QED BY <1>1, <3>1 DEF BufsOf
    <2>3. ASSUME NEW b \in BufsOf(Tail(q)) PROVE b \in BufsOf(q)
      <3>1. PICK i \in 1..Len(Tail(q)) : b = Tail(q)[i].buf
        BY DEF BufsOf
      <3>2. i + 1 \in 1..Len(q) /\ b = q[i + 1].buf
        BY <1>1, <3>1
      <3> QED BY <3>2 DEF BufsOf
    <2> QED BY <2>1, <2>2, <2>3
  <1>3. ASSUME Distinct(q) PROVE Head(q).buf \notin BufsOf(Tail(q)) /\ Distinct(Tail(q))
    <2>1. ASSUME NEW i \in 1..Len(Tail(q)) PROVE Tail(q)[i] = q[i + 1] /\ i + 1 \in 1..Len(q)
                   /\ i + 1 # 1
      BY <1>1
    <2>2. 1 \in 1..Len(q)
      BY <1>1
    <2>3. Head(q).buf \notin BufsOf(Tail(q))
      <3> SUFFICES ASSUME NEW i \in 1..Len(Tail(q)), Head(q).buf = Tail(q)[i].buf PROVE FALSE
        BY DEF BufsOf
      <3>1. q[1].buf = q[i + 1].buf
        BY <1>1, <2>1
      <3>2. i + 1 \in 1..Len(q) /\ i + 1 # 1
        BY <2>1
      <3> QED BY <1>3, <2>2, <3>1, <3>2, Zenon DEF Distinct
    <2>4. Distinct(Tail(q))
      <3> SUFFICES ASSUME NEW i \in 1..Len(Tail(q)), NEW j \in 1..Len(Tail(q)),
                          Tail(q)[i].buf = Tail(q)[j].buf
                   PROVE  i = j
        BY DEF Distinct
      <3>1. i + 1 = j + 1
        BY <1>3, <2>1 DEF Distinct
      <3> QED BY <3>1
    <2> QED BY <2>3, <2>4
  <1> QED BY <1>1, <1>2, <1>3

\* A list cut in two.
LEMMA Parted ==
  ASSUME NEW q \in Seq(Entries), NEW k \in 0..Len(q)
  PROVE  LET s == SubSeq(q, 1, k)
             t == SubSeq(q, k + 1, Len(q))
         IN /\ s \in Seq(Entries) /\ t \in Seq(Entries) /\ Len(s) = k /\ Len(t) = Len(q) - k
            /\ BufsOf(s) \union BufsOf(t) = BufsOf(q)
            /\ Distinct(q) => Distinct(s) /\ Distinct(t) /\ BufsOf(s) \intersect BufsOf(t) = {}
PROOF
  <1> DEFINE s == SubSeq(q, 1, k)
             t == SubSeq(q, k + 1, Len(q))
  <1>1. Len(q) \in Nat /\ k \in Nat /\ k <= Len(q)
    BY LenProperties
  <1>2. /\ s \in Seq(Entries) /\ Len(s) = k
        /\ \A i \in 1..k : s[i] = q[i]
    <2>1. \A i \in 1..k : q[i] \in Entries
      BY <1>1, ElementOfSeq
    <2>2. /\ s \in Seq(Entries)
          /\ Len(s) = (IF 1 <= k THEN k - 1 + 1 ELSE 0)
          /\ \A i \in 1..(k - 1 + 1) : s[i] = q[1 + i - 1]
      BY <1>1, <2>1, SubSeqProperties
    <2> HIDE DEF s
    <2> QED BY <1>1, <2>2
  <1>3. /\ t \in Seq(Entries) /\ Len(t) = Len(q) - k
        /\ \A i \in 1..(Len(q) - k) : t[i] = q[i + k]
    <2>1. \A i \in (k + 1)..Len(q) : q[i] \in Entries
      BY <1>1, ElementOfSeq
    <2>2. k + 1 \in Nat /\ k + 1 >= 1
      BY <1>1
    <2>3. /\ t \in Seq(Entries)
          /\ Len(t) = (IF k + 1 <= Len(q) THEN Len(q) - (k + 1) + 1 ELSE 0)
          /\ \A i \in 1..(Len(q) - (k + 1) + 1) : t[i] = q[(k + 1) + i - 1]
      BY <1>1, <2>1, <2>2, SubSeqProperties
    <2> HIDE DEF t
    <2> QED BY <1>1, <2>3
  <1> HIDE DEF s, t
  <1>4. \A b : b \in BufsOf(s) <=> \E i \in 1..k : b = q[i].buf
    BY <1>2 DEF BufsOf
  <1>5. \A b : b \in BufsOf(t) <=> \E i \in (k + 1)..Len(q) : b = q[i].buf
    <2>1. ASSUME NEW b \in BufsOf(t) PROVE \E i \in (k + 1)..Len(q) : b = q[i].buf
      <3>1. PICK j \in 1..(Len(q) - k) : b = t[j].buf
        BY <1>3 DEF BufsOf
      <3>2. j + k \in (k + 1)..Len(q) /\ b = q[j + k].buf
        BY <1>1, <1>3, <3>1
      <3> QED BY <3>2
    <2>2. ASSUME NEW i \in (k + 1)..Len(q) PROVE q[i].buf \in BufsOf(t)
      <3>1. i - k \in 1..(Len(q) - k) /\ (i - k) + k = i
        BY <1>1
      <3>2. t[i - k] = q[i] /\ i - k \in 1..Len(t)
        BY <1>3, <3>1
      <3> QED BY <3>2 DEF BufsOf
    <2> QED BY <2>1, <2>2
  <1>6. BufsOf(s) \union BufsOf(t) = BufsOf(q)
    <2>1. \A i \in 1..Len(q) : i \in 1..k \/ i \in (k + 1)..Len(q)
      BY <1>1
    <2>2. \A i : i \in 1..k \/ i \in (k + 1)..Len(q) => i \in 1..Len(q)
      BY <1>1
    <2>3. \A b : b \in BufsOf(q) <=> \E i \in 1..Len(q) : b = q[i].buf
      BY DEF BufsOf
    <2> QED BY <1>4, <1>5, <2>1, <2>2, <2>3
  <1>7. ASSUME Distinct(q)
        PROVE  Distinct(s) /\ Distinct(t) /\ BufsOf(s) \intersect BufsOf(t) = {}
    <2>1. Distinct(s)
      <3> SUFFICES ASSUME NEW i \in 1..k, NEW j \in 1..k, s[i].buf = s[j].buf PROVE i = j
        BY <1>2 DEF Distinct
      <3>1. i \in 1..Len(q) /\ j \in 1..Len(q) /\ q[i].buf = q[j].buf
        BY <1>1, <1>2
      <3> QED BY <1>7, <3>1 DEF Distinct
    <2>2. Distinct(t)
      <3> SUFFICES ASSUME NEW i \in 1..(Len(q) - k), NEW j \in 1..(Len(q) - k), t[i].buf = t[j].buf
                   PROVE  i = j
        BY <1>3 DEF Distinct
      <3>1. i + k \in 1..Len(q) /\ j + k \in 1..Len(q) /\ q[i + k].buf = q[j + k].buf
        BY <1>1, <1>3
      <3>2. i + k = j + k
        BY <1>7, <3>1, Zenon DEF Distinct
      <3> QED BY <1>1, <3>2
    <2>3. BufsOf(s) \intersect BufsOf(t) = {}
      <3> SUFFICES ASSUME NEW i \in 1..k, NEW j \in (k + 1)..Len(q), q[i].buf = q[j].buf PROVE FALSE
        BY <1>4, <1>5
      <3>1. i \in 1..Len(q) /\ j \in 1..Len(q) /\ i # j
        BY <1>1
      <3> QED BY <1>7, <3>1, Zenon DEF Distinct
    <2> QED BY <2>1, <2>2, <2>3
  <1> QED BY <1>2, <1>3, <1>6, <1>7 DEF s, t

\* Two lists put together.
LEMMA Joined ==
  ASSUME NEW s \in Seq(Entries), NEW t \in Seq(Entries)
  PROVE  /\ s \o t \in Seq(Entries) /\ BufsOf(s \o t) = BufsOf(s) \union BufsOf(t)
         /\ Distinct(s) /\ Distinct(t) /\ BufsOf(s) \intersect BufsOf(t) = {} => Distinct(s \o t)
PROOF
  <1> DEFINE u == s \o t
  <1>1. /\ u \in Seq(Entries) /\ Len(u) = Len(s) + Len(t) /\ Len(s) \in Nat /\ Len(t) \in Nat
        /\ \A i \in 1..(Len(s) + Len(t)) : u[i] = IF i <= Len(s) THEN s[i] ELSE t[i - Len(s)]
    BY ConcatProperties, LenProperties
  <1> HIDE DEF u
  <1>2. \A i \in 1..Len(s) : i \in 1..Len(u) /\ u[i] = s[i]
    BY <1>1
  <1>3. \A j \in 1..Len(t) : j + Len(s) \in 1..Len(u) /\ u[j + Len(s)] = t[j]
    <2> SUFFICES ASSUME NEW j \in 1..Len(t) PROVE j + Len(s) \in 1..Len(u) /\ u[j + Len(s)] = t[j]
      OBVIOUS
    <2>1. /\ ~(j + Len(s) <= Len(s)) /\ j + Len(s) \in 1..(Len(s) + Len(t))
          /\ (j + Len(s)) - Len(s) = j
      BY <1>1
    <2>2. u[j + Len(s)] = t[(j + Len(s)) - Len(s)]
      BY <1>1, <2>1
    <2> QED BY <1>1, <2>1, <2>2
  <1>4. \A i \in 1..Len(u) : i \in 1..Len(s) \/ (i - Len(s) \in 1..Len(t) /\ u[i] = t[i - Len(s)])
    <2> SUFFICES ASSUME NEW i \in 1..Len(u), i \notin 1..Len(s)
                 PROVE  i - Len(s) \in 1..Len(t) /\ u[i] = t[i - Len(s)]
      OBVIOUS
    <2>1. ~(i <= Len(s)) /\ i - Len(s) \in 1..Len(t) /\ i \in 1..(Len(s) + Len(t))
      BY <1>1
    <2> QED BY <1>1, <2>1
  <1>5. BufsOf(u) = BufsOf(s) \union BufsOf(t)
    <2>1. ASSUME NEW b \in BufsOf(u) PROVE b \in BufsOf(s) \union BufsOf(t)
      <3>1. PICK i \in 1..Len(u) : b = u[i].buf
        BY DEF BufsOf
      <3> QED BY <1>2, <1>4, <3>1 DEF BufsOf
    <2>2. ASSUME NEW b \in BufsOf(s) PROVE b \in BufsOf(u)
      BY <1>2 DEF BufsOf
    <2>3. ASSUME NEW b \in BufsOf(t) PROVE b \in BufsOf(u)
      <3>1. PICK j \in 1..Len(t) : b = t[j].buf
        BY DEF BufsOf
      <3>2. j + Len(s) \in 1..Len(u) /\ u[j + Len(s)].buf = b
        BY <1>3, <3>1
      <3> QED BY <3>2 DEF BufsOf
    <2> QED BY <2>1, <2>2, <2>3
  <1>6. ASSUME Distinct(s), Distinct(t), BufsOf(s) \intersect BufsOf(t) = {}
        PROVE  Distinct(u)
    <2> SUFFICES ASSUME NEW i \in 1..Len(u), NEW j \in 1..Len(u), u[i].buf = u[j].buf PROVE i = j
      BY DEF Distinct
    <2>1. \A x \in 1..Len(s), y \in 1..Len(t) : s[x].buf # t[y].buf
      BY <1>6 DEF BufsOf
    <2>2. CASE i \in 1..Len(s) /\ j \in 1..Len(s)
      BY <1>2, <1>6, <2>2 DEF Distinct
    <2>3. CASE i \notin 1..Len(s) /\ j \notin 1..Len(s)
      <3>2. /\ i - Len(s) \in 1..Len(t) /\ j - Len(s) \in 1..Len(t)
            /\ t[i - Len(s)].buf = t[j - Len(s)].buf
        BY <1>4, <2>3, Zenon
      <3>1. i - Len(s) = j - Len(s)
        BY <1>6, <3>2, Zenon DEF Distinct
      <3> QED BY <1>1, <3>1
    <2>4. CASE i \in 1..Len(s) /\ j \notin 1..Len(s)
      BY <1>2, <1>4, <2>1, <2>4
    <2>5. CASE i \notin 1..Len(s) /\ j \in 1..Len(s)
      BY <1>2, <1>4, <2>1, <2>5
    <2> QED BY <2>2, <2>3, <2>4, <2>5
  <1> QED BY <1>1, <1>5, <1>6 DEF u

\* One more entry.
LEMMA Appended ==
  ASSUME NEW s \in Seq(Entries), NEW e \in Entries
  PROVE  /\ Append(s, e) \in Seq(Entries) /\ BufsOf(Append(s, e)) = BufsOf(s) \union {e.buf}
         /\ Distinct(s) /\ e.buf \notin BufsOf(s) => Distinct(Append(s, e))
PROOF
  <1>1. <<e>> \in Seq(Entries) /\ Len(<<e>>) = 1 /\ <<e>>[1] = e
    OBVIOUS
  <1>2. Append(s, e) = s \o <<e>>
    BY AppendIsConcat
  <1>3. BufsOf(<<e>>) = {e.buf} /\ Distinct(<<e>>)
    BY <1>1 DEF BufsOf, Distinct
  <1>4. /\ s \o <<e>> \in Seq(Entries) /\ BufsOf(s \o <<e>>) = BufsOf(s) \union BufsOf(<<e>>)
        /\ Distinct(s) /\ Distinct(<<e>>) /\ BufsOf(s) \intersect BufsOf(<<e>>) = {}
             => Distinct(s \o <<e>>)
    BY <1>1, Joined, Zenon
  <1>5. e.buf \notin BufsOf(s) => BufsOf(s) \intersect {e.buf} = {}
    OBVIOUS
  <1> QED BY <1>2, <1>3, <1>4, <1>5, Zenon

\* CapEnqueues: the entries of the queue and the new one, in the queue or dropped.
LEMMA Enqueues ==
  ASSUME jpeg_queue_ \in Seq(Entries), Entry \in Entries, CapEnqueues
  PROVE  /\ dropped' \in Seq(Entries) /\ jpeg_queue_' \in Seq(Entries)
         /\ BufsOf(dropped') \union BufsOf(jpeg_queue_') = BufsOf(jpeg_queue_) \union {Entry.buf}
         /\ Distinct(jpeg_queue_) /\ Entry.buf \notin BufsOf(jpeg_queue_) =>
              /\ Distinct(dropped') /\ Distinct(jpeg_queue_')
              /\ BufsOf(dropped') \intersect BufsOf(jpeg_queue_') = {}
PROOF
  <1>1. PICK f \in aged..(cap.frame - 1), n \in 0..Len(jpeg_queue_) : Enqueue(f, n)
    BY DEF CapEnqueues
  <1> DEFINE q == jpeg_queue_
             stale == SubSeq(q, 1, n)
             fresh == SubSeq(q, n + 1, Len(q))
             over == IF Len(fresh) >= mjpeg_queue_max_ THEN Len(fresh) + 1 - mjpeg_queue_max_ ELSE 0
             old == SubSeq(fresh, 1, over)
             rest == SubSeq(fresh, over + 1, Len(fresh))
  <1>2. /\ stale \in Seq(Entries) /\ fresh \in Seq(Entries)
        /\ BufsOf(stale) \union BufsOf(fresh) = BufsOf(q)
        /\ Distinct(q) => Distinct(stale) /\ Distinct(fresh)
                          /\ BufsOf(stale) \intersect BufsOf(fresh) = {}
    BY <1>1, Parted, Zenon
  <1>3. IF mode = "latest"
        THEN dropped' = fresh /\ jpeg_queue_' = Append(stale, Entry)
        ELSE dropped' = stale \o old /\ jpeg_queue_' = Append(rest, Entry)
    BY <1>1, Zenon DEF Enqueue
  <1>4. over \in 0..Len(fresh)
    <2>1. mjpeg_queue_max_ \in Nat /\ mjpeg_queue_max_ >= 1
      BY CaptureAssumption DEF mjpeg_queue_max_
    <2>2. Len(fresh) \in Nat
      BY <1>2, LenProperties, Zenon
    <2> HIDE DEF fresh
    <2> QED BY <2>1, <2>2
  <1> HIDE DEF q, stale, fresh, over
  <1>5. /\ old \in Seq(Entries) /\ rest \in Seq(Entries)
        /\ BufsOf(old) \union BufsOf(rest) = BufsOf(fresh)
        /\ Distinct(fresh) => Distinct(old) /\ Distinct(rest)
                              /\ BufsOf(old) \intersect BufsOf(rest) = {}
    BY <1>2, <1>4, Parted, Zenon
  <1> HIDE DEF old, rest
  <1>6. CASE mode = "latest"
    <2>1. /\ Append(stale, Entry) \in Seq(Entries)
          /\ BufsOf(Append(stale, Entry)) = BufsOf(stale) \union {Entry.buf}
          /\ Distinct(stale) /\ Entry.buf \notin BufsOf(stale) => Distinct(Append(stale, Entry))
      BY <1>2, Appended, Zenon
    <2>2. dropped' = fresh /\ jpeg_queue_' = Append(stale, Entry)
      BY <1>3, <1>6
    <2>3. /\ BufsOf(dropped') = BufsOf(fresh)
          /\ BufsOf(jpeg_queue_') = BufsOf(stale) \union {Entry.buf}
          /\ Distinct(fresh) => Distinct(dropped')
          /\ Distinct(stale) /\ Entry.buf \notin BufsOf(stale) => Distinct(jpeg_queue_')
      BY <2>1, <2>2, Zenon
    <2>4. dropped' \in Seq(Entries) /\ jpeg_queue_' \in Seq(Entries)
      BY <1>2, <2>1, <2>2, Zenon
    <2> QED BY <1>2, <2>3, <2>4 DEF q
  <1>7. CASE mode # "latest"
    <2>1. /\ stale \o old \in Seq(Entries)
               /\ BufsOf(stale \o old) = BufsOf(stale) \union BufsOf(old)
          /\ Distinct(stale) /\ Distinct(old) /\ BufsOf(stale) \intersect BufsOf(old) = {}
               => Distinct(stale \o old)
      BY <1>2, <1>5, Joined, Zenon
    <2>2. /\ Append(rest, Entry) \in Seq(Entries)
          /\ BufsOf(Append(rest, Entry)) = BufsOf(rest) \union {Entry.buf}
          /\ Distinct(rest) /\ Entry.buf \notin BufsOf(rest) => Distinct(Append(rest, Entry))
      BY <1>5, Appended, Zenon
    <2>3. dropped' = stale \o old /\ jpeg_queue_' = Append(rest, Entry)
      BY <1>3, <1>7
    <2>4. /\ BufsOf(dropped') = BufsOf(stale) \union BufsOf(old)
          /\ BufsOf(jpeg_queue_') = BufsOf(rest) \union {Entry.buf}
          /\ Distinct(stale) /\ Distinct(old) /\ BufsOf(stale) \intersect BufsOf(old) = {}
               => Distinct(dropped')
          /\ Distinct(rest) /\ Entry.buf \notin BufsOf(rest) => Distinct(jpeg_queue_')
      BY <2>1, <2>2, <2>3, Zenon
    <2>5. dropped' \in Seq(Entries) /\ jpeg_queue_' \in Seq(Entries)
      BY <2>1, <2>2, <2>3, Zenon
    <2> QED BY <1>2, <1>5, <2>4, <2>5 DEF q
  <1> QED BY <1>6, <1>7

-----------------------------------------------------------------------------
(* What every step keeps *)

\* Which threads run, and which of them converts, by where Start or Stop is.
Threads ==
  /\ owner \in {"idle", "format", "buffers"} =>
       cap.at = "none" /\ dec = "none" /\ jpeg_queue_ = <<>> /\ lost = {}
  /\ owner \in {"notify", "join decoder", "release", "stopped"} => cap.at \in {"none", "done"}
  /\ owner \in {"release", "stopped"} => dec \in {"none", "done"} /\ jpeg_queue_ = <<>>
  /\ cap.at # "requeue" => dropped = <<>>
  /\ dec # "none" => Async
  /\ cap.at = "converting" => ~Async /\ job.buf = cap.buf
  /\ job.at # "none" <=> dec = "decoding" \/ cap.at = "converting"

\* Start adds the buffers in order.
Mapping ==
  /\ mapped \subseteq Buffers
  /\ owner \in {"idle", "format"} => mapped = {}
  /\ owner = "buffers" => \E k \in 0..BufferCount : mapped = 0..(k - 1)

\* The buffer in the capture thread's hands, and the one that is being converted.
CapHand == IF cap.at = "got" THEN {cap.buf} ELSE {}
JobHand == IF job.at # "none" THEN {job.buf} ELSE {}

\* Six sets that have no element in common and make up M.
Parts(A, B, C, D, E, F, M) ==
  /\ A \union B \union C \union D \union E \union F = M
  /\ \A x \in A : x \notin B /\ x \notin C /\ x \notin D /\ x \notin E /\ x \notin F
  /\ \A x \in B : x \notin C /\ x \notin D /\ x \notin E /\ x \notin F
  /\ \A x \in C : x \notin D /\ x \notin E /\ x \notin F
  /\ \A x \in D : x \notin E /\ x \notin F
  /\ \A x \in E : x \notin F

\* Every buffer that is mapped is in one of six places, in one position.
Places ==
  /\ Parts(driver, lost, BufsOf(jpeg_queue_), BufsOf(dropped), CapHand, JobHand, mapped)
  /\ Distinct(jpeg_queue_) /\ Distinct(dropped)

\* What every step keeps of the camera.
CaptureInv == CaptureTyped /\ SlotExclusive /\ Threads /\ Mapping /\ Places

\* The empty list has no buffers.
LEMMA NoEntries == BufsOf(<<>>) = {} /\ Distinct(<<>>)
PROOF
  BY DEF BufsOf, Distinct

\* Before Start there is no buffer.
LEMMA CaptureStarts ==
  ASSUME InitCapture
  PROVE  CaptureInv
PROOF
  <1>1. CaptureTyped /\ SlotExclusive
    BY PoolInit
  <1>2. /\ owner = "idle" /\ cap.at = "none" /\ dec = "none" /\ job.at = "none" /\ dropped = <<>>
        /\ jpeg_queue_ = <<>> /\ lost = {} /\ driver = {} /\ mapped = {}
    BY DEF InitCapture, NoJob
  <1>3. Threads /\ Mapping
    BY <1>2 DEF Threads, Mapping
  <1>4. CapHand = {} /\ JobHand = {} /\ BufsOf(jpeg_queue_) = {} /\ BufsOf(dropped) = {}
    BY <1>2, NoEntries DEF CapHand, JobHand
  <1>5. Places
    BY <1>2, <1>4, NoEntries DEF Places, Parts
  <1> QED BY <1>1, <1>3, <1>5 DEF CaptureInv

\* A QBUF, taken or refused.
LEMMA QBufMoves ==
  ASSUME NEW bs, QBufV4l2Index(bs)
  PROVE  \/ driver' = driver \union bs /\ lost' = lost
         \/ driver' = driver /\ lost' = lost \union bs
PROOF
  BY DEF QBufV4l2Index

\* The steps that move no buffer.
LEMMA PlacesStay ==
  ASSUME Places, UNCHANGED <<driver, lost, jpeg_queue_, dropped, mapped>>,
         CapHand' = CapHand, JobHand' = JobHand
  PROVE  Places'
PROOF
  <1>1. BufsOf(jpeg_queue_)' = BufsOf(jpeg_queue_) /\ BufsOf(dropped)' = BufsOf(dropped)
    BY DEF BufsOf
  <1>2. Distinct(jpeg_queue_)' /\ Distinct(dropped)'
    BY DEF Places, Distinct
  <1> QED BY <1>1, <1>2, Zenon DEF Places

\* The steps of Start and Stop.
LEMMA OwnerNext ==
  ASSUME CaptureInv, CaptureStartStep \/ StopCalled \/ CaptureStopStep
  PROVE  CaptureInv'
PROOF
  <1>1. job' = job /\ mode' = mode /\ dropped' = dropped /\ frames' = frames /\ pictures' = pictures
    BY DEF CaptureStartStep, StartOpens, StartNegotiates, StartAddsBuffer, StartBufferFails,
       StartThreads,
           StartStreamOnFails, StopCalled, CaptureStopStep, StopClearsRun, StopJoinsCapture,
           StopNotifies,
           StopJoinsDecoder, StopReleases, pool
  <1>2. JobHand' = JobHand /\ (Async' <=> Async) /\ JobTyped'
    BY <1>1 DEF JobHand, Async, CaptureInv, CaptureTyped, JobTyped
  <1>3. CASE StartOpens \/ StartNegotiates \/ StartStreamOnFails
    <2>1. UNCHANGED <<mapped, driver, lost, cap, jpeg_queue_, dec, slots_in_use, ring>>
      BY <1>3 DEF StartOpens, StartNegotiates, StartStreamOnFails, device, pool
    <2>2. /\ owner \in {"idle", "format", "buffers"}
          /\ owner' \in {"format", "buffers", "stopped", "stop"}
          /\ owner' \in {"format", "buffers", "stopped"} => owner \in {"idle", "format"}
      BY <1>3 DEF StartOpens, StartNegotiates, StartStreamOnFails
    <2>3. CaptureTyped'
      BY <1>1, <1>2, <2>1, Zenon DEF CaptureInv, CaptureTyped, CapTyped, QueuesTyped, PoolTyped,
         Entries
    <2>4. SlotExclusive'
      BY <1>1, <2>1, <2>2 DEF CaptureInv, SlotExclusive
    <2>5. Threads'
      BY <1>1, <1>2, <2>1, <2>2 DEF CaptureInv, Threads
    <2>6. Mapping'
      <3>1. {} = 0..(0 - 1) /\ 0 \in 0..BufferCount
        BY CaptureAssumption
      <3> QED BY <2>1, <2>2, <3>1 DEF CaptureInv, Mapping
    <2>7. Places'
      BY <1>1, <1>2, <2>1, PlacesStay DEF CaptureInv, CapHand
    <2> QED BY <2>3, <2>4, <2>5, <2>6, <2>7 DEF CaptureInv
  <1>4. CASE StartThreads
    <2>1. /\ UNCHANGED <<mapped, driver, lost, jpeg_queue_, slots_in_use, ring>>
          /\ owner = "buffers" /\ owner' = "running" /\ cap' = [cap EXCEPT !.at = "loop"]
          /\ dec' = IF Async THEN "lock" ELSE "none"
      BY <1>4 DEF StartThreads, device, pool
    <2>2. /\ cap.at = "none" /\ dec = "none" /\ jpeg_queue_ = <<>> /\ dropped = <<>>
          /\ job.at = "none" /\ cap'.at = "loop"
      BY <2>1 DEF CaptureInv, CaptureTyped, CapTyped, Threads
    <2>3. CapTyped'
      BY <1>1, <2>1 DEF CaptureInv, CaptureTyped, CapTyped
    <2>4. CaptureTyped'
      BY <1>1, <1>2, <2>1, <2>3, Zenon DEF CaptureInv, CaptureTyped, QueuesTyped, PoolTyped, Entries
    <2>5. SlotExclusive'
      BY <1>1, <2>1 DEF CaptureInv, SlotExclusive
    <2>6. Threads' /\ Mapping'
      BY <1>1, <1>2, <2>1, <2>2 DEF CaptureInv, Threads, Mapping
    <2>7. Places'
      BY <1>1, <1>2, <2>1, <2>2, PlacesStay DEF CaptureInv, CapHand
    <2> QED BY <2>4, <2>5, <2>6, <2>7 DEF CaptureInv
  <1>5. CASE StartAddsBuffer \/ StartBufferFails
    <2>1. /\ UNCHANGED <<lost, cap, jpeg_queue_, dec, slots_in_use, ring>>
          /\ owner = "buffers" /\ owner' \in {"buffers", "stop"} /\ mapped # Buffers
      BY <1>5 DEF StartAddsBuffer, StartBufferFails, pool
    <2>2. CaptureTyped'
      BY <1>1, <1>2, <2>1, Zenon DEF CaptureInv, CaptureTyped, CapTyped, QueuesTyped, PoolTyped,
         Entries
    <2>3. SlotExclusive' /\ Threads'
      BY <1>1, <1>2, <2>1 DEF CaptureInv, SlotExclusive, Threads
    <2>4. /\ CapHand = {} /\ JobHand = {} /\ BufsOf(jpeg_queue_) = {} /\ BufsOf(dropped) = {}
               /\ lost = {}
      BY <2>1, NoEntries DEF CaptureInv, Threads, CapHand, JobHand
    <2>5. driver = mapped /\ CapHand' = CapHand
      BY <2>1, <2>4 DEF CaptureInv, Places, Parts, CapHand
    <2>6. Mapping' /\ driver' = mapped'
      <3>1. PICK k \in 0..BufferCount : mapped = 0..(k - 1)
        BY <2>1 DEF CaptureInv, Mapping
      <3>2. BufferCount \in Nat /\ k \in Nat /\ k # BufferCount /\ k < BufferCount
        BY CaptureAssumption, <2>1, <3>1 DEF Buffers
      <3>3. Cardinality(mapped) = k
        <4>1. Cardinality(0..(k - 1)) = IF 0 > k - 1 THEN 0 ELSE (k - 1) - 0 + 1
          BY <3>2, FS_Interval
        <4> QED BY <3>1, <3>2, <4>1
      <3>4. CASE StartAddsBuffer
        <4>1. mapped' = mapped \union {k} /\ driver' = driver \union {k} /\ owner' = "buffers"
          <5>1. mapped' = mapped \union {Cardinality(mapped)}
                  /\ driver' = driver \union {Cardinality(mapped)}
            BY <3>4 DEF StartAddsBuffer
          <5>2. owner' = owner
            BY <3>4 DEF StartAddsBuffer
          <5> QED BY <2>1, <3>3, <5>1, <5>2, Zenon
        <4>2. mapped' = 0..((k + 1) - 1) /\ k + 1 \in 0..BufferCount
          BY <3>1, <3>2, <4>1
        <4>3. mapped' \subseteq Buffers
          BY <3>2, <4>2 DEF Buffers
        <4> QED BY <2>5, <4>1, <4>2, <4>3 DEF Mapping, Buffers
      <3>5. CASE StartBufferFails
        <4>1. \/ mapped' = {} /\ driver' = {}
              \/ owner' = "stop" /\ mapped' = mapped /\ driver' = driver
          BY <3>5 DEF StartBufferFails
        <4>2. {} = 0..(0 - 1) /\ 0 \in 0..BufferCount
          BY CaptureAssumption
        <4> QED BY <2>1, <2>5, <4>1, <4>2 DEF CaptureInv, Mapping, Buffers
      <3> QED BY <1>5, <3>4, <3>5
    <2>7. BufsOf(jpeg_queue_)' = {} /\ BufsOf(dropped)' = {}
      BY <1>1, <2>1, <2>4 DEF BufsOf
    <2>8. Distinct(jpeg_queue_)' /\ Distinct(dropped)'
      BY <1>1, <2>1 DEF CaptureInv, Places, Distinct
    <2>9. Places'
      BY <1>2, <2>1, <2>4, <2>5, <2>6, <2>7, <2>8 DEF Places, Parts
    <2> QED BY <2>2, <2>3, <2>6, <2>9 DEF CaptureInv
  <1>6. CASE StopCalled \/ (CaptureStopStep /\ (StopClearsRun \/ StopJoinsCapture \/ StopNotifies))
    <2>1. UNCHANGED <<mapped, driver, lost, cap, jpeg_queue_, slots_in_use, ring>>
      BY <1>6 DEF StopCalled, CaptureStopStep, StopClearsRun, StopJoinsCapture, StopNotifies,
         device, pool
    <2>2. \/ owner = "running" /\ owner' = "stop" /\ dec' = dec
          \/ owner = "stop" /\ owner' = "join capture" /\ dec' = dec
          \/ owner = "join capture" /\ owner' = "notify" /\ dec' = dec
               /\ cap.at \in {"none", "done"}
          \/ owner = "notify" /\ owner' = "join decoder"
               /\ (dec' = dec \/ (dec = "asleep" /\ dec' = "lock"))
      BY <1>6 DEF StopCalled, StopClearsRun, StopJoinsCapture, StopNotifies
    <2>3. CaptureTyped'
      BY <1>1, <1>2, <2>1, Zenon DEF CaptureInv, CaptureTyped, CapTyped, QueuesTyped, PoolTyped,
         Entries
    <2>4. SlotExclusive'
      BY <1>1, <2>1, <2>2 DEF CaptureInv, SlotExclusive
    <2>5. Threads' /\ Mapping'
      BY <1>1, <1>2, <2>1, <2>2 DEF CaptureInv, Threads, Mapping
    <2>7. Places'
      BY <1>1, <1>2, <2>1, PlacesStay DEF CaptureInv, CapHand
    <2> QED BY <2>3, <2>4, <2>5, <2>7 DEF CaptureInv
  <1>7. CASE CaptureStopStep /\ StopJoinsDecoder
    <2>1. /\ UNCHANGED <<mapped, cap, dec>>
          /\ owner = "join decoder" /\ owner' = "release" /\ dec \in {"none", "done"}
          /\ jpeg_queue_' = <<>> /\ slots_in_use' = {} /\ ring' = 0
      BY <1>7 DEF CaptureStopStep, StopJoinsDecoder, device
    <2>2. QBufV4l2Index(BufsOf(jpeg_queue_))
      BY <1>7 DEF StopJoinsDecoder
    <2>3. CaptureTyped'
      <3>1. <<>> \in Seq(Entries)
        BY EmptySeq, Zenon
      <3>2. jpeg_queue_' \in Seq(Entries)
        BY <2>1, <3>1
      <3>3. CapTyped' /\ QueuesTyped'
        BY <1>1, <2>1, <3>2, Zenon DEF CaptureInv, CaptureTyped, CapTyped, QueuesTyped, Entries
      <3>4. PoolTyped'
        <4>2. 0 \in 0..PoolSlots
          BY CaptureAssumption
        <4>1. ring' \in 0..PoolSlots /\ slots_in_use' \subseteq Slots
          BY <2>1, <4>2
        <4> QED BY <1>1, <4>1, Zenon DEF CaptureInv, CaptureTyped, PoolTyped
      <3> QED BY <1>2, <3>3, <3>4 DEF CaptureTyped
    <2>4. SlotExclusive'
      BY <2>1 DEF SlotExclusive
    <2>5. Threads' /\ Mapping'
      BY <1>1, <1>2, <2>1 DEF CaptureInv, Threads, Mapping
    <2>6. /\ BufsOf(jpeg_queue_)' = {} /\ Distinct(jpeg_queue_)'
               /\ BufsOf(dropped)' = BufsOf(dropped)
          /\ Distinct(dropped)' /\ CapHand' = CapHand
      <3>1. BufsOf(jpeg_queue_)' = {} /\ Distinct(jpeg_queue_)'
        <4>1. BufsOf(jpeg_queue_)' = BufsOf(<<>>) /\ (Distinct(jpeg_queue_)' <=> Distinct(<<>>))
          BY <2>1 DEF BufsOf, Distinct
        <4> QED BY <4>1, NoEntries
      <3>2. BufsOf(dropped)' = BufsOf(dropped) /\ CapHand' = CapHand
        BY <1>1, <2>1 DEF BufsOf, CapHand
      <3>3. Distinct(dropped)'
        BY <1>1 DEF CaptureInv, Places, Distinct
      <3> QED BY <3>1, <3>2, <3>3
    <2>7. Places'
      <3>1. \/ driver' = driver \union BufsOf(jpeg_queue_) /\ lost' = lost
            \/ driver' = driver /\ lost' = lost \union BufsOf(jpeg_queue_)
        BY <2>2, QBufMoves
      <3> QED BY <1>2, <2>1, <2>6, <3>1 DEF CaptureInv, Places, Parts
    <2> QED BY <2>3, <2>4, <2>5, <2>7 DEF CaptureInv
  <1>8. CASE CaptureStopStep /\ StopReleases
    <2>1. /\ UNCHANGED <<cap, dec, jpeg_queue_, slots_in_use, ring>>
          /\ owner = "release" /\ owner' = "stopped" /\ driver' = {} /\ lost' = {} /\ mapped' = {}
      BY <1>8 DEF CaptureStopStep, StopReleases, pool
    <2>2. CaptureTyped'
      BY <1>1, <1>2, <2>1, Zenon DEF CaptureInv, CaptureTyped, CapTyped, QueuesTyped, PoolTyped,
         Entries
    <2>3. SlotExclusive'
      BY <2>1 DEF SlotExclusive
    <2>4. Threads' /\ Mapping'
      BY <1>1, <1>2, <2>1 DEF CaptureInv, Threads, Mapping
    <2>5. jpeg_queue_' = <<>> /\ dropped' = <<>> /\ CapHand' = {} /\ JobHand' = {}
      BY <1>1, <2>1 DEF CaptureInv, Threads, CapHand, JobHand
    <2>6. Places'
      <3>1. /\ BufsOf(jpeg_queue_)' = {} /\ BufsOf(dropped)' = {}
            /\ Distinct(jpeg_queue_)' /\ Distinct(dropped)'
        BY <2>5 DEF BufsOf, Distinct
      <3> QED BY <2>1, <2>5, <3>1 DEF Places, Parts
    <2> QED BY <2>2, <2>3, <2>4, <2>6 DEF CaptureInv
  <1> QED BY <1>3, <1>4, <1>5, <1>6, <1>7, <1>8 DEF CaptureStartStep, CaptureStopStep

\* The steps of the capture thread.
LEMMA CaptureThreadNext ==
  ASSUME CaptureInv, CaptureStep
  PROVE  CaptureInv'
PROOF
  <1>1. /\ UNCHANGED <<mode, owner, mapped, slots_in_use, ring, pictures>> /\ (Async' <=> Async)
        /\ PoolTyped' /\ Mapping'
    BY DEF CaptureStep, device, pool, Async, CaptureInv, CaptureTyped, PoolTyped, Mapping
  <1>2. /\ cap.at \notin {"none", "done"}
        /\ owner \notin {"idle", "format", "buffers", "notify", "join decoder", "release", "stopped"}
    BY DEF CaptureStep, CapNotifies, CapLoops, CapGetsNothing, CapDequeues, CapEmpty, CapConverts,
           CapConverted, CapEnqueues, CapRequeues, CaptureInv, Threads
  <1>3. MaxFrames \in Nat /\ frames \in 0..MaxFrames /\ 0 \in 0..MaxFrames
    BY CaptureAssumption DEF CaptureInv, CaptureTyped, CapTyped
  <1>4. /\ CapTyped /\ JobTyped /\ QueuesTyped /\ Threads /\ Places /\ SlotExclusive
             /\ mapped \subseteq Buffers
    BY DEF CaptureInv, CaptureTyped, Mapping
  <1>5. job' = job => SlotExclusive' /\ JobTyped'
    BY <1>1, <1>4 DEF SlotExclusive, JobTyped
  <1>6. UNCHANGED <<dropped, jpeg_queue_>> => QueuesTyped'
    BY <1>4, Zenon DEF QueuesTyped, Entries
  <1>7. CASE CapNotifies \/ CapLoops \/ CapGetsNothing
    <2>1. UNCHANGED <<driver, lost, dropped, jpeg_queue_, job, frames>>
      BY <1>7 DEF CapNotifies, CapLoops, CapGetsNothing
    <2>2. \/ cap' = [cap EXCEPT !.at = "poll"] \/ cap' = [cap EXCEPT !.at = "done"]
          \/ cap' = [cap EXCEPT !.at = "loop"] \/ cap' = [at |-> "loop", buf |-> NoBuf, frame |-> 0]
      BY <1>7 DEF CapNotifies, CapLoops, CapGetsNothing, CapReleased
    <2>3. CapTyped' /\ cap'.at \in {"poll", "done", "loop"}
      BY <1>3, <1>4, <2>1, <2>2 DEF CapTyped
    <2>4. /\ cap.at \notin {"got", "converting"} /\ dropped = <<>>
          /\ dec' = dec \/ (dec = "asleep" /\ dec' = "lock")
      BY <1>4, <1>7 DEF CapNotifies, CapLoops, CapGetsNothing, CaptureStep, Threads
    <2>5. Threads'
      BY <1>1, <1>2, <1>4, <2>1, <2>3, <2>4 DEF Threads
    <2>6. Places'
      BY <1>1, <1>4, <2>1, <2>3, <2>4, PlacesStay DEF CapHand, JobHand
    <2> QED BY <1>1, <1>5, <1>6, <2>1, <2>3, <2>5, <2>6 DEF CaptureInv, CaptureTyped
  <1>8. CASE CapDequeues /\ dec' = dec
    <2>1. PICK b \in driver :
            driver' = driver \ {b} /\ cap' = [at |-> "got", buf |-> b, frame |-> frames + 1]
      BY <1>8 DEF CapDequeues
    <2>2. /\ UNCHANGED <<lost, dropped, jpeg_queue_, job, dec>> /\ cap.at = "poll"
          /\ frames' = frames + 1
      BY <1>8 DEF CapDequeues
    <2>3. frames + 1 \in 1..MaxFrames /\ frames + 1 \in 0..MaxFrames
      BY <1>3, <1>8 DEF CapDequeues
    <2>4. b \in Buffers
      BY <1>4 DEF Places, Parts
    <2>5. CapTyped'
      <3>1. cap' \in [at : {"none", "loop", "poll", "got", "converting", "requeue", "done"},
                      buf : Buffers \union {NoBuf}, frame : 0..MaxFrames]
        BY <2>1, <2>3, <2>4
      <3> QED BY <2>1, <2>2, <2>3, <2>4, <3>1 DEF CapTyped
    <2>6. Threads'
      BY <1>1, <1>2, <1>4, <2>1, <2>2 DEF Threads
    <2>7. CapHand = {} /\ CapHand' = {b} /\ JobHand' = JobHand
      BY <2>1, <2>2 DEF CapHand, JobHand
    <2>8. /\ BufsOf(jpeg_queue_)' = BufsOf(jpeg_queue_) /\ BufsOf(dropped)' = BufsOf(dropped)
          /\ Distinct(jpeg_queue_)' /\ Distinct(dropped)'
      BY <1>4, <2>2 DEF BufsOf, Distinct, Places
    <2>9. Places'
      BY <1>1, <1>4, <2>1, <2>2, <2>7, <2>8 DEF Places, Parts
    <2> QED BY <1>1, <1>5, <1>6, <2>2, <2>5, <2>6, <2>9 DEF CaptureInv, CaptureTyped
  <1>9. CASE CapEmpty /\ dec' = dec
    <2>1. /\ UNCHANGED <<dropped, jpeg_queue_, job, frames, dec>> /\ cap.at = "got"
          /\ cap' = [at |-> "loop", buf |-> NoBuf, frame |-> 0] /\ QBufV4l2Index({cap.buf})
      BY <1>9 DEF CapEmpty, CapReleased
    <2>2. CapTyped'
      BY <1>3, <2>1 DEF CapTyped
    <2>3. Threads'
      BY <1>1, <1>2, <1>4, <2>1 DEF Threads
    <2>4. CapHand = {cap.buf} /\ CapHand' = {} /\ JobHand' = JobHand
      BY <2>1 DEF CapHand, JobHand
    <2>5. /\ BufsOf(jpeg_queue_)' = BufsOf(jpeg_queue_) /\ BufsOf(dropped)' = BufsOf(dropped)
          /\ Distinct(jpeg_queue_)' /\ Distinct(dropped)'
      BY <1>4, <2>1 DEF BufsOf, Distinct, Places
    <2>6. \/ driver' = driver \union {cap.buf} /\ lost' = lost
          \/ driver' = driver /\ lost' = lost \union {cap.buf}
      BY <2>1, QBufMoves
    <2>7. Places'
      BY <1>1, <1>4, <2>4, <2>5, <2>6 DEF Places, Parts
    <2> QED BY <1>1, <1>5, <1>6, <2>1, <2>2, <2>3, <2>7 DEF CaptureInv, CaptureTyped
  <1>10. CASE CapConverts /\ dec' = dec
    <2>1. /\ UNCHANGED <<driver, lost, dropped, jpeg_queue_, frames, dec>> /\ cap.at = "got"
               /\ ~Async
          /\ job' = [at |-> "decode", buf |-> cap.buf, frame |-> cap.frame, slot |-> NoSlot]
          /\ cap' = [cap EXCEPT !.at = "converting"]
      BY <1>10 DEF CapConverts, Converting
    <2>2. /\ CapTyped' /\ cap'.at = "converting" /\ cap'.buf = cap.buf /\ cap.buf \in Buffers
          /\ cap.frame \in 0..MaxFrames
      BY <1>4, <2>1 DEF CapTyped
    <2>3. JobTyped'
      BY <2>1, <2>2 DEF JobTyped
    <2>4. SlotExclusive'
      BY <1>1, <1>4, <2>1 DEF SlotExclusive
    <2>5. job.at = "none" /\ dec = "none"
      BY <1>4, <2>1 DEF Threads
    <2>6. Threads'
      BY <1>1, <1>2, <1>4, <2>1, <2>2, <2>5 DEF Threads
    <2>7. CapHand = {cap.buf} /\ CapHand' = {} /\ JobHand = {} /\ JobHand' = {cap.buf}
      BY <2>1, <2>2, <2>5 DEF CapHand, JobHand
    <2>8. /\ BufsOf(jpeg_queue_)' = BufsOf(jpeg_queue_) /\ BufsOf(dropped)' = BufsOf(dropped)
          /\ Distinct(jpeg_queue_)' /\ Distinct(dropped)'
      BY <1>4, <2>1 DEF BufsOf, Distinct, Places
    <2>9. Places'
      BY <1>1, <1>4, <2>1, <2>7, <2>8 DEF Places, Parts
    <2> QED BY <1>1, <1>6, <2>1, <2>2, <2>3, <2>4, <2>6, <2>9 DEF CaptureInv, CaptureTyped
  <1>11. CASE CapConverted /\ dec' = dec
    <2>1. /\ UNCHANGED <<dropped, jpeg_queue_, frames, dec>> /\ cap.at = "converting"
               /\ job.at = "done"
          /\ job' = [at |-> "none", buf |-> NoBuf, frame |-> 0, slot |-> NoSlot]
          /\ cap' = [at |-> "loop", buf |-> NoBuf, frame |-> 0] /\ QBufV4l2Index({cap.buf})
      BY <1>11 DEF CapConverted, CapReleased, NoJob
    <2>2. CapTyped' /\ JobTyped'
      BY <1>3, <2>1 DEF CapTyped, JobTyped
    <2>3. SlotExclusive'
      BY <1>1, <1>4, <2>1 DEF SlotExclusive
    <2>4. job.buf = cap.buf /\ ~Async /\ dec = "none"
      BY <1>4, <2>1 DEF Threads
    <2>5. Threads'
      BY <1>1, <1>2, <1>4, <2>1, <2>4 DEF Threads
    <2>6. CapHand = {} /\ CapHand' = {} /\ JobHand = {cap.buf} /\ JobHand' = {}
      BY <2>1, <2>4 DEF CapHand, JobHand
    <2>7. /\ BufsOf(jpeg_queue_)' = BufsOf(jpeg_queue_) /\ BufsOf(dropped)' = BufsOf(dropped)
          /\ Distinct(jpeg_queue_)' /\ Distinct(dropped)'
      BY <1>4, <2>1 DEF BufsOf, Distinct, Places
    <2>8. \/ driver' = driver \union {cap.buf} /\ lost' = lost
          \/ driver' = driver /\ lost' = lost \union {cap.buf}
      BY <2>1, QBufMoves
    <2>9. Places'
      BY <1>1, <1>4, <2>6, <2>7, <2>8 DEF Places, Parts
    <2> QED BY <1>1, <1>6, <2>1, <2>2, <2>3, <2>5, <2>9 DEF CaptureInv, CaptureTyped
  <1>12. CASE CapEnqueues /\ dec' = dec
    <2>1. /\ UNCHANGED <<driver, lost, job, frames, dec>> /\ cap.at = "got" /\ Async
          /\ cap' = [at |-> "requeue", buf |-> NoBuf, frame |-> 0]
      BY <1>12 DEF CapEnqueues
    <2>2. Entry \in Entries /\ Entry.buf = cap.buf
      BY <1>4, <2>1 DEF CapTyped, Entry, Entries
    <2>3. CapHand = {cap.buf} /\ CapHand' = {} /\ JobHand' = JobHand
      BY <2>1 DEF CapHand, JobHand
    <2>4. dropped = <<>> /\ BufsOf(dropped) = {} /\ jpeg_queue_ \in Seq(Entries)
            /\ Distinct(jpeg_queue_)
      BY <1>4, <2>1, NoEntries DEF Threads, QueuesTyped, Places
    <2>5. Entry.buf \notin BufsOf(jpeg_queue_)
      BY <1>4, <2>2, <2>3 DEF Places, Parts
    <2>6. /\ dropped' \in Seq(Entries) /\ jpeg_queue_' \in Seq(Entries)
          /\ BufsOf(dropped') \union BufsOf(jpeg_queue_') = BufsOf(jpeg_queue_) \union {cap.buf}
          /\ Distinct(dropped') /\ Distinct(jpeg_queue_')
          /\ BufsOf(dropped') \intersect BufsOf(jpeg_queue_') = {}
      BY <1>12, <2>2, <2>4, <2>5, Enqueues
    <2>7. CapTyped'
      BY <1>3, <2>1 DEF CapTyped
    <2>8. QueuesTyped'
      BY <2>6 DEF QueuesTyped, Entries
    <2>9. Threads'
      BY <1>1, <1>2, <1>4, <2>1 DEF Threads
    <2>10. Places'
      <3>1. /\ \A x : x \in BufsOf(dropped') \/ x \in BufsOf(jpeg_queue_') <=>
                        x \in BufsOf(jpeg_queue_) \/ x = cap.buf
            /\ \A x \in BufsOf(jpeg_queue_') : x \notin BufsOf(dropped')
        BY <2>6
      <3>2. Parts(driver, lost, BufsOf(jpeg_queue_'), BufsOf(dropped'), {}, JobHand, mapped)
        BY <1>4, <2>3, <2>4, <3>1 DEF Places, Parts
      <3> QED BY <1>1, <2>1, <2>3, <2>6, <3>2 DEF Places
    <2> QED BY <1>1, <1>5, <2>1, <2>7, <2>8, <2>9, <2>10 DEF CaptureInv, CaptureTyped
  <1>13. CASE CapRequeues /\ dec' = dec
    <2>1. /\ UNCHANGED <<cap, jpeg_queue_, job, frames, dec>> /\ cap.at = "requeue"
               /\ dropped # <<>>
          /\ QBufV4l2Index({Head(dropped).buf}) /\ dropped' = Tail(dropped)
      BY <1>13 DEF CapRequeues
    <2>2. dropped \in Seq(Entries) /\ Distinct(dropped)
      BY <1>4 DEF QueuesTyped, Places
    <2>3. /\ dropped' \in Seq(Entries) /\ BufsOf(dropped)
               = {Head(dropped).buf} \union BufsOf(dropped')
          /\ Head(dropped).buf \notin BufsOf(dropped') /\ Distinct(dropped')
      BY <2>1, <2>2, HeadLeaves
    <2>4. CapTyped' /\ QueuesTyped'
      BY <1>4, <2>1, <2>3, Zenon DEF CapTyped, QueuesTyped, Entries
    <2>5. Threads'
      BY <1>1, <1>2, <1>4, <2>1 DEF Threads
    <2>6. CapHand' = CapHand /\ JobHand' = JobHand
      BY <2>1 DEF CapHand, JobHand
    <2>7. /\ BufsOf(jpeg_queue_)' = BufsOf(jpeg_queue_) /\ Distinct(jpeg_queue_)'
      BY <1>4, <2>1 DEF BufsOf, Distinct, Places
    <2>8. \/ driver' = driver \union {Head(dropped).buf} /\ lost' = lost
          \/ driver' = driver /\ lost' = lost \union {Head(dropped).buf}
      BY <2>1, QBufMoves
    <2>9. Places'
      <3> DEFINE b == Head(dropped).buf
      <3>1. b \notin BufsOf(dropped') /\ BufsOf(dropped) = {b} \union BufsOf(dropped')
        BY <2>3
      <3>2. \/ driver' = driver \union {b} /\ lost' = lost
            \/ driver' = driver /\ lost' = lost \union {b}
        BY <2>8
      <3> HIDE DEF b
      <3>3. Parts(driver', lost', BufsOf(jpeg_queue_), BufsOf(dropped'), CapHand, JobHand, mapped)
        BY <1>4, <3>1, <3>2 DEF Places, Parts
      <3> QED BY <1>1, <2>3, <2>6, <2>7, <3>3 DEF Places
    <2> QED BY <1>1, <1>5, <2>1, <2>4, <2>5, <2>9 DEF CaptureInv, CaptureTyped
  <1> QED BY <1>7, <1>8, <1>9, <1>10, <1>11, <1>12, <1>13 DEF CaptureStep

\* The steps of the decode thread.
LEMMA DecodeThreadNext ==
  ASSUME CaptureInv, DecodeStep
  PROVE  CaptureInv'
PROOF
  <1>1. /\ UNCHANGED <<mode, owner, mapped, cap, dropped, frames, slots_in_use, ring, pictures>>
        /\ (Async' <=> Async) /\ PoolTyped' /\ Mapping' /\ CapTyped' /\ CapHand' = CapHand
    BY DEF DecodeStep, device, pool, Async, CaptureInv, CaptureTyped, PoolTyped, Mapping, CapTyped,
           CapHand
  <1>2. /\ dec \in {"lock", "decoding"}
        /\ owner \notin {"idle", "format", "buffers", "release", "stopped"}
        /\ Async /\ cap.at # "converting"
    BY DEF DecodeStep, DecTakes, DecWaits, DecRequeues, CaptureInv, Threads
  <1>3. 0 \in 0..MaxFrames
    BY CaptureAssumption
  <1>4. /\ CapTyped /\ JobTyped /\ QueuesTyped /\ Threads /\ Places /\ SlotExclusive
    BY DEF CaptureInv, CaptureTyped
  <1>5. BufsOf(dropped)' = BufsOf(dropped) /\ Distinct(dropped)'
    BY <1>1, <1>4 DEF BufsOf, Distinct, Places
  <1>6. CASE DecTakes
    <2> DEFINE e == Head(jpeg_queue_)
    <2>1. /\ dec = "lock" /\ dec' = "decoding" /\ jpeg_queue_ # <<>>
               /\ jpeg_queue_' = Tail(jpeg_queue_)
          /\ UNCHANGED <<driver, lost>>
      BY <1>6 DEF DecTakes
    <2>2. jpeg_queue_ \in Seq(Entries) /\ Distinct(jpeg_queue_)
      BY <1>4 DEF QueuesTyped, Places
    <2>3. /\ e \in Entries /\ jpeg_queue_' \in Seq(Entries)
          /\ BufsOf(jpeg_queue_) = {e.buf} \union BufsOf(jpeg_queue_')
          /\ e.buf \notin BufsOf(jpeg_queue_') /\ Distinct(jpeg_queue_')
      BY <2>1, <2>2, HeadLeaves
    <2>4. PICK a \in {"done", "decode"} :
            job' = [at |-> a, buf |-> e.buf, frame |-> e.frame, slot |-> NoSlot]
      <3>1. job' = [[at |-> "decode", buf |-> e.buf, frame |-> e.frame, slot |-> NoSlot] EXCEPT
                       !.at = IF decode_worker_exit_ THEN "done" ELSE "decode"]
        BY <1>6, Zenon DEF DecTakes, Converting
      <3> HIDE DEF e
      <3> QED BY <3>1
    <2>5. e.buf \in Buffers /\ e.frame \in 0..MaxFrames
      BY <2>3 DEF Entries
    <2> HIDE DEF e
    <2>6. JobTyped' /\ job'.at # "none" /\ JobHand' = {e.buf}
      BY <2>4, <2>5 DEF JobTyped, JobHand
    <2>7. job'.slot = NoSlot
      BY <2>4
    <2>8. QueuesTyped' /\ SlotExclusive'
      BY <1>1, <1>4, <2>3, <2>7, Zenon DEF QueuesTyped, SlotExclusive, Entries
    <2>9. JobHand = {}
      BY <1>2, <1>4, <2>1 DEF Threads, JobHand
    <2>10. Threads'
      BY <1>1, <1>2, <1>4, <2>1, <2>6 DEF Threads
    <2>11. Places'
      <3>1. Parts(driver, lost, BufsOf(jpeg_queue_'), BufsOf(dropped), CapHand, {e.buf}, mapped)
        BY <1>4, <2>3, <2>9 DEF Places, Parts
      <3> QED BY <1>1, <1>5, <2>1, <2>3, <2>6, <3>1 DEF Places
    <2> QED BY <1>1, <2>6, <2>8, <2>10, <2>11 DEF CaptureInv, CaptureTyped
  <1>7. CASE DecWaits
    <2>1. /\ UNCHANGED <<driver, lost, jpeg_queue_, job>> /\ dec = "lock"
               /\ dec' \in {"done", "asleep"}
      BY <1>7 DEF DecWaits
    <2>2. JobTyped' /\ QueuesTyped' /\ SlotExclusive'
      BY <1>1, <1>4, <2>1, Zenon DEF JobTyped, QueuesTyped, SlotExclusive, Entries
    <2>3. Threads'
      BY <1>1, <1>2, <1>4, <2>1 DEF Threads
    <2>4. Places'
      BY <1>1, <1>4, <2>1, PlacesStay DEF JobHand
    <2> QED BY <1>1, <2>2, <2>3, <2>4 DEF CaptureInv, CaptureTyped
  <1>8. CASE DecRequeues
    <2>1. /\ UNCHANGED jpeg_queue_ /\ dec = "decoding" /\ dec' = "lock" /\ job.at = "done"
          /\ job' = [at |-> "none", buf |-> NoBuf, frame |-> 0, slot |-> NoSlot]
          /\ QBufV4l2Index({job.buf})
      BY <1>8 DEF DecRequeues, NoJob
    <2>2. JobTyped' /\ JobHand = {job.buf} /\ JobHand' = {}
      BY <1>3, <2>1 DEF JobTyped, JobHand
    <2>3. job'.slot = NoSlot
      BY <2>1
    <2>4. QueuesTyped' /\ SlotExclusive'
      BY <1>1, <1>4, <2>1, <2>3, Zenon DEF QueuesTyped, SlotExclusive, Entries
    <2>5. Threads'
      BY <1>1, <1>2, <1>4, <2>1 DEF Threads
    <2>6. \/ driver' = driver \union {job.buf} /\ lost' = lost
          \/ driver' = driver /\ lost' = lost \union {job.buf}
      BY <2>1, QBufMoves
    <2>7. BufsOf(jpeg_queue_)' = BufsOf(jpeg_queue_) /\ Distinct(jpeg_queue_)'
      BY <1>4, <2>1 DEF BufsOf, Distinct, Places
    <2>8. Places'
      BY <1>1, <1>4, <1>5, <2>2, <2>6, <2>7 DEF Places, Parts
    <2> QED BY <1>1, <2>2, <2>4, <2>5, <2>8 DEF CaptureInv, CaptureTyped
  <1> QED BY <1>6, <1>7, <1>8 DEF DecodeStep

\* The steps of a conversion, on either thread: its slot is its own until the picture is done.
LEMMA ConversionNext ==
  ASSUME CaptureInv, ProcessV4l2CapturedFrame
  PROVE  CaptureInv'
PROOF
  <1>1. UNCHANGED <<mode, owner, mapped, driver, lost, cap, dropped, jpeg_queue_, dec, frames>>
    BY DEF ProcessV4l2CapturedFrame, device
  <1>2. /\ CapTyped /\ JobTyped /\ QueuesTyped /\ PoolTyped /\ Threads /\ Places /\ SlotExclusive
    BY DEF CaptureInv, CaptureTyped
  <1>3. /\ CapTyped' /\ QueuesTyped' /\ Mapping' /\ (Async' <=> Async) /\ CapHand' = CapHand
    <2>1. CapTyped' /\ QueuesTyped'
      BY <1>1, <1>2, Zenon DEF CapTyped, QueuesTyped, Entries
    <2> QED BY <1>1, <2>1 DEF CaptureInv, Mapping, Async, CapHand
  <1>4. /\ job.at # "none" /\ owner \notin {"release", "stopped"}
    BY <1>2 DEF ProcessV4l2CapturedFrame, ConvertNative, AcquireNv12PoolBuffer, PoolFilled,
           ConvertAlone, Threads
  <1>5. /\ pictures \subseteq slots_in_use
        /\ job.slot # NoSlot => job.slot \in slots_in_use \ pictures
    BY <1>2, <1>4 DEF SlotExclusive
  <1>6. /\ JobTyped' /\ job'.at # "none" /\ job'.buf = job.buf /\ PoolTyped'
        /\ pictures' \subseteq slots_in_use'
        /\ job'.slot # NoSlot => job'.slot \in slots_in_use' \ pictures'
    <2>1. NoSlot \notin Slots /\ PoolSlots \in Nat
      BY CaptureAssumption DEF NoSlot, Slots
    <2>2. CASE ConvertNative \/ ConvertAlone
      <3>1. /\ job' = [job EXCEPT !.at = "done"] /\ job.at # "fill"
            /\ UNCHANGED <<slots_in_use, ring, pictures>>
        BY <2>2 DEF ConvertNative, ConvertAlone, pool
      <3>2. JobTyped' /\ job'.at = "done" /\ job'.buf = job.buf /\ job'.slot = NoSlot
        BY <1>2, <1>4, <3>1 DEF JobTyped
      <3> QED BY <1>2, <1>5, <3>1, <3>2 DEF PoolTyped
    <2>3. CASE AcquireNv12PoolBuffer /\ slots_in_use = Slots
      <3>1. /\ job' = [job EXCEPT !.at = "fallback"] /\ job.at = "decode"
            /\ UNCHANGED <<slots_in_use, ring, pictures>>
        BY <2>3 DEF AcquireNv12PoolBuffer
      <3>2. JobTyped' /\ job'.at = "fallback" /\ job'.buf = job.buf /\ job'.slot = NoSlot
        BY <1>2, <1>4, <3>1 DEF JobTyped
      <3> QED BY <1>2, <1>5, <3>1, <3>2 DEF PoolTyped
    <2>4. CASE AcquireNv12PoolBuffer /\ slots_in_use # Slots
      <3>1. /\ job' = [job EXCEPT !.at = "fill", !.slot = FreeSlot] /\ job.at = "decode"
            /\ slots_in_use' = slots_in_use \union {FreeSlot} /\ ring' = FreeSlot + 1
            /\ pictures' = pictures
        BY <2>4, Zenon DEF AcquireNv12PoolBuffer
      <3>2. FreeSlot \in Slots \ slots_in_use
        BY <1>2, <2>4, FreeSlotIsFree
      <3>3. PICK f \in Slots : f = FreeSlot /\ f \notin slots_in_use
        BY <3>2
      <3>4. JobTyped' /\ job'.at = "fill" /\ job'.buf = job.buf /\ job'.slot = f
        BY <1>2, <1>4, <2>1, <3>1, <3>3 DEF JobTyped
      <3>5. PoolTyped'
        <4>1. f + 1 \in 0..PoolSlots
          BY <2>1, <3>3 DEF Slots
        <4> QED BY <1>2, <3>1, <3>3, <4>1 DEF PoolTyped
      <3> QED BY <1>2, <1>5, <3>1, <3>3, <3>4, <3>5
    <2>5. CASE PoolFilled
      <3>1. /\ job.at = "fill" /\ ring' = ring
            /\ \E a \in {"done", "fallback"} : job' = [job EXCEPT !.at = a, !.slot = NoSlot]
            /\ \/ pictures' = pictures \union {job.slot} /\ slots_in_use' = slots_in_use
               \/ slots_in_use' = slots_in_use \ {job.slot} /\ pictures' = pictures
        BY <2>5 DEF PoolFilled
      <3>2. job.slot \in slots_in_use \ pictures
        BY <1>2, <1>5, <3>1 DEF JobTyped
      <3>3. JobTyped' /\ job'.at # "none" /\ job'.buf = job.buf /\ job'.slot = NoSlot
        BY <1>2, <1>4, <3>1 DEF JobTyped
      <3> QED BY <1>2, <1>5, <3>1, <3>2, <3>3 DEF PoolTyped
    <2> QED BY <2>2, <2>3, <2>4, <2>5 DEF ProcessV4l2CapturedFrame
  <1>7. SlotExclusive'
    BY <1>6 DEF SlotExclusive
  <1>8. Threads'
    BY <1>1, <1>2, <1>3, <1>4, <1>6 DEF Threads
  <1>9. Places'
    BY <1>1, <1>2, <1>3, <1>4, <1>6, PlacesStay DEF JobHand
  <1> QED BY <1>3, <1>6, <1>7, <1>8, <1>9 DEF CaptureInv, CaptureTyped

\* Every step of every thread.
LEMMA CaptureNext ==
  ASSUME CaptureInv, [NextCapture]_captureVars
  PROVE  CaptureInv'
PROOF
  <1>1. CASE EncoderReleases
    <2>1. UNCHANGED <<mode, owner, mapped, driver, lost, cap, dropped, jpeg_queue_, dec, job,
          ring, frames>>
      BY <1>1 DEF EncoderReleases, device
    <2>2. PICK s \in pictures : pictures' = pictures \ {s} /\ slots_in_use' = slots_in_use \ {s}
      BY <1>1 DEF EncoderReleases
    <2>3. CapTyped' /\ JobTyped' /\ QueuesTyped'
      BY <2>1, Zenon DEF CaptureInv, CaptureTyped, CapTyped, JobTyped, QueuesTyped, Entries
    <2>4. PoolTyped' /\ SlotExclusive'
      BY <2>1, <2>2 DEF CaptureInv, CaptureTyped, PoolTyped, SlotExclusive
    <2>5. Threads' /\ Mapping'
      BY <2>1 DEF CaptureInv, Threads, Mapping, Async
    <2>6. Places'
      BY <2>1, PlacesStay DEF CaptureInv, CapHand, JobHand
    <2> QED BY <2>3, <2>4, <2>5, <2>6 DEF CaptureInv, CaptureTyped
  <1>2. CASE UNCHANGED captureVars
    <2>1. UNCHANGED <<mode, owner, mapped, driver, lost, cap, dropped, jpeg_queue_, dec, job,
          ring, frames,
                      slots_in_use, pictures>>
      BY <1>2 DEF captureVars, device, pool
    <2>2. CapTyped' /\ JobTyped' /\ QueuesTyped'
      BY <2>1, Zenon DEF CaptureInv, CaptureTyped, CapTyped, JobTyped, QueuesTyped, Entries
    <2>3. PoolTyped' /\ SlotExclusive'
      BY <2>1 DEF CaptureInv, CaptureTyped, PoolTyped, SlotExclusive
    <2>4. Threads' /\ Mapping'
      BY <2>1 DEF CaptureInv, Threads, Mapping, Async
    <2>5. Places'
      BY <2>1, PlacesStay DEF CaptureInv, CapHand, JobHand
    <2> QED BY <2>2, <2>3, <2>4, <2>5 DEF CaptureInv, CaptureTyped
  <1> QED BY <1>1, <1>2, OwnerNext, CaptureThreadNext, DecodeThreadNext,
             ConversionNext DEF NextCapture

\* The invariant of the camera, for any number of buffers and slots and any way the
\* three threads interleave.
THEOREM CaptureInvariant == CaptureSpec => []CaptureInv
PROOF
  <1>1. InitCapture => CaptureInv
    BY CaptureStarts
  <1>2. CaptureInv /\ [NextCapture]_captureVars => CaptureInv'
    BY CaptureNext
  <1> QED BY <1>1, <1>2, PTL DEF CaptureSpec

\* The decoder never writes into a slot of the NV12 pool that holds a picture the encoder
\* still reads: AcquireNv12PoolBuffer takes only a free one, and it is free again when
\* the picture is released.
THEOREM SlotsExclusive == CaptureSpec => []SlotExclusive
PROOF
  <1>1. CaptureInv => SlotExclusive
    BY DEF CaptureInv
  <1> QED BY <1>1, CaptureInvariant, PTL

\* A list without repetitions has as many entries as buffers.
LEMMA CountsEntries ==
  ASSUME NEW q \in Seq(Entries), Distinct(q)
  PROVE  IsFiniteSet(BufsOf(q)) /\ Cardinality(BufsOf(q)) = Len(q)
PROOF
  <1>1. Len(q) \in Nat
    BY LenProperties
  <1>2. IsFiniteSet(1..Len(q)) /\ Cardinality(1..Len(q)) = Len(q)
    <2>1. /\ IsFiniteSet(1..Len(q))
          /\ Cardinality(1..Len(q)) = IF 1 > Len(q) THEN 0 ELSE Len(q) - 1 + 1
      BY <1>1, FS_Interval
    <2> QED BY <1>1, <2>1
  <1> DEFINE f == [i \in 1..Len(q) |-> q[i].buf]
  <1>3. f \in Bijection(1..Len(q), BufsOf(q))
    <2>1. f \in [1..Len(q) -> BufsOf(q)]
      BY DEF BufsOf
    <2>2. \A i, j \in 1..Len(q) : f[i] = f[j] => i = j
      BY DEF Distinct
    <2>3. \A b \in BufsOf(q) : \E i \in 1..Len(q) : f[i] = b
      BY DEF BufsOf
    <2> HIDE DEF f
    <2> QED BY <2>1, <2>2, <2>3 DEF Bijection, Injection, Surjection, IsInjective
  <1>4. ExistsBijection(1..Len(q), BufsOf(q))
    BY <1>3 DEF ExistsBijection
  <1> QED BY <1>2, <1>4, FS_Bijection

\* The sizes of sets without common elements add up.
LEMMA Adds ==
  ASSUME NEW S, NEW T, IsFiniteSet(S), IsFiniteSet(T), S \intersect T = {}
  PROVE  /\ IsFiniteSet(S \union T) /\ Cardinality(S) \in Nat /\ Cardinality(T) \in Nat
         /\ Cardinality(S \union T) = Cardinality(S) + Cardinality(T)
PROOF
  <1>1. /\ IsFiniteSet(S \union T)
        /\ Cardinality(S \union T) = Cardinality(S) + Cardinality(T) - Cardinality(S \intersect T)
    BY FS_Union
  <1>2. Cardinality(S \intersect T) = 0
    BY FS_EmptySet
  <1>3. Cardinality(S) \in Nat /\ Cardinality(T) \in Nat
    BY FS_CardinalityType
  <1> QED BY <1>1, <1>2, <1>3

\* Every mapped V4L2 buffer is in exactly one place, whatever the capture thread, the
\* decode thread and Stop do meanwhile: none is queued to the driver while it waits or is
\* decoded (the QBUF delayed at camera_video_track_source.cpp:1213), none twice, none is
\* forgotten.
THEOREM BuffersHaveOneOwner == CaptureSpec => []OneOwner
PROOF
  <1>1. CaptureInv => OneOwner
    <2> SUFFICES ASSUME CaptureInv PROVE OneOwner
      OBVIOUS
    <2> DEFINE Q == BufsOf(jpeg_queue_)
               D == BufsOf(dropped)
    <2>1. /\ Parts(driver, lost, Q, D, CapHand, JobHand, mapped) /\ mapped \subseteq Buffers
          /\ jpeg_queue_ \in Seq(Entries) /\ dropped \in Seq(Entries)
          /\ Distinct(jpeg_queue_) /\ Distinct(dropped)
      BY DEF CaptureInv, CaptureTyped, Places, Mapping, QueuesTyped
    <2>2. IsFiniteSet(mapped)
      <3>1. IsFiniteSet(Buffers)
        BY CaptureAssumption, FS_Interval DEF Buffers
      <3> QED BY <2>1, <3>1, FS_Subset
    <2>3. /\ IsFiniteSet(Q) /\ Cardinality(Q) = Len(jpeg_queue_)
          /\ IsFiniteSet(D) /\ Cardinality(D) = Len(dropped)
      BY <2>1, CountsEntries
    <2>4. /\ IsFiniteSet(driver) /\ IsFiniteSet(lost)
      <3>1. driver \subseteq mapped /\ lost \subseteq mapped
        BY <2>1 DEF Parts
      <3> QED BY <2>2, <3>1, FS_Subset
    <2>5. /\ IsFiniteSet(CapHand) /\ Cardinality(CapHand) = IF cap.at = "got" THEN 1 ELSE 0
          /\ IsFiniteSet(JobHand) /\ Cardinality(JobHand) = IF job.at # "none" THEN 1 ELSE 0
      BY FS_EmptySet, FS_Singleton DEF CapHand, JobHand
    <2>6. Hands = Cardinality(CapHand) + Cardinality(JobHand)
      BY <2>5 DEF Hands
    <2>7. InHand = CapHand \union JobHand
      BY DEF InHand, CapHand, JobHand
    <2> HIDE DEF Q, D
    <2>8. /\ driver \intersect lost = {} /\ (driver \union lost) \intersect Q = {}
          /\ (driver \union lost \union Q) \intersect D = {}
          /\ (driver \union lost \union Q \union D) \intersect CapHand = {}
          /\ (driver \union lost \union Q \union D \union CapHand) \intersect JobHand = {}
          /\ driver \union lost \union Q \union D \union CapHand \union JobHand = mapped
      BY <2>1 DEF Parts
    <2>9. /\ IsFiniteSet(driver \union lost)
          /\ Cardinality(driver \union lost) = Cardinality(driver) + Cardinality(lost)
          /\ Cardinality(driver) \in Nat /\ Cardinality(lost) \in Nat
      BY <2>4, <2>8, Adds
    <2>10. /\ IsFiniteSet(driver \union lost \union Q)
           /\ Cardinality(driver \union lost \union Q)
                = Cardinality(driver \union lost) + Cardinality(Q)
           /\ Cardinality(Q) \in Nat
      BY <2>3, <2>8, <2>9, Adds
    <2>11. /\ IsFiniteSet(driver \union lost \union Q \union D)
           /\ Cardinality(driver \union lost \union Q \union D)
                = Cardinality(driver \union lost \union Q) + Cardinality(D)
           /\ Cardinality(D) \in Nat
      BY <2>3, <2>8, <2>10, Adds
    <2>12. /\ IsFiniteSet(driver \union lost \union Q \union D \union CapHand)
           /\ Cardinality(driver \union lost \union Q \union D \union CapHand)
                = Cardinality(driver \union lost \union Q \union D) + Cardinality(CapHand)
           /\ Cardinality(CapHand) \in Nat
      BY <2>5, <2>8, <2>11, Adds
    <2>13. /\ Cardinality(mapped)
                = Cardinality(driver \union lost \union Q \union D \union CapHand) + Cardinality(JobHand)
           /\ Cardinality(JobHand) \in Nat
      BY <2>5, <2>8, <2>12, Adds
    <2>14. Cardinality(driver) + Cardinality(lost) + Len(jpeg_queue_) + Len(dropped) + Hands
             = Cardinality(mapped)
      BY <2>3, <2>6, <2>9, <2>10, <2>11, <2>12, <2>13
    <2>15. driver \union lost \union Q \union D \union InHand = mapped
      BY <2>7, <2>8
    <2> QED BY <2>14, <2>15 DEF OneOwner, Q, D
  <1> QED BY <1>1, CaptureInvariant, PTL

-----------------------------------------------------------------------------
\* Where the one Encode call is, and its locals.
Call ==
  /\ encodes \in 0..MaxEncodes
  /\ enc \in [at : {"idle", "input", "adapted", "frame", "put", "copied", "again", "get"},
              frame : 0..MaxEncodes, kind : Kinds \union {None}, zc : BOOLEAN,
              orphan : BOOLEAN, held : BOOLEAN, retries : Nat, turn : BOOLEAN]
  /\ enc.at = "idle" => enc = IdleCall
  /\ enc.at # "idle" => enc.frame \in 1..MaxEncodes

\* Which of the two guards has the reference on the buffer at each place of the call.
Guards ==
  /\ enc.at \in {"input", "adapted", "copied", "again"} => ~enc.zc /\ ~enc.orphan /\ ~enc.held
  /\ enc.at = "frame" => ~enc.held /\ (enc.orphan <=> enc.zc)
  /\ enc.at \in {"put", "get"} => ~enc.orphan /\ (enc.held <=> enc.zc)

\* The references that were taken are those the guards have.
Counted ==
  /\ refs \in [1..MaxEncodes -> 0..1]
  /\ \A f \in 1..MaxEncodes :
       refs[f] = IF f = enc.frame /\ (enc.orphan \/ enc.held) THEN 1 ELSE 0

\* What every step keeps of the call.
CallInv == Call /\ Guards /\ Counted

\* Before the first call.
LEMMA CallInit ==
  ASSUME InitEncoder
  PROVE  CallInv
PROOF
  <1>1. MaxEncodes \in Nat
    BY EncoderAssumption
  <1>2. Call /\ Guards
    BY <1>1 DEF InitEncoder, Call, Guards, IdleCall
  <1>3. Counted
    BY <1>1 DEF InitEncoder, Counted, IdleCall
  <1> QED BY <1>2, <1>3 DEF CallInv

\* A step that leaves the call alone.
LEMMA CallStays ==
  ASSUME CallInv, UNCHANGED <<enc, refs, encodes>>
  PROVE  CallInv'
PROOF
  BY DEF CallInv, Call, Guards, Counted

\* A return of Encode, from wherever: the guards put what they have.
LEMMA CallReturns ==
  ASSUME CallInv, enc.at # "idle", Returns, encodes' = encodes
  PROVE  CallInv'
PROOF
  <1>1. MaxEncodes \in Nat
    BY EncoderAssumption
  <1>2. enc' = IdleCall /\ enc.frame \in 1..MaxEncodes
    BY DEF CallInv, Call, Returns
  <1>3. Call' /\ Guards'
    BY <1>1, <1>2 DEF CallInv, Call, Guards, IdleCall
  <1>4. refs[enc.frame] = Taken(enc.orphan) + Taken(enc.held)
    <2>1. enc.orphan \in BOOLEAN /\ enc.held \in BOOLEAN /\ ~(enc.orphan /\ enc.held)
      BY DEF CallInv, Call, Guards
    <2>2. refs[enc.frame] = IF enc.orphan \/ enc.held THEN 1 ELSE 0
      BY <1>2 DEF CallInv, Counted
    <2> QED BY <2>1, <2>2 DEF Taken
  <1>5. refs' = [refs EXCEPT ![enc.frame] = 0]
    BY <1>2, <1>4 DEF Returns, RefsReleased, CallInv, Counted, Taken
  <1>6. \A f \in 1..MaxEncodes : refs'[f] = 0
    BY <1>2, <1>5 DEF CallInv, Counted
  <1>7. refs' \in [1..MaxEncodes -> 0..1]
    BY <1>2, <1>5, SMT DEF CallInv, Counted
  <1>8. ~enc'.orphan /\ ~enc'.held
    BY <1>2 DEF IdleCall
  <1> QED BY <1>3, <1>6, <1>7, <1>8 DEF CallInv, Counted

\* The call goes on to another place, with the guards as they have to be there.
LEMMA CallGoesOn ==
  ASSUME CallInv, enc.at # "idle", Call', Guards', encodes' = encodes, refs' = refs,
         enc'.frame = enc.frame,
         (enc'.orphan \/ enc'.held) <=> (enc.orphan \/ enc.held)
  PROVE  CallInv'
PROOF
  BY DEF CallInv, Counted

\* The steps of an Encode call.
LEMMA CallStep ==
  ASSUME CallInv, EncodeStep
  PROVE  CallInv'
PROOF
  <1>1. enc.at # "idle" /\ encodes' = encodes
    BY DEF EncodeStep, EncodeInput, HoldInput, PutFrame, PutZeroCopyFails, PutFails,
           PutFailsAgain, GetEmptyPacket, GetPart, PartExceeds, EncodeEnds, EndExceeds,
           EmitFails, GetNothing, GetFails, RecoverOrError, calls
  <1>2. CASE Returns
    BY <1>1, <1>2, CallReturns
  <1>3. CASE EncodeInput /\ ~Returns
    <2>1. CASE Bound
      <3>1. enc.at \in {"input", "adapted"} /\ enc.frame \in 1..MaxEncodes
        BY <1>3 DEF EncodeInput, CallInv, Call
      <3>2. /\ enc' = [enc EXCEPT !.at = "frame", !.zc = TRUE, !.orphan = TRUE]
            /\ refs' = [refs EXCEPT ![enc.frame] = @ + 1]
        BY <2>1 DEF Bound
      <3>3. Call' /\ Guards'
        BY <1>1, <3>1, <3>2 DEF CallInv, Call, Guards
      <3>4. refs[enc.frame] = 0
        BY <3>1 DEF CallInv, Guards, Counted
      <3>5. refs' = [refs EXCEPT ![enc.frame] = 1]
        BY <3>2, <3>4
      <3>6. refs' \in [1..MaxEncodes -> 0..1] /\ \A f \in 1..MaxEncodes : f # enc.frame
              => refs'[f] = 0
        <4>1. refs \in [1..MaxEncodes -> 0..1] /\ 1 \in 0..1
          BY DEF CallInv, Counted
        <4>2. refs' \in [1..MaxEncodes -> 0..1]
          BY <3>1, <3>5, <4>1, SMTT(30)
        <4>3. \A f \in 1..MaxEncodes : f # enc.frame => refs[f] = 0
          BY DEF CallInv, Counted
        <4> QED BY <3>1, <3>5, <4>1, <4>2, <4>3
      <3>7. enc'.frame = enc.frame /\ enc'.orphan /\ refs'[enc.frame] = 1
        BY <3>1, <3>2, <3>5 DEF CallInv, Call, Counted
      <3> QED BY <3>3, <3>6, <3>7 DEF CallInv, Counted
    <2>2. CASE Copied
      <3>1. enc' = [enc EXCEPT !.at = "frame"] /\ refs' = refs
        BY <1>3, <2>2 DEF Copied
      <3>2. enc.at \in {"input", "adapted"}
        BY <1>3 DEF EncodeInput
      <3>3. Call' /\ Guards'
        BY <1>1, <3>1, <3>2 DEF CallInv, Call, Guards
      <3> QED BY <1>1, <3>1, <3>3, CallGoesOn DEF CallInv, Call
    <2> QED BY <1>3, <2>1, <2>2 DEF EncodeInput
  <1>4. CASE HoldInput /\ ~Returns
    <2>1. /\ enc.at = "frame" /\ refs' = refs
          /\ enc' = [enc EXCEPT !.at = "put", !.held = enc.zc, !.orphan = FALSE]
      BY <1>4 DEF HoldInput
    <2>2. enc.frame \in 1..MaxEncodes /\ ~enc.held /\ (enc.orphan <=> enc.zc)
      BY <2>1 DEF CallInv, Call, Guards
    <2>3. /\ enc'.at = "put" /\ enc'.held = enc.zc /\ ~enc'.orphan /\ enc'.zc = enc.zc
          /\ enc'.frame = enc.frame
      BY <2>1 DEF CallInv, Call
    <2>4. Call'
      BY <1>1, <2>1, <2>2 DEF CallInv, Call
    <2>5. Guards' /\ ((enc'.orphan \/ enc'.held) <=> (enc.orphan \/ enc.held))
      BY <2>2, <2>3 DEF Guards
    <2> QED BY <1>1, <2>1, <2>3, <2>4, <2>5, CallGoesOn
  <1>5. CASE PutFrame
    <2>1. /\ enc.at \in {"put", "copied", "again"} /\ refs' = refs
          /\ enc' = [enc EXCEPT !.at = "get"]
      BY <1>5 DEF PutFrame, Put
    <2>2. Call' /\ Guards'
      BY <1>1, <2>1 DEF CallInv, Call, Guards
    <2> QED BY <1>1, <2>1, <2>2, CallGoesOn DEF CallInv, Call
  <1>6. CASE PutZeroCopyFails /\ ~Returns
    <2>1. /\ enc.at = "put" /\ refs' = RefsReleased
          /\ enc' = [enc EXCEPT !.at = "copied", !.held = FALSE, !.orphan = FALSE, !.zc = FALSE]
      BY <1>6 DEF PutZeroCopyFails
    <2>2. enc.frame \in 1..MaxEncodes
      BY <2>1 DEF CallInv, Call
    <2>3. refs[enc.frame] = Taken(enc.orphan) + Taken(enc.held)
      BY <2>2, <2>1 DEF CallInv, Call, Guards, Counted, Taken
    <2>4. refs' = [refs EXCEPT ![enc.frame] = 0]
      BY <2>1, <2>2, <2>3 DEF RefsReleased, CallInv, Counted, Taken
    <2>5. refs' \in [1..MaxEncodes -> 0..1] /\ \A f \in 1..MaxEncodes : refs'[f] = 0
      BY <2>2, <2>4, SMT DEF CallInv, Counted
    <2>6. Call' /\ Guards' /\ ~enc'.orphan /\ ~enc'.held
      BY <1>1, <2>1 DEF CallInv, Call, Guards
    <2> QED BY <2>5, <2>6 DEF CallInv, Counted
  <1>7. CASE PutFails
    <2>1. /\ enc.at \in {"put", "copied"} /\ ~enc.zc /\ refs' = refs
          /\ enc' = [enc EXCEPT !.at = "again"]
      BY <1>7 DEF PutFails
    <2>2. Call' /\ Guards'
      BY <1>1, <2>1 DEF CallInv, Call, Guards
    <2> QED BY <1>1, <2>1, <2>2, CallGoesOn DEF CallInv, Call
  <1>8. CASE GetEmptyPacket \/ GetPart \/ GetNothing
    <2>1. /\ enc.at = "get" /\ refs' = refs
          /\ \E n \in {0, enc.retries, enc.retries + 1}, b \in BOOLEAN :
               enc' = [enc EXCEPT !.retries = n, !.turn = b]
      <3>1. enc.turn \in BOOLEAN /\ enc = [enc EXCEPT !.turn = enc.turn]
        BY DEF CallInv, Call
      <3>2. CASE GetEmptyPacket
        <4>1. (~enc.turn) \in BOOLEAN
          BY <3>1
        <4>2. \E n \in {0, enc.retries, enc.retries + 1} :
                enc' = [enc EXCEPT !.retries = n, !.turn = ~enc.turn]
          BY <3>2 DEF GetEmptyPacket
        <4> QED BY <3>2, <4>1, <4>2 DEF GetEmptyPacket
      <3>3. CASE GetPart
        BY <3>3 DEF GetPart
      <3>4. CASE GetNothing
        <4>1. enc' = [enc EXCEPT !.retries = enc.retries + 1, !.turn = enc.turn]
          BY <3>4, <3>1 DEF GetNothing, CallInv, Call
        <4> QED BY <3>4, <3>1, <4>1 DEF GetNothing
      <3> QED BY <1>8, <3>2, <3>3, <3>4
    <2>2. PICK n \in {0, enc.retries, enc.retries + 1}, b \in BOOLEAN :
            enc' = [enc EXCEPT !.retries = n, !.turn = b]
      BY <2>1
    <2>3. n \in Nat
      BY DEF CallInv, Call
    <2>4. Call' /\ Guards'
      BY <1>1, <2>1, <2>2, <2>3 DEF CallInv, Call, Guards
    <2> QED BY <1>1, <2>1, <2>2, <2>4, CallGoesOn DEF CallInv, Call
  <1> QED
    BY <1>2, <1>3, <1>4, <1>5, <1>6, <1>7, <1>8
       DEF EncodeStep, PutFailsAgain, PartExceeds, EncodeEnds, EndExceeds, EmitFails, GetFails,
           RecoverOrError

\* Every step keeps the account of the references.
LEMMA CallNext ==
  ASSUME CallInv, [NextEncoder]_encoderVars
  PROVE  CallInv'
PROOF
  <1>1. CASE \E size \in Sizes, rate \in Rates : InitEncode(size, rate)
    BY <1>1, CallStays DEF InitEncode
  <1>2. CASE Release \/ RegisterEncodeCompleteCallback \/ MppEncodes \/ OutputReleased
    BY <1>2, CallStays DEF Release, RegisterEncodeCompleteCallback, MppEncodes, OutputReleased,
       calls
  <1>3. CASE \E rate \in Rates : SetRates(rate)
    BY <1>3, CallStays DEF SetRates, calls
  <1>4. CASE EncodeRefused
    <2>1. /\ enc' = enc /\ refs' = refs /\ encodes' = encodes + 1 /\ encodes < MaxEncodes
      BY <1>4 DEF EncodeRefused
    <2>2. encodes \in Nat /\ MaxEncodes \in Nat
      BY EncoderAssumption DEF CallInv, Call
    <2>3. encodes' \in 0..MaxEncodes
      BY <2>1, <2>2
    <2> QED BY <2>1, <2>3, Zenon DEF CallInv, Call, Guards, Counted
  <1>5. ASSUME NEW kind \in Kinds, EncodeBegins(kind)
        PROVE  CallInv'
    <2>1. /\ enc = IdleCall /\ refs' = refs /\ encodes \in Nat /\ encodes < MaxEncodes
               /\ MaxEncodes \in Nat
          /\ encodes' = encodes + 1
          /\ enc' = [IdleCall EXCEPT !.at = "input", !.frame = encodes + 1, !.kind = kind]
      BY EncoderAssumption, <1>5 DEF EncodeBegins, CallInv, Call
    <2>4. enc' = [at |-> "input", frame |-> encodes + 1, kind |-> kind, zc |-> FALSE,
                  orphan |-> FALSE, held |-> FALSE, retries |-> 0, turn |-> FALSE]
      BY <2>1 DEF IdleCall
    <2>5. encodes' \in 1..MaxEncodes /\ encodes' = encodes + 1 /\ encodes + 1 \in 0..MaxEncodes
      BY <2>1
    <2>6. enc' \in [at : {"idle", "input", "adapted", "frame", "put", "copied", "again", "get"},
                    frame : 0..MaxEncodes, kind : Kinds \union {None}, zc : BOOLEAN,
                    orphan : BOOLEAN, held : BOOLEAN, retries : Nat, turn : BOOLEAN]
      BY <2>4, <2>5
    <2>7. Call'
      BY <2>4, <2>5, <2>6 DEF Call
    <2>2. Call' /\ Guards'
      BY <2>4, <2>7 DEF Guards
    <2>3. /\ ~enc.orphan /\ ~enc.held /\ ~enc'.orphan /\ ~enc'.held
      BY <2>1 DEF IdleCall
    <2> QED BY <2>1, <2>2, <2>3 DEF CallInv, Counted
  <1>6. ASSUME NEW size \in Sizes, ReconfigureForFrameSizeLocked(size)
        PROVE  CallInv'
    <2>1. /\ enc.at = "input" /\ refs' = refs /\ encodes' = encodes
          /\ enc' = [enc EXCEPT !.at = "adapted"] \/ enc' = IdleCall
      BY <1>6 DEF ReconfigureForFrameSizeLocked, calls
    <2>2. ~enc.orphan /\ ~enc.held
      BY <2>1 DEF CallInv, Guards
    <2>3. Call' /\ Guards' /\ ~enc'.orphan /\ ~enc'.held
      <3>1. CASE enc' = [enc EXCEPT !.at = "adapted"]
        BY <2>1, <3>1 DEF CallInv, Call, Guards
      <3>2. CASE enc' = IdleCall
        <4>1. encodes \in 0..MaxEncodes /\ MaxEncodes \in Nat
          BY EncoderAssumption DEF CallInv, Call
        <4> QED BY <2>1, <3>2, <4>1 DEF Call, Guards, IdleCall
      <3> QED BY <2>1, <3>1, <3>2
    <2> QED BY <2>1, <2>2, <2>3 DEF CallInv, Counted
  <1>7. CASE UNCHANGED encoderVars
    BY <1>7, CallStays DEF encoderVars, calls
  <1> QED BY <1>1, <1>2, <1>3, <1>4, <1>5, <1>6, <1>7, CallStep DEF NextEncoder

\* Whatever way Encode returns, it has put what it took of the frame's buffer, once
\* (HeldMppInputGuard, h264_encoder.cpp:369): over the guard that passes the reference on,
\* the copy after a refused frame and the recovery inside the call.
THEOREM EncodePutsItsInput == EncoderSpec => []InputReleased
PROOF
  <1>1. InitEncoder => CallInv
    BY CallInit
  <1>2. CallInv /\ [NextEncoder]_encoderVars => CallInv'
    BY CallNext
  <1>3. CallInv => InputReleased
    BY DEF CallInv, Call, Counted, IdleCall, InputReleased
  <1> QED BY <1>1, <1>2, <1>3, PTL DEF EncoderSpec

-----------------------------------------------------------------------------
(* The session of MPP *)

\* The session MPP has: is there one, for which size, does it split, has it encoded.
Devices == [up : BOOLEAN, size : Sizes \union {None}, split : BOOLEAN, started : BOOLEAN]

\* The types of what the application, the environment and SetRates determine.
SettingsTyped ==
  /\ env \in Environments
  /\ width_ \in Sizes \union {None} /\ cached_codec_inst_ \in Sizes \union {None}
  /\ callback_ \in BOOLEAN /\ native_zero_copy_enabled_ \in BOOLEAN
  /\ target_bps_ \in Rates \union {0} /\ outstanding \in 0..MaxOutstanding

\* The types of what belongs to a session, and of what is inside the device.
SessionTyped ==
  /\ initialized_ \in BOOLEAN /\ split_by_byte_enabled_ \in BOOLEAN
  /\ has_encoded_output_ \in BOOLEAN /\ applied_target_bps_ \in Rates \union {0}
  /\ dev \in Devices
  /\ input \in Seq([frame : 1..MaxEncodes, buf : {"dec", "frm"}])
  /\ output \in Seq(Packets) /\ assembly \subseteq Packets

\* The session is for the size of the frames, and a call has one.
Fitting ==
  /\ initialized_ => dev.up /\ dev.size = width_ /\ cached_codec_inst_ = width_
  /\ enc.at # "idle" => initialized_

\* What says that a frame was encoded is true of this session.
Started ==
  /\ has_encoded_output_ => dev.started
  /\ output # <<>> => dev.started
  /\ "configured before first" \notin flaws

\* What every step keeps of the session.
DeviceInv == SettingsTyped /\ SessionTyped /\ Fitting /\ Started

\* What InitMppHardwareLocked leaves, whether or not it succeeds.
LEMMA Renews ==
  ASSUME NEW ok \in BOOLEAN, NEW size \in Sizes \union {None}, NEW split \in BOOLEAN,
         NEW rate \in Rates \union {0}, InitMppHardwareLocked(ok, size, split, rate)
  PROVE  /\ SessionTyped'
         /\ ~has_encoded_output_' /\ output' = <<>>
         /\ initialized_' => dev'.up /\ dev'.size = size
PROOF
  <1>1. /\ has_encoded_output_' = FALSE /\ output' = <<>> /\ input' = <<>> /\ assembly' = {}
    BY DEF InitMppHardwareLocked, Initialized, DestroyMpp
  <1>2. /\ initialized_' \in BOOLEAN /\ split_by_byte_enabled_' \in BOOLEAN
        /\ applied_target_bps_' \in Rates \union {0}
    BY DEF InitMppHardwareLocked, Initialized, DestroyMpp
  <1>3. dev' \in Devices /\ (initialized_' => dev'.up /\ dev'.size = size)
    <2>1. CASE ok
      <3>1. PICK s \in {split, FALSE} :
              dev' = [up |-> TRUE, size |-> size, split |-> s, started |-> FALSE]
        BY <2>1 DEF InitMppHardwareLocked, Initialized
      <3>2. s \in BOOLEAN
        OBVIOUS
      <3>3. dev' \in Devices
        BY <3>1, <3>2 DEF Devices
      <3> QED BY <3>1, <3>3
    <2>2. CASE ~ok
      <3>1. dev' = NoDevice /\ initialized_' = FALSE
        BY <2>2 DEF InitMppHardwareLocked, DestroyMpp
      <3> QED BY <3>1 DEF Devices, NoDevice
    <2> QED BY <2>1, <2>2
  <1>4. /\ input' \in Seq([frame : 1..MaxEncodes, buf : {"dec", "frm"}])
        /\ output' \in Seq(Packets) /\ assembly' \subseteq Packets
        /\ has_encoded_output_' \in BOOLEAN
    <2>1. \A X : <<>> \in Seq(X)
      BY EmptySeq, Zenon
    <2>2. /\ input' \in Seq([frame : 1..MaxEncodes, buf : {"dec", "frm"}])
          /\ output' \in Seq(Packets)
      BY <1>1, <2>1, Zenon
    <2> QED BY <1>1, <2>2
  <1>5. SessionTyped'
    BY <1>2, <1>3, <1>4, Zenon DEF SessionTyped, Devices, Packets
  <1> QED BY <1>1, <1>3, <1>5

\* Packets thrown away leave packets.
LEMMA Drains ==
  ASSUME output \in Seq(Packets), NEW kept \in DrainPendingEncoderOutput
  PROVE  kept \in Seq(Packets) /\ (kept # <<>> => output # <<>>)
PROOF
  <1>1. DrainMax \in Nat
    BY EncoderAssumption, SMT
  <1>2. Len(output) \in Nat
    BY LenProperties
  <1>3. PICK k \in 0..DrainMax : kept = SubSeq(output, k + 1, Len(output))
    BY Zenon DEF DrainPendingEncoderOutput
  <1>4. k + 1 \in Nat /\ k + 1 >= 1
    BY <1>1, <1>3
  <1>5. PICK m \in Nat, n \in Nat : m = k + 1 /\ n = Len(output) /\ m >= 1
    BY <1>2, <1>4, Zenon
  <1>6. \A i \in m..n : output[i] \in Packets
    BY <1>5
  <1>7. SubSeq(output, m, n) \in Seq(Packets)
    BY <1>6, SubSeqProperties
  <1>8. output = <<>> => n < m
    BY <1>5
  <1>9. output = <<>> => SubSeq(output, m, n) = <<>>
    BY <1>8, SubSeqEmpty
  <1>10. kept = SubSeq(output, m, n)
    BY <1>5, <1>3
  <1> QED BY <1>7, <1>9, <1>10, Zenon

\* ApplyRcToCfg where a frame was encoded.
LEMMA Configures ==
  ASSUME SessionTyped, NEW target \in Rates \union {0}, NEW earlier, dev.started,
         "configured before first" \notin earlier, ApplyRcToCfg(target, earlier)
  PROVE  "configured before first" \notin flaws' /\ applied_target_bps_' \in Rates \union {0}
PROOF
  BY DEF ApplyRcToCfg, Doing, SessionTyped

\* Before InitEncode there is no session.
LEMMA DeviceInit ==
  ASSUME InitEncoder
  PROVE  DeviceInv
PROOF
  <1>1. /\ env \in Environments /\ flaws = {}
        /\ callback_ = FALSE /\ cached_codec_inst_ = None /\ width_ = None
        /\ initialized_ = FALSE /\ split_by_byte_enabled_ = FALSE /\ has_encoded_output_ = FALSE
        /\ target_bps_ = 0 /\ applied_target_bps_ = 0 /\ native_zero_copy_enabled_ = TRUE
        /\ enc = IdleCall /\ assembly = {} /\ dev = NoDevice /\ input = <<>> /\ output = <<>>
        /\ outstanding = 0
    BY DEF InitEncoder
  <1>2. MaxOutstanding \in Nat /\ 0 \in 0..MaxOutstanding
    BY EncoderAssumption
  <1>3. SettingsTyped
    BY <1>1, <1>2 DEF SettingsTyped
  <1>4. \A X : <<>> \in Seq(X)
    BY EmptySeq, Zenon
  <1>5. /\ input \in Seq([frame : 1..MaxEncodes, buf : {"dec", "frm"}]) /\ output \in Seq(Packets)
    BY <1>1, <1>4, Zenon
  <1>6. dev \in Devices /\ assembly \subseteq Packets
    BY <1>1 DEF Devices, NoDevice
  <1>7. SessionTyped
    BY <1>1, <1>5, <1>6, Zenon DEF SessionTyped
  <1>8. Fitting /\ Started
    BY <1>1 DEF Fitting, Started, IdleCall
  <1> QED BY <1>3, <1>7, <1>8 DEF DeviceInv

\* A step that leaves the session alone, and makes no call without one.
LEMMA DeviceStays ==
  ASSUME DeviceInv, UNCHANGED <<config, session, rc, native_zero_copy_enabled_, mpp, outstanding>>,
         assembly' \subseteq Packets,
         enc'.at # "idle" => initialized_, "configured before first" \notin flaws'
  PROVE  DeviceInv'
PROOF
  <1>1. UNCHANGED <<env, width_, cached_codec_inst_, callback_, native_zero_copy_enabled_,
        target_bps_,
                    outstanding, initialized_, split_by_byte_enabled_, has_encoded_output_,
                    applied_target_bps_, dev, input, output>>
    BY DEF config, session, rc, mpp
  <1>2. SettingsTyped'
    BY <1>1, Zenon DEF DeviceInv, SettingsTyped
  <1>3. SessionTyped'
    BY <1>1, Zenon DEF DeviceInv, SessionTyped, Devices, Packets
  <1>4. Fitting' /\ Started'
    BY <1>1, Zenon DEF DeviceInv, Fitting, Started
  <1> QED BY <1>2, <1>3, <1>4 DEF DeviceInv

\* A step that takes packets away, or none, with a session.
LEMMA DeviceTakes ==
  ASSUME DeviceInv, UNCHANGED <<config, session, rc, native_zero_copy_enabled_, dev, outstanding>>,
         initialized_, assembly' \subseteq Packets,
         input' \in Seq([frame : 1..MaxEncodes, buf : {"dec", "frm"}]),
         output' \in Seq(Packets), output' # <<>> => output # <<>>,
         "configured before first" \notin flaws'
  PROVE  DeviceInv'
PROOF
  <1>1. UNCHANGED <<env, width_, cached_codec_inst_, callback_, native_zero_copy_enabled_,
        target_bps_,
                    outstanding, initialized_, split_by_byte_enabled_, has_encoded_output_,
                    applied_target_bps_, dev>>
    BY DEF config, session, rc
  <1>2. SettingsTyped'
    BY <1>1, Zenon DEF DeviceInv, SettingsTyped
  <1>3. SessionTyped'
    BY <1>1, Zenon DEF DeviceInv, SessionTyped, Devices, Packets
  <1>4. Fitting' /\ Started'
    BY <1>1, Zenon DEF DeviceInv, Fitting, Started
  <1> QED BY <1>2, <1>3, <1>4 DEF DeviceInv

\* A step that makes the session anew, or is left without.
LEMMA DeviceRenewed ==
  ASSUME DeviceInv, NEW ok \in BOOLEAN, NEW size \in Sizes \union {None}, NEW split \in BOOLEAN,
         NEW rate \in Rates \union {0}, InitMppHardwareLocked(ok, size, split, rate),
         SettingsTyped', initialized_' => width_' = size /\ cached_codec_inst_' = size,
         enc'.at # "idle" => initialized_', "configured before first" \notin flaws'
  PROVE  DeviceInv'
PROOF
  <1>1. /\ SessionTyped' /\ ~has_encoded_output_' /\ output' = <<>>
        /\ initialized_' => dev'.up /\ dev'.size = size
    BY Renews
  <1>2. Fitting' /\ Started'
    BY <1>1 DEF Fitting, Started
  <1> QED BY <1>1, <1>2 DEF DeviceInv

\* recover_or_error, which ends the call.
LEMMA DeviceRecovers ==
  ASSUME DeviceInv, initialized_, NEW kept \in Seq(Packets), kept # <<>> => output # <<>>,
         RecoverOrError(kept), outstanding' \in 0..MaxOutstanding,
         "configured before first" \notin flaws'
  PROVE  DeviceInv'
PROOF
  <1>1. /\ UNCHANGED <<env, callback_, cached_codec_inst_, width_, target_bps_,
                       native_zero_copy_enabled_>>
        /\ enc' = IdleCall /\ enc'.at = "idle"
    BY DEF RecoverOrError, config, Returns, IdleCall
  <1>2. SettingsTyped'
    BY <1>1, Zenon DEF DeviceInv, SettingsTyped
  <1>3. cached_codec_inst_ = width_ /\ width_ \in Sizes \union {None}
    BY DEF DeviceInv, Fitting, SettingsTyped
  <1>4. split_by_byte_enabled_ \in BOOLEAN /\ target_bps_ \in Rates \union {0}
    BY DEF DeviceInv, SettingsTyped, SessionTyped
  <1>6. PICK split \in BOOLEAN :
          \/ Streaking(consecutive_output_failures_ + 1, split) /\ output' = kept
          \/ RecoverMppSessionLocked(split)
    <2>1. HandleOutputFailureAndMaybeRecover(kept)
      BY DEF RecoverOrError
    <2>2. (split_by_byte_enabled_ /\ consecutive_output_failures_ + 1 < SoftFails) \in BOOLEAN
      OBVIOUS
    <2> QED BY <2>1, <2>2, Zenon DEF HandleOutputFailureAndMaybeRecover
  <1>7. CASE Streaking(consecutive_output_failures_ + 1, split) /\ output' = kept
    <2>1. /\ UNCHANGED <<initialized_, has_encoded_output_, applied_target_bps_, dev, input>>
          /\ output' = kept /\ split_by_byte_enabled_' = split /\ assembly' = {}
      BY <1>7 DEF Streaking
    <2>2. /\ split_by_byte_enabled_' \in BOOLEAN /\ assembly' \subseteq Packets
          /\ output' \in Seq(Packets)
      BY <2>1
    <2>3. SessionTyped'
      BY <2>1, <2>2, Zenon DEF DeviceInv, SessionTyped, Devices, Packets
    <2>4. Fitting' /\ Started'
      BY <1>1, <2>1, Zenon DEF DeviceInv, Fitting, Started
    <2> QED BY <1>2, <2>3, <2>4 DEF DeviceInv
  <1>8. CASE RecoverMppSessionLocked(split)
    <2>1. PICK ok \in BOOLEAN : InitMppHardwareLocked(ok, cached_codec_inst_, split, target_bps_)
      BY <1>8 DEF RecoverMppSessionLocked
    <2>2. cached_codec_inst_' = cached_codec_inst_ /\ width_' = cached_codec_inst_
      BY <1>1, <1>3
    <2> QED BY <1>1, <1>2, <1>3, <1>4, <2>1, <2>2, DeviceRenewed
  <1> QED BY <1>6, <1>7, <1>8

\* EncodeInput: packets may be thrown away, and frm_buf_ written.
LEMMA DeviceInput ==
  ASSUME CallInv, DeviceInv, EncodeInput
  PROVE  DeviceInv'
PROOF
  <1>1. enc.at # "idle" /\ initialized_
    BY DEF EncodeInput, DeviceInv, Fitting
  <1>2. /\ UNCHANGED <<config, session, rc, native_zero_copy_enabled_, dev, outstanding, input,
           assembly>>
    BY DEF EncodeInput
  <1>3. output' \in {output} \union DrainPendingEncoderOutput
    <2>1. ASSUME NEW got, BindDecBufferForEncodeLocked(got)
          PROVE  output' \in {output} \union DrainPendingEncoderOutput
      <3>1. CASE BindExternal(got)
        <4>1. PICK probeOk \in BOOLEAN, first \in BOOLEAN, resetOk \in BOOLEAN :
                LET probed == IF imports.paused
                              THEN ResetGroup(probeOk, [imports EXCEPT !.probes = 0]) ELSE imports
                    tries == (imports.paused => probeOk) /\ probed.group
                    resets == tries /\ ~first /\ probed.failures + 1 >= ImportResetFails
                IN output' \in IF imports.paused \/ resets THEN DrainPendingEncoderOutput
                               ELSE {output}
          BY <3>1, SMTT(30) DEF BindExternal
        <4> QED BY <4>1, Zenon
      <3>2. CASE output' = output
        BY <3>2
      <3>3. BindDirect(got) \/ BindWaits \/ BindNull(got) => output' = output
        BY DEF BindDirect, BindWaits, BindNull
      <3> QED BY <2>1, <3>1, <3>2, <3>3, Zenon DEF BindDecBufferForEncodeLocked
    <2> QED BY <2>1 DEF EncodeInput
  <1>4. flaws' = flaws \/ WritesFrmBuf
    BY DEF EncodeInput, Bound, Copied
  <1>5. "configured before first" \notin flaws'
    <2> DEFINE torn == \E i \in DOMAIN input : input[i].buf = "frm"
    <2>2. flaws' = flaws \/ flaws' = IF torn THEN flaws \union {"frm_buf_ torn"} ELSE flaws
      BY <1>4, Zenon DEF WritesFrmBuf
    <2> HIDE DEF torn
    <2>1. flaws' \in {flaws, flaws \union {"frm_buf_ torn"}}
      BY <2>2
    <2>3. "configured before first" \notin flaws
      BY DEF DeviceInv, Started
    <2>4. "configured before first" # "frm_buf_ torn"
      OBVIOUS
    <2> QED BY <2>1, <2>3, <2>4, Zenon
  <1>6. /\ output \in Seq(Packets) /\ assembly \subseteq Packets
        /\ input \in Seq([frame : 1..MaxEncodes, buf : {"dec", "frm"}])
    BY DEF DeviceInv, SessionTyped
  <1>7. output' \in Seq(Packets) /\ (output' # <<>> => output # <<>>)
    <2>1. CASE output' = output
      BY <1>6, <2>1
    <2>2. CASE output' \in DrainPendingEncoderOutput
      <3>1. PICK kept \in DrainPendingEncoderOutput : output' = kept
        BY <2>2, Zenon
      <3> QED BY <1>6, <3>1, Drains, Zenon
    <2> QED BY <1>3, <2>1, <2>2
  <1> QED BY <1>1, <1>2, <1>5, <1>6, <1>7, DeviceTakes

\* The steps that hand the frame to MPP.
LEMMA DevicePut ==
  ASSUME CallInv, DeviceInv,
         HoldInput \/ PutFrame \/ PutZeroCopyFails \/ PutFails
  PROVE  DeviceInv'
PROOF
  <1>1. enc.at # "idle" /\ initialized_ /\ enc.frame \in 1..MaxEncodes
    BY DEF HoldInput, PutFrame, PutZeroCopyFails, PutFails, DeviceInv, Fitting, CallInv, Call
  <1>2. /\ output \in Seq(Packets) /\ assembly \subseteq Packets
        /\ input \in Seq([frame : 1..MaxEncodes, buf : {"dec", "frm"}])
        /\ "configured before first" \notin flaws
    BY DEF DeviceInv, SessionTyped, Started
  <1>3. CASE HoldInput
    <2>1. UNCHANGED <<config, session, rc, native_zero_copy_enabled_, mpp, outstanding, assembly,
          flaws>>
      BY <1>3 DEF HoldInput, zeroCopy
    <2> QED BY <1>1, <1>2, <2>1, DeviceStays
  <1>4. CASE PutFrame
    <2>1. /\ UNCHANGED <<config, session, rc, native_zero_copy_enabled_, dev, outstanding,
             output, flaws>>
          /\ assembly' = {}
          /\ input' = Append(input, [frame |-> enc.frame, buf |-> IF enc.zc THEN "dec" ELSE "frm"])
      BY <1>4 DEF PutFrame, Put
    <2>2. [frame |-> enc.frame, buf |-> IF enc.zc THEN "dec" ELSE "frm"]
             \in [frame : 1..MaxEncodes, buf : {"dec", "frm"}]
      BY <1>1
    <2>3. input' \in Seq([frame : 1..MaxEncodes, buf : {"dec", "frm"}])
      BY <1>2, <2>1, <2>2, AppendProperties, Zenon
    <2>4. assembly' \subseteq Packets
      BY <2>1
    <2> QED BY <1>1, <1>2, <2>1, <2>3, <2>4, DeviceTakes
  <1>5. CASE PutZeroCopyFails
    <2>1. /\ UNCHANGED <<config, session, rc, native_zero_copy_enabled_, dev, outstanding, input,
             assembly>>
          /\ output' \in DrainPendingEncoderOutput /\ (flaws' = flaws \/ WritesFrmBuf)
      BY <1>5 DEF PutZeroCopyFails, zeroCopy
    <2>2. "configured before first" \notin flaws'
      <3> DEFINE torn == \E i \in DOMAIN input : input[i].buf = "frm"
      <3>2. flaws' = flaws \/ flaws' = IF torn THEN flaws \union {"frm_buf_ torn"} ELSE flaws
        BY <2>1, Zenon DEF WritesFrmBuf
      <3> HIDE DEF torn
      <3>1. flaws' \in {flaws, flaws \union {"frm_buf_ torn"}}
        BY <3>2
      <3>3. "configured before first" # "frm_buf_ torn"
        OBVIOUS
      <3> QED BY <1>2, <3>1, <3>3, Zenon
    <2>3. output' \in Seq(Packets) /\ (output' # <<>> => output # <<>>)
      <3>1. PICK kept \in DrainPendingEncoderOutput : output' = kept
        BY <2>1, Zenon
      <3> QED BY <1>2, <3>1, Drains, Zenon
    <2> QED BY <1>1, <1>2, <2>1, <2>2, <2>3, DeviceTakes
  <1>6. CASE PutFails
    <2>1. /\ UNCHANGED <<config, session, rc, dev, outstanding, input, assembly, flaws>>
          /\ output' \in DrainPendingEncoderOutput
      BY <1>6 DEF PutFails
    <2>2. native_zero_copy_enabled_' \in BOOLEAN
      <3>1. native_zero_copy_enabled_ \in BOOLEAN
        BY DEF DeviceInv, SettingsTyped
      <3> QED BY <1>6, <3>1, Zenon DEF PutFails
    <2>3. output' \in Seq(Packets) /\ (output' # <<>> => output # <<>>)
      <3>1. PICK kept \in DrainPendingEncoderOutput : output' = kept
        BY <2>1, Zenon
      <3> QED BY <1>2, <3>1, Drains, Zenon
    <2>4. UNCHANGED <<env, width_, cached_codec_inst_, callback_, target_bps_, outstanding,
                      initialized_, split_by_byte_enabled_, has_encoded_output_,
                      applied_target_bps_, dev, input, assembly, flaws>>
      BY <2>1 DEF config, session, rc
    <2>5. SettingsTyped'
      BY <2>2, <2>4, Zenon DEF DeviceInv, SettingsTyped
    <2>6. SessionTyped'
      BY <2>3, <2>4, Zenon DEF DeviceInv, SessionTyped, Devices, Packets
    <2>7. Fitting' /\ Started'
      BY <1>1, <2>3, <2>4, Zenon DEF DeviceInv, Fitting, Started
    <2> QED BY <2>5, <2>6, <2>7 DEF DeviceInv
  <1> QED BY <1>3, <1>4, <1>5, <1>6

\* An image passed on is counted while its buffer is outstanding.
LEMMA Emits ==
  ASSUME DeviceInv, EmitAssembledFrame
  PROVE  outstanding' \in 0..MaxOutstanding
PROOF
  <1>1. outstanding \in 0..MaxOutstanding /\ MaxOutstanding \in Nat
    BY EncoderAssumption DEF DeviceInv, SettingsTyped
  <1>2. \/ outstanding' = outstanding
        \/ outstanding < MaxOutstanding /\ outstanding' = outstanding + 1
    BY DEF EmitAssembledFrame
  <1> QED BY <1>1, <1>2

\* What is wrong with an image is not when MPP was configured.
LEMMA ImageIsNoConfig ==
  ASSUME NEW parts
  PROVE  "configured before first" \notin ImageFlaws(parts)
PROOF
  BY DEF ImageFlaws

\* The steps that end a call by recover_or_error.
LEMMA DeviceFails ==
  ASSUME DeviceInv, PutFailsAgain \/ GetFails \/ PartExceeds \/ EndExceeds
  PROVE  DeviceInv'
PROOF
  <1>1. enc.at # "idle" /\ initialized_
    BY DEF PutFailsAgain, GetFails, PartExceeds, EndExceeds, DeviceInv, Fitting
  <1>2. /\ output \in Seq(Packets) /\ "configured before first" \notin flaws
        /\ outstanding \in 0..MaxOutstanding
    BY DEF DeviceInv, SettingsTyped, SessionTyped, Started
  <1>3. output # <<>> => Tail(output) \in Seq(Packets)
    BY <1>2, HeadTailProperties
  <1>4. CASE PutFailsAgain \/ GetFails
    <2>1. RecoverOrError(output) /\ outstanding' = outstanding /\ flaws' = flaws
      BY <1>4 DEF PutFailsAgain, GetFails
    <2> QED BY <1>1, <1>2, <2>1, DeviceRecovers
  <1>5. CASE PartExceeds \/ EndExceeds
    <2>1. PICK kept \in Seq(Packets) : kept = Tail(output) /\ output # <<>>
      BY <1>3, <1>5 DEF PartExceeds, EndExceeds
    <2>2. RecoverOrError(kept)
      BY <1>5, <2>1 DEF PartExceeds, EndExceeds
    <2>3. outstanding' \in 0..MaxOutstanding
      BY <1>2, <1>5, Emits DEF PartExceeds, EndExceeds
    <2>4. "configured before first" \notin flaws'
      BY <1>2, <1>5, ImageIsNoConfig DEF PartExceeds, EndExceeds
    <2> QED BY <1>1, <2>1, <2>2, <2>3, <2>4, DeviceRecovers
  <1> QED BY <1>4, <1>5

\* The steps that take packets from MPP.
LEMMA DeviceGet ==
  ASSUME CallInv, DeviceInv,
         GetEmptyPacket \/ GetPart \/ EncodeEnds \/ EmitFails \/ GetNothing
  PROVE  DeviceInv'
PROOF
  <1>1. enc.at # "idle" /\ initialized_
    BY DEF GetEmptyPacket, GetPart, EncodeEnds, EmitFails, GetNothing, DeviceInv, Fitting
  <1>2. /\ output \in Seq(Packets) /\ assembly \subseteq Packets
        /\ input \in Seq([frame : 1..MaxEncodes, buf : {"dec", "frm"}])
        /\ "configured before first" \notin flaws
    BY DEF DeviceInv, SessionTyped, Started
  <1>3. output # <<>> => Head(output) \in Packets /\ Tail(output) \in Seq(Packets)
    BY <1>2, HeadTailProperties
  <1>4. CASE GetPart \/ EmitFails
    <2>1. /\ UNCHANGED <<config, session, rc, native_zero_copy_enabled_, dev, outstanding, input,
             flaws>>
          /\ output # <<>> /\ output' = Tail(output)
          /\ assembly' \in {assembly, {}, assembly \union {Head(output)}}
      BY <1>4 DEF GetPart, EmitFails, zeroCopy
    <2>2. assembly' \subseteq Packets
      BY <1>2, <1>3, <2>1
    <2> QED BY <1>1, <1>2, <1>3, <2>1, <2>2, DeviceTakes
  <1>5. CASE GetEmptyPacket \/ GetNothing
    <2>1. UNCHANGED <<config, session, rc, native_zero_copy_enabled_, mpp, outstanding, assembly,
          flaws>>
      BY <1>5 DEF GetEmptyPacket, GetNothing, zeroCopy
    <2> QED BY <1>1, <1>2, <2>1, DeviceStays
  <1>6. CASE EncodeEnds
    <2>1. /\ UNCHANGED <<env, width_, cached_codec_inst_, callback_, native_zero_copy_enabled_,
                         target_bps_, initialized_, split_by_byte_enabled_, dev, input>>
          /\ output # <<>> /\ output' = Tail(output) /\ assembly' = {}
               /\ has_encoded_output_' = TRUE
          /\ enc' = IdleCall
      BY <1>6 DEF EncodeEnds, config, zeroCopy, Returns
    <2>2. dev.started
      BY <2>1 DEF DeviceInv, Started
    <2>3. target_bps_ \in Rates \union {0} /\ SessionTyped
      BY DEF DeviceInv, SettingsTyped
    <2>4. PICK earlier : "configured before first" \notin earlier
            /\ ApplyRcToCfg(target_bps_, earlier)
      <3>1. "configured before first" \notin ImageFlaws(assembly \union {Head(output)})
        BY ImageIsNoConfig
      <3>2. "configured before first" \notin flaws \union ImageFlaws(assembly \union {Head(output)})
        BY <1>2, <3>1
      <3> QED BY <1>6, <3>2, Zenon DEF EncodeEnds
    <2>5. "configured before first" \notin flaws' /\ applied_target_bps_' \in Rates \union {0}
      BY <2>2, <2>3, <2>4, Configures
    <2>6. outstanding' \in 0..MaxOutstanding
      BY <1>6, Emits DEF EncodeEnds
    <2>7. SettingsTyped'
      BY <2>1, <2>6, Zenon DEF DeviceInv, SettingsTyped
    <2>8. has_encoded_output_' \in BOOLEAN /\ assembly' \subseteq Packets
            /\ output' \in Seq(Packets)
      BY <1>3, <2>1
    <2>9. SessionTyped'
      BY <2>1, <2>5, <2>8, Zenon DEF DeviceInv, SessionTyped, Devices, Packets
    <2>10. Fitting' /\ Started'
      BY <1>1, <2>1, <2>2, <2>5 DEF DeviceInv, Fitting, Started, IdleCall
    <2> QED BY <2>7, <2>9, <2>10 DEF DeviceInv
  <1> QED BY <1>4, <1>5, <1>6

\* The packets of a frame are of the frame.
LEMMA DeviceEncodes ==
  ASSUME DeviceInv, MppEncodes
  PROVE  DeviceInv'
PROOF
  <1>1. /\ output \in Seq(Packets) /\ dev \in Devices
        /\ input \in Seq([frame : 1..MaxEncodes, buf : {"dec", "frm"}]) /\ input # <<>>
    BY DEF DeviceInv, SessionTyped, MppEncodes
  <1>2. /\ Head(input) \in [frame : 1..MaxEncodes, buf : {"dec", "frm"}]
        /\ Tail(input) \in Seq([frame : 1..MaxEncodes, buf : {"dec", "frm"}])
    BY <1>1, HeadTailProperties
  <1>3. Head(input).frame \in 1..MaxEncodes
    BY <1>2
  <1>4. /\ input' = Tail(input) /\ dev' = [dev EXCEPT !.started = TRUE]
        /\ UNCHANGED <<env, width_, cached_codec_inst_, callback_, native_zero_copy_enabled_,
                       target_bps_, outstanding, initialized_, split_by_byte_enabled_,
                       has_encoded_output_, applied_target_bps_, assembly, enc, flaws>>
    BY DEF MppEncodes, config, session, rc, zeroCopy
  <1>6. output' \in Seq(Packets)
    <2>1. CASE UNCHANGED output
      BY <1>1, <2>1
    <2>2. ASSUME NEW n \in (IF dev.split THEN PartCounts ELSE {}) \union {1},
                 output' = output \o
                   [k \in 1..n |-> [of |-> Head(input).frame, part |-> k, last |-> k = n]]
          PROVE  output' \in Seq(Packets)
      <3>1. n \in Nat
        BY EncoderAssumption, SMT
      <3>2. PICK f \in 1..MaxEncodes : f = Head(input).frame
        BY <1>3
      <3>3. \A k \in 1..n : [of |-> f, part |-> k, last |-> k = n] \in Packets
        BY <3>1 DEF Packets
      <3>4. PICK s : s = [k \in 1..n |-> [of |-> f, part |-> k, last |-> k = n]]
        OBVIOUS
      <3>5. s \in [1..n -> Packets]
        BY <3>3, <3>4, Zenon
      <3>6. s \in Seq(Packets)
        BY <3>1, <3>5, SeqDef, Zenon
      <3>7. output' = output \o s
        BY <2>2, <3>2, <3>4
      <3> QED BY <1>1, <3>6, <3>7, ConcatProperties, Zenon
    <2> QED BY <2>1, <2>2 DEF MppEncodes
  <1>7. dev' \in Devices /\ dev'.started /\ dev'.up = dev.up /\ dev'.size = dev.size
    BY <1>1, <1>4 DEF Devices
  <1>8. SettingsTyped'
    BY <1>4, Zenon DEF DeviceInv, SettingsTyped
  <1>9. SessionTyped'
    <2>1. input' \in Seq([frame : 1..MaxEncodes, buf : {"dec", "frm"}])
      BY <1>2, <1>4
    <2> QED BY <1>4, <1>6, <1>7, <2>1, Zenon DEF DeviceInv, SessionTyped
  <1>10. Fitting' /\ Started'
    BY <1>4, <1>7, Zenon DEF DeviceInv, Fitting, Started
  <1> QED BY <1>8, <1>9, <1>10 DEF DeviceInv

\* Every step keeps the session and what is said of it.
LEMMA DeviceNext ==
  ASSUME CallInv, DeviceInv, [NextEncoder]_encoderVars
  PROVE  DeviceInv'
PROOF
  <1>1. /\ assembly \subseteq Packets /\ "configured before first" \notin flaws
        /\ enc.at # "idle" => initialized_
    BY DEF DeviceInv, SessionTyped, Started, Fitting
  <1>2. ASSUME NEW size \in Sizes, NEW rate \in Rates, InitEncode(size, rate)
        PROVE  DeviceInv'
    <2>1. /\ UNCHANGED <<env, callback_, enc, outstanding>> /\ width_' = size
          /\ cached_codec_inst_' = size /\ target_bps_' = rate /\ native_zero_copy_enabled_' = TRUE
          /\ flaws' = {} /\ enc.at = "idle"
      BY <1>2 DEF InitEncode
    <2>2. PICK ok \in BOOLEAN : InitMppHardwareLocked(ok, size, env.split, rate)
      BY <1>2 DEF InitEncode
    <2>3. env.split \in BOOLEAN
      BY EncoderAssumption DEF DeviceInv, SettingsTyped, EnvValues
    <2>4. SettingsTyped'
      BY <2>1 DEF DeviceInv, SettingsTyped
    <2> QED BY <2>1, <2>2, <2>3, <2>4, DeviceRenewed
  <1>3. CASE Release
    <2>1. /\ UNCHANGED <<env, callback_, width_, split_by_byte_enabled_, target_bps_,
                         native_zero_copy_enabled_, enc, outstanding, flaws>>
          /\ cached_codec_inst_' = None /\ enc.at = "idle"
          /\ initialized_' = FALSE /\ has_encoded_output_' = FALSE /\ applied_target_bps_' = 0
          /\ dev' = NoDevice /\ input' = <<>> /\ output' = <<>> /\ assembly' = {}
      BY <1>3 DEF Release, DestroyMpp
    <2>2. SettingsTyped'
      BY <2>1 DEF DeviceInv, SettingsTyped
    <2>3. \A X : <<>> \in Seq(X)
      BY EmptySeq, Zenon
    <2>4. /\ input' \in Seq([frame : 1..MaxEncodes, buf : {"dec", "frm"}])
               /\ output' \in Seq(Packets)
      BY <2>1, <2>3, Zenon
    <2>5. dev' \in Devices /\ assembly' \subseteq Packets
      BY <2>1 DEF Devices, NoDevice
    <2>6. split_by_byte_enabled_' \in BOOLEAN
      BY <2>1 DEF DeviceInv, SessionTyped
    <2>7. SessionTyped'
      BY <2>1, <2>4, <2>5, <2>6, Zenon DEF SessionTyped
    <2>8. Fitting' /\ Started'
      BY <1>1, <2>1 DEF Fitting, Started
    <2> QED BY <2>2, <2>7, <2>8 DEF DeviceInv
  <1>4. CASE RegisterEncodeCompleteCallback
    <2>1. /\ UNCHANGED <<env, width_, cached_codec_inst_, native_zero_copy_enabled_,
                         target_bps_, outstanding, initialized_, split_by_byte_enabled_,
                         has_encoded_output_, applied_target_bps_, assembly, enc, flaws,
                         dev, input, output>>
          /\ callback_' = TRUE
      BY <1>4 DEF RegisterEncodeCompleteCallback, session, rc, zeroCopy, mpp
    <2>2. SettingsTyped'
      BY <2>1 DEF DeviceInv, SettingsTyped
    <2>3. SessionTyped'
      BY <2>1, Zenon DEF DeviceInv, SessionTyped, Devices, Packets
    <2>4. Fitting' /\ Started'
      BY <2>1, Zenon DEF DeviceInv, Fitting, Started
    <2> QED BY <2>2, <2>3, <2>4 DEF DeviceInv
  <1>5. ASSUME NEW rate \in Rates, SetRates(rate)
        PROVE  DeviceInv'
    <2>1. /\ UNCHANGED <<env, width_, cached_codec_inst_, callback_, native_zero_copy_enabled_,
                         outstanding, initialized_, split_by_byte_enabled_,
                         has_encoded_output_, assembly, enc, dev, input, output>>
          /\ target_bps_' = rate
      BY <1>5 DEF SetRates, config, session, zeroCopy, mpp
    <2>2. "configured before first" \notin flaws' /\ applied_target_bps_' \in Rates \union {0}
      <3>1. SessionTyped /\ (has_encoded_output_ => dev.started)
        BY DEF DeviceInv, Started
      <3>2. CASE has_encoded_output_
        <4>1. ApplyRcToCfg(rate, {})
          BY <1>5, <3>2 DEF SetRates
        <4> QED BY <3>1, <3>2, <4>1, Configures
      <3>3. CASE ~has_encoded_output_
        BY <1>5, <3>1, <3>3 DEF SetRates, SessionTyped
      <3> QED BY <3>2, <3>3
    <2>3. SettingsTyped'
      BY <2>1 DEF DeviceInv, SettingsTyped
    <2>4. SessionTyped'
      BY <2>1, <2>2, Zenon DEF DeviceInv, SessionTyped, Devices, Packets
    <2>5. Fitting' /\ Started'
      BY <2>1, <2>2, Zenon DEF DeviceInv, Fitting, Started
    <2> QED BY <2>3, <2>4, <2>5 DEF DeviceInv
  <1>6. CASE EncodeRefused
    <2>1. UNCHANGED <<config, session, rc, native_zero_copy_enabled_, mpp, outstanding, assembly,
          flaws, enc>>
      BY <1>6 DEF EncodeRefused, zeroCopy
    <2> QED BY <1>1, <2>1, DeviceStays
  <1>7. ASSUME NEW kind \in Kinds, EncodeBegins(kind)
        PROVE  DeviceInv'
    <2>1. /\ UNCHANGED <<config, session, rc, native_zero_copy_enabled_, mpp, outstanding,
             assembly>>
          /\ flaws' = {} /\ initialized_
      BY <1>7 DEF EncodeBegins, zeroCopy
    <2> QED BY <1>1, <2>1, DeviceStays
  <1>8. ASSUME NEW size \in Sizes, ReconfigureForFrameSizeLocked(size)
        PROVE  DeviceInv'
    <2>1. /\ UNCHANGED <<env, callback_, target_bps_, native_zero_copy_enabled_, outstanding,
             flaws>>
          /\ width_' = size /\ cached_codec_inst_' = size
      BY <1>8 DEF ReconfigureForFrameSizeLocked
    <2>2. PICK ok \in BOOLEAN :
            /\ InitMppHardwareLocked(ok, size, split_by_byte_enabled_, target_bps_)
            /\ enc' = IF ok THEN [enc EXCEPT !.at = "adapted"] ELSE IdleCall
      BY <1>8 DEF ReconfigureForFrameSizeLocked
    <2>3. enc'.at # "idle" => initialized_'
      BY <2>2 DEF InitMppHardwareLocked, Initialized, IdleCall
    <2>4. split_by_byte_enabled_ \in BOOLEAN /\ target_bps_ \in Rates \union {0}
      BY DEF DeviceInv, SettingsTyped, SessionTyped
    <2>5. SettingsTyped'
      BY <2>1 DEF DeviceInv, SettingsTyped
    <2> QED BY <1>1, <2>1, <2>2, <2>3, <2>4, <2>5, DeviceRenewed
  <1>9. CASE EncodeStep
    BY <1>9, DeviceInput, DevicePut, DeviceFails, DeviceGet DEF EncodeStep
  <1>10. CASE OutputReleased
    <2>1. /\ UNCHANGED <<env, width_, cached_codec_inst_, callback_, native_zero_copy_enabled_,
                         target_bps_, initialized_, split_by_byte_enabled_,
                         has_encoded_output_, applied_target_bps_, assembly, enc, flaws,
                         dev, input, output>>
          /\ outstanding > 0 /\ outstanding' = outstanding - 1
      BY <1>10 DEF OutputReleased, config, session, rc, zeroCopy, mpp
    <2>2. outstanding' \in 0..MaxOutstanding
      <3>1. outstanding \in 0..MaxOutstanding /\ MaxOutstanding \in Nat
        BY EncoderAssumption DEF DeviceInv, SettingsTyped
      <3> QED BY <2>1, <3>1
    <2>3. SettingsTyped'
      BY <2>1, <2>2, Zenon DEF DeviceInv, SettingsTyped
    <2>4. SessionTyped'
      BY <2>1, Zenon DEF DeviceInv, SessionTyped, Devices, Packets
    <2>5. Fitting' /\ Started'
      BY <2>1, Zenon DEF DeviceInv, Fitting, Started
    <2> QED BY <2>3, <2>4, <2>5 DEF DeviceInv
  <1>11. CASE UNCHANGED encoderVars
    <2>1. UNCHANGED <<config, session, rc, native_zero_copy_enabled_, mpp, outstanding, assembly,
          flaws, enc>>
      BY <1>11 DEF encoderVars, zeroCopy
    <2> QED BY <1>1, <2>1, DeviceStays
  <1> QED BY <1>2, <1>3, <1>4, <1>5, <1>6, <1>7, <1>8, <1>9, <1>10, <1>11,
             DeviceEncodes DEF NextEncoder

\* The invariant of the encoder: the call (CallInv) and the session (DeviceInv), through
\* changes of size, recoveries and whatever MPP answers.
THEOREM EncoderInvariant == EncoderSpec => [](CallInv /\ DeviceInv)
PROOF
  <1>1. InitEncoder => CallInv /\ DeviceInv
    BY CallInit, DeviceInit
  <1>2. (CallInv /\ DeviceInv) /\ [NextEncoder]_encoderVars => (CallInv /\ DeviceInv)'
    BY CallNext, DeviceNext
  <1> QED BY <1>1, <1>2, PTL DEF EncoderSpec

\* Every variable of the encoder has its type: in particular a buffer has at most one
\* reference and every packet is a part of a frame that was encoded.
THEOREM EncoderTypes == EncoderSpec => []EncoderTypeOK
PROOF
  <1>1. CallInv /\ DeviceInv => EncoderTypeOK
    <2> SUFFICES ASSUME CallInv, DeviceInv PROVE EncoderTypeOK
      OBVIOUS
    <2>1. \A i \in DOMAIN output : output[i] \in Packets
      <3>1. output \in Seq(Packets)
        BY DEF DeviceInv, SessionTyped
      <3> HIDE DEF Packets
      <3> QED BY <3>1
    <2>2. enc.at \in {"idle", "input", "adapted", "frame", "put", "copied", "again", "get"}
      BY DEF CallInv, Call
    <2>3. refs \in [1..MaxEncodes -> 0..1]
      BY DEF CallInv, Counted
    <2> QED BY <2>1, <2>2, <2>3 DEF DeviceInv, SettingsTyped, SessionTyped, EncoderTypeOK
  <1> QED BY <1>1, EncoderInvariant, PTL

\* MPP's configuration is changed only in a session that has encoded a frame
\* (h264_encoder.cpp:1470), whichever of InitEncode, a change of size and a recovery
\* inside Encode made the session.
THEOREM ConfiguredAfterFirst == EncoderSpec => []CfgAfterFirst
PROOF
  <1>1. CallInv /\ DeviceInv => CfgAfterFirst
    BY DEF DeviceInv, Started, CfgAfterFirst
  <1> QED BY <1>1, EncoderInvariant, PTL

\* A session is for the size the next frame is compared with and for the codec a recovery
\* would use, after failed changes of size and failed recoveries too.
THEOREM SessionFitsFrames == EncoderSpec => []SessionFits
PROOF
  <1>1. CallInv /\ DeviceInv => SessionFits
    BY DEF DeviceInv, Fitting, SessionFits
  <1> QED BY <1>1, EncoderInvariant, PTL

=============================================================================
