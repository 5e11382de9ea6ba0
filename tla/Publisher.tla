------------------------------ MODULE Publisher ------------------------------
(***************************************************************************)
(* A published stream: Publisher (service/impl/publisher.cpp) with the     *)
(* PushStreamer it owns (service/impl/media/push_streamer.cpp) and the     *)
(* SubscriberOfferPump between them.  The pump appears as the              *)
(* specification it was shown to implement, SerialDispatch.                *)
(*                                                                         *)
(* Five kinds of threads take steps: the application in Start and Stop;    *)
(* the signaling IO thread with one message of the server at a time; the   *)
(* pool worker in CreateOfferForPeer; libwebrtc's signaling thread, which  *)
(* completes offers and closes PeerConnections; the pool with the          *)
(* periodic tasks; and a thread of the application that pushes frames.     *)
(* A block under mutex_ is one step.  publisher.cpp has no lock.           *)
(*                                                                         *)
(* The server is seen as SignalingServer shows it: it tells a publisher    *)
(* that registers who is subscribed, and afterwards who comes and goes,    *)
(* everybody under an id that is used once.                                *)
(***************************************************************************)
EXTENDS Naturals, Sequences, FiniteSets

CONSTANTS
  Peers,        \* ids the server gives to subscribers
  MaxStarts,    \* bound on the Start calls that take effect
  Camera,       \* does the SDK capture?  FALSE: the application pushes frames
  MayFail       \* may operations of the network, the camera and libwebrtc fail?

Default == "default"   \* the PeerConnection of nobody: the code's empty peer id

ASSUME PublisherAssumption ==
  /\ Default \notin Peers
  /\ MaxStarts \in Nat
  /\ Camera \in BOOLEAN
  /\ MayFail \in BOOLEAN

VARIABLES
  app,               \* where the application's thread is in Start or Stop
  streamer_,         \* "none", "made", "on" (is_streaming_) or "shut" (in Shutdown)
  starts,            \* the number of the streamer_: PushStreamers made so far
  signaling_,        \* is the signaling session attached?
  connected,         \* is its connection up?
  phase, pending, current,   \* offer_pump_
  present, gone,     \* subscribers the server has, and had
  inbox,             \* lines from the server that the IO thread has not read
  io,                \* what the IO thread does: [at, peer, of]
  worker,            \* where the pool worker is in CreateOfferForPeer
  peer_connections_, \* the subscribers that have an entry
  open,              \* PeerConnections made and not closed: <<starts, peer>>
  closing,           \* those handed to a thread that calls Close
  late,              \* those whose Close exceeded its deadline, so that nobody waits for it
  observers,         \* PeerConnections whose observer object exists
  offers,            \* offers in the making: [pc, at]
  offered, answered, \* subscribers that were sent an offer, and sent an answer
  loops,             \* outbound_stats_started_, push_health_started_
  stop_,             \* outbound_stats_stop_, push_health_stop_
  ticks,             \* periodic tasks: [loop, of, at]
  pusher,            \* the streamer a frame is being pushed into, or 0
  left,              \* history: subscribers whose leave was handled since Start
  pulls              \* history: on_pull_request minus on_pull_release calls

pump == <<phase, pending, current>>
server == <<present, gone, answered>>
pcs == <<open, closing, late, observers>>
tickVars == <<loops, stop_, ticks>>
vars == <<app, streamer_, starts, signaling_, connected, pump, server, inbox, io,
          worker, peer_connections_, pcs, offers, offered, tickVars, pusher, left, pulls>>

OfferPump == INSTANCE SerialDispatch

Pc(p) == <<starts, p>>
Pcs == (1..MaxStarts) \X (Peers \union {Default})
Loops == {"outbound", "health"}
Idle == [at |-> "idle", peer |-> Default, of |-> 0]
Msg(kind, p) == [kind |-> kind, peer |-> p]

Init ==
  /\ app = "idle" /\ streamer_ = "none" /\ starts = 0
  /\ signaling_ = FALSE /\ connected = FALSE
  /\ OfferPump!Init
  /\ present = {} /\ gone = {} /\ answered = {}
  /\ inbox = <<>> /\ io = Idle /\ worker = "none"
  /\ peer_connections_ = {}
  /\ open = {} /\ closing = {} /\ late = {} /\ observers = {}
  /\ offers = {} /\ offered = {}
  /\ loops = {} /\ stop_ = FALSE /\ ticks = {}
  /\ pusher = 0 /\ left = {} /\ pulls = 0

-----------------------------------------------------------------------------
(* The periodic tasks                                                      *)

\* MaybeStartOutboundStatsLoop, MaybeStartPushHealthLoop.
MaybeStartLoop(l) ==
  /\ loops' = loops \union {l}
  /\ ticks' = IF l \in loops THEN ticks
              ELSE ticks \union {[loop |-> l, of |-> starts, at |-> "queued"]}

\* The Impl a task holds a pointer to.
Alive(of) == streamer_ # "none" /\ of = starts

\* A task reads the stop flag: it goes on, or it is over.  Where the Impl is
\* gone the read is undefined; the task is taken to end.
TickMoves(t, to) ==
  ticks' = (ticks \ {t}) \union
             IF Alive(t.of) /\ ~stop_ THEN {[t EXCEPT !.at = to]} ELSE {}

\* The pool executes the task (GetStats), then posts the delayed one, which
\* posts the task again when it is due.
TickStep ==
  /\ \E t \in ticks :
       \/ t.at = "queued" /\ TickMoves(t, "ran")
       \/ t.at = "ran" /\ TickMoves(t, "delayed")
       \/ t.at = "delayed" /\ TickMoves(t, "queued")
  /\ UNCHANGED <<app, streamer_, starts, signaling_, connected, pump, server, inbox, io,
                 worker, peer_connections_, pcs, offers, offered, loops, stop_, pusher,
                 left, pulls>>

-----------------------------------------------------------------------------
(* Publisher::Start                                                        *)

StartBegins ==
  /\ app = "idle"
  /\ streamer_ = "none"
  /\ starts < MaxStarts
  /\ streamer_' = "made"
  /\ starts' = starts + 1
  /\ app' = "signaling"
  /\ loops' = {} /\ stop_' = FALSE      \* of the new Impl
  /\ offered' = {} /\ left' = {} /\ pulls' = 0
  /\ UNCHANGED <<signaling_, connected, pump, server, inbox, io, worker,
                 peer_connections_, pcs, offers, ticks, pusher>>

\* The server goes through an unordered map.
Announcements ==
  LET n == Cardinality(present)
  IN {q \in [1..n -> {Msg("join", p) : p \in present}] : Cardinality({q[i] : i \in 1..n}) = n}

\* signaling_->Start: registered, and the IO thread reads from now on.
SignalingStarts ==
  /\ app = "signaling"
  /\ signaling_' = TRUE
  /\ connected' = TRUE
  /\ inbox' \in Announcements
  /\ app' = "streamer"
  /\ UNCHANGED <<streamer_, starts, pump, server, io, worker, peer_connections_, pcs,
                 offers, offered, tickVars, pusher, left, pulls>>

SignalingFails ==
  /\ app = "signaling"
  /\ MayFail
  /\ streamer_' = "none"
  /\ app' = "idle"
  /\ UNCHANGED <<starts, signaling_, connected, pump, server, inbox, io, worker,
                 peer_connections_, pcs, offers, offered, tickVars, pusher, left, pulls>>

\* streamer_->Start: the default PeerConnection, the tracks, with a camera the health loop.
StreamerStarts ==
  /\ app = "streamer"
  /\ streamer_' = "on"
  /\ open' = open \union {Pc(Default)}
  /\ observers' = observers \union {Pc(Default)}
  /\ IF Camera THEN MaybeStartLoop("health") ELSE UNCHANGED <<loops, ticks>>
  /\ app' = "pump"
  /\ UNCHANGED <<starts, signaling_, connected, pump, server, inbox, io, worker,
                 peer_connections_, closing, late, offers, offered, stop_, pusher, left, pulls>>

StreamerFails ==
  /\ app = "streamer"
  /\ MayFail
  /\ signaling_' = FALSE /\ connected' = FALSE /\ inbox' = <<>>
  /\ streamer_' = "none"
  /\ app' = "idle"
  /\ UNCHANGED <<starts, pump, server, io, worker, peer_connections_, pcs, offers,
                 offered, tickVars, pusher, left, pulls>>

PumpStarts ==
  /\ app = "pump"
  /\ OfferPump!Open
  /\ app' = "idle"
  /\ UNCHANGED <<streamer_, starts, signaling_, connected, server, inbox, io, worker,
                 peer_connections_, pcs, offers, offered, tickVars, pusher, left, pulls>>

-----------------------------------------------------------------------------
(* Publisher::Stop                                                         *)

\* Mutant of StopBegins: the streamer is stopped before the pump.
StopStreamerFirst ==
  /\ app = "idle"
  /\ streamer_ # "none"
  /\ app' = "shutdown"
  /\ UNCHANGED <<streamer_, starts, signaling_, connected, pump, server, inbox, io, worker,
                 peer_connections_, pcs, offers, offered, tickVars, pusher, left, pulls>>

StopBegins ==
  /\ app = "idle"
  /\ streamer_ # "none"
  /\ OfferPump!BeginClose
  /\ app' = "stopping"
  /\ UNCHANGED <<streamer_, starts, signaling_, connected, server, inbox, io, worker,
                 peer_connections_, pcs, offers, offered, tickVars, pusher, left, pulls>>

PumpDiscards ==
  /\ app = "stopping"
  /\ pending # <<>>
  /\ OfferPump!Discard
  /\ UNCHANGED <<app, streamer_, starts, signaling_, connected, server, inbox, io, worker,
                 peer_connections_, pcs, offers, offered, tickVars, pusher, left, pulls>>

PumpStopped ==
  /\ app = "stopping"
  /\ OfferPump!Closed
  /\ app' = "shutdown"
  /\ UNCHANGED <<streamer_, starts, signaling_, connected, server, inbox, io, worker,
                 peer_connections_, pcs, offers, offered, tickVars, pusher, left, pulls>>

\* PushStreamer::Stop and Shutdown: the loops are told to stop, then the default
\* PeerConnection is given to a thread that closes it.
ShutdownBegins ==
  /\ app = "shutdown"
  /\ streamer_' = "shut"
  /\ stop_' = TRUE /\ loops' = {}
  /\ closing' = closing \union {Pc(Default)}
  /\ app' = "closing"
  /\ UNCHANGED <<starts, signaling_, connected, pump, server, inbox, io, worker,
                 peer_connections_, open, late, observers, offers, offered, ticks, pusher,
                 left, pulls>>


\* ClosePeerConnectionWithDeadline returns when pc is closed, or after 8 seconds.
CloseReturns(pc) == pc \notin open \/ pc \in late

\* What Shutdown's loop has still to close.
Unclosed == {p \in peer_connections_ : Pc(p) \in open \ closing}
ShutdownWaits ==
  \E p \in peer_connections_ \union {Default} : Pc(p) \in closing /\ ~CloseReturns(Pc(p))

\* The 8 seconds are over: the thread in Close is detached and left to itself.
ShutdownGivesUp ==
  /\ app = "closing"
  /\ \E p \in peer_connections_ \union {Default} :
       /\ Pc(p) \in closing /\ ~CloseReturns(Pc(p))
       /\ late' = late \union {Pc(p)}
  /\ UNCHANGED <<app, streamer_, starts, signaling_, connected, pump, server, inbox, io,
                 worker, peer_connections_, open, closing, observers, offers, offered, tickVars,
                 pusher, left, pulls>>

\* One round of the loop over peer_connections_, without mutex_.
ShutdownCloses ==
  /\ app = "closing"
  /\ ~ShutdownWaits
  /\ \E p \in Unclosed : closing' = closing \union {Pc(p)}
  /\ UNCHANGED <<app, streamer_, starts, signaling_, connected, pump, server, inbox, io,
                 worker, peer_connections_, open, late, observers, offers, offered, tickVars,
                 pusher, left, pulls>>

\* The observers in the map are destroyed; the IO thread may hold one it moved out.
ShutdownEnds ==
  /\ app = "closing"
  /\ ~ShutdownWaits
  /\ Unclosed = {}
  /\ observers' = observers \ {Pc(p) : p \in peer_connections_}
  /\ peer_connections_' = {}
  /\ app' = "reset"
  /\ UNCHANGED <<streamer_, starts, signaling_, connected, pump, server, inbox, io, worker,
                 open, closing, late, offers, offered, tickVars, pusher, left, pulls>>

\* streamer_.reset(): the Impl is the observer of the default PeerConnection.
StreamerReset ==
  /\ app = "reset"
  /\ streamer_' = "none"
  /\ observers' = observers \ {Pc(Default)}
  /\ app' = "unsignal"
  /\ UNCHANGED <<starts, signaling_, connected, pump, server, inbox, io, worker,
                 peer_connections_, open, closing, late, offers, offered, tickVars, pusher,
                 left, pulls>>

SignalingStops ==
  /\ app = "unsignal"
  /\ signaling_' = FALSE /\ connected' = FALSE /\ inbox' = <<>>
  /\ app' = "idle"
  /\ UNCHANGED <<streamer_, starts, pump, server, io, worker, peer_connections_, pcs,
                 offers, offered, tickVars, pusher, left, pulls>>

StopStep ==
  \/ PumpDiscards \/ PumpStopped \/ ShutdownBegins \/ ShutdownGivesUp \/ ShutdownCloses
  \/ ShutdownEnds \/ StreamerReset \/ SignalingStops

-----------------------------------------------------------------------------
(* The signaling IO thread                                                 *)

IoReads(kind) ==
  /\ io = Idle
  /\ signaling_
  /\ inbox # <<>>
  /\ Head(inbox).kind = kind
  /\ inbox' = Tail(inbox)

\* SetOnSubscriberJoin: Enqueue drops the id while the pump does not run.
IoJoin ==
  /\ IoReads("join")
  /\ IF phase = "open" THEN OfferPump!Accept(Head(inbox).peer) ELSE UNCHANGED pump
  /\ pulls' = pulls + 1
  /\ UNCHANGED <<app, streamer_, starts, signaling_, connected, server, io, worker,
                 peer_connections_, pcs, offers, offered, tickVars, pusher, left>>

\* SetOnSubscriberLeave, SetOnAnswer, SetOnIce: streamer_ is looked at, then used.
Released(p) ==
  /\ left' = IF io.of \in {0, starts} THEN left \union {p} ELSE left
  /\ pulls' = pulls - 1

IoLeave ==
  /\ IoReads("leave")
  /\ IF streamer_ # "none"
     THEN /\ io' = [at |-> "leave", peer |-> Head(inbox).peer, of |-> starts]
          /\ UNCHANGED <<left, pulls>>
     ELSE UNCHANGED io /\ Released(Head(inbox).peer)
  /\ UNCHANGED <<app, streamer_, starts, signaling_, connected, pump, server, worker,
                 peer_connections_, pcs, offers, offered, tickVars, pusher>>

\* Mutant of IoErases: the entry goes, the PeerConnection stays.
IoErasesOnly ==
  /\ io.at = "leave"
  /\ peer_connections_' = peer_connections_ \ {io.peer}
  /\ io' = Idle /\ Released(io.peer)
  /\ UNCHANGED <<app, streamer_, starts, signaling_, connected, pump, server, inbox, worker,
                 pcs, offers, offered, tickVars, pusher>>

\* Mutant of IoErases: the observer is destroyed with the entry, before Close.
IoErasesObserver ==
  /\ io.at = "leave"
  /\ LET found == io.of = starts /\ io.peer \in peer_connections_
         pc == <<io.of, io.peer>>
     IN \/ /\ found
           /\ peer_connections_' = peer_connections_ \ {io.peer}
           /\ closing' = closing \union {pc}
           /\ observers' = observers \ {pc}
           /\ io' = [io EXCEPT !.at = "closing"]
           /\ UNCHANGED <<left, pulls>>
        \/ /\ ~found
           /\ io' = Idle /\ Released(io.peer)
           /\ UNCHANGED <<peer_connections_, closing, observers>>
  /\ UNCHANGED <<app, streamer_, starts, signaling_, connected, pump, server, inbox, worker,
                 open, late, offers, offered, tickVars, pusher>>

\* ClosePeerForSubscriber: the locked block, and the call of Close.
IoErases ==
  /\ io.at = "leave"
  /\ LET found == io.of = starts /\ io.peer \in peer_connections_
     IN \/ /\ found
           /\ peer_connections_' = peer_connections_ \ {io.peer}
           /\ closing' = closing \union {<<io.of, io.peer>>}
           /\ io' = [io EXCEPT !.at = "closing"]
           /\ UNCHANGED <<left, pulls>>
        \/ /\ ~found
           /\ io' = Idle /\ Released(io.peer)
           /\ UNCHANGED <<peer_connections_, closing>>
  /\ UNCHANGED <<app, streamer_, starts, signaling_, connected, pump, server, inbox, worker,
                 open, late, observers, offers, offered, tickVars, pusher>>

\* The 8 seconds are over here.
IoGivesUp ==
  /\ io.at = "closing"
  /\ ~CloseReturns(<<io.of, io.peer>>)
  /\ late' = late \union {<<io.of, io.peer>>}
  /\ UNCHANGED <<app, streamer_, starts, signaling_, connected, pump, server, inbox, io, worker,
                 peer_connections_, open, closing, observers, offers, offered, tickVars, pusher,
                 left, pulls>>

\* ClosePeerConnectionWithDeadline returned; the observer is destroyed and the user told.
IoCloses ==
  /\ io.at = "closing"
  /\ CloseReturns(<<io.of, io.peer>>)
  /\ observers' = observers \ {<<io.of, io.peer>>}
  /\ io' = Idle /\ Released(io.peer)
  /\ UNCHANGED <<app, streamer_, starts, signaling_, connected, pump, server, inbox, worker,
                 peer_connections_, open, closing, late, offers, offered, tickVars, pusher>>

\* An answer or a candidate.
IoAnswer ==
  /\ IoReads("answer")
  /\ io' = IF streamer_ # "none"
           THEN [at |-> "answer", peer |-> Head(inbox).peer, of |-> starts] ELSE Idle
  /\ UNCHANGED <<app, streamer_, starts, signaling_, connected, pump, server, worker,
                 peer_connections_, pcs, offers, offered, tickVars, pusher, left, pulls>>

\* SetRemoteDescriptionForPeer, AddRemoteIceCandidateForPeer return.
IoApplies ==
  /\ io.at = "answer"
  /\ io' = Idle
  /\ UNCHANGED <<app, streamer_, starts, signaling_, connected, pump, server, inbox, worker,
                 peer_connections_, pcs, offers, offered, tickVars, pusher, left, pulls>>

IoStep == IoJoin \/ IoLeave \/ IoErases \/ IoGivesUp \/ IoCloses \/ IoAnswer \/ IoApplies

-----------------------------------------------------------------------------
(* A pool worker in on_dispatch_: CreateOfferForPeer                       *)

p_ == current[1]     \* its argument

WorkerBegins ==
  /\ OfferPump!Begin
  /\ worker' = IF streamer_ # "none" /\ Pc(Default) \in open \ closing THEN "gate" ELSE "done"
  /\ UNCHANGED <<app, streamer_, starts, signaling_, connected, server, inbox, io,
                 peer_connections_, pcs, offers, offered, tickVars, pusher, left, pulls>>

\* Enough frames were captured, or capture_gate_max_wait_sec are over.
WaitForCaptureGate ==
  /\ worker = "gate"
  /\ worker' \in {"ensure"} \union IF MayFail THEN {"done"} ELSE {}
  /\ UNCHANGED <<app, streamer_, starts, signaling_, connected, pump, server, inbox, io,
                 peer_connections_, pcs, offers, offered, tickVars, pusher, left, pulls>>

\* EnsurePeerConnectionForPeer: outside mutex_ the PeerConnection is created ...
EnsureCreates ==
  /\ worker = "ensure"
  /\ IF p_ \in peer_connections_
     THEN worker' = "find" /\ UNCHANGED <<open, observers>>
     ELSE /\ worker' = "insert"
          /\ open' = open \union {Pc(p_)}
          /\ observers' = observers \union {Pc(p_)}
  /\ UNCHANGED <<app, streamer_, starts, signaling_, connected, pump, server, inbox, io,
                 peer_connections_, closing, late, offers, offered, tickVars, pusher, left, pulls>>

\* ... or it is not, or it is dropped again because it takes no track.
EnsureFails ==
  /\ worker = "ensure"
  /\ MayFail
  /\ worker' = "done"
  /\ UNCHANGED <<app, streamer_, starts, signaling_, connected, pump, server, inbox, io,
                 peer_connections_, pcs, offers, offered, tickVars, pusher, left, pulls>>

\* ... and under mutex_ entered into the map.
EnsureInserts ==
  /\ worker = "insert"
  /\ peer_connections_' = peer_connections_ \union {p_}
  /\ MaybeStartLoop("outbound")
  /\ worker' = "find"
  /\ UNCHANGED <<app, streamer_, starts, signaling_, connected, pump, server, inbox, io,
                 pcs, offers, offered, stop_, pusher, left, pulls>>

\* The entry is looked up again; CreateOfferOnConnection starts an offer.
CreateOfferOnConnection ==
  /\ worker = "find"
  /\ offers' = IF p_ \in peer_connections_
               THEN offers \union {[pc |-> Pc(p_), at |-> "create"]} ELSE offers
  /\ worker' = "done"
  /\ UNCHANGED <<app, streamer_, starts, signaling_, connected, pump, server, inbox, io,
                 peer_connections_, pcs, offered, tickVars, pusher, left, pulls>>

WorkerEnds ==
  /\ worker = "done"
  /\ OfferPump!End
  /\ worker' = "none"
  /\ UNCHANGED <<app, streamer_, starts, signaling_, connected, server, inbox, io,
                 peer_connections_, pcs, offers, offered, tickVars, pusher, left, pulls>>

WorkerStep ==
  \/ WorkerBegins \/ WaitForCaptureGate \/ EnsureCreates \/ EnsureFails
  \/ EnsureInserts \/ CreateOfferOnConnection \/ WorkerEnds

-----------------------------------------------------------------------------
(* libwebrtc's signaling thread                                            *)

\* The observer of CreateOffer calls SetLocalDescription.
OfferCreated ==
  /\ \E o \in offers :
       /\ o.at = "create" /\ o.pc \in open
       /\ offers' = (offers \ {o}) \union {[o EXCEPT !.at = "local"]}
  /\ UNCHANGED <<app, streamer_, starts, signaling_, connected, pump, server, inbox, io,
                 worker, peer_connections_, pcs, offered, tickVars, pusher, left, pulls>>

\* The observer of SetLocalDescription calls on_sdp_, which sends the offer.
LocalDescriptionSet ==
  /\ \E o \in offers :
       /\ o.at = "local" /\ o.pc \in open
       /\ offers' = offers \ {o}
       /\ offered' = IF connected /\ o.pc[1] = starts THEN offered \union {o.pc[2]} ELSE offered
  /\ UNCHANGED <<app, streamer_, starts, signaling_, connected, pump, server, inbox, io,
                 worker, peer_connections_, pcs, tickVars, pusher, left, pulls>>

\* Either fails, by itself or because the PeerConnection was closed; it is logged.
OfferFails ==
  /\ \E o \in offers :
       /\ MayFail \/ o.pc \notin open
       /\ offers' = offers \ {o}
  /\ UNCHANGED <<app, streamer_, starts, signaling_, connected, pump, server, inbox, io,
                 worker, peer_connections_, pcs, offered, tickVars, pusher, left, pulls>>

\* PeerConnection::Close ends, if it ever does.
Closed ==
  /\ \E pc \in closing :
       /\ open' = open \ {pc}
       /\ closing' = closing \ {pc}
       /\ late' = late \ {pc}
  /\ UNCHANGED <<app, streamer_, starts, signaling_, connected, pump, server, inbox, io,
                 worker, peer_connections_, observers, offers, offered, tickVars, pusher,
                 left, pulls>>

OfferStep == OfferCreated \/ LocalDescriptionSet \/ OfferFails

-----------------------------------------------------------------------------
(* svc_push_video_frame on a thread of the application: Publisher::PushI420 looks *)
(* at streamer_, then uses it.  The stream counts as started from the end of      *)
(* Start to the end of Stop.                                                      *)

PushBegins ==
  /\ ~Camera
  /\ pusher = 0
  /\ app \notin {"signaling", "streamer", "pump"}
  /\ streamer_ # "none"
  /\ pusher' = starts
  /\ UNCHANGED <<app, streamer_, starts, signaling_, connected, pump, server, inbox, io,
                 worker, peer_connections_, pcs, offers, offered, tickVars, left, pulls>>

PushEnds ==
  /\ pusher # 0
  /\ pusher' = 0
  /\ UNCHANGED <<app, streamer_, starts, signaling_, connected, pump, server, inbox, io,
                 worker, peer_connections_, pcs, offers, offered, tickVars, left, pulls>>

-----------------------------------------------------------------------------
(* The server and the subscribers                                          *)

Tell(m) == inbox' = IF connected THEN Append(inbox, m) ELSE inbox

SubscriberComes(p) ==
  /\ p \notin present \union gone
  /\ present' = present \union {p}
  /\ Tell(Msg("join", p))
  /\ UNCHANGED <<app, streamer_, starts, signaling_, connected, pump, gone, answered, io,
                 worker, peer_connections_, pcs, offers, offered, tickVars, pusher, left, pulls>>

SubscriberGoes(p) ==
  /\ p \in present
  /\ present' = present \ {p}
  /\ gone' = gone \union {p}
  /\ Tell(Msg("leave", p))
  /\ UNCHANGED <<app, streamer_, starts, signaling_, connected, pump, answered, io,
                 worker, peer_connections_, pcs, offers, offered, tickVars, pusher, left, pulls>>

SubscriberAnswers(p) ==
  /\ p \in offered \ answered
  /\ p \in present
  /\ answered' = answered \union {p}
  /\ Tell(Msg("answer", p))
  /\ UNCHANGED <<app, streamer_, starts, signaling_, connected, pump, present, gone, io,
                 worker, peer_connections_, pcs, offers, offered, tickVars, pusher, left, pulls>>

\* The connection ends; SetOnError tells the user, and nothing else happens.
ConnectionLost ==
  /\ MayFail
  /\ connected
  /\ connected' = FALSE
  /\ UNCHANGED <<app, streamer_, starts, signaling_, pump, server, inbox, io, worker,
                 peer_connections_, pcs, offers, offered, tickVars, pusher, left, pulls>>

-----------------------------------------------------------------------------
StartStep ==
  \/ SignalingStarts \/ SignalingFails \/ StreamerStarts \/ StreamerFails \/ PumpStarts

Environment ==
  \/ ConnectionLost
  \/ \E p \in Peers : SubscriberComes(p) \/ SubscriberGoes(p) \/ SubscriberAnswers(p)

Next ==
  \/ StartBegins \/ StartStep
  \/ StopBegins \/ StopStep
  \/ IoStep \/ WorkerStep \/ OfferStep \/ Closed \/ TickStep
  \/ PushBegins \/ PushEnds
  \/ Environment

Spec == Init /\ [][Next]_vars

\* A call of Stop and a worker inside CreateOfferForPeer go on: all that Stop waits for.
\* Nothing is assumed of PeerConnection::Close, which may take for ever.
FairStopSpec == Spec /\ WF_vars(StopStep) /\ WF_vars(WorkerStep)

\* Besides, a call of Start, the IO thread and an offer in the making go on.  Nothing is
\* assumed of the application, the subscribers, the server and the periodic tasks.
FairSpec ==
  /\ FairStopSpec
  /\ WF_vars(StartStep) /\ WF_vars(IoStep) /\ WF_vars(OfferStep)

-----------------------------------------------------------------------------
\* Type invariant.
TypeOK ==
  /\ app \in {"idle", "signaling", "streamer", "pump", "stopping", "shutdown", "closing",
              "reset", "unsignal"}
  /\ streamer_ \in {"none", "made", "on", "shut"}
  /\ starts \in 0..MaxStarts
  /\ signaling_ \in BOOLEAN /\ connected \in BOOLEAN
  /\ phase \in {"closed", "open", "closing"}
  /\ pending \in Seq(Peers)
  /\ current \in {<<>>} \union {<<p>> : p \in Peers}
  /\ present \subseteq Peers /\ gone \subseteq Peers /\ answered \subseteq Peers
  /\ inbox \in Seq([kind : {"join", "leave", "answer"}, peer : Peers])
  /\ io \in [at : {"idle", "leave", "closing", "answer"}, peer : Peers \union {Default},
             of : 0..MaxStarts]
  /\ worker \in {"none", "gate", "ensure", "insert", "find", "done"}
  /\ (worker = "none") <=> (current = <<>>)
  /\ peer_connections_ \subseteq Peers
  /\ open \subseteq Pcs /\ closing \subseteq Pcs /\ late \subseteq Pcs /\ observers \subseteq Pcs
  /\ offers \subseteq [pc : Pcs, at : {"create", "local"}]
  /\ offered \subseteq Peers
  /\ loops \subseteq Loops /\ stop_ \in BOOLEAN
  /\ ticks \subseteq [loop : Loops, of : 1..MaxStarts, at : {"queued", "ran", "delayed"}]
  /\ pusher \in 0..MaxStarts

\* CreateOfferForPeer uses streamer_, peer_connection_ and video_track_ without a
\* lock: Publisher::Stop stops the pump first, so that a worker is inside it only
\* while the streamer streams.
PumpWithinStreamer ==
  current # <<>> => streamer_ = "on" /\ Pc(Default) \in open \ closing

\* When Stop is past streamer_.reset(), every PeerConnection the streamers made is
\* closed or being closed, whatever joins and leaves were under way.
StopClosesAll ==
  streamer_ = "none" => open \subseteq closing

\* libwebrtc calls the observer of a PeerConnection until it is closed: neither
\* ClosePeerForSubscriber nor Shutdown, whichever of them closes, destroys it earlier,
\* except where they gave up waiting for Close.
ObserverOutlivesPc ==
  open \ late \subseteq observers

\* No observer at all is destroyed earlier.  VIOLATED where Close exceeds its deadline.
ObserverAlwaysOutlivesPc ==
  open \subseteq observers

\* However many subscribers come, a streamer has one task of each periodic loop.
OneTaskPerLoop ==
  \A t, u \in ticks : t.loop = u.loop /\ t.of = u.of => t = u


\* A subscriber the pump accepted is sent an offer, unless it leaves, the stream is
\* stopped or its connection to the server lost.
AcceptedIsOffered ==
  \A p \in Peers :
    (\E i \in 1..Len(pending) : pending[i] = p)
      ~> (p \in offered \/ p \in gone \/ phase # "open" \/ ~connected)

\* publisher.h: subscriber_join is queued and the worker calls CreateOfferForPeer;
\* so a subscriber of a running stream gets an offer.
SubscriberIsOffered ==
  \A p \in Peers :
    (p \in present /\ phase = "open") ~> (p \in offered \/ p \in gone \/ phase # "open")

\* push_streamer.h: when a subscriber leaves its PeerConnection is closed and
\* removed, so that no sender and encoder stay behind.
NoZombie ==
  \A p \in left \intersect peer_connections_ : current = <<p>> \/ io.peer = p

\* librflow_service_api.h: stop_stream and push_video_frame are thread-safe; so
\* nothing is inside the streamer while Stop takes it apart without a lock.
ThreadSafeStop ==
  /\ pusher # 0 => Alive(pusher) /\ app \notin {"closing", "reset"}
  /\ io.at \in {"leave", "answer"} => Alive(io.of) /\ app \notin {"closing", "reset"}

\* push_streamer.cpp: the periodic tasks end by themselves when the flag is set, so
\* StopOutboundStatsLoop need not wait; a task is executed while its Impl exists.
TicksWithinLife ==
  [][\A t \in ticks \ ticks' : Alive(t.of)]_vars

\* service_api_design.md: on_pull_request is called for the first subscriber only.
PullRequestForFirst ==
  [][pulls' > pulls => pulls = 0]_vars

=============================================================================
