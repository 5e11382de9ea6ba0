-------------------------- MODULE RtcStreamSession --------------------------
(***************************************************************************)
(* One pulled stream of the client SDK (client/impl/rtc_stream/            *)
(* rtc_stream_session.cpp) with its PendingIceBuffer (core/rtc/            *)
(* pending_ice_buffer.h), from Start to Close.                             *)
(*                                                                         *)
(* Five threads meet in a session: the application's (Start, Close), the   *)
(* signaling IO thread (offers, candidates, errors), the signaling thread  *)
(* of WebRTC (observers, completions), the watchdog and the decoder.  No   *)
(* lock covers peer_connection_ or signaling_; mu_ guards the sinks and    *)
(* current_video_track_.  A BlockingCall, and every call through a proxy   *)
(* of WebRTC, is a step of the caller that waits for "rtc" to be free.     *)
(*                                                                         *)
(* WebRTC is external.  What is used of it is what its headers promise:    *)
(* observers come on the signaling thread, before or after the call        *)
(* returns; a closed PeerConnection uses its observer no more, though      *)
(* completions of earlier operations still come; RemoveSink returns when   *)
(* no OnFrame is under way.  The PeerConnection of the n-th offer is n.    *)
(***************************************************************************)
EXTENDS Naturals, Sequences, FiniteSets

CONSTANTS
  MaxOffers,         \* bound on offers
  MaxCandidates,     \* bound on remote candidates
  MaxEvents,         \* bound on connection changes, failed sends of local candidates
  MaxTracks,         \* bound: the tracks of the first MaxTracks PeerConnections are followed
  MaxDecodedFrames,  \* bound on decoded frames
  WatchdogOn,        \* watchdog_enabled_ || timing_log::IsEnabled()
  CloseInCallback    \* does a user callback call close_stream?

ASSUME SessionAssumption ==
  /\ MaxOffers \in Nat /\ MaxCandidates \in Nat /\ MaxEvents \in Nat /\ MaxTracks \in Nat
  /\ MaxDecodedFrames \in Nat
  /\ WatchdogOn \in BOOLEAN /\ CloseInCallback \in BOOLEAN

Threads == {"app", "io", "rtc", "wd", "dec"}
Pcs == 1..MaxOffers
Terminal == {"CLOSED", "FAILED"}

VARIABLES
  closed_, stream_state_, stats_running_,
  signaling_,           \* "none", "up", or "broken" once the IO thread closed its socket
  peer_connection_,     \* 0 is nullptr
  current_video_track_, \* the PeerConnection it is of, 0 is nullptr
  applied_, pending_,   \* PendingIceBuffer
  start,                \* Start: "none", "opening", "ok", "failed"
  io, rtc, wd, dec,     \* where the threads are
  closer, closeStep,    \* the thread in Close (or that was), and where it is
  toEmit,               \* states each thread is about to pass to EmitState
  inCallback,           \* threads inside on_state or on_video of the user
  ops,                  \* operations of WebRTC whose observer is still to be called
  remoteSet, pcClosed,  \* PeerConnections with a remote description; closed ones
  sinks,                \* PeerConnections whose track has the frame adapter
  offers, candidates, events, decodedFrames, \* counted inputs
  added,                \* history: candidates passed to AddIceCandidate
  answered,             \* history: PeerConnections whose answer was sent
  overtaken,            \* history: offers during which an older one's SetRemote succeeded
  crashed               \* history: nullptr was dereferenced

buffer == <<applied_, pending_, added, overtaken>>
callbacks == <<stream_state_, toEmit, inCallback>>
closing == <<closed_, closer, closeStep>>
webrtc == <<ops, remoteSet, pcClosed>>
watchdog == <<wd, stats_running_>>
video == <<dec, sinks, current_video_track_, decodedFrames>>
inputs == <<offers, candidates, events>>
sessionVars ==
  <<buffer, callbacks, closing, webrtc, watchdog, video, inputs, start, io, rtc,
    signaling_, peer_connection_, answered, crashed>>

InitSession ==
  /\ closed_ = FALSE /\ stream_state_ = "IDLE" /\ stats_running_ = FALSE
  /\ signaling_ = "none" /\ peer_connection_ = 0 /\ current_video_track_ = 0
  /\ applied_ = FALSE /\ pending_ = <<>>
  /\ start = "none" /\ io = "idle" /\ rtc = "idle" /\ wd = "off" /\ dec = "idle"
  /\ closer = "none" /\ closeStep = "none"
  /\ toEmit = [t \in Threads |-> <<>>] /\ inCallback = {}
  /\ ops = {} /\ remoteSet = {} /\ pcClosed = {} /\ sinks = {}
  /\ offers = 0 /\ candidates = 0 /\ events = 0 /\ decodedFrames = 0
  /\ added = <<>> /\ answered = {} /\ overtaken = {} /\ crashed = FALSE

-----------------------------------------------------------------------------
(* EmitState and the user's callbacks. *)

MuHeld == closeStep = "remove"   \* Close holds mu_ while it removes the sink

Busy(t) ==
  toEmit[t] # <<>> \/ t \in inCallback \/ (closer = t /\ closeStep # "done")

RtcFree == rtc = "idle" /\ ~Busy("rtc")

WillEmit(t, states) == toEmit' = [toEmit EXCEPT ![t] = states]

\* The sink is copied under mu_ and called outside it, on the thread that emits.
EmitState(t) ==
  /\ toEmit[t] # <<>> /\ t \notin inCallback /\ ~MuHeld
  /\ stream_state_' = Head(toEmit[t])
  /\ WillEmit(t, Tail(toEmit[t]))
  /\ inCallback' = inCallback \cup {t}
  /\ UNCHANGED <<buffer, closing, webrtc, watchdog, video, inputs, start, io, rtc, signaling_,
                 peer_connection_, answered, crashed>>

\* The user's function returns; one that called close_stream first waits for Close.
CallbackReturns(t) ==
  /\ t \in inCallback
  /\ ~(closer = t /\ closeStep # "done")
  /\ inCallback' = inCallback \ {t}
  /\ dec' = IF t = "dec" THEN "idle" ELSE dec
  /\ UNCHANGED <<stream_state_, toEmit, buffer, closing, webrtc, watchdog, sinks,
                 current_video_track_, decodedFrames, inputs, start, io, rtc, signaling_,
                 peer_connection_, answered, crashed>>

-----------------------------------------------------------------------------
(* Start, on the application's thread inside open_stream. *)

StartBegins ==
  /\ start = "none"
  /\ start' = "opening"
  /\ WillEmit("app", <<"OPENING">>)
  /\ UNCHANGED <<stream_state_, inCallback, buffer, closing, webrtc, watchdog, video,
                 inputs, io, rtc, signaling_, peer_connection_, answered, crashed>>

StartSucceeds ==
  /\ start = "opening" /\ ~Busy("app")
  /\ start' = "ok"
  /\ signaling_' = "up"
  /\ stats_running_' = WatchdogOn
  /\ wd' = IF WatchdogOn THEN "loop" ELSE "off"
  /\ UNCHANGED <<callbacks, buffer, closing, webrtc, video, inputs, io, rtc, peer_connection_,
                 answered, crashed>>

\* TcpClientSession::Connect reports its error to the delegate, then Start emits FAILED;
\* open_stream drops the session, whose destructor calls Close.
StartFails ==
  /\ start = "opening" /\ ~Busy("app")
  /\ start' = "failed"
  /\ WillEmit("app", <<"FAILED", "FAILED">>)
  /\ UNCHANGED <<stream_state_, inCallback, buffer, closing, webrtc, watchdog, video,
                 inputs, io, rtc, signaling_, peer_connection_, answered, crashed>>

-----------------------------------------------------------------------------
(* The signaling IO thread. *)

IoReady == io = "idle" /\ ~Busy("io") /\ signaling_ = "up"

\* Mutant of OfferBegins: the buffer of the last offer stays `applied'.
OfferBeginsApplied ==
  /\ IoReady /\ ~closed_ /\ offers < MaxOffers
  /\ offers' = offers + 1
  /\ io' = "clear"
  /\ UNCHANGED <<candidates, events, buffer, callbacks, closing, webrtc, watchdog, video, start,
                 rtc, signaling_, peer_connection_, answered, crashed>>

\* HandleOffer: closed_ is looked at here and never again; ResetUnapplied clears the flag...
OfferBegins ==
  /\ IoReady /\ ~closed_ /\ offers < MaxOffers
  /\ offers' = offers + 1
  /\ applied_' = FALSE
  /\ io' = "clear"
  /\ UNCHANGED <<candidates, events, pending_, added, overtaken, callbacks, closing, webrtc, watchdog,
                 video, start, rtc, signaling_, peer_connection_, answered, crashed>>

\* ... and then the queue.
OfferClears ==
  /\ io = "clear"
  /\ pending_' = <<>>
  /\ io' = "create"
  /\ UNCHANGED <<applied_, added, overtaken, callbacks, closing, webrtc, watchdog, video, inputs, start, rtc,
                 signaling_, peer_connection_, answered, crashed>>

\* CreatePeerConnectionLocked: the old PeerConnection is closed...
CreateClosesOld ==
  /\ io = "create"
  /\ peer_connection_ # 0 => RtcFree
  /\ pcClosed' = pcClosed \cup ({peer_connection_} \ {0})
  /\ io' = IF peer_connection_ = 0 THEN "new" ELSE "null"
  /\ UNCHANGED <<ops, remoteSet, callbacks, buffer, closing, watchdog, video, inputs, start, rtc,
                 signaling_, peer_connection_, answered, crashed>>

\* ... and forgotten; until there is a new one, other threads see nullptr...
CreateNullsOld ==
  /\ io = "null"
  /\ peer_connection_' = 0
  /\ io' = "new"
  /\ UNCHANGED <<callbacks, buffer, closing, webrtc, watchdog, video, inputs, start, rtc,
                 signaling_, answered, crashed>>

\* ... the new one is made, or FAILED emitted...
CreatePeerConnectionLocked ==
  /\ io = "new" /\ RtcFree
  /\ \/ /\ peer_connection_' = offers
        /\ io' = "transceiver"
        /\ UNCHANGED <<pcClosed, toEmit>>
     \/ /\ pcClosed' = pcClosed \cup {offers}
        /\ WillEmit("io", <<"FAILED">>)
        /\ io' = "created"
        /\ UNCHANGED peer_connection_
  /\ UNCHANGED <<stream_state_, inCallback, buffer, closing, ops, remoteSet, watchdog,
                 video, inputs, start, rtc, signaling_, answered, crashed>>

\* ... and the transceiver added by a BlockingCall that undoes all of it when that fails.  If
\* Close nulled the pointer, its dereference is before or after that.
AddVideoTransceiver ==
  /\ io = "transceiver" /\ RtcFree
  /\ \/ /\ crashed' \in {FALSE, peer_connection_ = 0}
        /\ UNCHANGED <<peer_connection_, pcClosed, toEmit>>
     \/ /\ peer_connection_ # 0
        /\ pcClosed' = pcClosed \cup {peer_connection_}
        /\ peer_connection_' = 0
        /\ WillEmit("rtc", <<"FAILED">>)
        /\ UNCHANGED crashed
  /\ io' = "created"
  /\ UNCHANGED <<stream_state_, inCallback, buffer, closing, ops, remoteSet, watchdog,
                 video, inputs, start, rtc, signaling_, answered>>

\* Back in HandleOffer: no PeerConnection, or an SDP that does not parse, ends it.
OfferParsed ==
  /\ io = "created" /\ ~Busy("io") /\ RtcFree
  /\ \/ /\ peer_connection_ = 0
        /\ io' = "idle"
        /\ UNCHANGED toEmit
     \/ /\ peer_connection_ # 0
        /\ io' = "idle"
        /\ WillEmit("io", <<"FAILED">>)
     \/ /\ peer_connection_ # 0
        /\ io' = "parsed"
        /\ UNCHANGED toEmit
  /\ UNCHANGED <<stream_state_, inCallback, buffer, closing, webrtc, watchdog, video,
                 inputs, start, rtc, signaling_, peer_connection_, answered, crashed>>

\* peer_connection_ is dereferenced again, then SetRemoteDescription is called; the call may
\* return before its observer is called.
OfferApplies ==
  /\ io = "parsed" /\ RtcFree
  /\ io' = "applying"
  /\ crashed' \in {FALSE, peer_connection_ = 0}
  /\ ops' = ops \cup [kind : {"setRemote"}, pc : {peer_connection_} \ {0}]
  /\ UNCHANGED <<callbacks, buffer, closing, remoteSet, pcClosed, watchdog, video, inputs, start,
                 rtc, signaling_, peer_connection_, answered>>

Outstanding(k) == {op \in ops : op.kind = k}

OfferReturns ==
  /\ io = "applying" /\ RtcFree
  /\ io' = "idle"
  /\ UNCHANGED <<callbacks, buffer, closing, webrtc, watchdog, video, inputs, start, rtc,
                 signaling_, peer_connection_, answered, crashed>>

\* Mutant of IceArrives: the flag is not looked at.
IceArrivesPushes ==
  /\ IoReady /\ candidates < MaxCandidates
  /\ candidates' = candidates + 1
  /\ io' = "push"
  /\ UNCHANGED <<offers, events, callbacks, buffer, closing, webrtc, watchdog, video, start, rtc,
                 signaling_, peer_connection_, answered, crashed>>

\* HandleRemoteIceCandidate: the state is read...
IceArrives ==
  /\ IoReady /\ candidates < MaxCandidates
  /\ candidates' = candidates + 1
  /\ io' = IF peer_connection_ = 0 \/ ~applied_ THEN "push" ELSE "add"
  /\ UNCHANGED <<offers, events, callbacks, buffer, closing, webrtc, watchdog, video, start, rtc,
                 signaling_, peer_connection_, answered, crashed>>

\* ... and then the candidate put into the buffer, or added.
Push ==
  /\ io = "push"
  /\ pending_' = Append(pending_, [cand |-> candidates, of |-> offers])
  /\ io' = "idle"
  /\ UNCHANGED <<applied_, added, overtaken, callbacks, closing, webrtc, watchdog, video, inputs,
                 start, rtc, signaling_, peer_connection_, answered, crashed>>

\* What AddIceCandidate is called with, and whether the remote description was there.
ToAdd(c) == [cand |-> c.cand, of |-> c.of, pc |-> peer_connection_,
             early |-> peer_connection_ \notin remoteSet]

\* Another thread is about to null a pointer that was just tested: a dereference may follow.
NullRace == peer_connection_ # 0 /\ (closeStep = "null" \/ io = "null")

AddRemoteIceCandidateNow ==
  /\ io = "add"
  /\ \/ peer_connection_ = 0 /\ UNCHANGED added
     \/ /\ peer_connection_ # 0 /\ RtcFree
        /\ added' = Append(added, ToAdd([cand |-> candidates, of |-> offers]))
  /\ crashed' \in {FALSE, NullRace}
  /\ io' = "idle"
  /\ UNCHANGED <<applied_, pending_, overtaken, callbacks, closing, webrtc, watchdog, video, inputs,
                 start, rtc, signaling_, peer_connection_, answered>>

\* The signaling connection ends: CloseSession of the IO manager, then OnSignalError.
OnSignalError ==
  /\ IoReady
  /\ signaling_' = "broken"
  /\ WillEmit("io", <<"FAILED">>)
  /\ UNCHANGED <<stream_state_, inCallback, buffer, closing, webrtc, watchdog, video,
                 inputs, start, io, rtc, peer_connection_, answered, crashed>>

-----------------------------------------------------------------------------
(* The signaling thread of WebRTC. *)

\* The observer of SetRemoteDescription: MarkAppliedAndDrain sets the flag...
SetRemoteSucceeds(op) ==
  /\ RtcFree /\ op \in Outstanding("setRemote") /\ op.pc \notin pcClosed
  /\ ops' = ops \ {op}
  /\ remoteSet' = remoteSet \cup {op.pc}
  /\ applied_' = TRUE
  /\ overtaken' = overtaken \cup ({offers} \ {op.pc})
  /\ rtc' = "flush"
  /\ UNCHANGED <<pcClosed, pending_, added, callbacks, closing, watchdog, video, inputs, start, io,
                 signaling_, peer_connection_, answered, crashed>>

\* CreateAnswer is called on the PeerConnection there is now.
DoCreateAnswerAfterSetRemote ==
  ops' = ops \cup [kind : {"createAnswer"}, pc : {peer_connection_} \ {0}]

\* ... and takes the queue; its candidates are added to the PeerConnection there is now.
FlushAndAnswer ==
  /\ rtc = "flush"
  /\ pending_' = <<>>
  /\ added' = IF peer_connection_ = 0
                THEN added ELSE added \o [i \in DOMAIN pending_ |-> ToAdd(pending_[i])]
  /\ DoCreateAnswerAfterSetRemote
  /\ crashed' \in {FALSE, NullRace}
  /\ rtc' = "idle"
  /\ UNCHANGED <<applied_, overtaken, remoteSet, pcClosed, callbacks, closing, watchdog, video,
                 inputs, start, io, signaling_, peer_connection_, answered>>

SetRemoteFails(op) ==
  /\ RtcFree /\ op \in Outstanding("setRemote")
  /\ ops' = ops \ {op}
  /\ applied_' = FALSE /\ pending_' = <<>>
  /\ WillEmit("rtc", <<"FAILED">>)
  /\ UNCHANGED <<remoteSet, pcClosed, added, overtaken, stream_state_, inCallback,
                 closing, watchdog, video, inputs, start, io, rtc, signaling_, peer_connection_, answered, crashed>>

\* The success of CreateAnswer may be posted before, and delivered after, the PeerConnection
\* was closed; the observer dereferences peer_connection_ without looking.
CreateAnswerSucceeds(op) ==
  /\ RtcFree /\ op \in Outstanding("createAnswer") /\ op.pc \in remoteSet
  /\ ops' = (ops \ {op}) \cup [kind : {"setLocal"}, pc : {peer_connection_} \ {0}]
  /\ crashed' = (peer_connection_ = 0)
  /\ UNCHANGED <<remoteSet, pcClosed, callbacks, buffer, closing, watchdog, video, inputs, start,
                 io, rtc, signaling_, peer_connection_, answered>>

\* Mutant of AnswerFails: SetLocalDescription or CreateAnswer failing is only logged.
AnswerFailsQuietly(op) ==
  /\ RtcFree /\ op \in ops /\ op.kind # "setRemote"
  /\ ops' = ops \ {op}
  /\ UNCHANGED <<remoteSet, pcClosed, callbacks, buffer, closing, watchdog,
                 video, inputs, start, io, rtc, signaling_, peer_connection_, answered, crashed>>

\* OnFailure of CreateAnswer (or an SDP that cannot be printed) and of SetLocalDescription.
AnswerFails(op) ==
  /\ RtcFree /\ op \in ops /\ op.kind # "setRemote"
  /\ ops' = ops \ {op}
  /\ WillEmit("rtc", <<"FAILED">>)
  /\ UNCHANGED <<remoteSet, pcClosed, stream_state_, inCallback, buffer, closing,
                 watchdog, video, inputs, start, io, rtc, signaling_, peer_connection_, answered,
                 crashed>>

\* A failed Send reaches the delegate's OnSignalError and then the caller's own EmitState.
SendFailed == WillEmit("rtc", <<"FAILED", "FAILED">>)

\* The answer is sent if there is still a signaling session.
SetLocalSucceeds(op) ==
  /\ RtcFree /\ op \in Outstanding("setLocal")
  /\ ops' = ops \ {op}
  /\ \/ signaling_ = "none" /\ UNCHANGED <<answered, toEmit>>
     \/ signaling_ = "up" /\ answered' = answered \cup {op.pc} /\ UNCHANGED toEmit
     \/ signaling_ # "none" /\ SendFailed /\ UNCHANGED answered
  /\ UNCHANGED <<remoteSet, pcClosed, stream_state_, inCallback, buffer, closing,
                 watchdog, video, inputs, start, io, rtc, signaling_, peer_connection_, crashed>>

Live == remoteSet \ pcClosed

\* The observer of a PeerConnection: a change of the connection...
OnConnectionChange(st) ==
  /\ RtcFree /\ Live # {} /\ events < MaxEvents
  /\ events' = events + 1
  /\ WillEmit("rtc", <<st>>)
  /\ UNCHANGED <<offers, candidates, stream_state_, inCallback, buffer, closing, webrtc,
                 watchdog, video, start, io, rtc, signaling_, peer_connection_, answered, crashed>>

\* ... a local candidate that cannot be sent (one that can changes nothing here)...
OnIceCandidateFails ==
  /\ RtcFree /\ Live # {} /\ events < MaxEvents /\ signaling_ # "none"
  /\ events' = events + 1
  /\ SendFailed
  /\ UNCHANGED <<offers, candidates, stream_state_, inCallback, buffer, closing, webrtc,
                 watchdog, video, start, io, rtc, signaling_, peer_connection_, answered, crashed>>

\* ... and the track, which gets the frame adapter as its sink.
OnTrack(pc) ==
  /\ RtcFree /\ pc \in Live \ sinks /\ ~MuHeld /\ pc <= MaxTracks
  /\ current_video_track_' = pc
  /\ sinks' = sinks \cup {pc}
  /\ UNCHANGED <<dec, decodedFrames, callbacks, buffer, closing, webrtc, watchdog, inputs, start,
                 io, rtc, signaling_, peer_connection_, answered, crashed>>

-----------------------------------------------------------------------------
(* The decoder: FrameAdapter::OnFrame copies the sink under mu_. *)

OnFrame ==
  /\ dec = "idle" /\ sinks \ pcClosed # {} /\ decodedFrames < MaxDecodedFrames
  /\ decodedFrames' = decodedFrames + 1
  /\ dec' = "frame"
  /\ UNCHANGED <<sinks, current_video_track_, callbacks, buffer, closing, webrtc, watchdog, inputs,
                 start, io, rtc, signaling_, peer_connection_, answered, crashed>>

OnVideo ==
  /\ dec = "frame" /\ "dec" \notin inCallback /\ ~MuHeld
  /\ inCallback' = inCallback \cup {"dec"}
  /\ UNCHANGED <<stream_state_, toEmit, buffer, closing, webrtc, watchdog, video, inputs,
                 start, io, rtc, signaling_, peer_connection_, answered, crashed>>

-----------------------------------------------------------------------------
(* The watchdog.  GetStats is a call through the proxy of the PeerConnection it finds, which *)
(* HandleOffer may have nulled since it was tested.  wait_for, between two rounds, ends by   *)
(* itself, so "loop" stands for waiting and for the test at the head of the loop.          *)

RunWatchdogLoop ==
  /\ wd = "loop"
  /\ \/ ~stats_running_ /\ wd' = "done"
     \/ stats_running_ /\ peer_connection_ # 0 /\ wd' = "stats"
  /\ UNCHANGED <<stats_running_, callbacks, buffer, closing, webrtc, video, inputs, start, io, rtc,
                 signaling_, peer_connection_, answered, crashed>>

TickWatchdog ==
  /\ wd = "stats" /\ RtcFree
  /\ wd' = "loop"
  /\ crashed' = (peer_connection_ = 0)
  /\ UNCHANGED <<stats_running_, callbacks, buffer, closing, webrtc, video, inputs, start, io, rtc,
                 signaling_, peer_connection_, answered>>

-----------------------------------------------------------------------------
(* Close, by close_stream, or by the destructor when Start has failed. *)

MayClose(t) ==
  \/ t = "app" /\ start \in {"ok", "failed"} /\ ~Busy("app")
  \/ CloseInCallback /\ t \in inCallback /\ start = "ok"

CloseBegins(t) ==
  /\ ~closed_ /\ MayClose(t)
  /\ closed_' = TRUE
  /\ closer' = t
  /\ stats_running_' = FALSE
  /\ closeStep' = "join"
  /\ UNCHANGED <<wd, callbacks, buffer, webrtc, video, inputs, start, io, rtc, signaling_,
                 peer_connection_, answered, crashed>>

StopWatchdogThread ==
  /\ closeStep = "join" /\ wd \in {"off", "done"}
  /\ closeStep' = "remove"
  /\ UNCHANGED <<closed_, closer, watchdog, callbacks, buffer, webrtc, video, inputs, start, io, rtc,
                 signaling_, peer_connection_, answered, crashed>>

\* RemoveSink under mu_ returns when no OnFrame is under way; then ResetUnapplied.
CloseRemovesSink ==
  /\ closeStep = "remove"
  /\ current_video_track_ # 0 => dec = "idle"
  /\ sinks' = sinks \ {current_video_track_}
  /\ current_video_track_' = 0
  /\ applied_' = FALSE /\ pending_' = <<>>
  /\ closeStep' = "signaling"
  /\ UNCHANGED <<dec, decodedFrames, added, overtaken, closed_, closer, watchdog, callbacks, webrtc,
                 inputs, start, io, rtc, signaling_, peer_connection_, answered, crashed>>

\* No wait for a message the IO thread is handling.
CloseSignaling ==
  /\ closeStep = "signaling"
  /\ signaling_' = "none"
  /\ closeStep' = "pc"
  /\ UNCHANGED <<closed_, closer, watchdog, callbacks, buffer, webrtc, video, inputs, start, io, rtc,
                 peer_connection_, answered, crashed>>

\* Called on the signaling thread itself, or through the proxy.
ClosePeerConnection ==
  /\ closeStep = "pc"
  /\ peer_connection_ # 0 => (closer = "rtc" \/ RtcFree)
  /\ pcClosed' = pcClosed \cup ({peer_connection_} \ {0})
  /\ closeStep' = IF peer_connection_ = 0 THEN "emit" ELSE "null"
  /\ UNCHANGED <<ops, remoteSet, closed_, closer, watchdog, callbacks, buffer, video, inputs, start,
                 io, rtc, signaling_, peer_connection_, answered, crashed>>

CloseNulls ==
  /\ closeStep = "null"
  /\ peer_connection_' = 0
  /\ closeStep' = "emit"
  /\ UNCHANGED <<closed_, closer, watchdog, callbacks, buffer, webrtc, video, inputs, start, io, rtc,
                 signaling_, answered, crashed>>

CloseEmits ==
  /\ closeStep = "emit"
  /\ stream_state_' = "CLOSED"
  /\ inCallback' = inCallback \cup {closer}
  /\ closeStep' = "done"
  /\ UNCHANGED <<toEmit, closed_, closer, watchdog, buffer, webrtc, video, inputs, start, io, rtc,
                 signaling_, peer_connection_, answered, crashed>>

\* Nothing is left to do, or the process is gone.
Rests ==
  /\ \/ crashed
     \/ /\ closeStep = "done" /\ io = "idle" /\ rtc = "idle" /\ dec = "idle"
        /\ ops = {} /\ inCallback = {} /\ \A t \in Threads : toEmit[t] = <<>>
  /\ UNCHANGED sessionVars

-----------------------------------------------------------------------------
IoSteps ==
  OfferClears \/ CreateClosesOld \/ CreateNullsOld \/ CreatePeerConnectionLocked
    \/ AddVideoTransceiver \/ OfferParsed \/ OfferApplies \/ OfferReturns \/ Push \/ AddRemoteIceCandidateNow

RtcSteps ==
  \/ FlushAndAnswer
  \/ \E op \in ops : SetRemoteSucceeds(op) \/ SetRemoteFails(op) \/ CreateAnswerSucceeds(op)
                       \/ AnswerFails(op) \/ SetLocalSucceeds(op)

WatchdogSteps == RunWatchdogLoop \/ TickWatchdog

CloseSteps ==
  StopWatchdogThread \/ CloseRemovesSink \/ CloseSignaling \/ ClosePeerConnection \/ CloseNulls
    \/ CloseEmits

Environment ==
  \/ StartBegins \/ StartSucceeds \/ StartFails
  \/ OfferBegins \/ IceArrives \/ OnSignalError
  \/ \E st \in {"OPENED", "FAILED", "CLOSED"} : OnConnectionChange(st)
  \/ OnIceCandidateFails
  \/ \E pc \in Pcs : OnTrack(pc)
  \/ OnFrame
  \/ \E t \in Threads : CloseBegins(t)

NextSession ==
  \/ /\ ~crashed
     /\ \/ Environment \/ IoSteps \/ RtcSteps \/ WatchdogSteps \/ CloseSteps \/ OnVideo
        \/ \E t \in Threads : EmitState(t) \/ CallbackReturns(t)
  \/ Rests

SessionSpec == InitSession /\ [][NextSession]_sessionVars

\* Threads that can go on do; the user's callbacks return; WebRTC completes what it was asked.
SessionFairness ==
  /\ WF_sessionVars(~crashed /\ IoSteps) /\ WF_sessionVars(~crashed /\ RtcSteps)
  /\ WF_sessionVars(~crashed /\ WatchdogSteps) /\ WF_sessionVars(~crashed /\ CloseSteps)
  /\ WF_sessionVars(~crashed /\ OnVideo)
  /\ \A t \in Threads : WF_sessionVars(~crashed /\ (EmitState(t) \/ CallbackReturns(t)))

FairSessionSpec == SessionSpec /\ SessionFairness

-----------------------------------------------------------------------------
(* Properties. *)

Candidate == [cand : 1..MaxCandidates, of : 0..MaxOffers]
States == {"IDLE", "OPENING", "OPENED", "CLOSED", "FAILED"}

\* Types; Close has one caller; the candidates in the buffer and those added are no more than
\* came.
SessionTypeOK ==
  /\ closed_ \in BOOLEAN /\ stats_running_ \in BOOLEAN /\ applied_ \in BOOLEAN
  /\ crashed \in BOOLEAN /\ stream_state_ \in States
  /\ signaling_ \in {"none", "up", "broken"}
  /\ peer_connection_ \in 0..offers /\ current_video_track_ \in 0..offers
  /\ pending_ \in Seq(Candidate) /\ Len(pending_) + Len(added) <= candidates
  /\ start \in {"none", "opening", "ok", "failed"}
  /\ io \in {"idle", "clear", "create", "null", "new", "transceiver", "created", "parsed",
             "applying", "push", "add"}
  /\ rtc \in {"idle", "flush"}
  /\ wd \in {"off", "loop", "stats", "done"} /\ dec \in {"idle", "frame"}
  /\ closer \in Threads \cup {"none"} /\ closed_ = (closer # "none")
  /\ closeStep \in {"none", "join", "remove", "signaling", "pc", "null", "emit", "done"}
  /\ toEmit \in [Threads -> Seq(States)] /\ inCallback \subseteq Threads
  /\ ops \subseteq [kind : {"setRemote", "createAnswer", "setLocal"}, pc : Pcs]
  /\ remoteSet \subseteq Pcs /\ pcClosed \subseteq Pcs /\ sinks \subseteq Pcs
  /\ offers \in 0..MaxOffers /\ candidates \in 0..MaxCandidates /\ events \in 0..MaxEvents
  /\ decodedFrames \in 0..MaxDecodedFrames /\ answered \subseteq Pcs /\ overtaken \subseteq Pcs

\* Candidates reach AddIceCandidate in the order they arrived and none twice, although the
\* flush on the signaling thread and the IO thread both add them.
CandidatesInOrder ==
  \A i, j \in DOMAIN added : i < j => added[i].cand < added[j].cand

\* A candidate is added to the PeerConnection of the offer it came after, and only once its
\* remote description is set (pending_ice_buffer.h: WebRTC requires that order), unless the
\* SetRemoteDescription of the offer before it succeeded between ResetUnapplied and the Close of
\* the old PeerConnection, which marks the buffer as applied for the new one.
CandidateFitsOffer ==
  \A i \in DOMAIN added :
    /\ added[i].of = added[i].pc
    /\ added[i].early => added[i].pc \in overtaken

\* With the remote description applied and no flush or push under way, at most the candidate
\* that was between IsApplied and Push when the flush came is left in the buffer, where nothing
\* would ever take it out again; none that comes later joins it.
OneStranded ==
  applied_ /\ peer_connection_ # 0 /\ rtc = "idle" /\ io # "push" => Len(pending_) <= 1

\* None at all.  VIOLATED by that one candidate: the flag and the queue are not read together.
NoneStranded == applied_ /\ rtc = "idle" /\ io # "push" => pending_ = <<>>

\* No candidate is added before the remote description.  VIOLATED by the late success above.
NoneEarly == \A i \in DOMAIN added : ~added[i].early

\* An offer, or the newer one that takes its place, is answered, or the user is told FAILED,
\* unless the stream is closed.
AnswerOrFail ==
  io = "clear" ~> (offers \in answered \/ stream_state_ = "FAILED" \/ closed_ \/ crashed)

\* Close returns, whichever thread calls it.
CloseReturns == closed_ ~> ((closeStep = "done" /\ closer \notin inCallback) \/ crashed)

\* A terminal state is the last one the user is told.  VIOLATED: a failed Start ends in FAILED
\* and the destructor's CLOSED, and a lost connection may come back before Close.
TerminalIsLast ==
  [][(stream_state_ \in Terminal) => stream_state_' = stream_state_]_sessionVars

\* The callbacks of a stream are serial.  VIOLATED: each thread calls the user directly.
SerialCallbacks == Cardinality(inCallback) <= 1

\* Close may cancel a stream that is opening: no nullptr is dereferenced.  VIOLATED by the
\* observer of CreateAnswer and by HandleOffer; by the watchdog too, on a second offer.
CancelIsSafe == ~crashed

\* Close is a strong cleanup: when it is done and no message is being handled, every
\* PeerConnection is closed.  VIOLATED when HandleOffer goes on across it.
StrongCleanup == closeStep = "done" /\ io = "idle" => 1..offers \subseteq pcClosed

=============================================================================
