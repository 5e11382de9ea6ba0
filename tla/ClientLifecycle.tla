--------------------------- MODULE ClientLifecycle ---------------------------
(***************************************************************************)
(* The client SDK's API: lifecycle.cpp and stream.cpp over State           *)
(* (client/internal), the RtcStreamManager they drive, and of every        *)
(* RtcStreamSession what its Start and Close leave running.  What happens  *)
(* inside a session between the two is in RtcStreamSession.                *)
(*                                                                         *)
(* As the API prescribes, one thread calls set_global_config, init,        *)
(* connect, disconnect and uninit one after the other, while any thread    *)
(* may be in open_stream or close_stream.  A handle stands for one         *)
(* open_stream call, the stream_s it makes and the session of that stream. *)
(* A block under State::mu or RtcStreamManager::mu_ is one step, what is   *)
(* done outside them is split where another thread can come in between.    *)
(* Objects live while somebody holds a shared_ptr to them; the one who     *)
(* lets go last runs the destructor, which closes a session that nobody    *)
(* closed.  The observers of SDP operations and the stats callbacks of a   *)
(* session hold it too, and WebRTC lets go of them when it likes.          *)
(***************************************************************************)
EXTENDS Naturals, FiniteSets

CONSTANTS
  Handles,        \* open_stream calls
  Indices,        \* stream indices
  MaxConnects,    \* bound on connect calls
  MayFail,        \* may init and the signaling connection fail?
  WatchdogOn      \* does a session run its watchdog thread?

ASSUME ClientAssumption ==
  /\ MaxConnects \in Nat /\ MayFail \in BOOLEAN /\ WatchdogOn \in BOOLEAN

Nobody == "nobody"
ASSUME NobodyAssumption == Nobody \notin Handles

VARIABLES
  lifecycle, has_connect_cb, url,  \* State; url: has global_config a signaling url?
  infra,                           \* are the thread pool and the WebRTC factory up?
  streams,                         \* State::streams
  inited_, open_indices_,          \* RtcStreamManager; index -> session or Nobody
  control, uninits, connects,      \* the thread of connect and disconnect
  toClose,                         \* Shutdown: the sessions it has still to close
  closing,                         \* ... and the one it is closing
  call, idx,                       \* open_stream
  closer,                          \* close_stream
  streamRefs, sessionRefs,         \* who holds the stream_s, and the session
  dtor, dtorBy,                    \* the session's destructor, and who runs it
  closed_, signaling_, watchdog,   \* RtcStreamSession
  told,                            \* history: CLOSED callbacks of a handle, at most 2 counted
  revived,                         \* history: sessions that Start went on with after Close
  erasedOther,                     \* history: a failed Start erased another session's index
  crashed                          \* history: a freed object was used, or a thread not joined

state == <<lifecycle, has_connect_cb, url, infra>>
manager == <<inited_, open_indices_, erasedOther>>
controlVars == <<control, uninits, connects, toClose, closing>>
refs == <<streamRefs, sessionRefs, dtor, dtorBy>>
session == <<closed_, signaling_, watchdog, revived>>
vars == <<state, streams, manager, controlVars, call, idx, closer, refs, session, told, crashed>>

Init ==
  /\ lifecycle = "kUninit" /\ has_connect_cb = FALSE /\ url = FALSE /\ infra = FALSE
  /\ streams = {} /\ inited_ = FALSE /\ open_indices_ = [i \in Indices |-> Nobody]
  /\ control = "idle" /\ uninits = FALSE /\ connects = 0 /\ toClose = {} /\ closing = Nobody
  /\ call = [h \in Handles |-> "none"] /\ idx \in [Handles -> Indices]
  /\ closer = [h \in Handles |-> "none"]
  /\ streamRefs = [h \in Handles |-> {}] /\ sessionRefs = [h \in Handles |-> {}]
  /\ dtor = [h \in Handles |-> "none"] /\ dtorBy = [h \in Handles |-> Nobody]
  /\ closed_ = [h \in Handles |-> FALSE] /\ signaling_ = [h \in Handles |-> "none"]
  /\ watchdog = [h \in Handles |-> FALSE] /\ revived = {}
  /\ told = [h \in Handles |-> 0] /\ erasedOther = FALSE /\ crashed = FALSE

-----------------------------------------------------------------------------
(* Ownership *)

StreamAlive(h) == streamRefs[h] # {}
SessionAlive(h) == sessionRefs[h] # {}

\* The destructor of h's session is under way; somebody waits for one he runs.
Dying(h) == dtor[h] \notin {"none", "gone"}
Destroys(who, h) == dtorBy[h] = who /\ Dying(h)

\* who lets go, which leaves the session of h to left: the last one destroys it.
HoldSession(h, who, left) ==
  /\ sessionRefs' = [sessionRefs EXCEPT ![h] = left]
  /\ IF SessionAlive(h) /\ left = {}
     THEN dtor' = [dtor EXCEPT ![h] = "mark"] /\ dtorBy' = [dtorBy EXCEPT ![h] = who]
     ELSE UNCHANGED <<dtor, dtorBy>>

\* who lets go of the stream_s of h: the last reference takes the impl with it.
DropStream(h, who, sessionLeft) ==
  LET left == streamRefs[h] \ {who} IN
  /\ streamRefs' = [streamRefs EXCEPT ![h] = left]
  /\ HoldSession(h, who, IF left = {} THEN sessionLeft \ {"impl"} ELSE sessionLeft)

\* EmitState(CLOSED): the sink holds the stream_s weakly.
ToldClosed(hs) ==
  told' = [h \in Handles |-> IF h \in hs /\ StreamAlive(h) /\ told[h] < 2 THEN told[h] + 1
                             ELSE told[h]]

-----------------------------------------------------------------------------
(* lifecycle.cpp *)

SetGlobalConfig ==
  /\ control = "idle" /\ lifecycle = "kUninit"
  /\ url' \in BOOLEAN
  /\ UNCHANGED <<lifecycle, has_connect_cb, infra, streams, manager, controlVars, call, idx,
                 closer, refs, session, told, crashed>>

\* librflow_init; an infrastructure that fails undoes what it had started.
LibInit ==
  /\ control = "idle" /\ lifecycle = "kUninit"
  /\ \/ infra' = TRUE /\ lifecycle' = "kInited"
     \/ MayFail /\ UNCHANGED <<infra, lifecycle>>
  /\ UNCHANGED <<has_connect_cb, url, streams, manager, controlVars, call, idx, closer, refs,
                 session, told, crashed>>

\* ValidateConnectTransitionLocked, ApplyConnectTransitionLocked.
Connect ==
  /\ control = "idle" /\ lifecycle = "kInited" /\ connects < MaxConnects
  /\ lifecycle' = "kConnecting" /\ has_connect_cb' = TRUE
  /\ control' = "connect" /\ connects' = connects + 1
  /\ UNCHANGED <<url, infra, streams, manager, uninits, toClose, closing, call, idx, closer, refs,
                 session, told, crashed>>

\* on_connect_succeeded: RtcStreamManager::Init.
ConnectSucceeded ==
  /\ control = "connect"
  /\ inited_' = IF url /\ infra THEN TRUE ELSE inited_
  /\ control' = IF url /\ infra THEN "commit" ELSE "rollback"
  /\ UNCHANGED <<state, streams, open_indices_, erasedOther, uninits, connects, toClose, closing,
                 call, idx, closer, refs, session, told, crashed>>

\* CommitConnectedLocked or RollbackConnectFailedLocked.
ConnectEnds ==
  /\ control \in {"commit", "rollback"}
  /\ lifecycle' = IF control = "commit" THEN "kConnected" ELSE "kInited"
  /\ has_connect_cb' = (control = "commit")
  /\ control' = "idle"
  /\ UNCHANGED <<url, infra, streams, manager, uninits, connects, toClose, closing, call, idx,
                 closer, refs, session, told, crashed>>

\* librflow_disconnect, and librflow_uninit, which begins with it.
Disconnect(thenUninit) ==
  /\ control = "idle"
  /\ IF lifecycle \in {"kConnected", "kConnecting"}
     THEN /\ control' = "shutdown"
          /\ streams' = {}
          /\ streamRefs' = [h \in Handles |-> IF h \in streams
                                              THEN (streamRefs[h] \ {"map"}) \union {"control"}
                                              ELSE streamRefs[h]]
          /\ lifecycle' = "kInited" /\ has_connect_cb' = FALSE
     ELSE /\ thenUninit /\ control' = "uninit"
          /\ UNCHANGED <<streams, streamRefs, lifecycle, has_connect_cb>>
  /\ uninits' = thenUninit
  /\ UNCHANGED <<url, infra, manager, connects, toClose, closing, call, idx, closer, sessionRefs,
                 dtor, dtorBy, session, told, crashed>>

\* The sessions whose weak_ptr can be locked.
Indexed == {h \in Handles : \E i \in Indices : open_indices_[i] = h /\ SessionAlive(h)}

\* Mutant of ManagerShutdown: inited_ stays set.
ShutdownStaysInited ==
  /\ control = "shutdown"
  /\ toClose' = Indexed
  /\ sessionRefs' = [h \in Handles |-> sessionRefs[h] \union
                                        (IF h \in Indexed THEN {"control"} ELSE {})]
  /\ open_indices_' = [i \in Indices |-> Nobody]
  /\ control' = "close"
  /\ UNCHANGED <<state, streams, inited_, erasedOther, uninits, connects, closing, call, idx,
                 closer, streamRefs, dtor, dtorBy, session, told, crashed>>

\* Mutant of ManagerShutdown: the table is cleared before the sessions are collected.
ShutdownClearsFirst ==
  /\ control = "shutdown"
  /\ open_indices_' = [i \in Indices |-> Nobody]
  /\ inited_' = FALSE
  /\ control' = "close"
  /\ UNCHANGED <<state, streams, erasedOther, uninits, connects, toClose, closing, call, idx,
                 closer, refs, session, told, crashed>>

\* RtcStreamManager::Shutdown, up to the unlock.
ManagerShutdown ==
  /\ control = "shutdown"
  /\ toClose' = Indexed
  /\ sessionRefs' = [h \in Handles |-> sessionRefs[h] \union
                                        (IF h \in Indexed THEN {"control"} ELSE {})]
  /\ open_indices_' = [i \in Indices |-> Nobody]
  /\ inited_' = FALSE
  /\ control' = "close"
  /\ UNCHANGED <<state, streams, erasedOther, uninits, connects, closing, call, idx, closer,
                 streamRefs, dtor, dtorBy, session, told, crashed>>

\* Nothing that the thread of disconnect destroys is still being destroyed.
ControlFree == \A h \in Handles : ~Destroys("control", h)

\* to_close goes out of scope when Shutdown returns, ...
ShutdownReleases(h) ==
  /\ control = "close" /\ toClose = {} /\ ControlFree
  /\ "control" \in sessionRefs[h]
  /\ HoldSession(h, "control", sessionRefs[h] \ {"control"})
  /\ UNCHANGED <<state, streams, manager, controlVars, call, idx, closer, streamRefs, session, told,
                 crashed>>

\* ... then disconnect clears streams_snap, ...
DisconnectDrops(h) ==
  /\ control = "close" /\ toClose = {} /\ ControlFree
  /\ \A g \in Handles : "control" \notin sessionRefs[g]
  /\ "control" \in streamRefs[h]
  /\ DropStream(h, "control", sessionRefs[h])
  /\ UNCHANGED <<state, streams, manager, controlVars, call, idx, closer, session, told, crashed>>

\* ... and reports DISCONNECTED.
DisconnectEnds ==
  /\ control = "close" /\ toClose = {} /\ ControlFree
  /\ \A h \in Handles : "control" \notin sessionRefs[h] \union streamRefs[h]
  /\ control' = IF uninits THEN "uninit" ELSE "idle"
  /\ UNCHANGED <<state, streams, manager, uninits, connects, toClose, closing, call, idx, closer,
                 refs, session, told, crashed>>

\* The locked part of librflow_uninit: Shutdown again, then ShutdownInfrastructure.
UninitEnds ==
  /\ control = "uninit"
  /\ lifecycle' = "kUninit" /\ infra' = FALSE
  /\ IF lifecycle = "kUninit" THEN UNCHANGED <<streams, inited_, open_indices_>>
     ELSE /\ streams' = {} /\ inited_' = FALSE
          /\ open_indices_' = [i \in Indices |-> Nobody]
  /\ control' = "idle" /\ uninits' = FALSE
  /\ UNCHANGED <<has_connect_cb, url, erasedOther, connects, toClose, closing, call, idx, closer,
                 refs, session, told, crashed>>

-----------------------------------------------------------------------------
(* RtcStreamSession::Close *)

\* What Close stops: the watchdog and the signaling session.
CloseStops(h) ==
  /\ watchdog' = [watchdog EXCEPT ![h] = FALSE]
  /\ signaling_' = [signaling_ EXCEPT ![h] = "none"]
  /\ UNCHANGED <<closed_, revived>>

\* Shutdown closes one session after the other.
ShutdownMarks(h) ==
  /\ control = "close" /\ h \in toClose /\ closing = Nobody
  /\ IF closed_[h]
     THEN toClose' = toClose \ {h} /\ UNCHANGED <<closing, closed_>>
     ELSE /\ closing' = h /\ closed_' = [closed_ EXCEPT ![h] = TRUE]
          /\ UNCHANGED toClose
  /\ UNCHANGED <<state, streams, manager, control, uninits, connects, call, idx, closer, refs,
                 signaling_, watchdog, revived, told, crashed>>

ShutdownStops ==
  /\ control = "close" /\ closing # Nobody
  /\ CloseStops(closing)
  /\ control' = "emit"
  /\ UNCHANGED <<state, streams, manager, uninits, connects, toClose, closing, call, idx, closer,
                 refs, told, crashed>>

ShutdownEmits ==
  /\ control = "emit"
  /\ ToldClosed({closing})
  /\ toClose' = toClose \ {closing} /\ closing' = Nobody /\ control' = "close"
  /\ UNCHANGED <<state, streams, manager, uninits, connects, call, idx, closer, refs, session,
                 crashed>>

-----------------------------------------------------------------------------
(* ~RtcStreamSession, on the thread of whoever let go last *)

\* Close, of a session that nobody can close any more.
DtorMarks(h) ==
  /\ dtor[h] = "mark"
  /\ closed_' = [closed_ EXCEPT ![h] = TRUE]
  /\ dtor' = [dtor EXCEPT ![h] = IF closed_[h] THEN "end" ELSE "stop"]
  /\ UNCHANGED <<state, streams, manager, controlVars, call, idx, closer, streamRefs, sessionRefs,
                 dtorBy, signaling_, watchdog, revived, told, crashed>>

\* The reference of a stats callback may be let go by the watchdog itself,
\* which cannot join itself: its std::thread is destroyed joinable.
DtorStops(h) ==
  /\ dtor[h] = "stop"
  /\ CloseStops(h)
  /\ dtor' = [dtor EXCEPT ![h] = "emit"]
  /\ \/ UNCHANGED crashed
     \/ dtorBy[h] = "rtc" /\ watchdog[h] /\ crashed' = TRUE
  /\ UNCHANGED <<state, streams, manager, controlVars, call, idx, closer, streamRefs, sessionRefs,
                 dtorBy, told>>

DtorEmits(h) ==
  /\ dtor[h] = "emit"
  /\ ToldClosed({h})
  /\ dtor' = [dtor EXCEPT ![h] = "end"]
  /\ UNCHANGED <<state, streams, manager, controlVars, call, idx, closer, streamRefs, sessionRefs,
                 dtorBy, session, crashed>>

\* The members are destroyed; a watchdog that runs here, Close having come
\* before it was started, is a std::thread destroyed without a join.
DtorEnds(h) ==
  /\ dtor[h] = "end"
  /\ signaling_' = [signaling_ EXCEPT ![h] = "none"]
  /\ crashed' = watchdog[h]
  /\ dtor' = [dtor EXCEPT ![h] = "gone"]
  /\ UNCHANGED <<state, streams, manager, controlVars, call, idx, closer, streamRefs, sessionRefs,
                 dtorBy, closed_, watchdog, revived, told>>

-----------------------------------------------------------------------------
(* What WebRTC holds *)

\* An offer is handled, or the watchdog asks for stats: the observers are made
\* with shared_from_this, which throws, with nobody to catch it, once the last
\* reference is gone.
RtcTakes(h) ==
  /\ signaling_[h] = "up"
  /\ IF SessionAlive(h)
     THEN sessionRefs' = [sessionRefs EXCEPT ![h] = @ \union {"rtc"}] /\ UNCHANGED crashed
     ELSE crashed' = TRUE /\ UNCHANGED sessionRefs
  /\ UNCHANGED <<state, streams, manager, controlVars, call, idx, closer, streamRefs, dtor, dtorBy,
                 session, told>>

\* WebRTC has called the observers back, or dropped them.
RtcReleases(h) ==
  /\ "rtc" \in sessionRefs[h]
  /\ HoldSession(h, "rtc", sessionRefs[h] \ {"rtc"})
  /\ UNCHANGED <<state, streams, manager, controlVars, call, idx, closer, streamRefs, session, told,
                 crashed>>

-----------------------------------------------------------------------------
(* librflow_close_stream *)

\* RemoveStreamUnlocked; the impl is moved out of the stream_s.
CloseStream(h) ==
  /\ call[h] = "ok" /\ h \in streams
  /\ streams' = streams \ {h}
  /\ streamRefs' = [streamRefs EXCEPT ![h] = (@ \ {"map"}) \union {"closer"}]
  /\ sessionRefs' = [sessionRefs EXCEPT ![h] = (@ \ {"impl"}) \union {"closer"}]
  /\ closer' = [closer EXCEPT ![h] = "mark"]
  /\ UNCHANGED <<state, manager, controlVars, call, idx, dtor, dtorBy, session, told, crashed>>

CloseMarks(h) ==
  /\ closer[h] = "mark"
  /\ closed_' = [closed_ EXCEPT ![h] = TRUE]
  /\ closer' = [closer EXCEPT ![h] = IF closed_[h] THEN "end" ELSE "stop"]
  /\ UNCHANGED <<state, streams, manager, controlVars, call, idx, refs, signaling_, watchdog,
                 revived, told, crashed>>

CloseStopsSession(h) ==
  /\ closer[h] = "stop"
  /\ CloseStops(h)
  /\ closer' = [closer EXCEPT ![h] = "emit"]
  /\ UNCHANGED <<state, streams, manager, controlVars, call, idx, refs, told, crashed>>

CloseEmits(h) ==
  /\ closer[h] = "emit"
  /\ ToldClosed({h})
  /\ closer' = [closer EXCEPT ![h] = "end"]
  /\ UNCHANGED <<state, streams, manager, controlVars, call, idx, refs, session, crashed>>

CloseReturns(h) ==
  /\ closer[h] = "end"
  /\ DropStream(h, "closer", sessionRefs[h] \ {"closer"})
  /\ closer' = [closer EXCEPT ![h] = "done"]
  /\ UNCHANGED <<state, streams, manager, controlVars, call, idx, session, told, crashed>>

\* close_stream with the handle OPENING was reported with, before open_stream
\* returns: there is no impl yet, MarkStreamClosed reports CLOSED.
CloseInOpening(h) ==
  /\ call[h] \in {"opening", "up", "started", "unindex", "release", "released"} /\ h \in streams
  /\ streams' = streams \ {h}
  /\ streamRefs' = [streamRefs EXCEPT ![h] = @ \ {"map"}]
  /\ ToldClosed({h})
  /\ UNCHANGED <<state, manager, controlVars, call, idx, closer, sessionRefs, dtor, dtorBy,
                 session, crashed>>

-----------------------------------------------------------------------------
(* librflow_open_stream *)

OpenBegins(h) ==
  /\ call[h] = "none" /\ lifecycle = "kConnected"
  /\ \A g \in streams : idx[g] # idx[h]
  /\ streams' = streams \union {h}
  /\ streamRefs' = [streamRefs EXCEPT ![h] = {"map", "call"}]
  /\ call' = [call EXCEPT ![h] = "registered"]
  /\ UNCHANGED <<state, manager, controlVars, idx, closer, sessionRefs, dtor, dtorBy, session, told,
                 crashed>>

\* Mutant of ManagerOpens: an index that is in use is given to the new session.
OpensOverOpenIndex(h) ==
  /\ call[h] = "registered"
  /\ IF inited_ /\ infra
     THEN /\ open_indices_' = [open_indices_ EXCEPT ![idx[h]] = h]
          /\ sessionRefs' = [sessionRefs EXCEPT ![h] = {"call"}]
          /\ call' = [call EXCEPT ![h] = "made"]
     ELSE /\ call' = [call EXCEPT ![h] = "erase"]
          /\ UNCHANGED <<open_indices_, sessionRefs>>
  /\ UNCHANGED <<state, streams, inited_, erasedOther, controlVars, idx, closer, streamRefs,
                 dtor, dtorBy, session, told, crashed>>

\* RtcStreamManager::OpenStream up to the unlock.
ManagerOpens(h) ==
  /\ call[h] = "registered"
  /\ IF inited_ /\ infra /\ open_indices_[idx[h]] \notin Indexed
     THEN /\ open_indices_' = [open_indices_ EXCEPT ![idx[h]] = h]
          /\ sessionRefs' = [sessionRefs EXCEPT ![h] = {"call"}]
          /\ call' = [call EXCEPT ![h] = "made"]
     ELSE /\ call' = [call EXCEPT ![h] = "erase"]
          /\ UNCHANGED <<open_indices_, sessionRefs>>
  /\ UNCHANGED <<state, streams, inited_, erasedOther, controlVars, idx, closer, streamRefs,
                 dtor, dtorBy, session, told, crashed>>

\* RtcStreamSession::Start reads closed_.
StartChecks(h) ==
  /\ call[h] = "made"
  /\ call' = [call EXCEPT ![h] = IF closed_[h] THEN "unindex" ELSE "checked"]
  /\ UNCHANGED <<state, streams, manager, controlVars, idx, closer, refs, session, told, crashed>>

\* Start goes on with a session that was closed after it had looked.
Revives(h) == revived' = revived \union (IF closed_[h] THEN {h} ELSE {})

\* signaling_ is made, and OPENING reported.
StartOpening(h) ==
  /\ call[h] = "checked"
  /\ signaling_' = [signaling_ EXCEPT ![h] = "made"]
  /\ Revives(h)
  /\ call' = [call EXCEPT ![h] = "opening"]
  /\ UNCHANGED <<state, streams, manager, controlVars, idx, closer, refs, closed_, watchdog, told,
                 crashed>>

\* signaling_->Start.  A Close that came in between has destroyed the object.
StartSignaling(h) ==
  /\ call[h] = "opening"
  /\ \/ /\ signaling_[h] = "none"
        /\ crashed' = TRUE /\ UNCHANGED <<call, signaling_>>
     \/ /\ signaling_[h] # "none" /\ UNCHANGED crashed
        /\ \/ /\ call' = [call EXCEPT ![h] = "up"]
              /\ signaling_' = [signaling_ EXCEPT ![h] = "up"]
           \/ /\ MayFail
              /\ call' = [call EXCEPT ![h] = "unindex"]
              /\ signaling_' = [signaling_ EXCEPT ![h] = "none"]
  /\ UNCHANGED <<state, streams, manager, controlVars, idx, closer, refs, closed_, watchdog,
                 revived, told>>

StartWatchdog(h) ==
  /\ call[h] = "up"
  /\ watchdog' = [watchdog EXCEPT ![h] = WatchdogOn]
  /\ Revives(h)
  /\ call' = [call EXCEPT ![h] = "started"]
  /\ UNCHANGED <<state, streams, manager, controlVars, idx, closer, refs, closed_, signaling_,
                 told, crashed>>

\* A failed Start: the index is erased, whoever has it, ...
ManagerErases(h) ==
  /\ call[h] = "unindex"
  /\ erasedOther' = (erasedOther \/ open_indices_[idx[h]] \in Indexed \ {h})
  /\ open_indices_' = [open_indices_ EXCEPT ![idx[h]] = Nobody]
  /\ call' = [call EXCEPT ![h] = "release"]
  /\ UNCHANGED <<state, streams, inited_, controlVars, idx, closer, refs, session, told, crashed>>

\* ... and the session let go when OpenStream returns, without mu_.
ManagerReturns(h) ==
  /\ call[h] = "release"
  /\ HoldSession(h, "call", sessionRefs[h] \ {"call"})
  /\ call' = [call EXCEPT ![h] = "released"]
  /\ UNCHANGED <<state, streams, manager, controlVars, idx, closer, streamRefs, session, told,
                 crashed>>

OpenErases(h) ==
  /\ call[h] \in {"erase", "released"} /\ ~Destroys("call", h)
  /\ streams' = streams \ {h}
  /\ streamRefs' = [streamRefs EXCEPT ![h] = @ \ {"map", "call"}]
  /\ call' = [call EXCEPT ![h] = "failed"]
  /\ UNCHANGED <<state, manager, controlVars, idx, closer, sessionRefs, dtor, dtorBy, session, told,
                 crashed>>

\* sh->impl is set and the handle returned, also where nobody else holds the
\* stream_s: it is freed then, and the handle dangles.
OpenEnds(h) ==
  /\ call[h] = "started"
  /\ DropStream(h, "call", (sessionRefs[h] \ {"call"}) \union {"impl"})
  /\ call' = [call EXCEPT ![h] = IF streamRefs'[h] = {} THEN "dangling" ELSE "ok"]
  /\ UNCHANGED <<state, streams, manager, controlVars, idx, closer, session, told, crashed>>

-----------------------------------------------------------------------------
ControlStep ==
  \/ SetGlobalConfig \/ LibInit \/ Connect \/ ConnectSucceeded \/ ConnectEnds
  \/ \E u \in BOOLEAN : Disconnect(u)
  \/ ManagerShutdown \/ DisconnectEnds \/ UninitEnds
  \/ ShutdownStops \/ ShutdownEmits
  \/ \E h \in Handles : ShutdownMarks(h) \/ ShutdownReleases(h) \/ DisconnectDrops(h)

CloseStep(h) ==
  \/ CloseStream(h) \/ CloseMarks(h) \/ CloseStopsSession(h) \/ CloseEmits(h) \/ CloseReturns(h)
  \/ CloseInOpening(h)

OpenStep(h) ==
  \/ OpenBegins(h) \/ ManagerOpens(h) \/ StartChecks(h) \/ StartOpening(h) \/ StartSignaling(h)
  \/ StartWatchdog(h) \/ ManagerErases(h) \/ ManagerReturns(h) \/ OpenErases(h) \/ OpenEnds(h)

DtorStep(h) == DtorMarks(h) \/ DtorStops(h) \/ DtorEmits(h) \/ DtorEnds(h)

RtcStep(h) == RtcTakes(h) \/ RtcReleases(h)

\* A process that crashed takes no more steps.
Next ==
  /\ ~crashed
  /\ \/ ControlStep
     \/ \E h \in Handles : CloseStep(h) \/ OpenStep(h) \/ DtorStep(h) \/ RtcStep(h)

Spec == Init /\ [][Next]_vars

-----------------------------------------------------------------------------
\* The types of the variables.
TypeOK ==
  /\ lifecycle \in {"kUninit", "kInited", "kConnecting", "kConnected"}
  /\ {has_connect_cb, url, infra, inited_, uninits, erasedOther, crashed} \subseteq BOOLEAN
  /\ streams \subseteq Handles /\ toClose \subseteq Handles
  /\ open_indices_ \in [Indices -> Handles \union {Nobody}]
  /\ control \in {"idle", "connect", "commit", "rollback", "shutdown", "close", "emit", "uninit"}
  /\ connects \in 0..MaxConnects /\ closing \in Handles \union {Nobody}
  /\ call \in [Handles -> {"none", "registered", "made", "checked", "opening", "up", "started",
                           "unindex", "release", "released", "erase", "failed", "ok",
                           "dangling"}]
  /\ idx \in [Handles -> Indices]
  /\ closer \in [Handles -> {"none", "mark", "stop", "emit", "end", "done"}]
  /\ streamRefs \in [Handles -> SUBSET {"map", "call", "closer", "control"}]
  /\ sessionRefs \in [Handles -> SUBSET {"impl", "call", "closer", "control", "rtc"}]
  /\ dtor \in [Handles -> {"none", "mark", "stop", "emit", "end", "gone"}]
  /\ dtorBy \in [Handles -> {Nobody, "call", "closer", "control", "rtc"}]
  /\ {closed_, watchdog} \subseteq [Handles -> BOOLEAN] /\ revived \subseteq Handles
  /\ signaling_ \in [Handles -> {"none", "made", "up"}]
  /\ told \in [Handles -> 0..2]

\* open_stream or close_stream of h has not returned.
InCall(h) ==
  \/ call[h] \notin {"none", "failed", "ok", "dangling"} \/ closer[h] \notin {"none", "done"}
  \/ Destroys("call", h) \/ Destroys("closer", h)

\* When uninit takes State::mu to shut the infrastructure down, no stream is
\* registered and no session indexed, whatever open_stream and close_stream
\* calls are under way: Shutdown closes nothing, so no user function is called
\* under State::mu.
UninitFindsNothing == control = "uninit" => streams = {} /\ Indexed = {}

\* Two sessions of one index never both have a signaling session, save that the
\* one is being closed: Close has begun, or the destructor runs, which the
\* manager cannot see any more and which has yet to come to Close.  (A failed
\* Start may have erased the index of another session: see below.)
OneSessionPerIndex ==
  ~erasedOther =>
    \A g, h \in Handles :
      g # h /\ idx[g] = idx[h] /\ signaling_[g] # "none" /\ signaling_[h] # "none" =>
        \E x \in {g, h} : closed_[x] \/ Dying(x)

Running(h) == signaling_[h] # "none" \/ watchdog[h]

\* After a disconnect, once the calls that were under way have returned, nobody
\* but WebRTC holds a session, and of no session anything runs: save that its
\* destructor runs on a thread of WebRTC, that Start went on with it after a
\* Close, or that a failed Start hid it from Shutdown.
NothingLeftRunning ==
  control = "idle" /\ lifecycle # "kConnected" =>
    \A h \in Handles : ~InCall(h) =>
      /\ ~StreamAlive(h) /\ sessionRefs[h] \subseteq {"rtc"}
      /\ Running(h) => Destroys("rtc", h) \/ h \in revived \/ erasedOther

\* Before disconnect lets go of the streams it found registered, each one that
\* was opened has been reported CLOSED, also one whose open_stream was still
\* under way when disconnect began.
DisconnectReports ==
  ~erasedOther /\ control = "close" /\ toClose = {} =>
    \A h \in Handles : "control" \in streamRefs[h] /\ call[h] = "ok" => told[h] >= 1

\* Known deviations, checked by configurations of their own.

\* DisconnectReports for every stream, as the comment in librflow_disconnect
\* says: Shutdown closes every stream, and every Close reaches on_state(CLOSED).
EveryStreamToldClosed ==
  control = "close" /\ toClose = {} =>
    \A h \in Handles : "control" \in streamRefs[h] /\ call[h] = "ok" => told[h] >= 1

\* Two sessions of one index are never both subscribed.
OneSubscriberPerIndex ==
  \A g, h \in Handles :
    g # h /\ idx[g] = idx[h] => "none" \in {signaling_[g], signaling_[h]}

\* After a disconnect, once the calls have returned, of no session anything runs.
DisconnectStopsAll ==
  control = "idle" /\ lifecycle # "kConnected" => \A h \in Handles : ~InCall(h) => ~Running(h)

\* When close_stream returns, the stream was reported CLOSED.
CloseStreamReports == \A h \in Handles : closer[h] = "done" => told[h] >= 1

\* A handle is reported CLOSED once.
ToldOnce == \A h \in Handles : told[h] <= 1

\* Nothing is used after it was freed, and no thread object destroyed unjoined.
NoCrash == ~crashed

\* open_stream gives out handles of streams that exist.
HandleExists == \A h \in Handles : call[h] # "dangling"

\* When uninit has returned there are no more callbacks to come.
UninitIsFinal ==
  control = "idle" /\ lifecycle = "kUninit" =>
    \A h \in Handles : closer[h] \notin {"stop", "emit"} /\ call[h] # "opening"

\* A session uses WebRTC only while its threads exist.
SessionNeedsInfra == \A h \in Handles : SessionAlive(h) \/ Dying(h) => infra

=============================================================================
