--------------------------- MODULE ServiceLifecycle ---------------------------
(***************************************************************************)
(* The service SDK's API: lifecycle.cpp and stream.cpp over State          *)
(* (service/internal), and of every Publisher whether it runs and who      *)
(* holds it.  What Publisher::Start and Stop do inside is in Publisher.    *)
(*                                                                         *)
(* One thread calls svc_init, svc_connect, svc_disconnect and svc_uninit,  *)
(* as the API prescribes; the Callers are in the stream functions at the   *)
(* same time.  connect and disconnect hold State::mu while they call the   *)
(* application's functions; the stream functions hold it while they look a *)
(* handle up and do the rest without it.  Objects live while somebody has  *)
(* a shared_ptr to them; a caller does not use a handle that was destroyed *)
(* or reported CLOSED before its call.                                     *)
(***************************************************************************)
EXTENDS Naturals, FiniteSets

CONSTANTS
  Handles,         \* svc_create_stream calls that make a stream
  Callers,         \* threads that call stream functions
  MaxConnects,     \* bound on svc_connect calls
  MayFail,         \* may svc_init and Publisher::Start fail?
  Serial,          \* the handles whose calls the application makes one after the other
  CallbacksCall    \* do the application's functions call stream functions?

ASSUME ServiceAssumption ==
  /\ MaxConnects \in Nat
  /\ Serial \subseteq Handles /\ {MayFail, CallbacksCall} \subseteq BOOLEAN

Nobody == "nobody"
ASSUME HandlesAssumption == Nobody \notin Handles

\* A stream is held by callers, by State::streams ("map") and, its Publisher, by
\* svc_stream_s::impl ("impl").
ASSUME CallersAssumption == {"map", "impl"} \intersect Callers = {}

Ops == {"start", "stop", "destroy", "push"}

VARIABLES
  lifecycle,             \* State::lifecycle
  infra,                 \* are the thread pool and the WebRTC factory up?
  streams,               \* State::streams
  control, thenUninit,   \* the thread of connect and disconnect; it holds mu in LockedAt
  connects,
  toTell,                \* disconnect: the streams not yet reported CLOSED
  op, arg, at,           \* the stream function a caller is in, its handle, and where
  refs, pubRefs,         \* who holds the stream, and its Publisher
  created,
  running,               \* does the Publisher run?
  started,               \* svc_stream_s::started
  closedTold, lastTold   \* history: CLOSED reports of a stream, counted to 2; the last state reported

controlVars == <<lifecycle, infra, control, thenUninit, connects, toTell>>
callVars == <<op, arg, at>>
streamVars == <<streams, refs, pubRefs, created, running, started>>
history == <<closedTold, lastTold>>
vars == <<controlVars, callVars, streamVars, history>>

Init ==
  /\ lifecycle = "kUninit" /\ infra = FALSE /\ streams = {}
  /\ control = "idle" /\ thenUninit = FALSE /\ connects = 0 /\ toTell = {}
  /\ op = [t \in Callers |-> "none"] /\ arg = [t \in Callers |-> Nobody]
  /\ at = [t \in Callers |-> "idle"]
  /\ refs = [h \in Handles |-> {}] /\ pubRefs = [h \in Handles |-> {}]
  /\ created = {}
  /\ running = [h \in Handles |-> FALSE] /\ started = [h \in Handles |-> FALSE]
  /\ closedTold = [h \in Handles |-> 0] /\ lastTold = [h \in Handles |-> "none"]

\* Where the control thread is under State::mu.
LockedAt == {"connected", "tell", "disconnected", "blocked"}
MuFree == control \notin LockedAt

-----------------------------------------------------------------------------
(* Ownership *)

\* Mutant of Holders: the destructor of a Publisher does not stop it.
HoldersNoStop(r, p, runs) ==
  /\ refs' = r
  /\ pubRefs' = [h \in Handles |-> IF r[h] = {} THEN p[h] \ {"impl"} ELSE p[h]]
  /\ running' = runs

\* refs and pubRefs become r and p: a stream nobody holds lets go of its
\* Publisher, and the destructor of a Publisher nobody holds stops it.  runs:
\* which Publishers run but for that.
Holders(r, p, runs) ==
  LET held == [h \in Handles |-> IF r[h] = {} THEN p[h] \ {"impl"} ELSE p[h]] IN
  /\ refs' = r
  /\ pubRefs' = held
  /\ running' = [h \in Handles |-> runs[h] /\ held[h] # {}]

Told(hs, what) ==
  /\ lastTold' = [h \in Handles |-> IF h \in hs THEN what ELSE lastTold[h]]
  /\ closedTold' = [h \in Handles |-> IF h \in hs /\ what = "CLOSED" /\ closedTold[h] < 2
                                      THEN closedTold[h] + 1 ELSE closedTold[h]]

-----------------------------------------------------------------------------
(* lifecycle.cpp *)

SvcInit ==
  /\ control = "idle" /\ lifecycle = "kUninit"
  /\ \/ infra' = TRUE /\ lifecycle' = "kInited"
     \/ MayFail /\ UNCHANGED <<infra, lifecycle>>
  /\ UNCHANGED <<control, thenUninit, connects, toTell, callVars, streamVars, history>>

\* ConnectStateTransition up to the calls of on_state and on_bind_state ...
SvcConnect ==
  /\ control = "idle" /\ lifecycle = "kInited" /\ connects < MaxConnects
  /\ lifecycle' = "kConnected" /\ control' = "connected" /\ connects' = connects + 1
  /\ UNCHANGED <<infra, thenUninit, toTell, callVars, streamVars, history>>

\* ... and their return.
ConnectEnds ==
  /\ control = "connected"
  /\ control' = "idle"
  /\ UNCHANGED <<lifecycle, infra, thenUninit, connects, toTell, callVars, streamVars, history>>

\* svc_disconnect, also as the first step of svc_uninit: DisconnectStateTransition.
SvcDisconnect(uninits) ==
  /\ control = "idle"
  /\ IF lifecycle = "kConnected" THEN control' = "tell" /\ toTell' = streams
                                 ELSE uninits /\ control' = "uninit" /\ UNCHANGED toTell
  /\ thenUninit' = uninits
  /\ UNCHANGED <<lifecycle, infra, connects, callVars, streamVars, history>>

\* BroadcastStreamStateToAllCb: one call of a stream's on_state(CLOSED).
\* It changes nothing in the stream.
TellClosed(h) ==
  /\ control = "tell" /\ h \in toTell
  /\ Told({h}, "CLOSED")
  /\ toTell' = toTell \ {h}
  /\ UNCHANGED <<lifecycle, infra, control, thenUninit, connects, callVars, streamVars>>

\* streams.clear(), with the destructors it runs.
ClearStreams ==
  /\ control = "tell" /\ toTell = {}
  /\ streams' = {}
  /\ Holders([h \in Handles |-> refs[h] \ {"map"}], pubRefs, running)
  /\ control' = "disconnected"
  /\ UNCHANGED <<lifecycle, infra, thenUninit, connects, toTell, callVars, created, started,
                 history>>

\* on_state(DISCONNECTED) has returned.
DisconnectEnds ==
  /\ control = "disconnected"
  /\ lifecycle' = "kInited"
  /\ control' = IF thenUninit THEN "uninit" ELSE "idle"
  /\ UNCHANGED <<infra, thenUninit, connects, toTell, callVars, streamVars, history>>

\* The locked part of svc_uninit: ShutdownSubsystems.
UninitEnds ==
  /\ control = "uninit"
  /\ IF lifecycle = "kUninit" THEN UNCHANGED <<lifecycle, infra, streams, refs, pubRefs, running>>
     ELSE /\ streams' = {} /\ infra' = FALSE /\ lifecycle' = "kUninit"
          /\ Holders([h \in Handles |-> refs[h] \ {"map"}], pubRefs, running)
  /\ control' = "idle" /\ thenUninit' = FALSE
  /\ UNCHANGED <<connects, toTell, callVars, created, started, history>>

\* A function of the application, called under mu, calls a stream function,
\* which locks mu: std::mutex is not recursive.
CallbackCalls ==
  /\ CallbacksCall
  /\ \/ control \in {"connected", "disconnected"}
     \/ control = "tell" /\ toTell # streams     \* in the CLOSED of some stream
  /\ control' = "blocked"
  /\ UNCHANGED <<lifecycle, infra, thenUninit, connects, toTell, callVars, streamVars, history>>

-----------------------------------------------------------------------------
(* stream.cpp *)

\* svc_create_stream.
CreateStream(h) ==
  /\ MuFree /\ h \notin created /\ lifecycle = "kConnected"
  /\ created' = created \union {h}
  /\ streams' = streams \union {h}
  /\ refs' = [refs EXCEPT ![h] = {"map"}] /\ pubRefs' = [pubRefs EXCEPT ![h] = {"impl"}]
  /\ UNCHANGED <<controlVars, callVars, running, started, history>>

InUse(h) == \E t \in Callers : arg[t] = h

\* Mutant of Lookup: svc_destroy_stream finds the stream and leaves it in the map.
LookupDestroyKeeps(t, o, h) ==
  /\ MuFree /\ at[t] = "idle" /\ h \in streams
  /\ h \notin Serial \/ ~InUse(h)
  /\ op' = [op EXCEPT ![t] = o] /\ arg' = [arg EXCEPT ![t] = h]
  /\ refs' = [refs EXCEPT ![h] = @ \union {t}]
  /\ at' = [at EXCEPT ![t] = IF o = "push" /\ ~started[h] THEN "end" ELSE "found"]
  /\ UNCHANGED <<controlVars, streams, pubRefs, created, running, started, history>>

\* LookupStreamUnlocked, or RemoveStreamUnlocked for svc_destroy_stream.
\* svc_push_video_frame of a stream that is not started returns.
Lookup(t, o, h) ==
  /\ MuFree /\ at[t] = "idle" /\ h \in streams
  /\ h \notin Serial \/ ~InUse(h)
  /\ op' = [op EXCEPT ![t] = o] /\ arg' = [arg EXCEPT ![t] = h]
  /\ IF o = "destroy"
     THEN streams' = streams \ {h} /\ refs' = [refs EXCEPT ![h] = (@ \ {"map"}) \union {t}]
     ELSE refs' = [refs EXCEPT ![h] = @ \union {t}] /\ UNCHANGED streams
  /\ at' = [at EXCEPT ![t] = IF o = "push" /\ ~started[h] THEN "end" ELSE "found"]
  /\ UNCHANGED <<controlVars, pubRefs, created, running, started, history>>

\* AsPublisher(sh->impl): svc_destroy_stream may have reset it.
TakePublisher(t) ==
  /\ at[t] = "found"
  /\ IF "impl" \in pubRefs[arg[t]]
     THEN /\ pubRefs' = [pubRefs EXCEPT ![arg[t]] = @ \union {t}]
          /\ at' = [at EXCEPT ![t] = "publisher"]
     ELSE /\ at' = [at EXCEPT ![t] = IF op[t] = "push" THEN "end" ELSE "mark"]
          /\ UNCHANGED pubRefs
  /\ UNCHANGED <<controlVars, op, arg, streams, refs, created, running, started, history>>

\* The end of the scope of pub, and for svc_destroy_stream impl.reset().
LetsGo(t, runs) ==
  Holders(refs, [pubRefs EXCEPT ![arg[t]] = @ \ (IF op[t] = "destroy" THEN {t, "impl"} ELSE {t})],
          runs)

\* Mutant of PublisherStarts: a failed Start is marked as started.
StartFailureMarks(t) ==
  /\ at[t] = "publisher" /\ op[t] = "start"
  /\ \/ LetsGo(t, [running EXCEPT ![arg[t]] = TRUE])
     \/ MayFail /\ ~running[arg[t]] /\ LetsGo(t, running)
  /\ at' = [at EXCEPT ![t] = "mark"]
  /\ UNCHANGED <<controlVars, op, arg, streams, created, started, history>>

\* Publisher::Start.  It returns at once where the Publisher runs.
PublisherStarts(t) ==
  /\ at[t] = "publisher" /\ op[t] = "start"
  /\ \/ /\ LetsGo(t, [running EXCEPT ![arg[t]] = TRUE])
        /\ at' = [at EXCEPT ![t] = "mark"]
     \/ /\ MayFail /\ ~running[arg[t]]
        /\ LetsGo(t, running)
        /\ at' = [at EXCEPT ![t] = "end"]
  /\ UNCHANGED <<controlVars, op, arg, streams, created, started, history>>

\* Publisher::Stop.
PublisherStops(t) ==
  /\ at[t] = "publisher" /\ op[t] \in {"stop", "destroy"}
  /\ LetsGo(t, [running EXCEPT ![arg[t]] = FALSE])
  /\ at' = [at EXCEPT ![t] = "mark"]
  /\ UNCHANGED <<controlVars, op, arg, streams, created, started, history>>

\* PushI420 or PushNv12: it fails where the Publisher does not run.
PublisherPushes(t) ==
  /\ at[t] = "publisher" /\ op[t] = "push"
  /\ LetsGo(t, running)
  /\ at' = [at EXCEPT ![t] = "end"]
  /\ UNCHANGED <<controlVars, op, arg, streams, created, started, history>>

\* MarkStreamStarted, MarkStreamStopped, MarkStreamDestroyed.
MarkStream(t) ==
  /\ at[t] = "mark"
  /\ started' = [started EXCEPT ![arg[t]] = (op[t] = "start")]
  /\ Told({arg[t]}, CASE op[t] = "start" -> "OPENED" [] op[t] = "stop" -> "IDLE"
                      [] op[t] = "destroy" -> "CLOSED")
  /\ at' = [at EXCEPT ![t] = "end"]
  /\ UNCHANGED <<controlVars, op, arg, streams, refs, pubRefs, created, running>>

\* sh goes out of scope.
CallReturns(t) ==
  /\ at[t] = "end"
  /\ Holders([refs EXCEPT ![arg[t]] = @ \ {t}], pubRefs, running)
  /\ at' = [at EXCEPT ![t] = "idle"] /\ op' = [op EXCEPT ![t] = "none"]
  /\ arg' = [arg EXCEPT ![t] = Nobody]
  /\ UNCHANGED <<controlVars, streams, created, started, history>>

-----------------------------------------------------------------------------
ControlStep ==
  \/ SvcInit \/ SvcConnect \/ ConnectEnds \/ \E u \in BOOLEAN : SvcDisconnect(u)
  \/ (\E h \in Handles : TellClosed(h)) \/ ClearStreams \/ DisconnectEnds \/ UninitEnds
  \/ CallbackCalls

CallStep(t) ==
  \/ TakePublisher(t) \/ PublisherStarts(t) \/ PublisherStops(t) \/ PublisherPushes(t)
  \/ MarkStream(t) \/ CallReturns(t)

Next ==
  \/ ControlStep
  \/ \E h \in Handles : CreateStream(h)
  \/ \E t \in Callers : CallStep(t) \/ \E o \in Ops, h \in Handles : Lookup(t, o, h)

Spec == Init /\ [][Next]_vars

\* connect and disconnect, once called, go on, and so does every call that
\* found its stream.
ControlGoesOn ==
  ConnectEnds \/ (\E h \in Handles : TellClosed(h)) \/ ClearStreams \/ DisconnectEnds \/ UninitEnds

FairSpec ==
  /\ Spec
  /\ WF_vars(ControlGoesOn)
  /\ \A t \in Callers : WF_vars(CallStep(t))

-----------------------------------------------------------------------------
\* The types of the variables.
TypeOK ==
  /\ lifecycle \in {"kUninit", "kInited", "kConnected"}
  /\ infra \in BOOLEAN /\ thenUninit \in BOOLEAN
  /\ streams \subseteq Handles /\ created \subseteq Handles /\ toTell \subseteq Handles
  /\ control \in {"idle", "uninit"} \union LockedAt
  /\ connects \in 0..MaxConnects
  /\ op \in [Callers -> Ops \union {"none"}]
  /\ arg \in [Callers -> Handles \union {Nobody}]
  /\ at \in [Callers -> {"idle", "found", "publisher", "mark", "end"}]
  /\ refs \in [Handles -> SUBSET (Callers \union {"map"})]
  /\ pubRefs \in [Handles -> SUBSET (Callers \union {"impl"})]
  /\ {running, started} \subseteq [Handles -> BOOLEAN]
  /\ closedTold \in [Handles -> 0..2]
  /\ lastTold \in [Handles -> {"none", "OPENED", "IDLE", "CLOSED"}]

\* A stream that left the map is reported CLOSED once, by svc_destroy_stream or
\* by svc_disconnect and never by both, whichever of them comes first.
ClosedOnce ==
  \A h \in created :
    /\ closedTold[h] <= 1
    /\ h \notin streams /\ ~InUse(h) => closedTold[h] = 1

\* A stream that left the map does not publish any more once the calls that
\* had found it are over, also where svc_start_stream got its Publisher before
\* svc_destroy_stream or svc_disconnect took the stream away.
NothingLeftRunning ==
  \A h \in created : h \notin streams /\ ~InUse(h) => refs[h] = {} /\ pubRefs[h] = {} /\ ~running[h]

\* When svc_uninit takes mu to shut the infrastructure down the map is empty:
\* no Publisher is stopped after, or while, the threads it needs go away, other
\* than by a call that is under way.
UninitFindsNothing == control = "uninit" => streams = {}

\* Where the calls for one handle follow one another, started says whether the
\* Publisher runs.
StartedAgrees ==
  \A h \in streams \intersect Serial : ~InUse(h) => (started[h] <=> running[h])

\* Every call of svc_connect, svc_disconnect and svc_uninit returns.
ControlReturns == control # "idle" ~> control = "idle"

\* Known deviations, checked by configurations of their own.

\* CLOSED is the last state a stream's function is called with.
ClosedIsLast == \A h \in Handles : closedTold[h] >= 1 => lastTold[h] = "CLOSED"

\* started says whether the Publisher runs, whatever calls overlapped.
StartedAlwaysAgrees == \A h \in streams : ~InUse(h) => (started[h] <=> running[h])

\* A Publisher runs only while the thread pool and WebRTC do.
PublisherNeedsInfra == \A h \in Handles : running[h] => infra

=============================================================================
