------------------------ MODULE ClientLifecycleProofs ------------------------
(***************************************************************************)
(* Proofs about the client API, for any streams, any indices and any       *)
(* number of connections, with open_stream and close_stream calls of any   *)
(* number of threads.  ClientInv is inductive: it says what the place of   *)
(* each call means for who holds a stream and its session (Held), what may *)
(* run of a session before, in and after its destructor (Runs), in which   *)
(* stage of connect and disconnect there may be streams and indices        *)
(* (Stages), where an open session is found by the next Shutdown (Known),  *)
(* and where the CLOSED report of a stream is to come from (Reports).      *)
(***************************************************************************)
EXTENDS ClientLifecycle, TLAPS

\* The open_stream calls that have a stream_s, and those that have a session.
Opening == {"registered", "made", "checked", "opening", "up", "started", "unindex", "release",
            "released", "erase"}
Made == {"made", "checked", "opening", "up", "started", "unindex", "release"}

\* Those whose signaling session was started.
Up == {"up", "started", "ok", "dangling"}

\* The close_stream calls under way.
Closing == {"mark", "stop", "emit", "end"}

\* The map, the calls and disconnect hold what they work on; a stream_s that is
\* alive holds its session from the end of open_stream to close_stream.
StreamHeld(h) ==
  /\ ("map" \in streamRefs[h]) <=> (h \in streams)
  /\ ("call" \in streamRefs[h]) <=> (call[h] \in Opening)
  /\ ("closer" \in streamRefs[h]) <=> (closer[h] \in Closing)
  /\ "control" \in streamRefs[h] => control \in {"shutdown", "close", "emit"}

SessionHeld(h) ==
  /\ ("call" \in sessionRefs[h]) <=> (call[h] \in Made)
  /\ ("closer" \in sessionRefs[h]) <=> (closer[h] \in Closing)
  /\ "control" \in sessionRefs[h] =>
       control \in {"close", "emit"} /\ (h \in toClose \/ closed_[h])
  /\ h \in toClose => "control" \in sessionRefs[h]
  /\ ("impl" \in sessionRefs[h]) <=>
       (call[h] = "ok" /\ closer[h] = "none" /\ streamRefs[h] # {})

\* A stream is closed by close_stream or by disconnect, and there is no
\* session before the manager made one.
Placed(h) ==
  /\ h \in streams => call[h] \in Opening \union {"ok"}
  /\ closer[h] # "none" => call[h] = "ok" /\ h \notin streams /\ "control" \notin streamRefs[h]
  /\ call[h] \in {"none", "registered"} => ~closed_[h] /\ sessionRefs[h] = {}

Held == \A h \in Handles : StreamHeld(h) /\ SessionHeld(h) /\ Placed(h)

\* Nothing of a session runs, and no observer holds it, before its signaling
\* session was started or after that failed.
Signals(h) ==
  /\ signaling_[h] # "none" => call[h] \in Up \union {"opening"}
  /\ signaling_[h] = "up" \/ watchdog[h] \/ "rtc" \in sessionRefs[h] => call[h] \in Up

\* The destructor comes once, after the last reference.
Destroyed(h) ==
  /\ SessionAlive(h) \/ call[h] \in {"none", "registered"} => dtor[h] = "none"
  /\ dtorBy[h] = Nobody => ~Dying(h)
  /\ Destroys("control", h) => control = "close" /\ toClose = {}
  /\ dtor[h] \notin {"none", "mark"} => closed_[h]

\* Somebody is in Close, and has yet to stop the session.
Stopping(h) == (control = "close" /\ closing = h) \/ closer[h] = "stop" \/ dtor[h] = "stop"

\* What runs belongs to a session that is there to be closed, that is being
\* stopped, or that Start went on with after a Close.
Stopped(h) ==
  Running(h) => IF closed_[h] THEN h \in revived \/ Stopping(h)
                ELSE SessionAlive(h) \/ dtor[h] = "mark"

RunsAt(h) == Signals(h) /\ Destroyed(h) /\ Stopped(h)
Runs == \A h \in Handles : RunsAt(h)

\* In which stages there are streams, indices and sessions to close.
Stages ==
  /\ lifecycle # "kConnected" => streams = {}
  /\ lifecycle = "kConnected" => control = "idle"
  /\ (lifecycle = "kConnecting") <=> (control \in {"connect", "commit", "rollback"})
  /\ inited_ => lifecycle = "kConnected" \/ control \in {"commit", "shutdown"}
  /\ ~inited_ => \A i \in Indices : open_indices_[i] = Nobody
  /\ toClose # {} => control \in {"close", "emit"}
  /\ closing # Nobody => control \in {"close", "emit"} /\ closing \in toClose
  /\ control = "emit" => closing # Nobody

\* An open session is indexed, or Shutdown has collected it, or its Start failed.
Known ==
  /\ \A i \in Indices : open_indices_[i] # Nobody => idx[open_indices_[i]] = i
  /\ \A g, h \in toClose : idx[g] = idx[h] => g = h
  /\ ~erasedOther =>
       \A h \in Handles : SessionAlive(h) /\ ~closed_[h] /\ call[h] # "release" =>
         open_indices_[idx[h]] = h \/ h \in toClose

\* Disconnect reports the CLOSED of the sessions nobody closed before.
Reports ==
  /\ closing # Nobody => closed_[closing]
  /\ \A h \in Handles : SessionAlive(h) =>
       /\ h \in streams => ~closed_[h]
       /\ "control" \in streamRefs[h] /\ told[h] = 0 => ~closed_[h] \/ closing = h

ClientInv == TypeOK /\ Held /\ Runs /\ Stages /\ Known /\ Reports

-----------------------------------------------------------------------------
(* Types *)

CallPlaces == {"none", "registered", "made", "checked", "opening", "up", "started",
               "unindex", "release", "released", "erase", "failed", "ok", "dangling"}
CloserPlaces == {"none", "mark", "stop", "emit", "end", "done"}
StreamHolders == {"map", "call", "closer", "control"}
SessionHolders == {"impl", "call", "closer", "control", "rtc"}
DtorPlaces == {"none", "mark", "stop", "emit", "end", "gone"}
Destroyers == {"call", "closer", "control", "rtc"}

\* TypeOK in parts, the Boolean ones apart.
CallsTyped ==
  /\ streams \subseteq Handles /\ toClose \subseteq Handles
  /\ closing \in Handles \union {Nobody}
  /\ open_indices_ \in [Indices -> Handles \union {Nobody}] /\ idx \in [Handles -> Indices]
  /\ call \in [Handles -> CallPlaces] /\ closer \in [Handles -> CloserPlaces]

RefsTyped ==
  /\ streamRefs \in [Handles -> SUBSET StreamHolders]
  /\ sessionRefs \in [Handles -> SUBSET SessionHolders]
  /\ dtor \in [Handles -> DtorPlaces] /\ dtorBy \in [Handles -> {Nobody} \union Destroyers]

SessionsTyped ==
  /\ closed_ \in [Handles -> BOOLEAN] /\ watchdog \in [Handles -> BOOLEAN]
  /\ signaling_ \in [Handles -> {"none", "made", "up"}] /\ revived \subseteq Handles

FlagsTyped ==
  /\ has_connect_cb \in BOOLEAN /\ url \in BOOLEAN /\ infra \in BOOLEAN
  /\ inited_ \in BOOLEAN /\ uninits \in BOOLEAN
  /\ erasedOther \in BOOLEAN /\ crashed \in BOOLEAN

StagesTyped ==
  /\ lifecycle \in {"kUninit", "kInited", "kConnecting", "kConnected"}
  /\ control \in {"idle", "connect", "commit", "rollback", "shutdown", "close", "emit", "uninit"}
  /\ connects \in 0..MaxConnects /\ told \in [Handles -> 0..2]

\* The parts make up the type invariant.
LEMMA TypeParts ==
  TypeOK <=> CallsTyped /\ RefsTyped /\ SessionsTyped /\ FlagsTyped /\ StagesTyped
PROOF
  <1>1. {closed_, watchdog} \subseteq [Handles -> BOOLEAN] <=>
          closed_ \in [Handles -> BOOLEAN] /\ watchdog \in [Handles -> BOOLEAN]
    BY Zenon
  <1>2. {has_connect_cb, url, infra, inited_, uninits, erasedOther, crashed} \subseteq BOOLEAN
          <=> FlagsTyped
    BY Zenon DEF FlagsTyped
  <1> QED BY <1>1, <1>2 DEF TypeOK, CallsTyped, RefsTyped, SessionsTyped, FlagsTyped, StagesTyped,
            CallPlaces, CloserPlaces, StreamHolders, SessionHolders, DtorPlaces, Destroyers

\* The same of the next state.
LEMMA TypePartsNext ==
  TypeOK' <=> CallsTyped' /\ RefsTyped' /\ SessionsTyped' /\ FlagsTyped' /\ StagesTyped'
PROOF
  BY TypeParts, PTL

\* who lets go of the session of h: the last one begins its destructor.
Ends(h, who) ==
  IF SessionAlive(h) /\ sessionRefs'[h] = {}
  THEN dtor'[h] = "mark" /\ dtorBy'[h] = who
  ELSE dtor'[h] = dtor[h] /\ dtorBy'[h] = dtorBy[h]

\* The references that are left to the other sessions are those there were.
LEMMA HoldLeaves ==
  ASSUME RefsTyped, NEW h \in Handles, NEW who \in Destroyers,
         NEW left \in SUBSET SessionHolders, HoldSession(h, who, left)
  PROVE  /\ sessionRefs' \in [Handles -> SUBSET SessionHolders]
         /\ dtor' \in [Handles -> DtorPlaces]
         /\ dtorBy' \in [Handles -> {Nobody} \union Destroyers]
         /\ sessionRefs'[h] = left /\ Ends(h, who)
         /\ \A g \in Handles : g # h => /\ sessionRefs'[g] = sessionRefs[g]
                                        /\ dtor'[g] = dtor[g] /\ dtorBy'[g] = dtorBy[g]
PROOF
  <1>1. sessionRefs' = [sessionRefs EXCEPT ![h] = left]
    BY DEF HoldSession
  <1>2. sessionRefs'[h] = left
    BY <1>1 DEF RefsTyped
  <1>3. CASE SessionAlive(h) /\ left = {}
    <2>1. dtor' = [dtor EXCEPT ![h] = "mark"] /\ dtorBy' = [dtorBy EXCEPT ![h] = who]
      BY <1>3 DEF HoldSession
    <2> QED BY <1>1, <1>2, <1>3, <2>1 DEF RefsTyped, Ends, DtorPlaces
  <1>4. CASE ~(SessionAlive(h) /\ left = {})
    <2>1. dtor' = dtor /\ dtorBy' = dtorBy
      BY <1>4 DEF HoldSession
    <2> QED BY <1>1, <1>2, <1>4, <2>1 DEF RefsTyped, Ends
  <1> QED BY <1>3, <1>4

\* who lets go of the session of h, and of no other.
LetsGo(h, who) ==
  /\ sessionRefs' \in [Handles -> SUBSET SessionHolders]
  /\ dtor' \in [Handles -> DtorPlaces] /\ dtorBy' \in [Handles -> {Nobody} \union Destroyers]
  /\ Ends(h, who)
  /\ \A g \in Handles : g # h => /\ sessionRefs'[g] = sessionRefs[g]
                                 /\ dtor'[g] = dtor[g] /\ dtorBy'[g] = dtorBy[g]

\* "impl" goes with the stream_s.
LEMMA DropLeaves ==
  ASSUME RefsTyped, NEW h \in Handles, NEW who \in Destroyers,
         NEW left \in SUBSET SessionHolders, DropStream(h, who, left)
  PROVE  /\ RefsTyped' /\ LetsGo(h, who)
         /\ streamRefs'[h] = streamRefs[h] \ {who}
         /\ sessionRefs'[h] = IF streamRefs'[h] = {} THEN left \ {"impl"} ELSE left
         /\ \A g \in Handles : g # h => streamRefs'[g] = streamRefs[g]
PROOF
  <1>1. streamRefs' = [streamRefs EXCEPT ![h] = streamRefs[h] \ {who}]
    BY DEF DropStream
  <1>2. /\ streamRefs'[h] = streamRefs[h] \ {who}
        /\ \A g \in Handles : g # h => streamRefs'[g] = streamRefs[g]
        /\ streamRefs' \in [Handles -> SUBSET StreamHolders]
    BY <1>1 DEF RefsTyped
  <1>3. PICK x \in SUBSET SessionHolders : x = IF streamRefs'[h] = {} THEN left \ {"impl"} ELSE left
    OBVIOUS
  <1>4. HoldSession(h, who, x)
    BY <1>2, <1>3 DEF DropStream
  <1>5. LetsGo(h, who) /\ sessionRefs'[h] = x
    BY <1>4, HoldLeaves DEF LetsGo
  <1>6. RefsTyped'
    BY <1>2, <1>5 DEF LetsGo, RefsTyped
  <1> QED BY <1>2, <1>3, <1>5, <1>6

\* A report is counted up to 2.
LEMMA ToldLeaves ==
  ASSUME told \in [Handles -> 0..2], NEW hs, ToldClosed(hs)
  PROVE  /\ told' \in [Handles -> 0..2]
         /\ \A h \in Handles : /\ told'[h] = 0 => told[h] = 0
                               /\ told'[h] = 0 /\ StreamAlive(h) => h \notin hs
PROOF
  BY DEF ToldClosed

-----------------------------------------------------------------------------
(* What a step leaves alone *)

\* A handle the step does not concern.
LEMMA HeldStays ==
  ASSUME NEW h \in Handles, StreamHeld(h), SessionHeld(h), Placed(h),
         call'[h] = call[h], closer'[h] = closer[h], streamRefs'[h] = streamRefs[h],
         sessionRefs'[h] = sessionRefs[h], closed_'[h] <=> closed_[h],
         h \in streams' <=> h \in streams, h \in toClose' <=> h \in toClose,
         control' = control \/ control \notin {"shutdown", "close", "emit"}
  PROVE  (StreamHeld(h) /\ SessionHeld(h) /\ Placed(h))'
PROOF
  BY DEF StreamHeld, SessionHeld, Placed

\* A session the step does not concern.
LEMMA RunsStays ==
  ASSUME NEW h \in Handles, RunsAt(h),
         call'[h] = call[h] \/ (call[h] \notin {"opening"} \union Up /\ dtor[h] = "none"),
         sessionRefs'[h] = sessionRefs[h], dtor'[h] = dtor[h], dtorBy'[h] = dtorBy[h],
         signaling_'[h] = signaling_[h], watchdog'[h] <=> watchdog[h],
         closed_'[h] <=> closed_[h], revived \subseteq revived', Stopping(h) => Stopping(h)',
         control = "close" /\ toClose = {} => control' = "close" /\ toClose' = {}
  PROVE  RunsAt(h)'
PROOF
  <1>1. Signals(h)'
    BY DEF RunsAt, Signals
  <1>2. Destroyed(h)'
    BY DEF RunsAt, Destroyed, SessionAlive, Dying, Destroys
  <1>3. Stopped(h)'
    BY DEF RunsAt, Stopped, Running, SessionAlive
  <1> QED BY <1>1, <1>2, <1>3 DEF RunsAt

\* No session is made, none leaves the index or toClose before it is closed.
LEMMA KnownStays ==
  ASSUME Known, UNCHANGED <<open_indices_, idx, toClose, erasedOther>>,
         \A h \in Handles : SessionAlive(h)' /\ ~closed_'[h] /\ call'[h] # "release" =>
           SessionAlive(h) /\ ~closed_[h] /\ call[h] # "release"
  PROVE  Known'
PROOF
  BY DEF Known

\* No session is made or closed, no stream registered.
LEMMA ReportsStays ==
  ASSUME Reports, CallsTyped, UNCHANGED closing,
         \A h \in Handles :
           /\ closed_[h] => closed_'[h]
           /\ SessionAlive(h)' => /\ SessionAlive(h) /\ (closed_'[h] => closed_[h])
                                  /\ (h \in streams' => h \in streams)
                                  /\ "control" \in streamRefs'[h] => "control" \in streamRefs[h]
                                  /\ told'[h] = 0 => told[h] = 0
  PROVE  Reports'
PROOF
  BY DEF Reports, CallsTyped

\* Nothing changes for the streams and the sessions.
LEMMA StreamsStay ==
  ASSUME ClientInv, UNCHANGED <<streams, call, idx, closer, refs, session, told, toClose, closing,
                                open_indices_, erasedOther>>,
         control' = control \/ control \notin {"shutdown", "close", "emit"}
  PROVE  Held' /\ Runs' /\ Known' /\ Reports' /\ CallsTyped' /\ RefsTyped' /\ SessionsTyped'
PROOF
  <1>1. CallsTyped /\ RefsTyped /\ SessionsTyped
    BY TypeParts DEF ClientInv
  <1>2. CallsTyped' /\ RefsTyped' /\ SessionsTyped'
    BY <1>1 DEF CallsTyped, RefsTyped, SessionsTyped, refs, session
  <1>3. Held'
    BY HeldStays DEF ClientInv, Held, refs, session
  <1>4. Known'
    BY KnownStays DEF ClientInv, refs, session, SessionAlive
  <1>5. Reports'
    BY <1>1, ReportsStays DEF ClientInv, refs, session, SessionAlive
  <1>6. Runs'
    BY RunsStays DEF ClientInv, Runs, refs, session, Stopping
  <1> QED BY <1>2, <1>3, <1>4, <1>5, <1>6

\* A step of one handle leaves the others as they are.
LEMMA HeldAt ==
  ASSUME ClientInv, NEW h \in Handles, UNCHANGED <<control, toClose>>,
         (StreamHeld(h) /\ SessionHeld(h) /\ Placed(h))',
         \A g \in Handles : g # h =>
           /\ call'[g] = call[g] /\ closer'[g] = closer[g] /\ streamRefs'[g] = streamRefs[g]
           /\ sessionRefs'[g] = sessionRefs[g] /\ (closed_'[g] <=> closed_[g])
           /\ g \in streams' <=> g \in streams
  PROVE  Held'
PROOF
  <1> SUFFICES ASSUME NEW g \in Handles
               PROVE  (StreamHeld(g) /\ SessionHeld(g) /\ Placed(g))'
    BY DEF Held
  <1>1. CASE g = h
    BY <1>1
  <1>2. CASE g # h
    <2>1. StreamHeld(g) /\ SessionHeld(g) /\ Placed(g)
      BY DEF ClientInv, Held
    <2> QED BY <1>2, <2>1, HeldStays
  <1> QED BY <1>1, <1>2

\* The same of what runs.
LEMMA RunsElse ==
  ASSUME ClientInv, NEW h \in Handles, RunsAt(h)', UNCHANGED <<control, toClose, closing>>,
         revived \subseteq revived',
         \A g \in Handles : g # h =>
           /\ call'[g] = call[g] /\ closer'[g] = closer[g] /\ sessionRefs'[g] = sessionRefs[g]
           /\ dtor'[g] = dtor[g] /\ dtorBy'[g] = dtorBy[g] /\ signaling_'[g] = signaling_[g]
           /\ (watchdog'[g] <=> watchdog[g]) /\ (closed_'[g] <=> closed_[g])
  PROVE  Runs'
PROOF
  <1> SUFFICES ASSUME NEW g \in Handles
               PROVE  RunsAt(g)'
    BY DEF Runs
  <1>1. CASE g = h
    BY <1>1
  <1>2. CASE g # h
    <2>1. RunsAt(g) /\ (Stopping(g) => Stopping(g)')
      BY <1>2 DEF ClientInv, Runs, Stopping
    <2> QED BY <1>2, <2>1, RunsStays
  <1> QED BY <1>1, <1>2

\* A step that changes no more than places and references keeps the types.
LEMMA SameTypes ==
  ASSUME ClientInv, RefsTyped', call' \in [Handles -> CallPlaces],
         closer' \in [Handles -> CloserPlaces],
         UNCHANGED <<state, streams, manager, controlVars, idx, session, told, crashed>>
  PROVE  TypeOK'
PROOF
  <1>1. FlagsTyped /\ StagesTyped /\ CallsTyped /\ SessionsTyped
    BY TypeParts DEF ClientInv
  <1>2. CallsTyped'
    BY <1>1 DEF CallsTyped, manager, controlVars
  <1>3. SessionsTyped' /\ FlagsTyped'
    BY <1>1 DEF SessionsTyped, FlagsTyped, session, state, manager, controlVars
  <1>4. StagesTyped'
    BY <1>1 DEF StagesTyped, state, controlVars
  <1> QED BY <1>2, <1>3, <1>4, TypePartsNext

\* A session that is let go, by the last holder or another.
LEMMA LetsGoKeeps ==
  ASSUME ClientInv, NEW h \in Handles, NEW who \in Destroyers, LetsGo(h, who), TypeOK',
         (StreamHeld(h) /\ SessionHeld(h) /\ Placed(h))',
         who = "control" => control = "close" /\ toClose = {},
         UNCHANGED <<state, streams, manager, controlVars, idx, session, told>>,
         SessionAlive(h)' => SessionAlive(h),
         SessionAlive(h) => call'[h] \notin {"none", "registered"},
         "rtc" \in sessionRefs'[h] => "rtc" \in sessionRefs[h],
         \/ call'[h] = call[h] \/ (call[h] \in Up /\ call'[h] \in Up)
         \/ call[h] = "release" /\ SessionAlive(h),
         call[h] = "release" /\ call'[h] # "release" /\ SessionAlive(h)' =>
           h \in toClose \/ closed_[h],
         closer[h] = "stop" => closer'[h] = "stop",
         \A g \in Handles : "control" \in streamRefs'[g] => "control" \in streamRefs[g],
         \A g \in Handles : g # h =>
           /\ call'[g] = call[g] /\ closer'[g] = closer[g] /\ streamRefs'[g] = streamRefs[g]
  PROVE  ClientInv'
PROOF
  <1>1. /\ control' = control /\ toClose' = toClose /\ closing' = closing /\ streams' = streams
        /\ closed_' = closed_ /\ signaling_' = signaling_ /\ watchdog' = watchdog
        /\ revived' = revived /\ open_indices_' = open_indices_ /\ erasedOther' = erasedOther
        /\ idx' = idx
    BY DEF controlVars, session, manager
  <1>2. RunsAt(h) /\ CallsTyped
    BY TypeParts DEF ClientInv, Runs
  <1>3. Held'
    BY <1>1, HeldAt DEF LetsGo
  <1>4. RunsAt(h)'
    <2>1. Signals(h)'
      BY <1>1, <1>2 DEF RunsAt, Signals, Up
    <2>2. Destroyed(h)'
      <3>1. CASE SessionAlive(h) /\ sessionRefs'[h] = {}
        <4>1. dtor'[h] = "mark" /\ dtorBy'[h] = who /\ who # Nobody /\ ~SessionAlive(h)'
          BY <3>1 DEF LetsGo, Ends, SessionAlive, Destroyers, Nobody
        <4> QED BY <1>1, <3>1, <4>1 DEF Destroyed, Destroys, Dying
      <3>2. CASE ~(SessionAlive(h) /\ sessionRefs'[h] = {})
        <4>1. dtor'[h] = dtor[h] /\ dtorBy'[h] = dtorBy[h]
          BY <3>2 DEF LetsGo, Ends
        <4>2. ~SessionAlive(h) => call'[h] = call[h] \/ (call'[h] \in Up)
          OBVIOUS
        <4> QED BY <1>1, <1>2, <4>1, <4>2 DEF RunsAt, Destroyed, Destroys, Dying, Up
      <3> QED BY <3>1, <3>2
    <2>3. Stopped(h)'
      <3>1. Running(h)' <=> Running(h)
        BY <1>1 DEF Running
      <3>2. SessionAlive(h) => dtor[h] = "none"
        BY <1>2 DEF RunsAt, Destroyed
      <3>3. Stopping(h) => Stopping(h)'
        BY <1>1, <3>2 DEF Stopping, LetsGo, Ends
      <3>4. SessionAlive(h) \/ dtor[h] = "mark" => SessionAlive(h)' \/ dtor'[h] = "mark"
        BY DEF LetsGo, Ends, SessionAlive
      <3> QED BY <1>1, <1>2, <3>1, <3>3, <3>4 DEF RunsAt, Stopped
    <2> QED BY <2>1, <2>2, <2>3 DEF RunsAt
  <1>5. Runs'
    BY <1>1, <1>4, RunsElse DEF LetsGo
  <1>6. Known'
    <2>1. ASSUME NEW g \in Handles, ~erasedOther, SessionAlive(g)', ~closed_[g],
                 call'[g] # "release"
          PROVE  open_indices_[idx[g]] = g \/ g \in toClose
      <3>1. SessionAlive(g)
        BY <2>1 DEF LetsGo, SessionAlive
      <3>2. CASE call[g] # "release"
        BY <2>1, <3>1, <3>2 DEF ClientInv, Known
      <3>3. CASE call[g] = "release"
        BY <2>1, <3>3
      <3> QED BY <3>2, <3>3
    <2> QED BY <1>1, <2>1 DEF ClientInv, Known
  <1>7. Reports'
    <2>1. \A g \in Handles : SessionAlive(g)' => SessionAlive(g)
      BY DEF LetsGo, SessionAlive
    <2> QED BY <1>1, <1>2, <2>1, ReportsStays DEF ClientInv
  <1>8. Stages'
    BY DEF ClientInv, Stages, state, manager, controlVars
  <1> QED BY <1>3, <1>5, <1>6, <1>7, <1>8 DEF ClientInv

-----------------------------------------------------------------------------
(* lifecycle.cpp *)

\* set_global_config, init and connect concern no stream.
LEMMA ConnectKeeps ==
  ASSUME ClientInv, SetGlobalConfig \/ LibInit \/ Connect \/ ConnectSucceeded \/ ConnectEnds
  PROVE  ClientInv'
PROOF
  <1>1. FlagsTyped /\ StagesTyped
    BY TypeParts DEF ClientInv
  <1>2. /\ UNCHANGED <<streams, call, idx, closer, refs, session, told, toClose, closing,
                       open_indices_, erasedOther>>
        /\ control \notin {"shutdown", "close", "emit"}
    BY DEF SetGlobalConfig, LibInit, Connect, ConnectSucceeded, ConnectEnds, state, manager,
           controlVars
  <1>3. Held' /\ Runs' /\ Known' /\ Reports' /\ CallsTyped' /\ RefsTyped' /\ SessionsTyped'
    BY <1>2, StreamsStay
  <1> USE DEF SetGlobalConfig, LibInit, Connect, ConnectSucceeded, ConnectEnds, state, manager,
           controlVars
  <1>4. FlagsTyped'
    BY <1>1 DEF FlagsTyped
  <1>5. StagesTyped'
    <2>1. told' = told /\ told' \in [Handles -> 0..2]
      BY <1>1, <1>2 DEF StagesTyped
    <2>2. connects' \in 0..MaxConnects
      <3>1. connects' = connects \/ (connects < MaxConnects /\ connects' = connects + 1)
        OBVIOUS
      <3>2. connects \in 0..MaxConnects /\ MaxConnects \in Nat
        BY <1>1, ClientAssumption DEF StagesTyped
      <3> HIDE DEF SetGlobalConfig, LibInit, Connect, ConnectSucceeded, ConnectEnds
      <3> QED BY <3>1, <3>2
    <2>3. /\ lifecycle' \in {"kUninit", "kInited", "kConnecting", "kConnected"}
          /\ control' \in {"idle", "connect", "commit", "rollback"}
      BY <1>1 DEF StagesTyped
    <2> QED BY <2>1, <2>2, <2>3 DEF StagesTyped
  <1>6. TypeOK'
    BY <1>3, <1>4, <1>5, TypePartsNext
  <1>7. Stages'
    <2>1. Stages
      BY DEF ClientInv
    <2>2. CASE SetGlobalConfig \/ LibInit
      BY <1>2, <2>1, <2>2 DEF Stages
    <2>3. CASE Connect
      BY <1>2, <2>1, <2>3 DEF Stages
    <2>4. CASE ConnectSucceeded
      BY <1>2, <2>1, <2>4 DEF Stages
    <2>5. CASE ConnectEnds
      BY <1>2, <2>1, <2>5 DEF Stages
    <2> QED BY <2>2, <2>3, <2>4, <2>5
  <1> QED BY <1>3, <1>6, <1>7 DEF ClientInv

\* uninit finds streams and indices empty.
LEMMA UninitKeeps ==
  ASSUME ClientInv, UninitEnds
  PROVE  ClientInv'
PROOF
  <1>1. FlagsTyped /\ StagesTyped /\ CallsTyped
    BY TypeParts DEF ClientInv
  <1>2. /\ control = "uninit" /\ control' = "idle" /\ lifecycle' = "kUninit"
        /\ UNCHANGED <<call, idx, closer, refs, session, told, toClose, closing, erasedOther>>
    BY DEF UninitEnds
  <1>3. streams = {} /\ ~inited_ /\ \A i \in Indices : open_indices_[i] = Nobody
    BY <1>2 DEF ClientInv, Stages
  <1>4. streams' = streams /\ ~inited_' /\ open_indices_' = open_indices_
    BY <1>1, <1>3 DEF UninitEnds, CallsTyped
  <1>5. Held' /\ Runs' /\ Known' /\ Reports' /\ CallsTyped' /\ RefsTyped' /\ SessionsTyped'
    BY <1>2, <1>4, StreamsStay
  <1>6. FlagsTyped'
    BY <1>1 DEF FlagsTyped, UninitEnds
  <1>7. StagesTyped'
    BY <1>1 DEF StagesTyped, UninitEnds
  <1>8. TypeOK'
    BY <1>5, <1>6, <1>7, TypePartsNext
  <1>9. Stages'
    BY <1>2, <1>3, <1>4 DEF ClientInv, Stages
  <1> QED BY <1>5, <1>8, <1>9 DEF ClientInv

\* Disconnect takes the streams out of the map.
LEMMA DisconnectKeeps ==
  ASSUME ClientInv, NEW u \in BOOLEAN, Disconnect(u)
  PROVE  ClientInv'
PROOF
  <1>1. FlagsTyped /\ StagesTyped /\ CallsTyped /\ RefsTyped /\ SessionsTyped
    BY TypeParts DEF ClientInv
  <1>2. /\ control = "idle" /\ uninits' = u
        /\ UNCHANGED <<url, infra, manager, connects, toClose, closing, call, idx, closer,
                       sessionRefs, dtor, dtorBy, session, told, crashed>>
    BY DEF Disconnect
  <1>3. CASE /\ control' = "uninit" /\ lifecycle \notin {"kConnected", "kConnecting"}
             /\ UNCHANGED <<streams, streamRefs, lifecycle, has_connect_cb>>
    <2>1. Held' /\ Runs' /\ Known' /\ Reports' /\ CallsTyped' /\ RefsTyped' /\ SessionsTyped'
      BY <1>2, <1>3, StreamsStay DEF refs, manager
    <2>2. FlagsTyped'
      BY <1>1, <1>2, <1>3 DEF FlagsTyped, manager
    <2>3. StagesTyped'
      BY <1>1, <1>2, <1>3 DEF StagesTyped
    <2>4. TypeOK'
      BY <2>1, <2>2, <2>3, TypePartsNext
    <2>5. Stages'
      BY <1>2, <1>3 DEF ClientInv, Stages, manager
    <2> QED BY <2>1, <2>4, <2>5 DEF ClientInv
  <1>4. CASE /\ control' = "shutdown" /\ streams' = {}
             /\ streamRefs' = [h \in Handles |-> IF h \in streams
                                                 THEN (streamRefs[h] \ {"map"}) \union {"control"}
                                                 ELSE streamRefs[h]]
             /\ lifecycle' = "kInited" /\ has_connect_cb' = FALSE
             /\ lifecycle \in {"kConnected", "kConnecting"}
    <2>1. lifecycle = "kConnected"
      BY <1>2, <1>4 DEF ClientInv, Stages
    <2>2. TypeOK'
      <3>1. CallsTyped' /\ RefsTyped'
        BY <1>1, <1>2, <1>4 DEF CallsTyped, RefsTyped, StreamHolders, manager
      <3>2. SessionsTyped' /\ FlagsTyped'
        BY <1>1, <1>2, <1>4 DEF SessionsTyped, FlagsTyped, session, manager
      <3>3. StagesTyped'
        BY <1>1, <1>2, <1>4 DEF StagesTyped
      <3> QED BY <3>1, <3>2, <3>3, TypePartsNext
    <2>3. /\ \A h \in Handles : streamRefs'[h] = IF h \in streams
                                  THEN (streamRefs[h] \ {"map"}) \union {"control"}
                                  ELSE streamRefs[h]
          /\ call' = call /\ closer' = closer /\ sessionRefs' = sessionRefs /\ closed_' = closed_
      BY <1>2, <1>4 DEF session
    <2>4. Held'
      <3> SUFFICES ASSUME NEW h \in Handles
                   PROVE  (StreamHeld(h) /\ SessionHeld(h) /\ Placed(h))'
        BY DEF Held
      <3>1. StreamHeld(h) /\ SessionHeld(h) /\ Placed(h)
        BY DEF ClientInv, Held
      <3>2. StreamHeld(h)'
        BY <1>2, <1>4, <2>3, <3>1 DEF StreamHeld
      <3>3. streamRefs'[h] # {} <=> streamRefs[h] # {}
        BY <2>3, <3>1 DEF StreamHeld
      <3>4. SessionHeld(h)'
        BY <1>2, <2>3, <3>1, <3>3 DEF SessionHeld
      <3>5. "control" \notin streamRefs[h]
        BY <1>2, <3>1 DEF StreamHeld
      <3>6. Placed(h)'
        BY <1>4, <2>3, <3>1, <3>5 DEF Placed
      <3> QED BY <3>2, <3>4, <3>6
    <2>5. Known'
      BY <1>2, KnownStays DEF ClientInv, session, SessionAlive, manager
    <2>6. Reports'
      <3>1. \A h \in Handles : "control" \in streamRefs'[h] => h \in streams
        BY <1>2, <2>3 DEF ClientInv, Held, StreamHeld
      <3> QED BY <1>2, <1>4, <2>3, <3>1 DEF ClientInv, Reports, SessionAlive
    <2>7. Stages'
      BY <1>2, <1>4, <2>1 DEF ClientInv, Stages, manager
    <2>8. Runs'
      BY <1>2, RunsStays DEF ClientInv, Runs, session, Stopping
    <2> QED BY <2>2, <2>4, <2>5, <2>6, <2>7, <2>8 DEF ClientInv
  <1> QED BY <1>3, <1>4 DEF Disconnect

\* Shutdown collects the indexed sessions.
LEMMA ManagerShutdownKeeps ==
  ASSUME ClientInv, ManagerShutdown
  PROVE  ClientInv'
PROOF
  <1>1. FlagsTyped /\ StagesTyped /\ CallsTyped /\ RefsTyped /\ SessionsTyped
    BY TypeParts DEF ClientInv
  <1>2. /\ control = "shutdown" /\ toClose' = Indexed /\ control' = "close" /\ ~inited_'
        /\ sessionRefs' = [h \in Handles |-> sessionRefs[h] \union
                                              (IF h \in Indexed THEN {"control"} ELSE {})]
        /\ open_indices_' = [i \in Indices |-> Nobody]
        /\ UNCHANGED <<state, streams, erasedOther, uninits, connects, closing, call, idx, closer,
                       streamRefs, dtor, dtorBy, session, told, crashed>>
    BY DEF ManagerShutdown
  <1>3. Indexed \subseteq Handles
    BY DEF Indexed
  <1>4. TypeOK'
    <2>1. CallsTyped'
      BY <1>1, <1>2, <1>3 DEF CallsTyped
    <2>2. RefsTyped'
      BY <1>1, <1>2 DEF RefsTyped, SessionHolders
    <2>3. SessionsTyped' /\ FlagsTyped'
      <3>1. inited_' = FALSE
        BY DEF ManagerShutdown
      <3> QED BY <1>1, <1>2, <3>1 DEF SessionsTyped, FlagsTyped, session, state
    <2>4. StagesTyped'
      BY <1>1, <1>2 DEF StagesTyped, state
    <2> QED BY <2>1, <2>2, <2>3, <2>4, TypePartsNext
  <1>5. \A h \in Handles : sessionRefs'[h] = sessionRefs[h] \union
                                             (IF h \in Indexed THEN {"control"} ELSE {})
    BY <1>2
  <1>6. \A h \in Handles : SessionAlive(h)' <=> SessionAlive(h)
    BY <1>5 DEF Indexed, SessionAlive
  <1>7. Held'
    <2> SUFFICES ASSUME NEW h \in Handles
                 PROVE  (StreamHeld(h) /\ SessionHeld(h) /\ Placed(h))'
      BY DEF Held
    <2>1. StreamHeld(h) /\ SessionHeld(h) /\ Placed(h)
      BY DEF ClientInv, Held
    <2>2. StreamHeld(h)'
      BY <1>2, <2>1 DEF StreamHeld
    <2>3. SessionHeld(h)'
      BY <1>2, <1>5, <2>1 DEF SessionHeld, session
    <2>4. Placed(h)'
      BY <1>2, <1>6, <2>1 DEF Placed, SessionAlive, session
    <2> QED BY <2>2, <2>3, <2>4
  <1>8. Known'
    <2>1. \A g, h \in Indexed : idx[g] = idx[h] => g = h
      BY <1>1, NobodyAssumption DEF ClientInv, Known, Indexed
    <2>2. \A h \in Handles : open_indices_[idx[h]] = h /\ SessionAlive(h) => h \in Indexed
      BY <1>1 DEF Indexed, CallsTyped
    <2>3. toClose = {}
      BY <1>2 DEF ClientInv, Stages
    <2> QED BY <1>2, <1>6, <2>1, <2>2, <2>3 DEF ClientInv, Known, session
  <1>9. Reports'
    BY <1>1, <1>2, <1>6, ReportsStays DEF ClientInv, session
  <1>10. Stages'
    BY <1>2 DEF ClientInv, Stages, state
  <1>11. Runs'
    <2> SUFFICES ASSUME NEW h \in Handles
                 PROVE  RunsAt(h)'
      BY DEF Runs
    <2>1. RunsAt(h) /\ ~Destroys("control", h)
      BY <1>2 DEF ClientInv, Runs, RunsAt, Destroyed
    <2>2. "rtc" \in sessionRefs'[h] => "rtc" \in sessionRefs[h]
      BY <1>5
    <2>3. Signals(h)'
      BY <1>2, <2>1, <2>2 DEF RunsAt, Signals, session
    <2>4. Destroyed(h)'
      BY <1>2, <1>6, <2>1 DEF RunsAt, Destroyed, session, Dying, Destroys
    <2>5. Stopped(h)'
      BY <1>2, <1>6, <2>1 DEF RunsAt, Stopped, Stopping, Running, session
    <2> QED BY <2>3, <2>4, <2>5 DEF RunsAt
  <1> QED BY <1>4, <1>7, <1>8, <1>9, <1>10, <1>11 DEF ClientInv

\* Shutdown lets go of a session it has closed.
LEMMA ShutdownReleasesKeeps ==
  ASSUME ClientInv, NEW h \in Handles, ShutdownReleases(h)
  PROVE  ClientInv'
PROOF
  <1>1. FlagsTyped /\ StagesTyped /\ CallsTyped /\ RefsTyped /\ SessionsTyped
    BY TypeParts DEF ClientInv
  <1>2. /\ control = "close" /\ toClose = {} /\ "control" \in sessionRefs[h]
        /\ HoldSession(h, "control", sessionRefs[h] \ {"control"})
        /\ UNCHANGED <<state, streams, manager, controlVars, call, idx, closer, streamRefs, session,
                       told, crashed>>
    BY DEF ShutdownReleases
  <1>3. LetsGo(h, "control") /\ sessionRefs'[h] = sessionRefs[h] \ {"control"}
    <2>1. "control" \in Destroyers /\ sessionRefs[h] \ {"control"} \in SUBSET SessionHolders
      BY <1>1 DEF RefsTyped, Destroyers
    <2> QED BY <1>1, <1>2, <2>1, HoldLeaves DEF LetsGo
  <1>4. TypeOK'
    BY <1>1, <1>2, <1>3, SameTypes DEF LetsGo, RefsTyped, CallsTyped
  <1>5. /\ call' = call /\ closer' = closer /\ control' = control /\ toClose' = toClose
        /\ closing' = closing /\ streams' = streams /\ streamRefs' = streamRefs
    BY <1>2 DEF controlVars
  <1>6. StreamHeld(h) /\ SessionHeld(h) /\ Placed(h)
    BY DEF ClientInv, Held
  <1>7. (StreamHeld(h) /\ SessionHeld(h) /\ Placed(h))'
    <2>1. StreamHeld(h)'
      BY <1>5, <1>6 DEF StreamHeld
    <2>2. SessionHeld(h)'
      BY <1>2, <1>3, <1>5, <1>6 DEF SessionHeld, session
    <2>3. Placed(h)'
      BY <1>2, <1>3, <1>5, <1>6 DEF Placed, session
    <2> QED BY <2>1, <2>2, <2>3
  <1>8. /\ SessionAlive(h) /\ (call[h] \notin {"none", "registered"})
        /\ "rtc" \in sessionRefs'[h] => "rtc" \in sessionRefs[h]
    BY <1>2, <1>3, <1>6 DEF Placed, SessionAlive
  <1>9. /\ call[h] = "release" => call'[h] = "release"
        /\ \A g \in Handles : "control" \in streamRefs'[g] => "control" \in streamRefs[g]
    BY <1>5
  <1> QED BY <1>2, <1>3, <1>4, <1>5, <1>7, <1>8, <1>9, LetsGoKeeps DEF Destroyers, Up

\* Disconnect lets go of a stream_s.
LEMMA DisconnectDropsKeeps ==
  ASSUME ClientInv, NEW h \in Handles, DisconnectDrops(h)
  PROVE  ClientInv'
PROOF
  <1>1. FlagsTyped /\ StagesTyped /\ CallsTyped /\ RefsTyped /\ SessionsTyped
    BY TypeParts DEF ClientInv
  <1>2. /\ control = "close" /\ toClose = {} /\ "control" \in streamRefs[h]
        /\ DropStream(h, "control", sessionRefs[h])
        /\ UNCHANGED <<state, streams, manager, controlVars, call, idx, closer, session, told,
                       crashed>>
    BY DEF DisconnectDrops
  <1>3. /\ RefsTyped' /\ LetsGo(h, "control") /\ streamRefs'[h] = streamRefs[h] \ {"control"}
        /\ sessionRefs'[h] = IF streamRefs'[h] = {} THEN sessionRefs[h] \ {"impl"}
                             ELSE sessionRefs[h]
        /\ \A g \in Handles : g # h => streamRefs'[g] = streamRefs[g]
    <2>1. "control" \in Destroyers /\ sessionRefs[h] \in SUBSET SessionHolders
      BY <1>1 DEF RefsTyped, Destroyers
    <2> QED BY <1>1, <1>2, <2>1, DropLeaves
  <1>4. TypeOK'
    BY <1>1, <1>2, <1>3, SameTypes DEF CallsTyped
  <1>5. /\ call' = call /\ closer' = closer /\ control' = control /\ toClose' = toClose
        /\ closing' = closing /\ streams' = streams
    BY <1>2 DEF controlVars
  <1>6. StreamHeld(h) /\ SessionHeld(h) /\ Placed(h)
    BY DEF ClientInv, Held
  <1>7. (StreamHeld(h) /\ SessionHeld(h) /\ Placed(h))'
    <2>1. StreamHeld(h)'
      BY <1>2, <1>3, <1>5, <1>6 DEF StreamHeld
    <2>2. SessionHeld(h)'
      BY <1>2, <1>3, <1>5, <1>6 DEF SessionHeld, session
    <2>3. Placed(h)'
      BY <1>2, <1>3, <1>5, <1>6 DEF Placed, session
    <2> QED BY <2>1, <2>2, <2>3
  <1>8. /\ SessionAlive(h) => call[h] \notin {"none", "registered"}
        /\ sessionRefs'[h] \subseteq sessionRefs[h]
    BY <1>3, <1>6 DEF Placed, SessionAlive
  <1>9. \A g \in Handles : "control" \in streamRefs'[g] => "control" \in streamRefs[g]
    BY <1>3
  <1> QED BY <1>2, <1>3, <1>4, <1>5, <1>7, <1>8, <1>9, LetsGoKeeps DEF Destroyers, Up, SessionAlive

\* Disconnect returns when it holds nothing any more.
LEMMA DisconnectEndsKeeps ==
  ASSUME ClientInv, DisconnectEnds
  PROVE  ClientInv'
PROOF
  <1>1. FlagsTyped /\ StagesTyped /\ CallsTyped /\ RefsTyped /\ SessionsTyped
    BY TypeParts DEF ClientInv
  <1>2. /\ control = "close" /\ toClose = {} /\ ControlFree
        /\ \A h \in Handles : "control" \notin sessionRefs[h] /\ "control" \notin streamRefs[h]
        /\ control' \in {"uninit", "idle"}
        /\ UNCHANGED <<state, streams, manager, uninits, connects, toClose, closing, call, idx,
                       closer, refs, session, told, crashed>>
    BY DEF DisconnectEnds
  <1>3. TypeOK'
    <2>1. CallsTyped' /\ RefsTyped'
      BY <1>1, <1>2 DEF CallsTyped, RefsTyped, manager, refs
    <2>2. SessionsTyped' /\ FlagsTyped'
      BY <1>1, <1>2 DEF SessionsTyped, FlagsTyped, session, state, manager
    <2>3. StagesTyped'
      BY <1>1, <1>2 DEF StagesTyped, state
    <2> QED BY <2>1, <2>2, <2>3, TypePartsNext
  <1>4. Held'
    BY <1>2 DEF ClientInv, Held, StreamHeld, SessionHeld, Placed, refs, session
  <1>5. Runs'
    <2> SUFFICES ASSUME NEW h \in Handles
                 PROVE  RunsAt(h)'
      BY DEF Runs
    <2>1. RunsAt(h) /\ ~Destroys("control", h) /\ closing # h
      BY <1>2, NobodyAssumption DEF ClientInv, Runs, ControlFree, Stages
    <2>2. Signals(h)'
      BY <1>2, <2>1 DEF RunsAt, Signals, refs, session
    <2>3. Destroyed(h)'
      BY <1>2, <2>1 DEF RunsAt, Destroyed, refs, session, Dying, Destroys, SessionAlive
    <2>4. Stopped(h)'
      BY <1>2, <2>1 DEF RunsAt, Stopped, Stopping, Running, refs, session, SessionAlive
    <2> QED BY <2>2, <2>3, <2>4 DEF RunsAt
  <1>6. Known' /\ Reports'
    BY <1>2 DEF ClientInv, Known, Reports, refs, session, manager, SessionAlive
  <1>7. Stages'
    BY <1>2 DEF ClientInv, Stages, state, manager
  <1> QED BY <1>3, <1>4, <1>5, <1>6, <1>7 DEF ClientInv

-----------------------------------------------------------------------------
(* RtcStreamSession::Close, called by Shutdown *)

\* Shutdown marks one of its sessions closed.
LEMMA ShutdownMarksKeeps ==
  ASSUME ClientInv, NEW h \in Handles, ShutdownMarks(h)
  PROVE  ClientInv'
PROOF
  <1>1. FlagsTyped /\ StagesTyped /\ CallsTyped /\ RefsTyped /\ SessionsTyped
    BY TypeParts DEF ClientInv
  <1>2. /\ control = "close" /\ h \in toClose /\ closing = Nobody
        /\ \/ closed_[h] /\ toClose' = toClose \ {h} /\ UNCHANGED <<closing, closed_>>
           \/ /\ ~closed_[h] /\ closing' = h /\ closed_' = [closed_ EXCEPT ![h] = TRUE]
              /\ UNCHANGED toClose
        /\ UNCHANGED <<state, streams, manager, control, uninits, connects, call, idx, closer, refs,
                       signaling_, watchdog, revived, told, crashed>>
    BY DEF ShutdownMarks
  <1>3. TypeOK'
    <2>1. CallsTyped' /\ RefsTyped'
      BY <1>1, <1>2 DEF CallsTyped, RefsTyped, manager, refs
    <2>2. SessionsTyped' /\ FlagsTyped'
      BY <1>1, <1>2 DEF SessionsTyped, FlagsTyped, state, manager
    <2>3. StagesTyped'
      BY <1>1, <1>2 DEF StagesTyped, state
    <2> QED BY <2>1, <2>2, <2>3, TypePartsNext
  <1>4. \A g \in Handles : /\ g # h => (closed_'[g] <=> closed_[g])
                           /\ closed_[g] => closed_'[g]
    BY <1>1, <1>2 DEF SessionsTyped
  <1>5. streams = {}
    BY <1>2 DEF ClientInv, Stages
  <1>6. Held'
    <2> SUFFICES ASSUME NEW g \in Handles
                 PROVE  (StreamHeld(g) /\ SessionHeld(g) /\ Placed(g))'
      BY DEF Held
    <2>1. StreamHeld(g) /\ SessionHeld(g) /\ Placed(g)
      BY DEF ClientInv, Held
    <2>2. (StreamHeld(g) /\ SessionHeld(g))'
      BY <1>2, <1>4, <2>1 DEF StreamHeld, SessionHeld, refs
    <2>3. g = h => call[g] \notin {"none", "registered"}
      BY <1>2, <2>1 DEF SessionHeld, Placed
    <2>4. Placed(g)'
      BY <1>2, <1>4, <2>1, <2>3 DEF Placed, refs
    <2> QED BY <2>2, <2>4
  <1>7. Known'
    BY <1>2, <1>4 DEF ClientInv, Known, manager, refs, SessionAlive
  <1>8. Reports'
    <2>1. Reports /\ sessionRefs' = sessionRefs /\ streamRefs' = streamRefs /\ told' = told
          /\ streams' = streams
      BY <1>2 DEF ClientInv, refs
    <2>2. CASE closing' = closing /\ closed_' = closed_
      BY <2>1, <2>2 DEF Reports, SessionAlive
    <2>3. CASE closing' = h /\ closed_' = [closed_ EXCEPT ![h] = TRUE]
      <3>1. closed_'[h]
        BY <1>1, <2>3 DEF SessionsTyped
      <3>2. \A g \in Handles : closed_[g] \/ g = h <=> closed_'[g]
        BY <1>4, <3>1
      <3>3. \A g \in Handles : SessionAlive(g)' <=> SessionAlive(g)
        BY <2>1 DEF SessionAlive
      <3>4. \A g \in Handles : closing # g
        BY <1>2, NobodyAssumption
      <3> QED BY <1>5, <2>1, <2>3, <3>1, <3>2, <3>3, <3>4 DEF Reports
    <2> QED BY <1>2, <2>2, <2>3
  <1>9. Stages'
    BY <1>2 DEF ClientInv, Stages, state, manager
  <1>10. Runs'
    <2> SUFFICES ASSUME NEW g \in Handles
                 PROVE  RunsAt(g)'
      BY DEF Runs
    <2>1. RunsAt(g) /\ toClose # {}
      BY <1>2 DEF ClientInv, Runs
    <2>2. Signals(g)'
      BY <1>2, <2>1 DEF RunsAt, Signals, refs
    <2>3. Destroyed(g)'
      BY <1>2, <1>4, <2>1 DEF RunsAt, Destroyed, refs, SessionAlive, Dying, Destroys
    <2>4. Stopped(g)'
      <3>1. g # closing /\ (Stopping(g) => Stopping(g)')
        BY <1>2, NobodyAssumption DEF Stopping, refs
      <3>2. closed_'[g] /\ ~closed_[g] => Stopping(g)'
        BY <1>2, <1>4 DEF Stopping, refs
      <3> QED BY <1>2, <1>4, <2>1, <3>1, <3>2 DEF RunsAt, Stopped, Running, refs, SessionAlive
    <2> QED BY <2>2, <2>3, <2>4 DEF RunsAt
  <1> QED BY <1>3, <1>6, <1>7, <1>8, <1>9, <1>10 DEF ClientInv

\* Close stops what ran and reports, in Shutdown or in close_stream.
LEMMA CloseStopsKeeps ==
  ASSUME ClientInv,
         ShutdownStops \/ ShutdownEmits
         \/ \E h \in Handles : CloseStopsSession(h) \/ CloseEmits(h)
  PROVE  ClientInv'
PROOF
  <1>1. FlagsTyped /\ StagesTyped /\ CallsTyped /\ RefsTyped /\ SessionsTyped
    BY TypeParts DEF ClientInv
  <1>2. CASE ShutdownStops
    <2>1. /\ control = "close" /\ closing # Nobody /\ CloseStops(closing) /\ control' = "emit"
          /\ UNCHANGED <<state, streams, manager, uninits, connects, toClose, closing, call, idx,
                         closer, refs, told, crashed>>
      BY <1>2 DEF ShutdownStops
    <2>2. /\ closed_' = closed_ /\ revived' = revived /\ SessionsTyped'
          /\ watchdog' = [watchdog EXCEPT ![closing] = FALSE]
          /\ signaling_' = [signaling_ EXCEPT ![closing] = "none"]
      BY <1>1, <2>1 DEF CloseStops, SessionsTyped
    <2>3. TypeOK'
      <3>1. CallsTyped' /\ RefsTyped'
        BY <1>1, <2>1 DEF CallsTyped, RefsTyped, manager, refs
      <3>2. FlagsTyped'
        BY <1>1, <2>1 DEF FlagsTyped, state, manager
      <3>3. StagesTyped'
        BY <1>1, <2>1 DEF StagesTyped, state
      <3> QED BY <2>2, <3>1, <3>2, <3>3, TypePartsNext
    <2>4. Held'
      BY <2>1, <2>2 DEF ClientInv, Held, StreamHeld, SessionHeld, Placed, refs
    <2>5. Known' /\ Reports'
      BY <2>1, <2>2 DEF ClientInv, Known, Reports, manager, refs, SessionAlive
    <2>6. Stages'
      BY <2>1 DEF ClientInv, Stages, state, manager
    <2>7. Runs'
      <3> SUFFICES ASSUME NEW g \in Handles
                   PROVE  RunsAt(g)'
        BY DEF Runs
      <3>1. RunsAt(g) /\ toClose # {}
        BY <2>1 DEF ClientInv, Runs, Stages
      <3>2. CASE g = closing
        <4>1. signaling_'[g] = "none" /\ ~watchdog'[g]
          BY <1>1, <2>2, <3>2 DEF SessionsTyped
        <4>2. Signals(g)'
          BY <2>1, <3>1, <4>1 DEF RunsAt, Signals, refs
        <4>3. Destroyed(g)'
          BY <2>1, <2>2, <3>1 DEF RunsAt, Destroyed, refs, SessionAlive, Dying, Destroys
        <4>4. Stopped(g)'
          BY <4>1 DEF Stopped, Running
        <4> QED BY <4>2, <4>3, <4>4 DEF RunsAt
      <3>3. CASE g # closing
        <4>1. signaling_'[g] = signaling_[g] /\ watchdog'[g] = watchdog[g]
          BY <1>1, <2>2, <3>3 DEF SessionsTyped
        <4>2. Stopping(g) => Stopping(g)'
          BY <2>1, <3>3 DEF Stopping, refs
        <4> QED BY <2>1, <2>2, <3>1, <4>1, <4>2, RunsStays DEF refs
      <3> QED BY <3>2, <3>3
    <2> QED BY <2>3, <2>4, <2>5, <2>6, <2>7 DEF ClientInv
  <1>3. CASE ShutdownEmits
    <2>1. /\ control = "emit" /\ ToldClosed({closing}) /\ toClose' = toClose \ {closing}
          /\ closing' = Nobody /\ control' = "close"
          /\ UNCHANGED <<state, streams, manager, uninits, connects, call, idx, closer, refs,
                         session, crashed>>
      BY <1>3 DEF ShutdownEmits
    <2>2. /\ told' \in [Handles -> 0..2]
          /\ \A h \in Handles : /\ told'[h] = 0 => told[h] = 0
                                /\ told'[h] = 0 /\ StreamAlive(h) => h # closing
      BY <1>1, <2>1, ToldLeaves DEF StagesTyped
    <2>3. TypeOK'
      <3>1. CallsTyped' /\ RefsTyped'
        BY <1>1, <2>1 DEF CallsTyped, RefsTyped, manager, refs
      <3>2. FlagsTyped' /\ SessionsTyped'
        BY <1>1, <2>1 DEF FlagsTyped, SessionsTyped, state, manager, session
      <3>3. StagesTyped'
        BY <1>1, <2>1, <2>2 DEF StagesTyped, state
      <3> QED BY <3>1, <3>2, <3>3, TypePartsNext
    <2>4. Held'
      <3>1. closed_[closing]
        BY <2>1 DEF ClientInv, Reports, Stages
      <3> QED BY <2>1, <3>1 DEF ClientInv, Held, StreamHeld, SessionHeld, Placed, refs, session
    <2>5. Known'
      <3>1. closed_[closing] /\ Known
        BY <2>1 DEF ClientInv, Reports, Stages
      <3> QED BY <2>1, <3>1 DEF Known, manager, refs, session, SessionAlive
    <2>6. Reports'
      <3>1. \A h \in Handles : "control" \in streamRefs[h] /\ told'[h] = 0 => h # closing
        BY <2>2 DEF StreamAlive
      <3>2. \A h \in Handles : told'[h] = 0 => told[h] = 0
        BY <2>2
      <3> QED BY <2>1, <3>1, <3>2 DEF ClientInv, Reports, refs, session, SessionAlive
    <2>7. Stages'
      BY <2>1 DEF ClientInv, Stages, state, manager
    <2>8. Runs'
      <3> SUFFICES ASSUME NEW g \in Handles
                   PROVE  RunsAt(g)'
        BY DEF Runs
      <3>1. RunsAt(g) /\ (Stopping(g) => Stopping(g)')
        BY <2>1 DEF ClientInv, Runs, Stopping, refs
      <3> QED BY <2>1, <3>1, RunsStays DEF refs, session
    <2> QED BY <2>3, <2>4, <2>5, <2>6, <2>7, <2>8 DEF ClientInv
  <1>4. ASSUME NEW h \in Handles, CloseStopsSession(h) \/ CloseEmits(h)
        PROVE  ClientInv'
    <2>1. /\ closer[h] \in {"stop", "emit"}
          /\ \E w \in {"emit", "end"} : closer' = [closer EXCEPT ![h] = w]
          /\ UNCHANGED <<state, streams, manager, controlVars, call, idx, refs, closed_, crashed>>
      BY <1>4 DEF CloseStopsSession, CloseEmits, CloseStops, session
    <2>2. SessionsTyped'
      BY <1>1, <1>4 DEF CloseStopsSession, CloseEmits, CloseStops, SessionsTyped, session
    <2>3. /\ told' \in [Handles -> 0..2]
          /\ \A g \in Handles : told'[g] = 0 => told[g] = 0
      <3>1. told \in [Handles -> 0..2]
        BY <1>1 DEF StagesTyped
      <3>2. CASE told' = told
        BY <3>1, <3>2
      <3>3. CASE ToldClosed({h})
        BY <3>1, <3>3, ToldLeaves
      <3> QED BY <1>4, <3>2, <3>3 DEF CloseStopsSession, CloseEmits
    <2>4. TypeOK'
      <3>1. CallsTyped' /\ RefsTyped'
        BY <1>1, <2>1 DEF CallsTyped, RefsTyped, manager, refs, controlVars, CloserPlaces
      <3>2. FlagsTyped'
        BY <1>1, <2>1 DEF FlagsTyped, state, manager, controlVars
      <3>3. StagesTyped'
        BY <1>1, <2>1, <2>3 DEF StagesTyped, state, controlVars
      <3> QED BY <2>2, <3>1, <3>2, <3>3, TypePartsNext
    <2>5. \A g \in Handles : closer'[g] = closer[g] \/ {closer[g], closer'[g]} \subseteq Closing
      BY <1>1, <2>1 DEF CallsTyped, Closing
    <2>6. Held'
      <3> SUFFICES ASSUME NEW g \in Handles
                   PROVE  (StreamHeld(g) /\ SessionHeld(g) /\ Placed(g))'
        BY DEF Held
      <3>1. StreamHeld(g) /\ SessionHeld(g) /\ Placed(g)
        BY DEF ClientInv, Held
      <3> QED BY <2>1, <2>5, <3>1 DEF StreamHeld, SessionHeld, Placed, refs, controlVars, Closing
    <2>7. Known'
      BY <2>1, KnownStays DEF ClientInv, manager, refs, SessionAlive, controlVars
    <2>8. Reports'
      BY <1>1, <2>1, <2>3, ReportsStays DEF ClientInv, refs, SessionAlive, controlVars
    <2>9. Stages'
      BY <2>1 DEF ClientInv, Stages, state, manager, controlVars
    <2>10. Runs'
      <3>1. /\ revived' = revived /\ control' = control /\ toClose' = toClose /\ closing' = closing
            /\ call' = call /\ sessionRefs' = sessionRefs /\ dtor' = dtor /\ dtorBy' = dtorBy
            /\ closed_' = closed_
        BY <1>4, <2>1 DEF CloseStopsSession, CloseEmits, CloseStops, session, refs, controlVars
      <3>2. /\ CloseStopsSession(h) => signaling_'[h] = "none" /\ ~watchdog'[h]
            /\ CloseEmits(h) => /\ signaling_'[h] = signaling_[h] /\ watchdog'[h] = watchdog[h]
                                /\ closer[h] = "emit"
            /\ \A g \in Handles : g # h => /\ signaling_'[g] = signaling_[g]
                                           /\ watchdog'[g] = watchdog[g] /\ closer'[g] = closer[g]
        BY <1>1, <1>4, <2>1
           DEF CloseStopsSession, CloseEmits, CloseStops, SessionsTyped, session, CallsTyped
      <3>3. RunsAt(h)
        BY DEF ClientInv, Runs
      <3>4. CASE CloseStopsSession(h)
        <4>1. Signals(h)' /\ Stopped(h)'
          BY <3>1, <3>2, <3>3, <3>4 DEF RunsAt, Signals, Stopped, Running
        <4>2. Destroyed(h)'
          BY <3>1, <3>3 DEF RunsAt, Destroyed, SessionAlive, Dying, Destroys
        <4>3. RunsAt(h)'
          BY <4>1, <4>2 DEF RunsAt
        <4> QED BY <3>1, <3>2, <4>3, RunsElse
      <3>5. CASE CloseEmits(h)
        <4>1. Stopping(h) => Stopping(h)'
          BY <3>1, <3>2, <3>5 DEF Stopping
        <4>2. RunsAt(h)'
          BY <3>1, <3>2, <3>3, <3>5, <4>1, RunsStays
        <4> QED BY <3>1, <3>2, <4>2, RunsElse
      <3> QED BY <1>4, <3>4, <3>5
    <2> QED BY <2>4, <2>6, <2>7, <2>8, <2>9, <2>10 DEF ClientInv
  <1> QED BY <1>2, <1>3, <1>4

-----------------------------------------------------------------------------
(* librflow_close_stream *)

\* close_stream takes the stream out of the map and the session out of it.
LEMMA CloseStreamKeeps ==
  ASSUME ClientInv, NEW h \in Handles, CloseStream(h)
  PROVE  ClientInv'
PROOF
  <1>1. FlagsTyped /\ StagesTyped /\ CallsTyped /\ RefsTyped /\ SessionsTyped
    BY TypeParts DEF ClientInv
  <1>2. /\ call[h] = "ok" /\ h \in streams /\ streams' = streams \ {h}
        /\ streamRefs' = [streamRefs EXCEPT ![h] = (streamRefs[h] \ {"map"}) \union {"closer"}]
        /\ sessionRefs' = [sessionRefs EXCEPT ![h] = (sessionRefs[h] \ {"impl"}) \union {"closer"}]
        /\ closer' = [closer EXCEPT ![h] = "mark"]
        /\ UNCHANGED <<state, manager, controlVars, call, idx, dtor, dtorBy, session, told,
                       crashed>>
    BY DEF CloseStream
  <1>3. TypeOK'
    <2>1. CallsTyped'
      BY <1>1, <1>2 DEF CallsTyped, CloserPlaces, manager, controlVars
    <2>2. RefsTyped'
      BY <1>1, <1>2 DEF RefsTyped, StreamHolders, SessionHolders
    <2>3. SessionsTyped' /\ FlagsTyped'
      BY <1>1, <1>2 DEF SessionsTyped, FlagsTyped, session, state, manager, controlVars
    <2>4. StagesTyped'
      BY <1>1, <1>2 DEF StagesTyped, state, controlVars
    <2> QED BY <2>1, <2>2, <2>3, <2>4, TypePartsNext
  <1>4. StreamHeld(h) /\ SessionHeld(h) /\ Placed(h)
    BY DEF ClientInv, Held
  <1>5. /\ closer[h] = "none" /\ "control" \notin streamRefs[h] /\ "impl" \in sessionRefs[h]
        /\ "map" \in streamRefs[h]
    <2>1. "map" \in streamRefs[h] /\ closer[h] = "none"
      BY <1>2, <1>4 DEF Placed, StreamHeld
    <2>2. control = "idle"
      BY <1>2 DEF ClientInv, Stages
    <2> QED BY <1>2, <1>4, <2>1, <2>2 DEF StreamHeld, SessionHeld
  <1>6. /\ streamRefs'[h] = (streamRefs[h] \ {"map"}) \union {"closer"}
        /\ sessionRefs'[h] = (sessionRefs[h] \ {"impl"}) \union {"closer"}
        /\ closer'[h] = "mark"
        /\ \A g \in Handles : g # h => /\ closer'[g] = closer[g] /\ streamRefs'[g] = streamRefs[g]
                                       /\ sessionRefs'[g] = sessionRefs[g]
    BY <1>1, <1>2 DEF CallsTyped, RefsTyped
  <1>7. Held'
    <2>1. call' = call /\ closed_' = closed_ /\ control' = control /\ toClose' = toClose
      BY <1>2 DEF session, controlVars
    <2>2. StreamHeld(h)'
      BY <1>2, <1>4, <1>5, <1>6, <2>1 DEF StreamHeld, Closing
    <2>3. SessionHeld(h)'
      BY <1>2, <1>4, <1>5, <1>6, <2>1 DEF SessionHeld, Closing
    <2>4. Placed(h)'
      BY <1>2, <1>5, <1>6, <2>1 DEF Placed
    <2> QED BY <1>2, <1>6, <2>1, <2>2, <2>3, <2>4, HeldAt
  <1>8. \A g \in Handles : SessionAlive(g)' <=> SessionAlive(g)
    BY <1>5, <1>6 DEF SessionAlive
  <1>9. Known'
    BY <1>2, <1>8, KnownStays DEF ClientInv, manager, controlVars, session
  <1>10. Reports'
    <2>1. \A g \in Handles : "control" \in streamRefs'[g] => "control" \in streamRefs[g]
      BY <1>6
    <2> QED BY <1>1, <1>2, <1>8, <2>1, ReportsStays DEF ClientInv, controlVars, session
  <1>11. Stages'
    BY <1>2 DEF ClientInv, Stages, state, manager, controlVars
  <1>12. Runs'
    <2>1. RunsAt(h)'
      <3>1. RunsAt(h) /\ ("rtc" \in sessionRefs'[h] => "rtc" \in sessionRefs[h])
        BY <1>6 DEF ClientInv, Runs
      <3>2. Signals(h)'
        BY <1>2, <3>1 DEF RunsAt, Signals, session
      <3>3. Destroyed(h)'
        BY <1>2, <1>8, <3>1 DEF RunsAt, Destroyed, session, controlVars, Dying, Destroys
      <3>4. Stopped(h)'
        BY <1>2, <1>5, <1>8, <3>1 DEF RunsAt, Stopped, Stopping, Running, session, controlVars
      <3> QED BY <3>2, <3>3, <3>4 DEF RunsAt
    <2> QED BY <1>2, <1>6, <2>1, RunsElse DEF session, controlVars
  <1> QED BY <1>3, <1>7, <1>9, <1>10, <1>11, <1>12 DEF ClientInv

\* close_stream marks the session closed.
LEMMA CloseMarksKeeps ==
  ASSUME ClientInv, NEW h \in Handles, CloseMarks(h)
  PROVE  ClientInv'
PROOF
  <1>1. FlagsTyped /\ StagesTyped /\ CallsTyped /\ RefsTyped /\ SessionsTyped
    BY TypeParts DEF ClientInv
  <1>2. PICK w \in {"stop", "end"} :
          /\ closer[h] = "mark" /\ closed_' = [closed_ EXCEPT ![h] = TRUE]
          /\ closer' = [closer EXCEPT ![h] = w] /\ (~closed_[h] => w = "stop")
          /\ UNCHANGED <<state, streams, manager, controlVars, call, idx, refs, signaling_,
                         watchdog, revived, told, crashed>>
    BY DEF CloseMarks
  <1>3. TypeOK'
    <2>1. CallsTyped' /\ RefsTyped'
      BY <1>1, <1>2 DEF CallsTyped, RefsTyped, CloserPlaces, manager, controlVars, refs
    <2>2. SessionsTyped' /\ FlagsTyped'
      BY <1>1, <1>2 DEF SessionsTyped, FlagsTyped, state, manager, controlVars
    <2>3. StagesTyped'
      BY <1>1, <1>2 DEF StagesTyped, state, controlVars
    <2> QED BY <2>1, <2>2, <2>3, TypePartsNext
  <1>4. StreamHeld(h) /\ SessionHeld(h) /\ Placed(h)
    BY DEF ClientInv, Held
  <1>5. call[h] = "ok" /\ h \notin streams /\ "control" \notin streamRefs[h]
    BY <1>2, <1>4 DEF Placed
  <1>6. /\ closer'[h] \in {"stop", "end"} /\ (~closed_[h] => closer'[h] = "stop")
        /\ \A g \in Handles : g # h => closer'[g] = closer[g]
    BY <1>1, <1>2 DEF CallsTyped
  <1>7. /\ \A g \in Handles : g # h => (closed_'[g] <=> closed_[g])
        /\ \A g \in Handles : closed_[g] => closed_'[g]
    BY <1>1, <1>2 DEF SessionsTyped
  <1>8. /\ call' = call /\ control' = control /\ toClose' = toClose /\ streams' = streams
        /\ streamRefs' = streamRefs /\ sessionRefs' = sessionRefs /\ closing' = closing
    BY <1>2 DEF refs, controlVars
  <1>9. Held'
    <2>1. (StreamHeld(h) /\ SessionHeld(h) /\ Placed(h))'
      BY <1>2, <1>4, <1>5, <1>6, <1>7, <1>8 DEF StreamHeld, SessionHeld, Placed, Closing
    <2> QED BY <1>6, <1>7, <1>8, <2>1, HeldAt
  <1>10. Known'
    BY <1>2, <1>7, <1>8, KnownStays DEF ClientInv, manager, SessionAlive
  <1>11. Reports'
    BY <1>1, <1>2, <1>5, <1>7, <1>8 DEF ClientInv, Reports, SessionAlive, CallsTyped
  <1>12. Stages'
    BY <1>2 DEF ClientInv, Stages, state, manager, controlVars
  <1>13. Runs'
    <2>1. RunsAt(h)
      BY DEF ClientInv, Runs
    <2>2. Signals(h)'
      BY <1>2, <2>1 DEF RunsAt, Signals, refs
    <2>3. Destroyed(h)'
      BY <1>2, <1>7, <1>8, <2>1 DEF RunsAt, Destroyed, refs, SessionAlive, Dying, Destroys
    <2>4. Stopped(h)'
      <3>1. Stopping(h) => Stopping(h)'
        BY <1>2, <1>8 DEF Stopping, refs
      <3>2. ~closed_[h] => Stopping(h)'
        BY <1>6 DEF Stopping
      <3>3. closed_'[h]
        BY <1>1, <1>2 DEF SessionsTyped
      <3> QED BY <1>2, <2>1, <3>1, <3>2, <3>3 DEF RunsAt, Stopped, Running
    <2>5. RunsAt(h)'
      BY <2>2, <2>3, <2>4 DEF RunsAt
    <2> QED BY <1>2, <1>6, <1>7, <1>8, <2>5, RunsElse DEF refs
  <1> QED BY <1>3, <1>9, <1>10, <1>11, <1>12, <1>13 DEF ClientInv

\* close_stream lets go of the stream and of the session.
LEMMA CloseReturnsKeeps ==
  ASSUME ClientInv, NEW h \in Handles, CloseReturns(h)
  PROVE  ClientInv'
PROOF
  <1>1. FlagsTyped /\ StagesTyped /\ CallsTyped /\ RefsTyped /\ SessionsTyped
    BY TypeParts DEF ClientInv
  <1>2. /\ closer[h] = "end" /\ DropStream(h, "closer", sessionRefs[h] \ {"closer"})
        /\ closer' = [closer EXCEPT ![h] = "done"]
        /\ UNCHANGED <<state, streams, manager, controlVars, call, idx, session, told, crashed>>
    BY DEF CloseReturns
  <1>3. /\ RefsTyped' /\ LetsGo(h, "closer") /\ streamRefs'[h] = streamRefs[h] \ {"closer"}
        /\ sessionRefs'[h] = IF streamRefs'[h] = {} THEN (sessionRefs[h] \ {"closer"}) \ {"impl"}
                             ELSE sessionRefs[h] \ {"closer"}
        /\ \A g \in Handles : g # h => streamRefs'[g] = streamRefs[g]
    <2>1. PICK left \in SUBSET SessionHolders : left = sessionRefs[h] \ {"closer"}
      BY <1>1 DEF RefsTyped
    <2>2. DropStream(h, "closer", left) /\ "closer" \in Destroyers
      BY <1>2, <2>1 DEF Destroyers
    <2>3. /\ RefsTyped' /\ LetsGo(h, "closer") /\ streamRefs'[h] = streamRefs[h] \ {"closer"}
          /\ sessionRefs'[h] = IF streamRefs'[h] = {} THEN left \ {"impl"} ELSE left
          /\ \A g \in Handles : g # h => streamRefs'[g] = streamRefs[g]
      BY <1>1, <2>2, DropLeaves
    <2> QED BY <2>1, <2>3
  <1>4. TypeOK'
    BY <1>1, <1>2, <1>3, SameTypes DEF CallsTyped, CloserPlaces
  <1>5. /\ call' = call /\ control' = control /\ toClose' = toClose /\ streams' = streams
        /\ closed_' = closed_ /\ closer'[h] = "done"
        /\ \A g \in Handles : g # h => closer'[g] = closer[g]
    BY <1>1, <1>2 DEF CallsTyped, controlVars, session
  <1>6. StreamHeld(h) /\ SessionHeld(h) /\ Placed(h)
    BY DEF ClientInv, Held
  <1>7. call[h] = "ok" /\ h \notin streams /\ "control" \notin streamRefs[h]
    BY <1>2, <1>6 DEF Placed
  <1>8. (StreamHeld(h) /\ SessionHeld(h) /\ Placed(h))'
    <2>1. StreamHeld(h)'
      BY <1>3, <1>5, <1>6 DEF StreamHeld, Closing
    <2>2. SessionHeld(h)'
      BY <1>2, <1>3, <1>5, <1>6 DEF SessionHeld, Closing
    <2>3. Placed(h)'
      BY <1>3, <1>5, <1>7 DEF Placed
    <2> QED BY <2>1, <2>2, <2>3
  <1>9. /\ SessionAlive(h)' => SessionAlive(h)
        /\ "rtc" \in sessionRefs'[h] => "rtc" \in sessionRefs[h]
        /\ \A g \in Handles : "control" \in streamRefs'[g] => "control" \in streamRefs[g]
    BY <1>3 DEF SessionAlive
  <1> QED BY <1>2, <1>3, <1>4, <1>5, <1>7, <1>8, <1>9, LetsGoKeeps DEF Destroyers

\* A stream is closed before open_stream returned.
LEMMA CloseInOpeningKeeps ==
  ASSUME ClientInv, NEW h \in Handles, CloseInOpening(h)
  PROVE  ClientInv'
PROOF
  <1>1. FlagsTyped /\ StagesTyped /\ CallsTyped /\ RefsTyped /\ SessionsTyped
    BY TypeParts DEF ClientInv
  <1>2. /\ h \in streams /\ streams' = streams \ {h}
        /\ call[h] \in {"opening", "up", "started", "unindex", "release", "released"}
        /\ streamRefs' = [streamRefs EXCEPT ![h] = streamRefs[h] \ {"map"}]
        /\ ToldClosed({h})
        /\ UNCHANGED <<state, manager, controlVars, call, idx, closer, sessionRefs, dtor, dtorBy,
                       session, crashed>>
    BY DEF CloseInOpening
  <1>3. told' \in [Handles -> 0..2] /\ \A g \in Handles : told'[g] = 0 => told[g] = 0
    BY <1>1, <1>2, ToldLeaves DEF StagesTyped
  <1>4. TypeOK'
    <2>1. CallsTyped' /\ RefsTyped'
      BY <1>1, <1>2 DEF CallsTyped, RefsTyped, manager, controlVars
    <2>2. SessionsTyped' /\ FlagsTyped'
      BY <1>1, <1>2 DEF SessionsTyped, FlagsTyped, session, state, manager, controlVars
    <2>3. StagesTyped'
      BY <1>1, <1>2, <1>3 DEF StagesTyped, state, controlVars
    <2> QED BY <2>1, <2>2, <2>3, TypePartsNext
  <1>5. /\ streamRefs'[h] = streamRefs[h] \ {"map"}
        /\ \A g \in Handles : g # h => streamRefs'[g] = streamRefs[g]
    BY <1>1, <1>2 DEF RefsTyped
  <1>6. Held'
    <2>1. StreamHeld(h) /\ SessionHeld(h) /\ Placed(h)
      BY DEF ClientInv, Held
    <2>2. /\ call' = call /\ closed_' = closed_ /\ control' = control /\ toClose' = toClose
          /\ closer' = closer /\ sessionRefs' = sessionRefs
      BY <1>2 DEF session, controlVars
    <2>3. (StreamHeld(h) /\ SessionHeld(h) /\ Placed(h))'
      BY <1>2, <1>5, <2>1, <2>2 DEF StreamHeld, SessionHeld, Placed
    <2> QED BY <1>2, <1>5, <2>2, <2>3, HeldAt
  <1>7. Known'
    BY <1>2, KnownStays DEF ClientInv, manager, controlVars, session, SessionAlive
  <1>8. Reports'
    <2>1. \A g \in Handles : "control" \in streamRefs'[g] => "control" \in streamRefs[g]
      BY <1>5
    <2> QED
      BY <1>1, <1>2, <1>3, <2>1, ReportsStays DEF ClientInv, controlVars, session, SessionAlive
  <1>9. Stages'
    BY <1>2 DEF ClientInv, Stages, state, manager, controlVars
  <1>10. Runs'
    BY <1>2, RunsStays DEF ClientInv, Runs, Stopping, controlVars, session
  <1> QED BY <1>4, <1>6, <1>7, <1>8, <1>9, <1>10 DEF ClientInv

-----------------------------------------------------------------------------
(* librflow_open_stream *)

\* The stream is registered before it has a session.
LEMMA OpenBeginsKeeps ==
  ASSUME ClientInv, NEW h \in Handles, OpenBegins(h)
  PROVE  ClientInv'
PROOF
  <1>1. FlagsTyped /\ StagesTyped /\ CallsTyped /\ RefsTyped /\ SessionsTyped
    BY TypeParts DEF ClientInv
  <1>2. /\ call[h] = "none" /\ lifecycle = "kConnected" /\ streams' = streams \union {h}
        /\ streamRefs' = [streamRefs EXCEPT ![h] = {"map", "call"}]
        /\ call' = [call EXCEPT ![h] = "registered"]
        /\ UNCHANGED <<state, manager, controlVars, idx, closer, sessionRefs, dtor, dtorBy, session,
                       told, crashed>>
    BY DEF OpenBegins
  <1>3. TypeOK'
    <2>1. CallsTyped'
      BY <1>1, <1>2 DEF CallsTyped, CallPlaces, manager, controlVars
    <2>2. RefsTyped'
      BY <1>1, <1>2 DEF RefsTyped, StreamHolders
    <2>3. SessionsTyped' /\ FlagsTyped'
      BY <1>1, <1>2 DEF SessionsTyped, FlagsTyped, session, state, manager, controlVars
    <2>4. StagesTyped'
      BY <1>1, <1>2 DEF StagesTyped, state, controlVars
    <2> QED BY <2>1, <2>2, <2>3, <2>4, TypePartsNext
  <1>4. StreamHeld(h) /\ SessionHeld(h) /\ Placed(h)
    BY DEF ClientInv, Held
  <1>5. closer[h] = "none" /\ sessionRefs[h] = {} /\ ~closed_[h]
    BY <1>2, <1>4 DEF Placed
  <1>6. /\ streamRefs'[h] = {"map", "call"} /\ call'[h] = "registered"
        /\ \A g \in Handles : g # h => streamRefs'[g] = streamRefs[g] /\ call'[g] = call[g]
    BY <1>1, <1>2 DEF CallsTyped, RefsTyped
  <1>7. /\ closer' = closer /\ closed_' = closed_ /\ control' = control /\ toClose' = toClose
        /\ sessionRefs' = sessionRefs
    BY <1>2 DEF session, controlVars
  <1>8. Held'
    <2>1. StreamHeld(h)'
      BY <1>2, <1>5, <1>6, <1>7 DEF StreamHeld, Closing, Opening
    <2>2. SessionHeld(h)'
      BY <1>2, <1>4, <1>5, <1>6, <1>7 DEF SessionHeld, Closing, Made
    <2>3. Placed(h)'
      BY <1>2, <1>5, <1>6, <1>7 DEF Placed, Opening
    <2> QED BY <1>2, <1>6, <1>7, <2>1, <2>2, <2>3, HeldAt
  <1>9. Known'
    BY <1>2, <1>6, <1>7, KnownStays DEF ClientInv, manager, controlVars, SessionAlive
  <1>10. Reports'
    <2>1. \A g \in Handles : SessionAlive(g)' => SessionAlive(g) /\ g # h
      BY <1>5, <1>7 DEF SessionAlive
    <2> QED BY <1>1, <1>2, <1>6, <1>7, <2>1, ReportsStays DEF ClientInv, controlVars
  <1>11. Stages'
    BY <1>2 DEF ClientInv, Stages, state, manager, controlVars
  <1>12. Runs'
    <2>1. /\ RunsAt(h) /\ (call[h] \notin {"opening"} \union Up) /\ dtor[h] = "none"
          /\ Stopping(h) => Stopping(h)'
      BY <1>2 DEF ClientInv, Runs, RunsAt, Destroyed, Up, Stopping, controlVars
    <2>2. RunsAt(h)'
      BY <1>2, <2>1, RunsStays DEF controlVars, session
    <2> QED BY <1>2, <1>6, <2>2, RunsElse DEF controlVars, session
  <1> QED BY <1>3, <1>8, <1>9, <1>10, <1>11, <1>12 DEF ClientInv

\* The manager makes a session where the index has none that is alive.
LEMMA ManagerOpensKeeps ==
  ASSUME ClientInv, NEW h \in Handles, ManagerOpens(h)
  PROVE  ClientInv'
PROOF
  <1>1. FlagsTyped /\ StagesTyped /\ CallsTyped /\ RefsTyped /\ SessionsTyped
    BY TypeParts DEF ClientInv
  <1>2. /\ call[h] = "registered"
        /\ UNCHANGED <<state, streams, inited_, erasedOther, controlVars, idx, closer, streamRefs,
                       dtor, dtorBy, session, told, crashed>>
    BY DEF ManagerOpens
  <1>3. StreamHeld(h) /\ SessionHeld(h) /\ Placed(h)
    BY DEF ClientInv, Held
  <1>4. closer[h] = "none" /\ sessionRefs[h] = {} /\ ~closed_[h]
    BY <1>2, <1>3 DEF Placed
  <1>5. /\ closer' = closer /\ closed_' = closed_ /\ control' = control /\ toClose' = toClose
        /\ streamRefs' = streamRefs /\ streams' = streams /\ closing' = closing
    BY <1>2 DEF session, controlVars
  <1>6. SessionsTyped' /\ FlagsTyped'
    BY <1>1, <1>2 DEF SessionsTyped, FlagsTyped, session, state, controlVars
  <1>7. StagesTyped'
    BY <1>1, <1>2 DEF StagesTyped, state, controlVars
  <1>8. CASE /\ inited_ /\ open_indices_[idx[h]] \notin Indexed
             /\ open_indices_' = [open_indices_ EXCEPT ![idx[h]] = h]
             /\ sessionRefs' = [sessionRefs EXCEPT ![h] = {"call"}]
             /\ call' = [call EXCEPT ![h] = "made"]
    <2>1. CallsTyped'
      BY <1>1, <1>2, <1>8 DEF CallsTyped, CallPlaces, controlVars
    <2>2. RefsTyped'
      BY <1>1, <1>2, <1>8 DEF RefsTyped, SessionHolders
    <2>3. TypeOK'
      BY <1>6, <1>7, <2>1, <2>2, TypePartsNext
    <2>4. /\ sessionRefs'[h] = {"call"} /\ call'[h] = "made"
          /\ \A g \in Handles : g # h => sessionRefs'[g] = sessionRefs[g] /\ call'[g] = call[g]
      BY <1>1, <1>8 DEF CallsTyped, RefsTyped
    <2>5. /\ idx' = idx /\ idx[h] \in Indices /\ open_indices_'[idx[h]] = h
          /\ \A i \in Indices : i # idx[h] => open_indices_'[i] = open_indices_[i]
      BY <1>1, <1>2, <1>8 DEF CallsTyped
    <2>6. Held'
      <3>1. StreamHeld(h)'
        BY <1>2, <1>3, <1>5, <2>4 DEF StreamHeld, Opening
      <3>2. SessionHeld(h)'
        BY <1>3, <1>4, <1>5, <2>4 DEF SessionHeld, Made, Closing
      <3>3. Placed(h)'
        BY <1>2, <1>3, <1>4, <1>5, <2>4 DEF Placed, Opening
      <3> QED BY <1>5, <2>4, <3>1, <3>2, <3>3, HeldAt
    <2>7. toClose = {} /\ closing = Nobody
      BY <1>8 DEF ClientInv, Stages
    <2>8. Known'
      <3>1. ASSUME NEW g \in Handles, ~erasedOther, SessionAlive(g)', ~closed_[g],
                   call'[g] # "release"
            PROVE  open_indices_'[idx[g]] = g
        <4>1. CASE g # h
          <5>1. SessionAlive(g)
            BY <2>4, <3>1, <4>1 DEF SessionAlive
          <5>2. open_indices_[idx[g]] = g
            BY <2>4, <2>7, <3>1, <4>1, <5>1 DEF ClientInv, Known
          <5>3. g \in Indexed /\ idx[g] \in Indices
            BY <1>1, <5>1, <5>2 DEF Indexed, CallsTyped
          <5> QED BY <1>8, <2>5, <5>2, <5>3
        <4>2. CASE g = h
          BY <2>5, <4>2
        <4> QED BY <4>1, <4>2
      <3>2. \A i \in Indices : open_indices_'[i] # Nobody => idx[open_indices_'[i]] = i
        BY <2>5 DEF ClientInv, Known
      <3> QED BY <1>2, <1>5, <2>5, <2>7, <3>1, <3>2 DEF Known
    <2>9. Reports'
      <3>1. \A g \in Handles : SessionAlive(g)' => g = h \/ SessionAlive(g)
        BY <2>4 DEF SessionAlive
      <3> QED BY <1>2, <1>4, <1>5, <2>7, <3>1 DEF ClientInv, Reports
    <2>10. Stages'
      BY <1>2, <1>8 DEF ClientInv, Stages, state, controlVars
    <2>11. Runs'
      <3>1. RunsAt(h)
        BY DEF ClientInv, Runs
      <3>2. signaling_[h] = "none" /\ ~watchdog[h] /\ dtor[h] = "none"
        BY <1>2, <3>1 DEF RunsAt, Signals, Destroyed, Up
      <3>3. signaling_'[h] = "none" /\ ~watchdog'[h] /\ dtor'[h] = "none"
        BY <1>2, <3>2 DEF session
      <3>4. RunsAt(h)'
        BY <2>4, <3>3 DEF RunsAt, Signals, Destroyed, Stopped, Running, Dying, Destroys
      <3> QED BY <1>2, <2>4, <3>4, RunsElse DEF session, controlVars
    <2> QED BY <2>3, <2>6, <2>8, <2>9, <2>10, <2>11 DEF ClientInv
  <1>9. CASE call' = [call EXCEPT ![h] = "erase"] /\ UNCHANGED <<open_indices_, sessionRefs>>
    <2>1. CallsTyped' /\ RefsTyped'
      BY <1>1, <1>2, <1>9 DEF CallsTyped, RefsTyped, CallPlaces, controlVars
    <2>2. TypeOK'
      BY <1>6, <1>7, <2>1, TypePartsNext
    <2>3. call'[h] = "erase" /\ \A g \in Handles : g # h => call'[g] = call[g]
      BY <1>1, <1>9 DEF CallsTyped
    <2>4. Held'
      <3>1. (StreamHeld(h) /\ SessionHeld(h) /\ Placed(h))'
        BY <1>2, <1>3, <1>4, <1>5, <1>9, <2>3
           DEF StreamHeld, SessionHeld, Placed, Opening, Made, Closing
      <3> QED BY <1>5, <1>9, <2>3, <3>1, HeldAt
    <2>5. Known'
      BY <1>2, <1>5, <1>9, <2>3, KnownStays DEF ClientInv, SessionAlive
    <2>6. Reports'
      BY <1>1, <1>2, <1>5, <1>9, ReportsStays DEF ClientInv, SessionAlive
    <2>7. Stages'
      BY <1>2, <1>9 DEF ClientInv, Stages, state, controlVars
    <2>8. Runs'
      <3>1. /\ RunsAt(h) /\ (call[h] \notin {"opening"} \union Up) /\ dtor[h] = "none"
            /\ Stopping(h) => Stopping(h)'
        BY <1>2 DEF ClientInv, Runs, RunsAt, Destroyed, Up, Stopping, controlVars
      <3>2. RunsAt(h)'
        BY <1>2, <1>9, <3>1, RunsStays DEF controlVars, session
      <3> QED BY <1>2, <1>9, <2>3, <3>2, RunsElse DEF controlVars, session
    <2> QED BY <2>2, <2>4, <2>5, <2>6, <2>7, <2>8 DEF ClientInv
  <1> QED BY <1>8, <1>9 DEF ManagerOpens

\* RtcStreamSession::Start.
LEMMA StartKeeps ==
  ASSUME ClientInv, NEW h \in Handles,
         StartChecks(h) \/ StartOpening(h) \/ StartSignaling(h) \/ StartWatchdog(h)
  PROVE  ClientInv'
PROOF
  <1>1. FlagsTyped /\ StagesTyped /\ CallsTyped /\ RefsTyped /\ SessionsTyped
    BY TypeParts DEF ClientInv
  <1>2. /\ call[h] \in Made \ {"release"}
        /\ \E w \in Made \ {"release"} : call' = [call EXCEPT ![h] = w]
        /\ UNCHANGED <<state, streams, manager, controlVars, idx, closer, refs, closed_, told>>
    <2>1. call' = call => call' = [call EXCEPT ![h] = call[h]]
      BY <1>1 DEF CallsTyped
    <2> QED BY <2>1 DEF StartChecks, StartOpening, StartSignaling, StartWatchdog, Made, session
  <1>3. TypeOK'
    <2>1. CallsTyped' /\ RefsTyped'
      BY <1>1, <1>2 DEF CallsTyped, RefsTyped, CallPlaces, Made, manager, controlVars, refs
    <2>2. SessionsTyped'
      BY <1>1, ClientAssumption DEF SessionsTyped, session, StartChecks, StartOpening,
         StartSignaling, StartWatchdog, Revives
    <2>3. crashed' \in BOOLEAN
      BY <1>1 DEF FlagsTyped, StartChecks, StartOpening, StartSignaling, StartWatchdog
    <2>4. FlagsTyped'
      BY <1>1, <1>2, <2>3 DEF FlagsTyped, state, manager, controlVars
    <2>5. StagesTyped'
      BY <1>1, <1>2 DEF StagesTyped, state, controlVars
    <2> QED BY <2>1, <2>2, <2>4, <2>5, TypePartsNext
  <1>4. (call'[h] \in Made \ {"release"}) /\ \A g \in Handles : g # h => call'[g] = call[g]
    BY <1>1, <1>2 DEF CallsTyped
  <1>5. /\ closer' = closer /\ closed_' = closed_ /\ control' = control /\ toClose' = toClose
        /\ streamRefs' = streamRefs /\ sessionRefs' = sessionRefs /\ streams' = streams
    BY <1>2 DEF refs, controlVars
  <1>6. Held'
    <2>1. StreamHeld(h) /\ SessionHeld(h) /\ Placed(h)
      BY DEF ClientInv, Held
    <2>2. (StreamHeld(h) /\ SessionHeld(h) /\ Placed(h))'
      BY <1>2, <1>4, <1>5, <2>1 DEF StreamHeld, SessionHeld, Placed, Opening, Made
    <2> QED BY <1>4, <1>5, <2>2, HeldAt
  <1>7. Known'
    BY <1>2, <1>4, <1>5, KnownStays DEF ClientInv, manager, SessionAlive
  <1>8. Reports'
    BY <1>1, <1>2, <1>5, ReportsStays DEF ClientInv, controlVars, SessionAlive
  <1>9. Stages'
    BY <1>2 DEF ClientInv, Stages, state, manager, controlVars
  <1>10. Runs'
    <2>1. /\ revived \subseteq revived'
          /\ \A g \in Handles : g # h => /\ signaling_'[g] = signaling_[g]
                                         /\ watchdog'[g] = watchdog[g]
      BY <1>1 DEF SessionsTyped, session, StartChecks, StartOpening, StartSignaling, StartWatchdog,
         Revives
    <2>2. RunsAt(h) /\ SessionAlive(h) /\ dtor[h] = "none"
      BY <1>2 DEF ClientInv, Held, SessionHeld, Runs, RunsAt, Destroyed, SessionAlive
    <2>3. \/ UNCHANGED <<signaling_, watchdog>> /\ (call[h] = "made" \/ call'[h] = call[h])
          \/ /\ call[h] = "checked" /\ call'[h] = "opening" /\ signaling_'[h] = "made"
             /\ watchdog' = watchdog /\ (closed_[h] => h \in revived')
          \/ /\ call[h] = "opening" /\ signaling_[h] # "none" /\ watchdog' = watchdog
             /\ \/ call'[h] = "up" /\ signaling_'[h] = "up"
                \/ signaling_'[h] = "none"
          \/ /\ call[h] = "up" /\ call'[h] = "started" /\ signaling_' = signaling_
             /\ (closed_[h] => h \in revived')
      BY <1>1 DEF CallsTyped, SessionsTyped, session, StartChecks, StartOpening, StartSignaling,
         StartWatchdog, Revives
    <2>4. Signals(h)'
      BY <1>5, <2>2, <2>3 DEF RunsAt, Signals, Up
    <2>5. Destroyed(h)'
      <3>1. dtor' = dtor
        BY <1>2 DEF refs
      <3> QED BY <1>4, <1>5, <2>2, <3>1 DEF Destroyed, SessionAlive, Dying, Destroys
    <2>6. Stopped(h)'
      <3>1. SessionAlive(h)' /\ (Stopping(h) => Stopping(h)')
        BY <1>2, <2>2 DEF refs, SessionAlive, Stopping, controlVars
      <3>2. ~(signaling_[h] = "none" /\ ~watchdog[h]) => Running(h)
        BY DEF Running
      <3>3. Running(h)' => Running(h) \/ ~closed_[h] \/ h \in revived'
        BY <2>2, <2>3, <3>2 DEF Running
      <3> QED BY <1>5, <2>1, <2>2, <3>1, <3>3 DEF RunsAt, Stopped
    <2>7. RunsAt(h)'
      BY <2>4, <2>5, <2>6 DEF RunsAt
    <2> QED BY <1>2, <1>4, <2>1, <2>7, RunsElse DEF refs, controlVars
  <1> QED BY <1>3, <1>6, <1>7, <1>8, <1>9, <1>10 DEF ClientInv

\* A failed Start erases the index.
LEMMA ManagerErasesKeeps ==
  ASSUME ClientInv, NEW h \in Handles, ManagerErases(h)
  PROVE  ClientInv'
PROOF
  <1>1. FlagsTyped /\ StagesTyped /\ CallsTyped /\ RefsTyped /\ SessionsTyped
    BY TypeParts DEF ClientInv
  <1>2. /\ call[h] = "unindex"
        /\ erasedOther' = (erasedOther \/ open_indices_[idx[h]] \in Indexed \ {h})
        /\ open_indices_' = [open_indices_ EXCEPT ![idx[h]] = Nobody]
        /\ call' = [call EXCEPT ![h] = "release"]
        /\ UNCHANGED <<state, streams, inited_, controlVars, idx, closer, refs, session, told,
                       crashed>>
    BY DEF ManagerErases
  <1>3. TypeOK'
    <2>1. CallsTyped' /\ RefsTyped'
      BY <1>1, <1>2 DEF CallsTyped, RefsTyped, CallPlaces, controlVars, refs
    <2>2. erasedOther' \in BOOLEAN
      BY <1>2
    <2>3. SessionsTyped' /\ FlagsTyped'
      BY <1>1, <1>2, <2>2 DEF SessionsTyped, FlagsTyped, session, state, controlVars
    <2>4. StagesTyped'
      BY <1>1, <1>2 DEF StagesTyped, state, controlVars
    <2> QED BY <2>1, <2>3, <2>4, TypePartsNext
  <1>4. call'[h] = "release" /\ \A g \in Handles : g # h => call'[g] = call[g]
    BY <1>1, <1>2 DEF CallsTyped
  <1>5. /\ closer' = closer /\ control' = control /\ toClose' = toClose /\ closing' = closing
        /\ streams' = streams /\ streamRefs' = streamRefs /\ sessionRefs' = sessionRefs
        /\ closed_' = closed_ /\ dtor' = dtor /\ dtorBy' = dtorBy /\ idx' = idx
        /\ signaling_' = signaling_ /\ watchdog' = watchdog /\ revived' = revived
    BY <1>2 DEF controlVars, refs, session
  <1>6. Held'
    <2>1. StreamHeld(h) /\ SessionHeld(h) /\ Placed(h)
      BY DEF ClientInv, Held
    <2>2. (StreamHeld(h) /\ SessionHeld(h) /\ Placed(h))'
      BY <1>2, <1>4, <1>5, <2>1 DEF StreamHeld, SessionHeld, Placed, Opening, Made
    <2> QED BY <1>4, <1>5, <2>2, HeldAt
  <1>7. Runs'
    <2>1. /\ RunsAt(h) /\ (call[h] \notin {"opening"} \union Up) /\ dtor[h] = "none"
          /\ Stopping(h) => Stopping(h)'
      BY <1>2, <1>5 DEF ClientInv, Held, SessionHeld, Made, Runs, RunsAt, Destroyed, SessionAlive,
         Up, Stopping
    <2>2. RunsAt(h)'
      BY <1>5, <2>1, RunsStays
    <2> QED BY <1>4, <1>5, <2>2, RunsElse
  <1>8. Known'
    <2>1. /\ idx[h] \in Indices /\ open_indices_'[idx[h]] = Nobody
          /\ \A i \in Indices : i # idx[h] => open_indices_'[i] = open_indices_[i]
      BY <1>1, <1>2 DEF CallsTyped
    <2>2. ASSUME NEW g \in Handles, ~erasedOther', SessionAlive(g)', ~closed_[g],
                 call'[g] # "release"
          PROVE  open_indices_'[idx[g]] = g \/ g \in toClose
      <3>1. /\ SessionAlive(g) /\ ~erasedOther /\ g # h /\ call[g] # "release"
            /\ open_indices_[idx[h]] \notin Indexed \ {h}
        BY <1>2, <1>4, <1>5, <2>2 DEF SessionAlive
      <3>2. open_indices_[idx[g]] = g \/ g \in toClose
        BY <2>2, <3>1 DEF ClientInv, Known
      <3>3. CASE open_indices_[idx[g]] = g
        <4>1. idx[g] \in Indices /\ g \in Indexed
          BY <1>1, <3>1, <3>3 DEF Indexed, CallsTyped
        <4>2. idx[g] # idx[h]
          BY <3>1, <3>3, <4>1
        <4> QED BY <2>1, <3>3, <4>1, <4>2
      <3> QED BY <3>2, <3>3
    <2>3. \A i \in Indices : open_indices_'[i] # Nobody => idx[open_indices_'[i]] = i
      BY <2>1 DEF ClientInv, Known
    <2>4. \A g, f \in toClose : idx[g] = idx[f] => g = f
      BY DEF ClientInv, Known
    <2> QED BY <1>5, <2>2, <2>3, <2>4 DEF Known
  <1>9. Reports'
    BY <1>1, <1>2, <1>5, ReportsStays DEF ClientInv, SessionAlive
  <1>10. Stages'
    <2>1. \A i \in Indices : open_indices_[i] = Nobody => open_indices_'[i] = Nobody
      BY <1>1, <1>2 DEF CallsTyped
    <2> QED BY <1>2, <2>1 DEF ClientInv, Stages, state, controlVars
  <1> QED BY <1>3, <1>6, <1>7, <1>8, <1>9, <1>10 DEF ClientInv

\* A session whose Start failed is let go: only Shutdown may still hold it.
LEMMA ManagerReturnsKeeps ==
  ASSUME ClientInv, NEW h \in Handles, ManagerReturns(h)
  PROVE  ClientInv'
PROOF
  <1>1. FlagsTyped /\ StagesTyped /\ CallsTyped /\ RefsTyped /\ SessionsTyped
    BY TypeParts DEF ClientInv
  <1>2. /\ call[h] = "release" /\ HoldSession(h, "call", sessionRefs[h] \ {"call"})
        /\ call' = [call EXCEPT ![h] = "released"]
        /\ UNCHANGED <<state, streams, manager, controlVars, idx, closer, streamRefs, session, told,
                       crashed>>
    BY DEF ManagerReturns
  <1>3. LetsGo(h, "call") /\ sessionRefs'[h] = sessionRefs[h] \ {"call"}
    <2>1. "call" \in Destroyers /\ sessionRefs[h] \ {"call"} \in SUBSET SessionHolders
      BY <1>1 DEF RefsTyped, Destroyers
    <2> QED BY <1>1, <1>2, <2>1, HoldLeaves DEF LetsGo
  <1>4. TypeOK'
    BY <1>1, <1>2, <1>3, SameTypes DEF LetsGo, RefsTyped, CallsTyped, CallPlaces
  <1>5. /\ closer' = closer /\ control' = control /\ toClose' = toClose /\ streams' = streams
        /\ closed_' = closed_ /\ call'[h] = "released"
        /\ \A g \in Handles : g # h => call'[g] = call[g]
    BY <1>1, <1>2 DEF CallsTyped, controlVars, session
  <1>6. StreamHeld(h) /\ SessionHeld(h) /\ Placed(h)
    BY DEF ClientInv, Held
  <1>7. (StreamHeld(h) /\ SessionHeld(h) /\ Placed(h))'
    <2>1. StreamHeld(h)'
      BY <1>2, <1>5, <1>6 DEF StreamHeld, Opening
    <2>2. SessionHeld(h)'
      BY <1>2, <1>3, <1>5, <1>6 DEF SessionHeld, Made
    <2>3. Placed(h)'
      BY <1>2, <1>3, <1>5, <1>6 DEF Placed, Opening
    <2> QED BY <2>1, <2>2, <2>3
  <1>8. SessionAlive(h) /\ "rtc" \notin sessionRefs[h]
    BY <1>2, <1>6 DEF SessionHeld, Made, SessionAlive, ClientInv, Runs, RunsAt, Signals, Up
  <1>9. SessionAlive(h)' => h \in toClose \/ closed_[h]
    <2>1. closer[h] \notin Closing /\ call[h] # "ok"
      BY <1>2, <1>6 DEF Placed, Closing
    <2>2. sessionRefs'[h] \subseteq {"control"}
      BY <1>1, <1>3, <1>6, <1>8, <2>1 DEF SessionHeld, RefsTyped, SessionHolders
    <2>3. "control" \in sessionRefs[h] => h \in toClose \/ closed_[h]
      BY <1>6 DEF SessionHeld
    <2> QED BY <1>3, <2>2, <2>3 DEF SessionAlive
  <1> QED BY <1>2, <1>3, <1>4, <1>5, <1>7, <1>8, <1>9, LetsGoKeeps DEF Destroyers

\* A failed open_stream takes the stream out of the map again.
LEMMA OpenErasesKeeps ==
  ASSUME ClientInv, NEW h \in Handles, OpenErases(h)
  PROVE  ClientInv'
PROOF
  <1>1. FlagsTyped /\ StagesTyped /\ CallsTyped /\ RefsTyped /\ SessionsTyped
    BY TypeParts DEF ClientInv
  <1>2. /\ call[h] \in {"erase", "released"} /\ streams' = streams \ {h}
        /\ streamRefs' = [streamRefs EXCEPT ![h] = streamRefs[h] \ {"map", "call"}]
        /\ call' = [call EXCEPT ![h] = "failed"]
        /\ UNCHANGED <<state, manager, controlVars, idx, closer, sessionRefs, dtor, dtorBy, session,
                       told, crashed>>
    BY DEF OpenErases
  <1>3. TypeOK'
    <2>1. CallsTyped'
      BY <1>1, <1>2 DEF CallsTyped, CallPlaces, manager, controlVars
    <2>2. RefsTyped'
      BY <1>1, <1>2 DEF RefsTyped
    <2>3. SessionsTyped' /\ FlagsTyped'
      BY <1>1, <1>2 DEF SessionsTyped, FlagsTyped, session, state, manager, controlVars
    <2>4. StagesTyped'
      BY <1>1, <1>2 DEF StagesTyped, state, controlVars
    <2> QED BY <2>1, <2>2, <2>3, <2>4, TypePartsNext
  <1>4. /\ streamRefs'[h] = streamRefs[h] \ {"map", "call"} /\ call'[h] = "failed"
        /\ \A g \in Handles : g # h => streamRefs'[g] = streamRefs[g] /\ call'[g] = call[g]
    BY <1>1, <1>2 DEF CallsTyped, RefsTyped
  <1>5. /\ closer' = closer /\ closed_' = closed_ /\ control' = control /\ toClose' = toClose
        /\ sessionRefs' = sessionRefs
    BY <1>2 DEF session, controlVars
  <1>6. Held'
    <2>1. StreamHeld(h) /\ SessionHeld(h) /\ Placed(h)
      BY DEF ClientInv, Held
    <2>2. (StreamHeld(h) /\ SessionHeld(h) /\ Placed(h))'
      BY <1>2, <1>4, <1>5, <2>1 DEF StreamHeld, SessionHeld, Placed, Opening, Made
    <2> QED BY <1>2, <1>4, <1>5, <2>2, HeldAt
  <1>7. Known'
    BY <1>2, <1>4, <1>5, KnownStays DEF ClientInv, manager, controlVars, SessionAlive
  <1>8. Reports'
    <2>1. \A g \in Handles : "control" \in streamRefs'[g] => "control" \in streamRefs[g]
      BY <1>4
    <2> QED BY <1>1, <1>2, <1>5, <2>1, ReportsStays DEF ClientInv, controlVars, SessionAlive
  <1>9. Stages'
    BY <1>2 DEF ClientInv, Stages, state, manager, controlVars
  <1>10. Runs'
    <2>1. RunsAt(h)
      BY DEF ClientInv, Runs
    <2>2. /\ dtor' = dtor /\ dtorBy' = dtorBy /\ signaling_' = signaling_ /\ watchdog' = watchdog
          /\ revived' = revived /\ closing' = closing
      BY <1>2 DEF session, controlVars
    <2>3. Signals(h)'
      BY <1>2, <1>5, <2>1, <2>2 DEF RunsAt, Signals, Up
    <2>4. Destroyed(h)'
      BY <1>4, <1>5, <2>1, <2>2 DEF RunsAt, Destroyed, SessionAlive, Dying, Destroys
    <2>5. Stopped(h)'
      BY <1>5, <2>1, <2>2 DEF RunsAt, Stopped, Stopping, Running, SessionAlive
    <2>6. RunsAt(h)'
      BY <2>3, <2>4, <2>5 DEF RunsAt
    <2> QED BY <1>4, <1>5, <2>2, <2>6, RunsElse
  <1> QED BY <1>3, <1>6, <1>7, <1>8, <1>9, <1>10 DEF ClientInv

\* open_stream returns: the stream_s holds the session, if it is still there.
LEMMA OpenEndsKeeps ==
  ASSUME ClientInv, NEW h \in Handles, OpenEnds(h)
  PROVE  ClientInv'
PROOF
  <1>1. FlagsTyped /\ StagesTyped /\ CallsTyped /\ RefsTyped /\ SessionsTyped
    BY TypeParts DEF ClientInv
  <1>2. /\ call[h] = "started"
        /\ DropStream(h, "call", (sessionRefs[h] \ {"call"}) \union {"impl"})
        /\ call' = [call EXCEPT ![h] = IF streamRefs'[h] = {} THEN "dangling" ELSE "ok"]
        /\ UNCHANGED <<state, streams, manager, controlVars, idx, closer, session, told, crashed>>
    BY DEF OpenEnds
  <1>3. /\ RefsTyped' /\ LetsGo(h, "call") /\ streamRefs'[h] = streamRefs[h] \ {"call"}
        /\ sessionRefs'[h] = IF streamRefs'[h] = {}
                             THEN ((sessionRefs[h] \ {"call"}) \union {"impl"}) \ {"impl"}
                             ELSE (sessionRefs[h] \ {"call"}) \union {"impl"}
        /\ \A g \in Handles : g # h => streamRefs'[g] = streamRefs[g]
    <2>1. PICK left \in SUBSET SessionHolders :
            left = (sessionRefs[h] \ {"call"}) \union {"impl"}
      BY <1>1 DEF RefsTyped, SessionHolders
    <2>2. DropStream(h, "call", left) /\ "call" \in Destroyers
      BY <1>2, <2>1 DEF Destroyers
    <2>3. /\ RefsTyped' /\ LetsGo(h, "call") /\ streamRefs'[h] = streamRefs[h] \ {"call"}
          /\ sessionRefs'[h] = IF streamRefs'[h] = {} THEN left \ {"impl"} ELSE left
          /\ \A g \in Handles : g # h => streamRefs'[g] = streamRefs[g]
      BY <1>1, <2>2, DropLeaves
    <2> QED BY <2>1, <2>3
  <1>4. TypeOK'
    BY <1>1, <1>2, <1>3, SameTypes DEF CallsTyped, CallPlaces
  <1>5. /\ closer' = closer /\ control' = control /\ toClose' = toClose /\ streams' = streams
        /\ closed_' = closed_ /\ call'[h] = IF streamRefs'[h] = {} THEN "dangling" ELSE "ok"
        /\ \A g \in Handles : g # h => call'[g] = call[g]
    BY <1>1, <1>2 DEF CallsTyped, controlVars, session
  <1>6. StreamHeld(h) /\ SessionHeld(h) /\ Placed(h)
    BY DEF ClientInv, Held
  <1>7. closer[h] = "none"
    BY <1>2, <1>6 DEF Placed
  <1>8. (StreamHeld(h) /\ SessionHeld(h) /\ Placed(h))'
    <2>1. StreamHeld(h)'
      BY <1>3, <1>5, <1>6 DEF StreamHeld, Opening
    <2>2. SessionHeld(h)'
      BY <1>2, <1>3, <1>5, <1>6, <1>7 DEF SessionHeld, Made
    <2>3. Placed(h)'
      <3>1. h \in streams => "map" \in streamRefs'[h]
        BY <1>3, <1>6 DEF StreamHeld
      <3> QED BY <1>5, <1>7, <3>1 DEF Placed
    <2> QED BY <2>1, <2>2, <2>3
  <1>9. /\ SessionAlive(h) /\ ("rtc" \in sessionRefs'[h] => "rtc" \in sessionRefs[h])
        /\ \A g \in Handles : "control" \in streamRefs'[g] => "control" \in streamRefs[g]
    BY <1>2, <1>3, <1>6 DEF SessionHeld, Made, SessionAlive
  <1> QED BY <1>2, <1>3, <1>4, <1>5, <1>7, <1>8, <1>9, LetsGoKeeps DEF Destroyers, Up

-----------------------------------------------------------------------------
(* The destructor, and what WebRTC holds *)

\* The destructor concerns a session that nobody holds.
LEMMA DtorKeeps ==
  ASSUME ClientInv, NEW h \in Handles, DtorStep(h)
  PROVE  ClientInv'
PROOF
  <1>1. FlagsTyped /\ StagesTyped /\ CallsTyped /\ RefsTyped /\ SessionsTyped
    BY TypeParts DEF ClientInv
  <1>2. /\ UNCHANGED <<state, streams, manager, controlVars, call, idx, closer, streamRefs,
                       sessionRefs, dtorBy, revived>>
        /\ Dying(h)
    BY DEF DtorStep, DtorMarks, DtorStops, DtorEmits, DtorEnds, CloseStops, session, Dying
  <1>3. RunsAt(h) /\ Placed(h)
    BY DEF ClientInv, Runs, Held
  <1>4. ~SessionAlive(h) /\ (call[h] \notin {"none", "registered"})
    BY <1>2, <1>3 DEF RunsAt, Destroyed, Dying
  <1>5. /\ dtor' \in [Handles -> DtorPlaces] /\ dtor'[h] \in {"stop", "emit", "end", "gone"}
        /\ \A g \in Handles : g # h => dtor'[g] = dtor[g]
    BY <1>1 DEF RefsTyped, DtorPlaces, DtorStep, DtorMarks, DtorStops, DtorEmits, DtorEnds
  <1>6. /\ SessionsTyped' /\ closed_'[h]
        /\ \A g \in Handles : g # h => /\ closed_'[g] = closed_[g] /\ watchdog'[g] = watchdog[g]
                                       /\ signaling_'[g] = signaling_[g]
    <2>1. dtor[h] # "mark" => closed_[h]
      BY <1>2, <1>3 DEF RunsAt, Destroyed, Dying
    <2> QED BY <1>1, <2>1 DEF SessionsTyped, DtorStep, DtorMarks, DtorStops, DtorEmits, DtorEnds,
               CloseStops, session
  <1>7. /\ told' \in [Handles -> 0..2]
        /\ \A g \in Handles : told'[g] = 0 => told[g] = 0
    <2>1. told \in [Handles -> 0..2]
      BY <1>1 DEF StagesTyped
    <2>2. CASE told' = told
      BY <2>1, <2>2
    <2>3. CASE ToldClosed({h})
      BY <2>1, <2>3, ToldLeaves
    <2> QED BY <2>2, <2>3 DEF DtorStep, DtorMarks, DtorStops, DtorEmits, DtorEnds
  <1>8. TypeOK'
    <2>1. CallsTyped' /\ RefsTyped'
      BY <1>1, <1>2, <1>5 DEF CallsTyped, RefsTyped, manager, controlVars
    <2>2. crashed' \in BOOLEAN
      BY <1>1 DEF FlagsTyped, SessionsTyped, DtorStep, DtorMarks, DtorStops, DtorEmits, DtorEnds
    <2>3. FlagsTyped'
      BY <1>1, <1>2, <2>2 DEF FlagsTyped, state, manager, controlVars
    <2>4. StagesTyped'
      BY <1>1, <1>2, <1>7 DEF StagesTyped, state, controlVars
    <2> QED BY <1>6, <2>1, <2>3, <2>4, TypePartsNext
  <1>9. /\ control' = control /\ toClose' = toClose /\ closing' = closing /\ streams' = streams
        /\ open_indices_' = open_indices_ /\ erasedOther' = erasedOther
    BY <1>2 DEF controlVars, manager
  <1>10. Held'
    <2>1. StreamHeld(h) /\ SessionHeld(h)
      BY DEF ClientInv, Held
    <2>2. (StreamHeld(h) /\ SessionHeld(h) /\ Placed(h))'
      BY <1>2, <1>3, <1>4, <1>6, <1>9, <2>1 DEF StreamHeld, SessionHeld, Placed
    <2> QED BY <1>2, <1>6, <1>9, <2>2, HeldAt
  <1>11. Runs'
    <2>1. /\ signaling_'[h] = signaling_[h] \/ signaling_'[h] = "none"
          /\ watchdog'[h] => watchdog[h]
      BY <1>1 DEF SessionsTyped, DtorStep, DtorMarks, DtorStops, DtorEmits, DtorEnds, CloseStops,
         session
    <2>2. Signals(h)'
      BY <1>2, <1>3, <2>1 DEF RunsAt, Signals
    <2>3. Destroyed(h)'
      BY <1>2, <1>3, <1>4, <1>5, <1>6, <1>9
         DEF RunsAt, Destroyed, SessionAlive, Dying, Destroys
    <2>4. Stopped(h)'
      <3>1. SUFFICES ASSUME Running(h)'
                     PROVE  h \in revived' \/ Stopping(h)'
        BY <1>6 DEF Stopped
      <3>2. Running(h) /\ ~DtorStops(h)
        BY <1>1, <2>1, <3>1 DEF Running, DtorStops, CloseStops, SessionsTyped
      <3>3. CASE dtor'[h] = "stop"
        BY <3>3 DEF Stopping
      <3>4. CASE dtor'[h] # "stop"
        <4>1. closed_[h] /\ dtor[h] # "stop"
          BY <1>1, <1>3, <3>2, <3>4 DEF DtorStep, DtorMarks, DtorEmits, DtorEnds, RefsTyped, RunsAt,
             Destroyed
        <4>2. h \in revived \/ Stopping(h)
          BY <1>3, <3>2, <4>1 DEF RunsAt, Stopped
        <4> QED BY <1>2, <1>9, <4>1, <4>2 DEF Stopping
      <3> QED BY <3>3, <3>4
    <2>5. RunsAt(h)'
      BY <2>2, <2>3, <2>4 DEF RunsAt
    <2> QED BY <1>2, <1>5, <1>6, <1>9, <2>5, RunsElse
  <1>12. Known'
    BY <1>2, <1>4, <1>6, <1>9, KnownStays DEF ClientInv, SessionAlive
  <1>13. Reports'
    <2>1. \A g \in Handles : SessionAlive(g)' => g # h
      BY <1>2, <1>4 DEF SessionAlive
    <2>2. \A g \in Handles : closed_[g] => closed_'[g]
      BY <1>6
    <2> QED BY <1>1, <1>2, <1>6, <1>7, <1>9, <2>1, <2>2, ReportsStays DEF ClientInv, SessionAlive
  <1>14. Stages'
    BY <1>2 DEF ClientInv, Stages, state, manager, controlVars
  <1> QED BY <1>8, <1>10, <1>11, <1>12, <1>13, <1>14 DEF ClientInv

\* Observers take a session that is alive, and let go of it.
LEMMA RtcKeeps ==
  ASSUME ClientInv, NEW h \in Handles, RtcStep(h)
  PROVE  ClientInv'
PROOF
  <1>1. FlagsTyped /\ StagesTyped /\ CallsTyped /\ RefsTyped /\ SessionsTyped
    BY TypeParts DEF ClientInv
  <1>2. StreamHeld(h) /\ SessionHeld(h) /\ Placed(h) /\ RunsAt(h)
    BY DEF ClientInv, Held, Runs
  <1>3. CASE RtcTakes(h)
    <2>1. /\ signaling_[h] = "up"
          /\ \/ /\ SessionAlive(h)
                /\ sessionRefs' = [sessionRefs EXCEPT ![h] = sessionRefs[h] \union {"rtc"}]
             \/ UNCHANGED sessionRefs
          /\ UNCHANGED <<state, streams, manager, controlVars, call, idx, closer, streamRefs, dtor,
                         dtorBy, session, told>>
      BY <1>3 DEF RtcTakes
    <2>2. /\ sessionRefs' \in [Handles -> SUBSET SessionHolders]
          /\ \A g \in Handles : g # h => sessionRefs'[g] = sessionRefs[g]
          /\ sessionRefs'[h] = sessionRefs[h] \/ sessionRefs'[h] = sessionRefs[h] \union {"rtc"}
          /\ \A g \in Handles : SessionAlive(g)' <=> SessionAlive(g)
      BY <1>1, <2>1 DEF RefsTyped, SessionHolders, SessionAlive
    <2>3. /\ call' = call /\ closer' = closer /\ control' = control /\ toClose' = toClose
          /\ closing' = closing /\ streams' = streams /\ closed_' = closed_
          /\ signaling_' = signaling_ /\ watchdog' = watchdog /\ revived' = revived
      BY <2>1 DEF controlVars, session
    <2>4. TypeOK'
      <3>1. CallsTyped' /\ RefsTyped'
        BY <1>1, <2>1, <2>2 DEF CallsTyped, RefsTyped, manager, controlVars
      <3>2. crashed' \in BOOLEAN
        BY <1>1, <1>3 DEF FlagsTyped, RtcTakes
      <3>3. SessionsTyped' /\ FlagsTyped'
        BY <1>1, <2>1, <3>2 DEF SessionsTyped, FlagsTyped, session, state, manager, controlVars
      <3>4. StagesTyped'
        BY <1>1, <2>1 DEF StagesTyped, state, controlVars
      <3> QED BY <3>1, <3>3, <3>4, TypePartsNext
    <2>5. Held'
      <3>1. call[h] \notin {"none", "registered"}
        BY <1>2, <2>1 DEF RunsAt, Signals, Up
      <3>2. (StreamHeld(h) /\ SessionHeld(h) /\ Placed(h))'
        BY <1>2, <2>1, <2>2, <2>3, <3>1 DEF StreamHeld, SessionHeld, Placed
      <3> QED BY <2>1, <2>2, <2>3, <3>2, HeldAt
    <2>6. Runs'
      <3>1. Signals(h)'
        BY <1>2, <2>1, <2>2, <2>3 DEF RunsAt, Signals
      <3>2. Destroyed(h)'
        BY <1>2, <2>1, <2>2, <2>3 DEF RunsAt, Destroyed, Dying, Destroys
      <3>3. Stopped(h)'
        BY <1>2, <2>1, <2>2, <2>3 DEF RunsAt, Stopped, Stopping, Running
      <3>4. RunsAt(h)'
        BY <3>1, <3>2, <3>3 DEF RunsAt
      <3> QED BY <2>1, <2>2, <2>3, <3>4, RunsElse
    <2>7. Known' /\ Reports'
      <3>1. Known'
        BY <2>1, <2>2, <2>3, KnownStays DEF ClientInv, manager
      <3> QED BY <1>1, <2>1, <2>2, <2>3, <3>1, ReportsStays DEF ClientInv
    <2>8. Stages'
      BY <2>1 DEF ClientInv, Stages, state, manager, controlVars
    <2> QED BY <2>4, <2>5, <2>6, <2>7, <2>8 DEF ClientInv
  <1>4. CASE RtcReleases(h)
    <2>1. /\ "rtc" \in sessionRefs[h] /\ HoldSession(h, "rtc", sessionRefs[h] \ {"rtc"})
          /\ UNCHANGED <<state, streams, manager, controlVars, call, idx, closer, streamRefs,
                         session, told, crashed>>
      BY <1>4 DEF RtcReleases
    <2>2. LetsGo(h, "rtc") /\ sessionRefs'[h] = sessionRefs[h] \ {"rtc"}
      <3>1. "rtc" \in Destroyers /\ sessionRefs[h] \ {"rtc"} \in SUBSET SessionHolders
        BY <1>1 DEF RefsTyped, Destroyers
      <3> QED BY <1>1, <2>1, <3>1, HoldLeaves DEF LetsGo
    <2>3. TypeOK'
      BY <1>1, <2>1, <2>2, SameTypes DEF LetsGo, RefsTyped, CallsTyped
    <2>4. /\ closer' = closer /\ control' = control /\ toClose' = toClose /\ streams' = streams
          /\ closed_' = closed_ /\ call' = call /\ streamRefs' = streamRefs
      BY <2>1 DEF controlVars, session
    <2>5. (StreamHeld(h) /\ SessionHeld(h) /\ Placed(h))'
      BY <1>2, <2>1, <2>2, <2>4 DEF StreamHeld, SessionHeld, Placed
    <2>6. SessionAlive(h) /\ (call[h] \notin {"none", "registered"})
      BY <1>2, <2>1 DEF Placed, SessionAlive
    <2>7. call[h] # "release"
      BY <1>2, <2>1 DEF RunsAt, Signals, Up
    <2> QED BY <2>1, <2>2, <2>3, <2>4, <2>5, <2>6, <2>7, LetsGoKeeps DEF Destroyers
  <1> QED BY <1>3, <1>4 DEF RtcStep

-----------------------------------------------------------------------------
\* The invariant holds at the start.
LEMMA ClientInit == Init => ClientInv
PROOF
  <1> SUFFICES ASSUME Init PROVE ClientInv
    OBVIOUS
  <1>1. TypeOK
    <2>1. CallsTyped /\ RefsTyped
      BY DEF Init, CallsTyped, RefsTyped, CallPlaces, CloserPlaces, DtorPlaces
    <2>2. SessionsTyped /\ FlagsTyped
      BY DEF Init, SessionsTyped, FlagsTyped
    <2>3. StagesTyped
      BY ClientAssumption DEF Init, StagesTyped
    <2> QED BY <2>1, <2>2, <2>3, TypeParts
  <1>2. Held
    BY DEF Init, Held, StreamHeld, SessionHeld, Placed, Opening, Made, Closing
  <1>3. Stages
    BY DEF Init, Stages
  <1>4. Known /\ Reports
    BY DEF Init, Known, Reports, SessionAlive
  <1>5. Runs
    BY DEF Init, Runs, RunsAt, Signals, Destroyed, Stopped, Running, Dying, Destroys
  <1> QED BY <1>1, <1>2, <1>3, <1>4, <1>5 DEF ClientInv

\* Every step keeps the invariant.
LEMMA ClientNext ==
  ASSUME ClientInv, [Next]_vars
  PROVE  ClientInv'
PROOF
  <1>1. CASE ControlStep
    BY <1>1, ConnectKeeps, DisconnectKeeps, ManagerShutdownKeeps, DisconnectEndsKeeps,
       UninitKeeps, CloseStopsKeeps, ShutdownMarksKeeps, ShutdownReleasesKeeps,
       DisconnectDropsKeeps DEF ControlStep
  <1>2. ASSUME NEW h \in Handles, CloseStep(h)
        PROVE  ClientInv'
    BY <1>2, CloseStreamKeeps, CloseMarksKeeps, CloseStopsKeeps, CloseReturnsKeeps,
       CloseInOpeningKeeps DEF CloseStep
  <1>3. ASSUME NEW h \in Handles, OpenStep(h)
        PROVE  ClientInv'
    BY <1>3, OpenBeginsKeeps, ManagerOpensKeeps, StartKeeps, ManagerErasesKeeps,
       ManagerReturnsKeeps,
       OpenErasesKeeps, OpenEndsKeeps DEF OpenStep
  <1>4. CASE UNCHANGED vars
    <2>1. FlagsTyped /\ StagesTyped
      BY TypeParts DEF ClientInv
    <2>2. Held' /\ Runs' /\ Known' /\ Reports' /\ CallsTyped' /\ RefsTyped' /\ SessionsTyped'
      BY <1>4, StreamsStay DEF vars, manager, controlVars
    <2>3. FlagsTyped' /\ StagesTyped' /\ Stages'
      BY <1>4, <2>1 DEF ClientInv, FlagsTyped, StagesTyped, Stages, vars, state, manager,
         controlVars
    <2>4. TypeOK'
      BY <2>2, <2>3, TypePartsNext
    <2> QED BY <2>2, <2>3, <2>4 DEF ClientInv
  <1> QED BY <1>1, <1>2, <1>3, <1>4, DtorKeeps, RtcKeeps DEF Next

\* ClientInv holds of every reachable state.
THEOREM ClientInvariance == Spec => []ClientInv
PROOF
  BY ClientInit, ClientNext, PTL DEF Spec

\* The variables keep their types.
THEOREM TypeCorrect == Spec => []TypeOK
PROOF
  <1>1. ClientInv => TypeOK
    BY DEF ClientInv
  <1> QED BY <1>1, ClientInvariance, PTL

\* uninit calls no function of the application under State::mu: it finds no
\* stream and no session, whatever open_stream and close_stream calls run.
THEOREM UninitClosesNothing == Spec => []UninitFindsNothing
PROOF
  <1>1. ClientInv => UninitFindsNothing
    <2> SUFFICES ASSUME ClientInv, control = "uninit"
                 PROVE  streams = {} /\ Indexed = {}
      BY DEF UninitFindsNothing
    <2>1. streams = {} /\ \A i \in Indices : open_indices_[i] = Nobody
      BY DEF ClientInv, Stages
    <2> QED BY <2>1, NobodyAssumption DEF Indexed
  <1> QED BY <1>1, ClientInvariance, PTL

\* Two sessions of one index, neither of which is being closed or destroyed,
\* never both have a signaling session, unless a failed Start erased the index
\* of another session.
THEOREM SessionsApart == Spec => []OneSessionPerIndex
PROOF
  <1>1. ClientInv => OneSessionPerIndex
    <2> SUFFICES ASSUME ClientInv, ~erasedOther, NEW g \in Handles, NEW h \in Handles,
                        idx[g] = idx[h], signaling_[g] # "none", signaling_[h] # "none",
                        ~closed_[g], ~closed_[h], ~Dying(g), ~Dying(h)
                 PROVE  g = h
      BY DEF OneSessionPerIndex
    <2>1. \A x \in {g, h} : SessionAlive(x) /\ call[x] # "release"
      <3> SUFFICES ASSUME NEW x \in {g, h}
                   PROVE  SessionAlive(x) /\ call[x] # "release"
        OBVIOUS
      <3>1. RunsAt(x) /\ signaling_[x] # "none" /\ ~closed_[x] /\ ~Dying(x)
        BY DEF ClientInv, Runs
      <3> QED BY <3>1 DEF RunsAt, Signals, Stopped, Running, Dying, Up
    <2>2. /\ open_indices_[idx[g]] = g \/ g \in toClose
          /\ open_indices_[idx[h]] = h \/ h \in toClose
          /\ \A a, b \in toClose : idx[a] = idx[b] => a = b
      BY <2>1 DEF ClientInv, Known
    <2>3. idx[g] \in Indices
      BY TypeParts DEF ClientInv, CallsTyped
    <2>4. toClose # {} => open_indices_[idx[g]] = Nobody
      BY <2>3 DEF ClientInv, Stages
    <2> QED BY <2>2, <2>4, NobodyAssumption
  <1> QED BY <1>1, ClientInvariance, PTL

\* After disconnect, once the calls under way have returned, only WebRTC holds
\* sessions, and nothing runs of a session but on its way through a destructor
\* on a thread of WebRTC, or after Start went on in spite of a Close, or after
\* a failed Start erased the index of another session.
THEOREM NothingOutlivesDisconnect == Spec => []NothingLeftRunning
PROOF
  <1>1. ClientInv => NothingLeftRunning
    <2> SUFFICES ASSUME ClientInv, control = "idle", lifecycle # "kConnected",
                        NEW h \in Handles, ~InCall(h)
                 PROVE  /\ streamRefs[h] = {} /\ sessionRefs[h] \subseteq {"rtc"}
                        /\ Running(h) => Destroys("rtc", h) \/ h \in revived \/ erasedOther
      BY DEF NothingLeftRunning, StreamAlive
    <2>1. StreamHeld(h) /\ SessionHeld(h) /\ h \notin streams /\ RunsAt(h)
      BY DEF ClientInv, Held, Stages, Runs
    <2>2. /\ call[h] \notin Opening /\ call[h] \notin Made /\ closer[h] \notin Closing
          /\ ~Destroys("call", h) /\ ~Destroys("closer", h)
      BY DEF InCall, Opening, Made, Closing
    <2>3. /\ streamRefs[h] \subseteq StreamHolders /\ sessionRefs[h] \subseteq SessionHolders
          /\ dtorBy[h] \in {Nobody} \union Destroyers /\ idx[h] \in Indices
      BY TypeParts DEF ClientInv, RefsTyped, CallsTyped
    <2>4. streamRefs[h] = {}
      BY <2>1, <2>2, <2>3 DEF StreamHeld, StreamHolders
    <2>5. sessionRefs[h] \subseteq {"rtc"}
      BY <2>1, <2>2, <2>3, <2>4 DEF SessionHeld, SessionHolders
    <2>6. Dying(h) => Destroys("rtc", h)
      <3>1. ~Destroys("control", h) /\ (dtorBy[h] = Nobody => ~Dying(h))
        BY <2>1 DEF RunsAt, Destroyed
      <3> QED BY <2>2, <2>3, <3>1 DEF Destroys, Destroyers
    <2>7. ASSUME Running(h)
          PROVE  Destroys("rtc", h) \/ h \in revived \/ erasedOther
      <3>1. CASE closed_[h]
        <4>1. h \in revived \/ Stopping(h)
          BY <2>1, <2>7, <3>1 DEF RunsAt, Stopped
        <4>2. Stopping(h) => Dying(h)
          BY <2>2 DEF Stopping, Dying, Closing
        <4> QED BY <2>6, <4>1, <4>2
      <3>2. CASE ~closed_[h]
        <4>1. SessionAlive(h) \/ dtor[h] = "mark"
          BY <2>1, <2>7, <3>2 DEF RunsAt, Stopped
        <4>2. toClose = {} /\ open_indices_[idx[h]] # h
          BY <2>3, NobodyAssumption DEF ClientInv, Stages
        <4>3. SessionAlive(h) => erasedOther
          BY <2>2, <3>2, <4>2 DEF ClientInv, Known, Made
        <4> QED BY <2>6, <4>1, <4>3 DEF Dying
      <3> QED BY <3>1, <3>2
    <2> QED BY <2>4, <2>5, <2>7
  <1> QED BY <1>1, ClientInvariance, PTL

\* Before disconnect lets go of the streams it found, the opened ones have been
\* reported CLOSED, unless a failed Start erased the index of another session.
THEOREM DisconnectReportsClosed == Spec => []DisconnectReports
PROOF
  <1>1. ClientInv => DisconnectReports
    <2> SUFFICES ASSUME ClientInv, ~erasedOther, control = "close", toClose = {},
                        NEW h \in Handles, "control" \in streamRefs[h], call[h] = "ok"
                 PROVE  told[h] >= 1
      BY DEF DisconnectReports
    <2>1. SessionAlive(h)
      BY DEF ClientInv, Held, SessionHeld, Placed, SessionAlive
    <2>2. closing # h
      BY NobodyAssumption DEF ClientInv, Stages
    <2>3. idx[h] \in Indices /\ told[h] \in 0..2
      BY TypeParts DEF ClientInv, CallsTyped, StagesTyped
    <2>4. open_indices_[idx[h]] # h
      BY <2>3, NobodyAssumption DEF ClientInv, Stages
    <2>5. closed_[h]
      BY <2>1, <2>4 DEF ClientInv, Known
    <2>6. told[h] # 0
      BY <2>1, <2>2, <2>5 DEF ClientInv, Reports
    <2> QED BY <2>3, <2>6
  <1> QED BY <1>1, ClientInvariance, PTL

==============================================================================
