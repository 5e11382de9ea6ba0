----------------------- MODULE ServiceLifecycleProofs -----------------------
(***************************************************************************)
(* Proofs about the service API, for any streams, any threads in the       *)
(* stream functions and any number of connections.  ServiceInv is          *)
(* inductive: it says what the place of each call means for who holds a    *)
(* stream and its Publisher (Calls, Held), in which stage of disconnect    *)
(* the map may hold streams (Stages), and where the CLOSED report of every *)
(* stream is to come from (Reports).                                       *)
(***************************************************************************)
EXTENDS ServiceLifecycle, TLAPS

\* Where a caller is says whether it has a function and a handle.
Calls ==
  \A t \in Callers :
    /\ (at[t] = "idle") <=> (arg[t] = Nobody)
    /\ (at[t] = "idle") <=> (op[t] = "none")
    /\ at[t] # "idle" => arg[t] \in created
    /\ at[t] = "mark" => op[t] # "push"
    /\ op[t] = "destroy" => arg[t] \notin streams

\* A stream is held by the map and by the calls that found it, its Publisher
\* by the stream and by the calls that took it.
Held ==
  \A h \in Handles :
    /\ ("map" \in refs[h]) <=> (h \in streams)
    /\ \A t \in Callers : (t \in refs[h]) <=> (arg[t] = h)
    /\ \A t \in Callers : (t \in pubRefs[h]) <=> (arg[t] = h /\ at[t] = "publisher")
    /\ "impl" \in pubRefs[h] => refs[h] # {}
    /\ h \in streams => "impl" \in pubRefs[h]
    /\ running[h] => pubRefs[h] # {}
    /\ h \notin created => ~started[h] /\ closedTold[h] = 0 /\ h \notin streams

\* In which stages of connect and disconnect the map may hold streams.
Stages ==
  /\ lifecycle # "kConnected" => streams = {}
  /\ control \in {"connected", "tell", "disconnected"} => lifecycle = "kConnected"
  /\ control = "disconnected" => streams = {}
  /\ control = "uninit" => lifecycle # "kConnected"
  /\ control = "tell" => toTell \subseteq streams

\* Somebody will report the CLOSED of a stream that is not in the map.
Owed(h) == \E t \in Callers : op[t] = "destroy" /\ arg[t] = h /\ at[t] # "end"

Reports ==
  /\ \A t, u \in Callers : op[t] = "destroy" /\ op[u] = "destroy" /\ arg[t] = arg[u] => t = u
  /\ \A h \in created :
       /\ closedTold[h] <= 1
       /\ h \in streams /\ control \notin {"tell", "blocked"} => closedTold[h] = 0
       /\ h \in streams /\ control = "tell" => (closedTold[h] = 0 <=> h \in toTell)
       /\ h \notin streams => (closedTold[h] = 0 <=> Owed(h))

\* What the one call under way has done to a stream whose calls follow one
\* another.
Agreement ==
  \A h \in streams \intersect Serial :
    /\ \A t, u \in Callers : arg[t] = h /\ arg[u] = h => t = u
    /\ \A t \in Callers : arg[t] = h /\ at[t] = "mark" => (running[h] <=> op[t] = "start")
    /\ (\A t \in Callers : arg[t] = h => at[t] # "mark") => (started[h] <=> running[h])

ServiceInv == TypeOK /\ Calls /\ Held /\ Stages /\ Reports /\ Agreement

-----------------------------------------------------------------------------
\* The invariant holds before any call.
LEMMA ServiceInit == Init => ServiceInv
PROOF
  <1> SUFFICES ASSUME Init PROVE ServiceInv
    OBVIOUS
  <1> USE DEF Init
  <1>1. TypeOK
    <2>1. {running, started} \subseteq [Handles -> BOOLEAN]
      OBVIOUS
    <2>2. connects \in 0..MaxConnects /\ closedTold \in [Handles -> 0..2]
      BY ServiceAssumption
    <2> QED BY <2>1, <2>2 DEF TypeOK, LockedAt, Ops
  <1>2. Calls
    BY HandlesAssumption DEF Calls
  <1>3. Held
    BY HandlesAssumption DEF Held
  <1>4. Stages /\ Reports /\ Agreement
    BY DEF Stages, Reports, Agreement
  <1> QED BY <1>1, <1>2, <1>3, <1>4 DEF ServiceInv

\* What Holders leaves of the holders and of the Publishers that run.
LEMMA HoldersLeaves ==
  ASSUME NEW r \in [Handles -> SUBSET (Callers \union {"map"})],
         NEW p \in [Handles -> SUBSET (Callers \union {"impl"})],
         NEW runs \in [Handles -> BOOLEAN],
         Holders(r, p, runs)
  PROVE  /\ refs' = r
         /\ pubRefs' \in [Handles -> SUBSET (Callers \union {"impl"})]
         /\ running' \in [Handles -> BOOLEAN]
         /\ \A h \in Handles : pubRefs'[h] = IF r[h] = {} THEN p[h] \ {"impl"} ELSE p[h]
         /\ \A h \in Handles : running'[h] <=> runs[h] /\ pubRefs'[h] # {}
PROOF
  <1>1. pubRefs' = [h \in Handles |-> IF r[h] = {} THEN p[h] \ {"impl"} ELSE p[h]]
    BY DEF Holders
  <1>2. running' = [h \in Handles |-> runs[h] /\ pubRefs'[h] # {}]
    BY <1>1 DEF Holders
  <1>3. running' \in [Handles -> BOOLEAN]
    BY <1>2
  <1>4. \A h \in Handles : running'[h] <=> runs[h] /\ pubRefs'[h] # {}
    BY <1>2
  <1>5. pubRefs' \in [Handles -> SUBSET (Callers \union {"impl"})]
    BY <1>1
  <1> QED BY <1>1, <1>3, <1>4, <1>5 DEF Holders

-----------------------------------------------------------------------------
(* lifecycle.cpp *)

\* The steps of svc_init, svc_connect, svc_disconnect that touch no stream.
LEMMA ControlKeeps ==
  ASSUME ServiceInv,
         \/ SvcInit \/ SvcConnect \/ ConnectEnds \/ DisconnectEnds \/ CallbackCalls
         \/ \E u \in BOOLEAN : SvcDisconnect(u)
  PROVE  ServiceInv'
PROOF
  <1> USE DEF ServiceInv
  <1>1. UNCHANGED <<callVars, streamVars, history>>
    BY DEF SvcInit, SvcConnect, ConnectEnds, DisconnectEnds, CallbackCalls, SvcDisconnect
  <1>2. Calls' /\ Held' /\ Agreement'
    BY <1>1 DEF Calls, Held, Agreement, callVars, streamVars, history
  <1>3. TypeOK'
    <2>1. connects' \in 0..MaxConnects
      BY ServiceAssumption
      DEF TypeOK, SvcInit, SvcConnect, ConnectEnds, DisconnectEnds, CallbackCalls, SvcDisconnect
    <2>2. infra' \in BOOLEAN /\ thenUninit' \in BOOLEAN
      BY DEF TypeOK, SvcInit, SvcConnect, ConnectEnds, DisconnectEnds, CallbackCalls, SvcDisconnect
    <2>3. /\ lifecycle' \in {"kUninit", "kInited", "kConnected"} /\ toTell' \subseteq Handles
          /\ control' \in {"idle", "uninit"} \union LockedAt
      BY DEF TypeOK, SvcInit, SvcConnect, ConnectEnds, DisconnectEnds, CallbackCalls,
             SvcDisconnect, LockedAt
    <2> QED BY <1>1, <2>1, <2>2, <2>3 DEF TypeOK, callVars, streamVars, history, LockedAt
  <1>4. Stages' /\ Reports'
    <2>1. \A h \in Handles : Owed(h)' <=> Owed(h)
      BY <1>1 DEF Owed, callVars
    <2>2. CASE SvcInit
      BY <1>1, <2>1, <2>2 DEF SvcInit, Stages, Reports, TypeOK, callVars, streamVars, history
    <2>3. CASE SvcConnect
      BY <1>1, <2>1, <2>3 DEF SvcConnect, Stages, Reports, TypeOK, callVars, streamVars, history
    <2>4. CASE ConnectEnds
      BY <1>1, <2>1, <2>4 DEF ConnectEnds, Stages, Reports, TypeOK, callVars, streamVars, history
    <2>5. CASE DisconnectEnds
      BY <1>1, <2>1, <2>5 DEF DisconnectEnds, Stages, Reports, TypeOK, callVars, streamVars, history
    <2>6. CASE CallbackCalls
      BY <1>1, <2>1, <2>6 DEF CallbackCalls, Stages, Reports, TypeOK, callVars, streamVars, history
    <2>7. CASE \E u \in BOOLEAN : SvcDisconnect(u)
      BY <1>1, <2>1, <2>7 DEF SvcDisconnect, Stages, Reports, TypeOK, callVars, streamVars, history
    <2> QED BY <2>2, <2>3, <2>4, <2>5, <2>6, <2>7
  <1> QED BY <1>2, <1>3, <1>4

\* svc_disconnect reports one stream CLOSED.
LEMMA TellKeeps ==
  ASSUME ServiceInv, NEW h \in Handles, TellClosed(h)
  PROVE  ServiceInv'
PROOF
  <1> USE DEF ServiceInv
  <1>1. /\ h \in streams /\ h \in created /\ closedTold[h] = 0
        /\ closedTold' = [g \in Handles |-> IF g = h THEN 1 ELSE closedTold[g]]
    <2>1. h \in streams
      BY DEF TellClosed, Stages
    <2>2. h \in created /\ closedTold[h] = 0
      BY <2>1 DEF TellClosed, Held, Reports
    <2>3. closedTold' = [g \in Handles |-> IF g \in {h} /\ closedTold[g] < 2
                                           THEN closedTold[g] + 1 ELSE closedTold[g]]
      BY DEF TellClosed, Told
    <2> QED BY <2>1, <2>2, <2>3
  <1>2. TypeOK'
    BY <1>1 DEF TellClosed, Told, TypeOK, callVars, streamVars
  <1>3. Calls' /\ Agreement' /\ Stages'
    BY DEF TellClosed, Calls, Agreement, Stages, callVars, streamVars
  <1>4. Held'
    BY <1>1 DEF TellClosed, Held, TypeOK, callVars, streamVars
  <1>5. Reports'
    BY <1>1 DEF TellClosed, Reports, Owed, TypeOK, callVars, streamVars
  <1> QED BY <1>2, <1>3, <1>4, <1>5

\* The map lets go of every stream, in svc_disconnect and in svc_uninit.
LEMMA MapCleared ==
  ASSUME ServiceInv, streams' = {}, UNCHANGED <<callVars, created, started, closedTold>>,
         Holders([h \in Handles |-> refs[h] \ {"map"}], pubRefs, running)
  PROVE  /\ Calls' /\ Held' /\ Agreement'
         /\ refs' \in [Handles -> SUBSET (Callers \union {"map"})]
         /\ pubRefs' \in [Handles -> SUBSET (Callers \union {"impl"})]
         /\ running' \in [Handles -> BOOLEAN]
PROOF
  <1> USE DEF ServiceInv
  <1> DEFINE r == [h \in Handles |-> refs[h] \ {"map"}]
  <1>1. r \in [Handles -> SUBSET (Callers \union {"map"})]
    BY DEF TypeOK
  <1>2. running \in [Handles -> BOOLEAN] /\ pubRefs \in [Handles -> SUBSET (Callers \union {"impl"})]
    BY DEF TypeOK
  <1>3. /\ refs' = r
        /\ pubRefs' \in [Handles -> SUBSET (Callers \union {"impl"})]
        /\ running' \in [Handles -> BOOLEAN]
        /\ \A h \in Handles : pubRefs'[h] = IF r[h] = {} THEN pubRefs[h] \ {"impl"} ELSE pubRefs[h]
        /\ \A h \in Handles : running'[h] <=> running[h] /\ pubRefs'[h] # {}
    BY <1>1, <1>2, HoldersLeaves
  <1>4. Calls' /\ Agreement'
    BY DEF Calls, Agreement, callVars
  <1>5. Held'
    <2> SUFFICES ASSUME NEW h \in Handles
                 PROVE  /\ "map" \notin r[h]
                        /\ \A t \in Callers : (t \in r[h]) <=> (arg[t] = h)
                        /\ \A t \in Callers : (t \in pubRefs'[h]) <=> (arg[t] = h /\ at[t] = "publisher")
                        /\ "impl" \in pubRefs'[h] => r[h] # {}
                        /\ running'[h] => pubRefs'[h] # {}
                        /\ h \notin created => ~started[h] /\ closedTold[h] = 0
      BY <1>3 DEF Held, callVars
    <2>1. \A t \in Callers : t # "map" /\ t # "impl"
      BY CallersAssumption
    <2> QED BY <1>3, <2>1 DEF Held
  <1> QED BY <1>1, <1>3, <1>4, <1>5

\* streams.clear() of svc_disconnect.
LEMMA ClearKeeps ==
  ASSUME ServiceInv, ClearStreams
  PROVE  ServiceInv'
PROOF
  <1> USE DEF ServiceInv
  <1>1. /\ Calls' /\ Held' /\ Agreement'
        /\ refs' \in [Handles -> SUBSET (Callers \union {"map"})]
        /\ pubRefs' \in [Handles -> SUBSET (Callers \union {"impl"})]
        /\ running' \in [Handles -> BOOLEAN]
    BY MapCleared DEF ClearStreams, history
  <1>2. TypeOK'
    BY <1>1 DEF ClearStreams, TypeOK, callVars, history, LockedAt
  <1>3. Stages'
    BY DEF ClearStreams, Stages
  <1>4. Reports'
    BY DEF ClearStreams, Reports, Stages, Calls, Owed, TypeOK, callVars, history
  <1> QED BY <1>1, <1>2, <1>3, <1>4

\* The locked part of svc_uninit.
LEMMA UninitKeeps ==
  ASSUME ServiceInv, UninitEnds
  PROVE  ServiceInv'
PROOF
  <1> USE DEF ServiceInv
  <1>1. streams = {} /\ streams' = {}
    BY DEF UninitEnds, Stages
  <1>2. /\ Calls' /\ Held' /\ Agreement'
        /\ refs' \in [Handles -> SUBSET (Callers \union {"map"})]
        /\ pubRefs' \in [Handles -> SUBSET (Callers \union {"impl"})]
        /\ running' \in [Handles -> BOOLEAN]
    <2>1. CASE lifecycle = "kUninit"
      BY <2>1, <1>1 DEF UninitEnds, Calls, Held, Agreement, TypeOK, callVars, history
    <2>2. CASE lifecycle # "kUninit"
      BY <2>2, <1>1, MapCleared DEF UninitEnds, history
    <2> QED BY <2>1, <2>2
  <1>3. TypeOK'
    BY <1>1, <1>2 DEF UninitEnds, TypeOK, callVars, history, LockedAt
  <1>4. Stages'
    BY <1>1 DEF UninitEnds, Stages
  <1>5. Reports'
    BY <1>1 DEF UninitEnds, Reports, Owed, TypeOK, callVars, history
  <1> QED BY <1>2, <1>3, <1>4, <1>5

-----------------------------------------------------------------------------
(* stream.cpp *)

\* svc_create_stream: nobody holds a stream that was not created.
LEMMA CreateKeeps ==
  ASSUME ServiceInv, NEW h \in Handles, CreateStream(h)
  PROVE  ServiceInv'
PROOF
  <1> USE DEF ServiceInv
  <1>1. \A t \in Callers : arg[t] # h
    BY HandlesAssumption DEF CreateStream, Calls
  <1>2. refs[h] = {} /\ pubRefs[h] = {}
    BY <1>1 DEF CreateStream, Held, TypeOK
  <1>3. ~running[h] /\ ~started[h] /\ closedTold[h] = 0
    BY <1>2 DEF CreateStream, Held
  <1>4. TypeOK'
    BY DEF CreateStream, TypeOK, controlVars, callVars, history, LockedAt
  <1>5. Calls'
    BY <1>1 DEF CreateStream, Calls, callVars
  <1>6. Held'
    BY <1>1, <1>3, CallersAssumption DEF CreateStream, Held, TypeOK, callVars, history
  <1>7. Stages'
    BY DEF CreateStream, Stages, MuFree, LockedAt, controlVars
  <1>8. Reports'
    BY <1>3 DEF CreateStream, Reports, Owed, MuFree, LockedAt, TypeOK, controlVars, callVars, history
  <1>9. Agreement'
    BY <1>1, <1>3 DEF CreateStream, Agreement, callVars
  <1> QED BY <1>4, <1>5, <1>6, <1>7, <1>8, <1>9

\* A stream function finds its stream, svc_destroy_stream takes it out of the map.
LEMMA LookupKeeps ==
  ASSUME ServiceInv, NEW t \in Callers, NEW o \in Ops, NEW h \in Handles, Lookup(t, o, h)
  PROVE  ServiceInv'
PROOF
  <1> USE DEF ServiceInv
  <1>1. arg[t] = Nobody /\ op[t] = "none" /\ h \in created /\ h # Nobody
    BY HandlesAssumption DEF Lookup, Calls, Held
  <1>2. /\ op' = [op EXCEPT ![t] = o] /\ arg' = [arg EXCEPT ![t] = h]
        /\ \/ at' = [at EXCEPT ![t] = "found"]
           \/ at' = [at EXCEPT ![t] = "end"] /\ o = "push"
        /\ \/ /\ o = "destroy" /\ streams' = streams \ {h}
              /\ refs' = [refs EXCEPT ![h] = (@ \ {"map"}) \union {t}]
           \/ /\ o # "destroy" /\ streams' = streams
              /\ refs' = [refs EXCEPT ![h] = @ \union {t}]
        /\ UNCHANGED <<pubRefs, created, running, started, history>>
    BY DEF Lookup
  <1>3. TypeOK'
    BY <1>2 DEF Lookup, TypeOK, controlVars, history, LockedAt, Ops
  <1>4. Calls'
    BY <1>1, <1>2 DEF Calls, TypeOK, Ops
  <1>5. Held'
    <2>1. \A u \in Callers : u # "map"
      BY CallersAssumption
    <2>2. \A g \in Handles :
            /\ ("map" \in refs'[g]) <=> (g \in streams')
            /\ \A u \in Callers : (u \in refs'[g]) <=> (arg'[u] = g)
            /\ refs[g] # {} => refs'[g] # {}
      <3>1. \A g \in Handles : g # h => refs'[g] = refs[g] /\ (g \in streams' <=> g \in streams)
        BY <1>2 DEF TypeOK
      <3>2. \A u \in Callers : u # t => arg'[u] = arg[u]
        BY <1>2 DEF TypeOK
      <3>3. arg'[t] = h /\ \A g \in Handles : arg[t] # g
        BY <1>1, <1>2, HandlesAssumption DEF TypeOK
      <3>4. \/ refs'[h] = (refs[h] \ {"map"}) \union {t} /\ h \notin streams'
            \/ refs'[h] = refs[h] \union {t} /\ h \in streams'
        BY <1>2 DEF Lookup, TypeOK
      <3> QED BY <2>1, <3>1, <3>2, <3>3, <3>4 DEF Lookup, Held
    <2>3. \A g \in Handles : \A u \in Callers :
            (u \in pubRefs[g]) <=> (arg'[u] = g /\ at'[u] = "publisher")
      BY <1>1, <1>2, HandlesAssumption DEF Held, TypeOK
    <2> QED BY <1>2, <2>2, <2>3 DEF Held, history
  <1>6. Stages'
    BY <1>2 DEF Lookup, Stages, MuFree, LockedAt, controlVars
  <1>7. Reports'
    <2>1. \A u \in Callers : op[u] = "destroy" => arg[u] # h
      BY DEF Lookup, Calls
    <2>2. \A u, v \in Callers : op'[u] = "destroy" /\ op'[v] = "destroy" /\ arg'[u] = arg'[v] => u = v
      BY <1>2, <2>1 DEF Reports, TypeOK
    <2>3. \A g \in Handles : Owed(g)' <=> Owed(g) \/ (o = "destroy" /\ g = h)
      BY <1>1, <1>2 DEF Owed, TypeOK
    <2>4. closedTold[h] = 0
      BY <1>1 DEF Lookup, Reports, MuFree, LockedAt
    <2> QED BY <1>1, <1>2, <2>2, <2>3, <2>4
            DEF Lookup, Reports, MuFree, LockedAt, TypeOK, controlVars, history
  <1>8. Agreement'
    <2>1. h \in Serial => \A u \in Callers : arg[u] # h
      BY DEF Lookup, InUse
    <2> SUFFICES ASSUME NEW g \in streams', g \in Serial
                 PROVE  /\ \A u, v \in Callers : arg'[u] = g /\ arg'[v] = g => u = v
                        /\ \A u \in Callers : arg'[u] = g /\ at'[u] = "mark"
                                              => (running[g] <=> op'[u] = "start")
                        /\ (\A u \in Callers : arg'[u] = g => at'[u] # "mark")
                           => (started[g] <=> running[g])
      BY <1>2 DEF Agreement
    <2>2. g \in streams
      BY <1>2
    <2>3. \A u \in Callers : u # t => arg'[u] = arg[u] /\ at'[u] = at[u] /\ op'[u] = op[u]
      BY <1>2 DEF TypeOK
    <2>4. arg'[t] = h /\ at'[t] # "mark"
      BY <1>2 DEF TypeOK
    <2>5. arg[t] # g
      BY <1>1, HandlesAssumption, <2>2 DEF TypeOK
    <2>6. CASE g = h
      BY <2>1, <2>2, <2>3, <2>4, <2>6 DEF Agreement
    <2>7. CASE g # h
      BY <2>2, <2>3, <2>4, <2>5, <2>7 DEF Agreement
    <2> QED BY <2>6, <2>7
  <1> QED BY <1>3, <1>4, <1>5, <1>6, <1>7, <1>8

\* A call takes the Publisher, where svc_destroy_stream has not reset it.
LEMMA TakeKeeps ==
  ASSUME ServiceInv, NEW t \in Callers, TakePublisher(t)
  PROVE  ServiceInv'
PROOF
  <1> USE DEF ServiceInv
  <1>1. arg[t] \in created /\ arg[t] \in Handles
    BY DEF TakePublisher, Calls, TypeOK
  <1>2. \/ /\ "impl" \in pubRefs[arg[t]]
           /\ pubRefs' = [pubRefs EXCEPT ![arg[t]] = @ \union {t}]
           /\ at' = [at EXCEPT ![t] = "publisher"]
        \/ /\ "impl" \notin pubRefs[arg[t]] /\ pubRefs' = pubRefs
           /\ \/ at' = [at EXCEPT ![t] = "mark"] /\ op[t] # "push"
              \/ at' = [at EXCEPT ![t] = "end"] /\ op[t] = "push"
    BY DEF TakePublisher
  <1>3. TypeOK'
    BY <1>1, <1>2 DEF TakePublisher, TypeOK, controlVars, history, LockedAt
  <1>4. Calls'
    BY <1>1, <1>2 DEF TakePublisher, Calls, TypeOK
  <1>5. Held'
    BY <1>1, <1>2, CallersAssumption DEF TakePublisher, Held, TypeOK, history
  <1>6. Stages'
    BY DEF TakePublisher, Stages, controlVars
  <1>7. Reports'
    <2>1. \A g \in Handles : Owed(g)' <=> Owed(g)
      BY <1>2 DEF TakePublisher, Owed, TypeOK
    <2> QED BY <2>1 DEF TakePublisher, Reports, TypeOK, controlVars, history
  <1>8. Agreement'
    BY <1>1, <1>2 DEF TakePublisher, Agreement, Held, TypeOK
  <1> QED BY <1>3, <1>4, <1>5, <1>6, <1>7, <1>8

\* A call lets its Publisher go, having left it running or not.
LEMMA LetsGoKeeps ==
  ASSUME ServiceInv, NEW t \in Callers, NEW runs \in [Handles -> BOOLEAN], NEW next,
         at[t] = "publisher", LetsGo(t, runs), at' = [at EXCEPT ![t] = next],
         \/ next = "mark" /\ op[t] # "push" /\ (runs[arg[t]] <=> op[t] = "start")
         \/ next = "end" /\ op[t] # "destroy" /\ runs = running,
         \A h \in Handles : h # arg[t] => (runs[h] <=> running[h]),
         UNCHANGED <<controlVars, op, arg, streams, created, started, history>>
  PROVE  ServiceInv'
PROOF
  <1> USE DEF ServiceInv
  <1> DEFINE go == IF op[t] = "destroy" THEN {t, "impl"} ELSE {t}
             p == [pubRefs EXCEPT ![arg[t]] = @ \ go]
  <1>1. arg[t] \in created /\ arg[t] \in Handles
    BY DEF Calls, TypeOK
  <1>2. /\ refs \in [Handles -> SUBSET (Callers \union {"map"})]
        /\ p \in [Handles -> SUBSET (Callers \union {"impl"})]
    BY <1>1 DEF TypeOK
  <1>3. /\ refs' = refs
        /\ pubRefs' \in [Handles -> SUBSET (Callers \union {"impl"})]
        /\ running' \in [Handles -> BOOLEAN]
        /\ \A h \in Handles : pubRefs'[h] = IF refs[h] = {} THEN p[h] \ {"impl"} ELSE p[h]
        /\ \A h \in Handles : running'[h] <=> runs[h] /\ pubRefs'[h] # {}
    <2>1. Holders(refs, p, runs)
      BY DEF LetsGo
    <2> HIDE DEF p
    <2> QED BY <1>2, <2>1, HoldersLeaves
  <1>4. \A h \in Handles : p[h] = IF h = arg[t] THEN pubRefs[h] \ go ELSE pubRefs[h]
    BY DEF TypeOK
  <1>5. TypeOK'
    BY <1>1, <1>3 DEF TypeOK, controlVars, history, LockedAt
  <1>6. Calls'
    BY DEF Calls, TypeOK
  <1>7. \A h \in streams : "impl" \in pubRefs'[h]
    BY <1>3, <1>4, CallersAssumption DEF Held, Calls, TypeOK
  <1>8. Held'
    <2> SUFFICES ASSUME NEW h \in Handles
                 PROVE  /\ \A u \in Callers : (u \in pubRefs'[h]) <=> (arg[u] = h /\ at'[u] = "publisher")
                        /\ "impl" \in pubRefs'[h] => refs[h] # {}
                        /\ running'[h] => pubRefs'[h] # {}
      BY <1>3, <1>7 DEF Held, history
    <2>1. \A u \in Callers : u # "impl"
      BY CallersAssumption
    <2>2. \A u \in Callers : (u \in pubRefs'[h]) <=> (u \in pubRefs[h] /\ u # t)
      BY <1>3, <1>4, <2>1 DEF Held
    <2> QED BY <1>3, <2>2 DEF Held, TypeOK
  <1>9. Stages'
    BY DEF Stages, controlVars
  <1>10. Reports'
    <2>1. \A g \in Handles : Owed(g)' <=> Owed(g)
      BY DEF Owed, TypeOK
    <2> QED BY <2>1 DEF Reports, TypeOK, controlVars, history
  <1>11. Agreement'
    BY <1>1, <1>3, <1>7 DEF Agreement, TypeOK
  <1> QED BY <1>5, <1>6, <1>8, <1>9, <1>10, <1>11

\* Publisher::Start, Stop and the pushes.
LEMMA PublisherKeeps ==
  ASSUME ServiceInv, NEW t \in Callers,
         PublisherStarts(t) \/ PublisherStops(t) \/ PublisherPushes(t)
  PROVE  ServiceInv'
PROOF
  <1> USE DEF ServiceInv
  <1>1. /\ arg[t] \in Handles /\ running \in [Handles -> BOOLEAN]
        /\ at[t] = "publisher"
        /\ UNCHANGED <<controlVars, op, arg, streams, created, started, history>>
    BY DEF PublisherStarts, PublisherStops, PublisherPushes, Calls, TypeOK
  <1> DEFINE on == [running EXCEPT ![arg[t]] = TRUE]
             off == [running EXCEPT ![arg[t]] = FALSE]
  <1>2. /\ on \in [Handles -> BOOLEAN] /\ on[arg[t]]
        /\ \A h \in Handles : h # arg[t] => (on[h] <=> running[h])
    BY <1>1
  <1>3. /\ off \in [Handles -> BOOLEAN] /\ ~off[arg[t]]
        /\ \A h \in Handles : h # arg[t] => (off[h] <=> running[h])
    BY <1>1
  <1>4. \/ /\ LetsGo(t, on) /\ at' = [at EXCEPT ![t] = "mark"] /\ op[t] = "start"
        \/ /\ LetsGo(t, off) /\ at' = [at EXCEPT ![t] = "mark"] /\ op[t] \in {"stop", "destroy"}
        \/ /\ LetsGo(t, running) /\ at' = [at EXCEPT ![t] = "end"] /\ op[t] \in {"start", "push"}
    BY DEF PublisherStarts, PublisherStops, PublisherPushes
  <1> HIDE DEF on, off, ServiceInv
  <1>5. CASE LetsGo(t, on) /\ at' = [at EXCEPT ![t] = "mark"] /\ op[t] = "start"
    BY <1>1, <1>2, <1>5, LetsGoKeeps
  <1>6. CASE LetsGo(t, off) /\ at' = [at EXCEPT ![t] = "mark"] /\ op[t] \in {"stop", "destroy"}
    BY <1>1, <1>3, <1>6, LetsGoKeeps
  <1>7. CASE LetsGo(t, running) /\ at' = [at EXCEPT ![t] = "end"] /\ op[t] \in {"start", "push"}
    BY <1>1, <1>7, LetsGoKeeps
  <1> QED BY <1>4, <1>5, <1>6, <1>7

\* A call marks its stream and reports it.
LEMMA MarkKeeps ==
  ASSUME ServiceInv, NEW t \in Callers, MarkStream(t)
  PROVE  ServiceInv'
PROOF
  <1> USE DEF ServiceInv
  <1> DEFINE h == arg[t]
  <1>1. h \in created /\ h \in Handles /\ op[t] \in {"start", "stop", "destroy"}
    BY DEF MarkStream, Calls, TypeOK, Ops
  <1>2. /\ UNCHANGED <<controlVars, op, arg, streams, refs, pubRefs, created, running>>
        /\ at[t] = "mark" /\ at' = [at EXCEPT ![t] = "end"]
    BY DEF MarkStream
  <1>3. /\ started' \in [Handles -> BOOLEAN]
        /\ started'[h] <=> op[t] = "start"
        /\ \A g \in Handles : g # h => (started'[g] <=> started[g])
    <2>1. started \in [Handles -> BOOLEAN]
      BY DEF TypeOK
    <2>2. started' = [started EXCEPT ![h] = (op[t] = "start")]
      BY DEF MarkStream
    <2> QED BY <1>1, <2>1, <2>2
  <1>4. op[t] = "destroy" => h \notin streams /\ closedTold[h] = 0
    BY <1>1, <1>2 DEF Calls, Reports, Owed
  <1>5. /\ closedTold' \in [Handles -> 0..2]
        /\ \A g \in Handles : closedTold'[g] = IF g = h /\ op[t] = "destroy" THEN 1 ELSE closedTold[g]
        /\ lastTold' \in [Handles -> {"none", "OPENED", "IDLE", "CLOSED"}]
    <2>1. CASE op[t] = "destroy"
      <3>1. Told({h}, "CLOSED")
        BY <2>1 DEF MarkStream
      <3> QED BY <2>1, <3>1, <1>1, <1>4 DEF Told, TypeOK
    <2>2. CASE op[t] # "destroy"
      <3>1. Told({h}, "OPENED") \/ Told({h}, "IDLE")
        BY <2>2, <1>1 DEF MarkStream
      <3> QED BY <2>2, <3>1, <1>1 DEF Told, TypeOK
    <2> QED BY <2>1, <2>2
  <1>6. TypeOK'
    BY <1>2, <1>3, <1>5 DEF TypeOK, controlVars, LockedAt
  <1>7. Calls'
    BY <1>2 DEF Calls, TypeOK
  <1>8. Held'
    BY <1>1, <1>2, <1>3, <1>5 DEF Held, TypeOK
  <1>9. Stages'
    BY <1>2 DEF Stages, controlVars
  <1>10. Reports'
    <2>1. \A g \in Handles : Owed(g)' <=> Owed(g) /\ ~(op[t] = "destroy" /\ g = h)
      BY <1>1, <1>2 DEF Owed, Reports, TypeOK
    <2> QED BY <1>1, <1>2, <1>4, <1>5, <2>1 DEF Reports, TypeOK, controlVars
  <1>11. Agreement'
    <2> SUFFICES ASSUME NEW g \in streams, g \in Serial
                 PROVE  /\ \A u, v \in Callers : arg[u] = g /\ arg[v] = g => u = v
                        /\ \A u \in Callers : arg[u] = g /\ at'[u] = "mark"
                                              => (running[g] <=> op[u] = "start")
                        /\ (\A u \in Callers : arg[u] = g => at'[u] # "mark")
                           => (started'[g] <=> running[g])
      BY <1>2 DEF Agreement
    <2>1. g \in Handles
      BY DEF TypeOK
    <2>2. \A u \in Callers : u # t => at'[u] = at[u]
      BY <1>2 DEF TypeOK
    <2>3. at'[t] = "end"
      BY <1>2 DEF TypeOK
    <2>4. CASE g = h
      BY <1>2, <1>3, <2>2, <2>3, <2>4 DEF Agreement
    <2>5. CASE g # h
      BY <1>2, <1>3, <2>1, <2>2, <2>3, <2>5 DEF Agreement
    <2> QED BY <2>4, <2>5
  <1> QED BY <1>6, <1>7, <1>8, <1>9, <1>10, <1>11

\* A call lets its stream go and returns.
LEMMA ReturnKeeps ==
  ASSUME ServiceInv, NEW t \in Callers, CallReturns(t)
  PROVE  ServiceInv'
PROOF
  <1> USE DEF ServiceInv
  <1> DEFINE r == [refs EXCEPT ![arg[t]] = @ \ {t}]
  <1>1. arg[t] \in Handles
    BY DEF CallReturns, Calls, TypeOK
  <1>2. /\ at[t] = "end" /\ at' = [at EXCEPT ![t] = "idle"]
        /\ op' = [op EXCEPT ![t] = "none"] /\ arg' = [arg EXCEPT ![t] = Nobody]
        /\ UNCHANGED <<controlVars, streams, created, started, history>>
    BY DEF CallReturns
  <1>3. /\ r \in [Handles -> SUBSET (Callers \union {"map"})]
        /\ pubRefs \in [Handles -> SUBSET (Callers \union {"impl"})]
        /\ running \in [Handles -> BOOLEAN]
    BY <1>1 DEF TypeOK
  <1>4. /\ refs' = r
        /\ pubRefs' \in [Handles -> SUBSET (Callers \union {"impl"})]
        /\ running' \in [Handles -> BOOLEAN]
        /\ \A h \in Handles : pubRefs'[h] = IF r[h] = {} THEN pubRefs[h] \ {"impl"} ELSE pubRefs[h]
        /\ \A h \in Handles : running'[h] <=> running[h] /\ pubRefs'[h] # {}
    <2>1. Holders(r, pubRefs, running)
      BY DEF CallReturns
    <2> HIDE DEF r
    <2> QED BY <1>3, <2>1, HoldersLeaves
  <1>5. \A h \in Handles : r[h] = IF h = arg[t] THEN refs[h] \ {t} ELSE refs[h]
    BY DEF TypeOK
  <1>6. /\ at'[t] = "idle" /\ op'[t] = "none" /\ arg'[t] = Nobody
        /\ \A u \in Callers : u # t => at'[u] = at[u] /\ op'[u] = op[u] /\ arg'[u] = arg[u]
    BY <1>2 DEF TypeOK
  <1>7. \A u \in Callers : u # "map" /\ u # "impl"
    BY CallersAssumption
  <1>8. \A h \in streams : "map" \in r[h] /\ "impl" \in pubRefs'[h]
    BY <1>4, <1>5, <1>7 DEF Held, TypeOK
  <1>9. TypeOK'
    BY <1>2, <1>3, <1>4 DEF TypeOK, controlVars, history, LockedAt, Ops
  <1>10. Calls'
    BY <1>2, <1>6 DEF Calls
  <1>11. Held'
    <2> SUFFICES ASSUME NEW h \in Handles
                 PROVE  /\ ("map" \in r[h]) <=> (h \in streams)
                        /\ \A u \in Callers : (u \in r[h]) <=> (arg'[u] = h)
                        /\ \A u \in Callers : (u \in pubRefs'[h]) <=> (arg'[u] = h /\ at'[u] = "publisher")
                        /\ "impl" \in pubRefs'[h] => r[h] # {}
                        /\ running'[h] => pubRefs'[h] # {}
      BY <1>2, <1>4, <1>8 DEF Held, history
    <2>1. ("map" \in r[h]) <=> (h \in streams)
      BY <1>5, <1>7 DEF Held
    <2>2. Nobody # h
      BY HandlesAssumption
    <2>3. \A u \in Callers : (u \in r[h]) <=> (arg'[u] = h)
      BY <1>5, <1>6, <2>2 DEF Held
    <2>4. \A u \in Callers : (u \in pubRefs'[h]) <=> (u \in pubRefs[h])
      BY <1>4, <1>7
    <2>5. \A u \in Callers : (u \in pubRefs'[h]) <=> (arg'[u] = h /\ at'[u] = "publisher")
      BY <1>2, <1>6, <2>4 DEF Held
    <2> QED BY <1>4, <2>1, <2>3, <2>5
  <1>12. Stages'
    BY <1>2 DEF Stages, controlVars
  <1>13. Reports'
    <2>1. \A g \in Handles : Owed(g)' <=> Owed(g)
      BY <1>2, <1>6, HandlesAssumption DEF Owed
    <2>2. \A u, v \in Callers : op'[u] = "destroy" /\ op'[v] = "destroy" /\ arg'[u] = arg'[v] => u = v
      BY <1>6 DEF Reports
    <2> QED BY <1>2, <2>1, <2>2 DEF Reports, TypeOK, controlVars, history
  <1>14. Agreement'
    <2> SUFFICES ASSUME NEW g \in streams, g \in Serial
                 PROVE  /\ \A u, v \in Callers : arg'[u] = g /\ arg'[v] = g => u = v
                        /\ \A u \in Callers : arg'[u] = g /\ at'[u] = "mark"
                                              => (running'[g] <=> op'[u] = "start")
                        /\ (\A u \in Callers : arg'[u] = g => at'[u] # "mark")
                           => (started[g] <=> running'[g])
      BY <1>2 DEF Agreement
    <2>1. g \in Handles /\ Nobody # g
      BY HandlesAssumption DEF TypeOK
    <2>2. running'[g] <=> running[g]
      BY <1>4, <1>8, <2>1
    <2> QED BY <1>2, <1>6, <2>1, <2>2 DEF Agreement
  <1> QED BY <1>9, <1>10, <1>11, <1>12, <1>13, <1>14

-----------------------------------------------------------------------------
\* Every step of a call keeps the invariant.
LEMMA ServiceNext == ServiceInv /\ [Next]_vars => ServiceInv'
PROOF
  <1> SUFFICES ASSUME ServiceInv, [Next]_vars PROVE ServiceInv'
    OBVIOUS
  <1>1. CASE ControlStep
    BY <1>1, ControlKeeps, TellKeeps, ClearKeeps, UninitKeeps DEF ControlStep
  <1>2. CASE \E h \in Handles : CreateStream(h)
    BY <1>2, CreateKeeps
  <1>3. CASE \E t \in Callers : CallStep(t)
    BY <1>3, TakeKeeps, PublisherKeeps, MarkKeeps, ReturnKeeps DEF CallStep
  <1>4. CASE \E t \in Callers : \E o \in Ops, h \in Handles : Lookup(t, o, h)
    BY <1>4, LookupKeeps
  <1>5. CASE UNCHANGED vars
    BY <1>5 DEF ServiceInv, TypeOK, Calls, Held, Stages, Reports, Agreement, Owed, vars,
                controlVars, callVars, streamVars, history
  <1> QED BY <1>1, <1>2, <1>3, <1>4, <1>5 DEF Next

\* ServiceInv holds in every reachable state.
THEOREM ServiceInvariance == Spec => []ServiceInv
PROOF
  BY ServiceInit, ServiceNext, PTL DEF Spec

\* The variables keep their types.
THEOREM TypeCorrect == Spec => []TypeOK
PROOF
  <1>1. ServiceInv => TypeOK
    BY DEF ServiceInv
  <1> QED BY <1>1, ServiceInvariance, PTL

\* Every stream that left the map is reported CLOSED once, by
\* svc_destroy_stream or by svc_disconnect, whatever calls overlap.
THEOREM ReportedClosedOnce == Spec => []ClosedOnce
PROOF
  <1>1. ServiceInv => ClosedOnce
    BY DEF ServiceInv, ClosedOnce, Reports, Owed, InUse, TypeOK
  <1> QED BY <1>1, ServiceInvariance, PTL

\* No Publisher runs for a stream that left the map and that no call has in
\* hand: the last holder stops it.
THEOREM NoPublisherLeft == Spec => []NothingLeftRunning
PROOF
  <1>1. ServiceInv => NothingLeftRunning
    BY DEF ServiceInv, NothingLeftRunning, Held, InUse, TypeOK
  <1> QED BY <1>1, ServiceInvariance, PTL

\* svc_uninit shuts the infrastructure down with an empty map.
THEOREM UninitWithoutStreams == Spec => []UninitFindsNothing
PROOF
  <1>1. ServiceInv => UninitFindsNothing
    BY DEF ServiceInv, UninitFindsNothing, Stages
  <1> QED BY <1>1, ServiceInvariance, PTL

\* started agrees with the Publisher of a stream whose calls follow one another.
THEOREM StartedIsRunning == Spec => []StartedAgrees
PROOF
  <1>1. ServiceInv => StartedAgrees
    BY DEF ServiceInv, StartedAgrees, Agreement, InUse
  <1> QED BY <1>1, ServiceInvariance, PTL

=============================================================================
