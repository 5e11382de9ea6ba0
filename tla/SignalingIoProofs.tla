-------------------------- MODULE SignalingIoProofs --------------------------
(***************************************************************************)
(* Proofs about the signaling connections, for any sessions, any number of *)
(* descriptors and any lines.  IoInv says which connection each descriptor *)
(* leads to that a session, its slot, UnregisterSession or CloseSession    *)
(* holds (Slots, Table, IoSlot), and of which connection and up to which   *)
(* the lines are that the IO thread has in hand (Lines).  It is kept by    *)
(* every step but the one close that may hit another session (stale).      *)
(***************************************************************************)
EXTENDS SignalingIo, TLAPS

Busy == {"recv", "blocked", "lines", "parse", "callback", "stopping",
         "disown", "erase", "close", "tell"}
Reading == io.at \in {"lines", "parse", "callback", "stopping"}

Line == Sessions \X Nat
MaybeFd == Fds \union {Nil}

Pcs == {"new", "connected", "inserted", "attaching", "on", "unregister",
        "erase owned", "erase", "close owned", "close", "stopped", "gone"}

FdsTyped ==
  /\ pc \in [Sessions -> Pcs]
  /\ sock_fd_ \in [Sessions -> MaybeFd] /\ fd \in [Sessions -> MaybeFd]
  /\ taken \in [Sessions -> MaybeFd]
  /\ sessions_ \in [Fds -> Sessions \union {Nil}] /\ open \in [Fds -> Sessions \union {Nil}]

FlagsTyped ==
  /\ session_slot_ \in [Sessions -> BOOLEAN] /\ delegate_ \in [Sessions -> BOOLEAN]
  /\ owner \in [Sessions -> BOOLEAN] /\ stray \in BOOLEAN

LinesTyped ==
  /\ sent \in [Sessions -> Nat] /\ read \in [Sessions -> Nat]
  /\ delivered \in [Sessions -> Seq(Line)]

IoTyped ==
  /\ io \in [at : Places, s : Sessions \union {Nil}, fd : MaybeFd, owner : BOOLEAN,
             lines : Seq(Line) \union Seq(Sessions)]
  /\ io.at \notin {"blocked", "disown"} => io.lines \in Seq(Line)

\* The session was handed to the manager, or will never be.
Registered(s) == pc[s] \notin {"new", "connected"}

\* The loop of the IO thread meets only sessions that were registered.
Snapshot ==
  /\ polled \in [Sessions -> MaybeFd] /\ DOMAIN watch = Sessions /\ DOMAIN events = Sessions
  /\ \A s \in Sessions :
       polled[s] # Nil \/ watch[s] # "none" \/ events[s] # "none" => Registered(s)

\* CloseSession took the session over from its owner and has not told it yet.
ClosingOwned(s) == io.at \in {"erase", "close", "tell"} /\ io.s = s /\ io.owner

\* The descriptors a session holds, in its slot, in UnregisterSession and in
\* sock_fd_: each leads to its connection, but for sock_fd_ while CloseSession
\* has not cleared it.
Slot(s) ==
  /\ owner[s] => /\ pc[s] \in {"inserted", "attaching", "on", "unregister"}
                 /\ fd[s] # Nil /\ fd[s] = sock_fd_[s]
  /\ fd[s] # Nil => /\ pc[s] \in {"inserted", "attaching", "on", "unregister",
                                  "erase owned", "erase"}
                    /\ open[fd[s]] = s /\ sessions_[fd[s]] = s
  /\ taken[s] # Nil => pc[s] \in {"close owned", "close"} /\ open[taken[s]] = s
  /\ pc[s] = "connected" => sock_fd_[s] # Nil /\ open[sock_fd_[s]] = s
  /\ pc[s] = "new" => sock_fd_[s] = Nil
  /\ pc[s] = "on" /\ ~session_slot_[s] => sock_fd_[s] = Nil /\ fd[s] = Nil
  /\ \/ pc[s] \in {"inserted", "attaching", "on", "unregister"} /\ ~owner[s]
     \/ pc[s] \in {"erase", "close", "stopped"}
     => sock_fd_[s] = Nil \/ ClosingOwned(s)
  /\ pc[s] = "gone" => sock_fd_[s] = Nil

Slots == \A s \in Sessions : Slot(s)

\* The table of the manager is the inverse of the slots.
Table == \A f \in Fds : sessions_[f] # Nil => fd[sessions_[f]] = f

\* CloseSession closes a descriptor that leads to the session's connection, unless the
\* session was destroyed, and closed the descriptor, after CloseSession had taken it over.
IoHolds ==
  io.at = "close" /\ io.fd # Nil =>
    taken[io.s] = Nil /\ (open[io.fd] = io.s \/ (pc[io.s] = "gone" /\ io.owner))

\* What the IO thread holds while it reads or closes one session.
IoSlot ==
  /\ io.at \in Busy => io.s \in Sessions /\ Registered(io.s)
  /\ io.at \notin Busy => io.s = Nil /\ ~io.owner
  /\ io.at = "recv" => io.fd # Nil /\ (owner[io.s] => io.fd = fd[io.s])
  /\ io.at \in {"recv", "blocked", "lines", "disown"} => ~io.owner
  /\ io.at \in {"erase", "close", "tell"} => ~owner[io.s] /\ io.lines = <<>>
  /\ io.at \in {"close", "tell"} => fd[io.s] = Nil
  /\ IoHolds
  /\ io.at = "parse" => io.owner /\ io.lines # <<>>
  /\ manager = "off" => io.at = "off"

\* The lines in hand are the last ones read of one connection, and of the
\* session's own connection if anybody may still get them.
Lines ==
  /\ Reading =>
       \E c \in Sessions :
         /\ \A k \in 1..Len(io.lines) : io.lines[k] = <<c, read[c] - Len(io.lines) + k>>
         /\ Len(io.lines) <= read[c]
         /\ \A i \in 1..Len(delivered[c]) : delivered[c][i][2] <= read[c] - Len(io.lines)
         /\ owner[io.s] \/ io.owner => c = io.s
         /\ ~stray => c = io.s
  /\ io.at = "blocked" =>
       \E c \in Sessions : /\ io.lines = <<c>>
                           /\ owner[io.s] \/ ~stray => c = io.s

\* What the delegates got.
Delivered ==
  \A s \in Sessions :
    /\ \A i \in 1..Len(delivered[s]) : delivered[s][i][1] = s /\ delivered[s][i][2] <= read[s]
    /\ \A i, j \in 1..Len(delivered[s]) : i < j => delivered[s][i][2] < delivered[s][j][2]
    /\ ~stray => \A i \in 1..Len(delivered[s]) : delivered[s][i][2] = i

\* The lines of s the IO thread has in hand.
InHand(s) == IF Reading /\ io.s = s THEN Len(io.lines) ELSE 0

\* Every line read was delivered, but for those in hand, as long as somebody may get the next.
Counted ==
  \A s \in Sessions : ~stray =>
    /\ ~Registered(s) => read[s] = 0 /\ delivered[s] = <<>>
    /\ delegate_[s] /\ (owner[s] \/ (io.s = s /\ io.owner))
       => Len(delivered[s]) + InHand(s) = read[s]

Typed == FdsTyped /\ FlagsTyped /\ LinesTyped /\ IoTyped

IoInv == Typed /\ Snapshot /\ Slots /\ Table /\ IoSlot /\ Lines /\ Delivered /\ Counted

-----------------------------------------------------------------------------
\* Nil is neither a descriptor nor a session.
LEMMA NoDescriptor == Nil \notin Fds /\ Nil \notin Sessions
PROOF
  BY SignalingIoAssumption DEF Nil, Fds

\* The invariant holds before any session dials.
LEMMA IoInit == Init => IoInv
PROOF
  <1> SUFFICES ASSUME Init PROVE IoInv
    OBVIOUS
  <1> USE NoDescriptor DEF Init, At, NoFds, NoEvents
  <1>1. Typed
    <2>1. FdsTyped
      BY DEF FdsTyped, MaybeFd, Pcs
    <2>2. FlagsTyped
      BY DEF FlagsTyped
    <2>3. LinesTyped
      BY DEF LinesTyped
    <2>4. IoTyped
      <3>1. io \in [at : Places, s : Sessions \union {Nil}, fd : MaybeFd, owner : BOOLEAN,
                    lines : Seq(Line)]
        BY DEF Places, MaybeFd
      <3> QED BY <3>1 DEF IoTyped
    <2> QED BY <2>1, <2>2, <2>3, <2>4 DEF Typed
  <1>2. Snapshot
    BY DEF Snapshot, MaybeFd
  <1>3. Slots /\ Table
    BY DEF Slots, Slot, Table
  <1>4. IoSlot /\ Lines
    BY DEF IoSlot, IoHolds, Lines, Busy, Reading
  <1>5. Delivered /\ Counted
    BY DEF Delivered, Counted
  <1> QED BY <1>1, <1>2, <1>3, <1>4, <1>5 DEF IoInv

\* Closing no descriptor.
LEMMA CloseNone ==
  ASSUME FdsTyped, CloseFd(Nil)
  PROVE  open' = open
PROOF
  <1>1. open \in [Fds -> Sessions \union {Nil}]
    BY DEF FdsTyped
  <1>2. open' = [g \in Fds |-> IF g = Nil THEN Nil ELSE open[g]]
    BY DEF CloseFd
  <1> QED BY <1>1, <1>2, NoDescriptor

\* The lines in hand and those delivered, while nobody is registered.
LEMMA LinesStayInHand ==
  ASSUME IoInv, UNCHANGED <<read, delivered, stray>>,
         io'.lines = io.lines, io'.s = io.s, io'.owner <=> io.owner,
         Reading' <=> Reading, io'.at = "blocked" <=> io.at = "blocked",
         \A s \in Sessions : /\ owner'[s] => owner[s]
                             /\ delegate_'[s] => delegate_[s]
                             /\ Registered(s) => Registered(s)'
  PROVE  Lines' /\ Delivered' /\ Counted'
PROOF
  <1> USE DEF IoInv
  <1>1. io.at \in Busy => io.s \in Sessions
    BY DEF IoSlot
  <1>2. Lines'
    BY <1>1 DEF Lines, Reading, Busy
  <1>3. Delivered'
    BY DEF Delivered
  <1>4. \A s \in Sessions : InHand(s)' = InHand(s)
    BY DEF InHand
  <1>5. Counted'
    BY <1>4 DEF Counted
  <1> QED BY <1>2, <1>3, <1>5

\* The same where the IO thread does not move.
LEMMA LinesStay ==
  ASSUME IoInv, UNCHANGED <<io, read, delivered, stray>>,
         \A s \in Sessions : /\ owner'[s] => owner[s]
                             /\ delegate_'[s] => delegate_[s]
                             /\ Registered(s) => Registered(s)'
  PROVE  Lines' /\ Delivered' /\ Counted'
PROOF
  <1>1. Reading' <=> Reading
    BY DEF Reading
  <1> QED BY <1>1, LinesStayInHand

\* A step that leaves what the invariant speaks of.
LEMMA IoStutter ==
  ASSUME IoInv, UNCHANGED <<app, slots, sessions_, io, loop, open, read, delivered, stray>>,
         sent' \in [Sessions -> Nat], manager' = "off" => manager = "off"
  PROVE  IoInv'
PROOF
  <1> USE DEF IoInv, app, slots, loop
  <1>1. Typed' /\ Snapshot'
    BY DEF Typed, FdsTyped, FlagsTyped, LinesTyped, IoTyped, Snapshot, Registered
  <1>2. Slots' /\ Table' /\ IoSlot'
    BY DEF Slots, Slot, Table, IoSlot, IoHolds, ClosingOwned, Registered
  <1>3. Lines' /\ Delivered' /\ Counted'
    BY LinesStay DEF Registered
  <1> QED BY <1>1, <1>2, <1>3

\* The snapshot, while nobody is registered.
LEMMA SnapshotStays ==
  ASSUME IoInv, UNCHANGED loop, \A s \in Sessions : Registered(s) => Registered(s)'
  PROVE  Snapshot'
PROOF
  BY DEF IoInv, Snapshot, loop

\* A session that a step does not concern, whose descriptors it does not close.
LEMMA OthersKeep ==
  ASSUME NEW u \in Sessions, Slot(u),
         pc'[u] = pc[u], owner'[u] = owner[u], fd'[u] = fd[u], sock_fd_'[u] = sock_fd_[u],
         taken'[u] = taken[u], session_slot_'[u] = session_slot_[u],
         fd[u] # Nil => open'[fd[u]] = u /\ sessions_'[fd[u]] = u,
         taken[u] # Nil => open'[taken[u]] = u,
         pc[u] = "connected" => open'[sock_fd_[u]] = u,
         ClosingOwned(u) => ClosingOwned(u)'
  PROVE  Slot(u)'
PROOF
  BY DEF Slot

\* What the IO thread holds, while others step.
LEMMA IoSlotStays ==
  ASSUME IoSlot, UNCHANGED io, manager' = "off" => manager = "off",
         \A u \in Sessions : Registered(u) =>
           /\ Registered(u)'
           /\ owner'[u] => owner[u] /\ fd'[u] = fd[u]
           /\ fd[u] = Nil => fd'[u] = Nil,
         IoHolds'
  PROVE  IoSlot'
PROOF
  BY DEF IoSlot, Busy

\* The descriptor it closes.
LEMMA IoHoldsStays ==
  ASSUME IoInv, UNCHANGED io,
         \A u \in Sessions : pc[u] = "gone" => pc'[u] = "gone",
         \A f \in Fds : io.at = "close" /\ open[f] = io.s => open'[f] = io.s,
         \A u \in Sessions : taken[u] = Nil => taken'[u] = Nil \/ fd[u] # Nil
  PROVE  IoHolds'
PROOF
  <1>1. io.at = "close" /\ io.fd # Nil => io.fd \in Fds /\ io.s \in Sessions /\ fd[io.s] = Nil
    BY DEF IoInv, Typed, IoSlot, IoTyped, MaybeFd, Busy
  <1>2. IoHolds
    BY DEF IoInv, IoSlot
  <1> QED BY <1>1, <1>2 DEF IoHolds

-----------------------------------------------------------------------------
(* Start *)

\* A session dials and gets the lowest free descriptor.
LEMMA ConnectKeeps ==
  ASSUME IoInv, NEW s \in Sessions, Connect(s)
  PROVE  IoInv'
PROOF
  <1> USE NoDescriptor DEF IoInv, Typed
  <1>1. PICK f \in Fds : /\ open[f] = Nil /\ open' = [open EXCEPT ![f] = s]
                         /\ sock_fd_' = [sock_fd_ EXCEPT ![s] = f]
    BY DEF Connect, Free
  <1>2. /\ pc[s] = "new" /\ pc' = [pc EXCEPT ![s] = "connected"]
        /\ UNCHANGED <<session_slot_, delegate_, taken, slots, sessions_, io, loop, manager,
                       sent, read, delivered, stray>>
    BY DEF Connect, net
  <1>3. FdsTyped'
    BY <1>1, <1>2 DEF FdsTyped, MaybeFd, Pcs, slots
  <1>4. (FlagsTyped /\ LinesTyped /\ IoTyped)'
    BY <1>2 DEF FlagsTyped, LinesTyped, IoTyped, slots
  <1>5. \A u \in Sessions : Registered(u)' <=> Registered(u)
    BY <1>2 DEF Registered, FdsTyped
  <1>6. Snapshot'
    BY <1>2, <1>5, SnapshotStays
  <1>7. Slots'
    <2>1. Slot(s)'
      BY <1>1, <1>2, ZenonT(30) DEF Slots, Slot, FdsTyped, slots
    <2>2. ASSUME NEW u \in Sessions, u # s PROVE Slot(u)'
      <3>1. Slot(u)
        BY DEF Slots
      <3>2. \A g \in Fds : open[g] # Nil => open'[g] = open[g]
        BY <1>1 DEF FdsTyped
      <3>3. \A g \in MaybeFd : g # Nil => g \in Fds
        BY DEF MaybeFd
      <3> QED BY <1>1, <1>2, <2>2, <3>1, <3>2, <3>3, ZenonT(30) DEF Slot, FdsTyped, ClosingOwned, slots
    <2> QED BY <2>1, <2>2 DEF Slots
  <1>8. Table'
    BY <1>2 DEF Table, slots
  <1>9. IoSlot'
    <2>1. \A u \in Sessions : pc[u] = "gone" => pc'[u] = "gone"
      BY <1>2 DEF FdsTyped
    <2>2. \A g \in Fds : io.at = "close" /\ open[g] = io.s => open'[g] = io.s
      BY <1>1 DEF FdsTyped, IoSlot, Busy
    <2>3. IoHolds'
      BY <1>2, <2>1, <2>2, IoHoldsStays
    <2> QED BY <1>2, <1>5, <2>3, IoSlotStays DEF slots
  <1>10. Lines' /\ Delivered' /\ Counted'
    BY <1>2, <1>5, LinesStay DEF slots
  <1> QED BY <1>3, <1>4, <1>6, <1>7, <1>8, <1>9, <1>10

\* The steps of Start that touch no descriptor.
LEMMA StartKeeps ==
  ASSUME IoInv, NEW s \in Sessions, ConnectFails(s) \/ RegisterWakes(s) \/ Attach(s)
  PROVE  IoInv'
PROOF
  <1> USE DEF IoInv, Typed
  <1>1. UNCHANGED <<sock_fd_, delegate_, taken, slots, sessions_, io, loop, manager, open, sent,
                    read, delivered, stray>>
    BY DEF ConnectFails, RegisterWakes, Attach, net
  <1>2. \/ pc[s] = "new" /\ pc' = [pc EXCEPT ![s] = "stopped"] /\ session_slot_' = session_slot_
        \/ pc[s] = "inserted" /\ pc' = [pc EXCEPT ![s] = "attaching"] /\ session_slot_' = session_slot_
        \/ pc[s] = "attaching" /\ pc' = [pc EXCEPT ![s] = "on"]
           /\ session_slot_' = [session_slot_ EXCEPT ![s] = TRUE]
    BY DEF ConnectFails, RegisterWakes, Attach
  <1>3. FdsTyped'
    BY <1>1, <1>2 DEF FdsTyped, Pcs, slots
  <1>4. (FlagsTyped /\ LinesTyped /\ IoTyped)'
    BY <1>1, <1>2 DEF FlagsTyped, LinesTyped, IoTyped, slots
  <1>5. \A u \in Sessions : Registered(u) => Registered(u)'
    BY <1>2 DEF Registered, FdsTyped
  <1>6. Snapshot'
    BY <1>1, <1>5, SnapshotStays
  <1>7. Slots'
    <2>1. \A u \in Sessions : u # s => pc'[u] = pc[u]
      BY <1>2 DEF FdsTyped
    <2>2. \A u \in Sessions : u # s => session_slot_'[u] = session_slot_[u]
      BY <1>2 DEF FlagsTyped
    <2>3. \/ pc[s] = "new" /\ pc'[s] = "stopped"
          \/ pc[s] = "inserted" /\ pc'[s] = "attaching"
          \/ pc[s] = "attaching" /\ pc'[s] = "on"
      BY <1>2 DEF FdsTyped
    <2>4. pc'[s] = "on" => session_slot_'[s]
      BY <1>2, <2>3 DEF FlagsTyped
    <2>5. \A u \in Sessions : Slot(u) /\ (ClosingOwned(u)' <=> ClosingOwned(u))
      BY <1>1 DEF Slots, ClosingOwned
    <2>6. Slot(s)'
      BY <1>1, <2>3, <2>4, <2>5 DEF Slot, slots
    <2>7. ASSUME NEW u \in Sessions, u # s PROVE Slot(u)'
      BY <1>1, <2>1, <2>2, <2>5, <2>7, ZenonT(30) DEF Slot, slots
    <2> QED BY <2>6, <2>7 DEF Slots
  <1>8. Table'
    BY <1>1 DEF Table, slots
  <1>9. IoSlot'
    <2>1. \A u \in Sessions : pc[u] = "gone" => pc'[u] = "gone"
      BY <1>1, <1>2 DEF FdsTyped
    <2>2. \A g \in Fds : io.at = "close" /\ open[g] = io.s => open'[g] = io.s
      BY <1>1, <1>2 DEF CloseFd, IoSlot
    <2>3. IoHolds'
      BY <1>1, <2>1, <2>2, IoHoldsStays
    <2> QED BY <1>1, <1>5, <2>3, IoSlotStays DEF IoSlot, slots
  <1>10. Lines' /\ Delivered' /\ Counted'
    BY <1>1, <1>5, LinesStay DEF slots
  <1> QED BY <1>3, <1>4, <1>6, <1>7, <1>8, <1>9, <1>10

\* A step that closes descriptor f for session s, of its connection or of none.
LEMMA OthersOpen ==
  ASSUME IoInv, NEW s \in Sessions, NEW f \in MaybeFd, f # Nil => open[f] \in {Nil, s}, CloseFd(f),
         NEW u \in Sessions, u # s
  PROVE  /\ fd[u] # Nil => open'[fd[u]] = u
         /\ taken[u] # Nil => open'[taken[u]] = u
         /\ pc[u] = "connected" => open'[sock_fd_[u]] = u
PROOF
  <1>1. Slot(u) /\ {fd[u], taken[u], sock_fd_[u]} \subseteq MaybeFd
    BY DEF IoInv, Typed, FdsTyped, Slots
  <1>2. \A g \in Fds : open[g] = u => open'[g] = u
    BY NoDescriptor DEF CloseFd
  <1> QED BY <1>1, <1>2 DEF Slot, MaybeFd

\* RegisterSession fails and the new descriptor is closed.
LEMMA RegisterFailsKeeps ==
  ASSUME IoInv, NEW s \in Sessions, RegisterFails(s)
  PROVE  IoInv'
PROOF
  <1> USE NoDescriptor DEF IoInv, Typed
  <1> DEFINE f == sock_fd_[s]
  <1>1. /\ pc[s] = "connected" /\ pc' = [pc EXCEPT ![s] = "stopped"]
        /\ sock_fd_' = [sock_fd_ EXCEPT ![s] = Nil]
        /\ CloseFd(f)
        /\ manager = "off"
        /\ UNCHANGED <<session_slot_, delegate_, taken, slots, sessions_, io, loop, manager,
                       sent, read, delivered, stray>>
    BY DEF RegisterFails, net
  <1>2. f \in MaybeFd /\ open[f] = s
    BY <1>1 DEF Slots, Slot, FdsTyped
  <1>3. FdsTyped'
    BY <1>1 DEF FdsTyped, MaybeFd, Pcs, CloseFd, slots
  <1>4. (FlagsTyped /\ LinesTyped /\ IoTyped)'
    BY <1>1 DEF FlagsTyped, LinesTyped, IoTyped, slots
  <1>5. \A u \in Sessions : Registered(u) => Registered(u)'
    BY <1>1 DEF Registered, FdsTyped
  <1>6. Snapshot'
    BY <1>1, <1>5, SnapshotStays
  <1>7. Slots'
    <2>1. Slot(s)'
      BY <1>1 DEF Slots, Slot, FdsTyped, slots
    <2>2. ASSUME NEW u \in Sessions, u # s PROVE Slot(u)'
      <3>1. /\ fd[u] # Nil => open'[fd[u]] = u
            /\ taken[u] # Nil => open'[taken[u]] = u
            /\ pc[u] = "connected" => open'[sock_fd_[u]] = u
        BY <1>1, <1>2, <2>2, OthersOpen
      <3>2. pc'[u] = pc[u] /\ sock_fd_'[u] = sock_fd_[u]
        BY <1>1, <2>2 DEF FdsTyped
      <3>3. Slot(u) /\ (ClosingOwned(u)' <=> ClosingOwned(u))
        BY <1>1 DEF Slots, ClosingOwned
      <3> QED BY <1>1, <3>1, <3>2, <3>3 DEF Slot, slots
    <2> QED BY <2>1, <2>2 DEF Slots
  <1>8. Table'
    BY <1>1 DEF Table, slots
  <1>9. IoSlot'
    <2>1. \A u \in Sessions : pc[u] = "gone" => pc'[u] = "gone"
      BY <1>1, <1>2 DEF FdsTyped
    <2>2. \A g \in Fds : io.at = "close" /\ open[g] = io.s => open'[g] = io.s
      BY <1>1, <1>2 DEF CloseFd, IoSlot
    <2>3. IoHolds'
      BY <1>1, <2>1, <2>2, IoHoldsStays
    <2> QED BY <1>1, <1>5, <2>3, IoSlotStays DEF IoSlot, slots
  <1>10. Lines' /\ Delivered' /\ Counted'
    BY <1>1, <1>5, LinesStay DEF slots
  <1> QED BY <1>3, <1>4, <1>6, <1>7, <1>8, <1>9, <1>10

\* The slot is made and goes into the table.
LEMMA RegisterKeeps ==
  ASSUME IoInv, NEW s \in Sessions, RegisterSession(s)
  PROVE  IoInv'
PROOF
  <1> USE NoDescriptor DEF IoInv, Typed
  <1> DEFINE f == sock_fd_[s]
  <1>1. /\ pc[s] = "connected" /\ pc' = [pc EXCEPT ![s] = "inserted"]
        /\ owner' = [owner EXCEPT ![s] = TRUE]
        /\ fd' = [fd EXCEPT ![s] = f]
        /\ sessions_' = [sessions_ EXCEPT ![f] = s]
        /\ manager' = "running"
        /\ io' = IF manager = "off" THEN At("top") ELSE io
        /\ UNCHANGED <<sock_fd_, session_slot_, delegate_, taken, loop, open, sent, read,
                       delivered, stray>>
    BY DEF RegisterSession, net
  <1>2. f \in Fds /\ open[f] = s
    <2>1. f \in MaybeFd
      BY DEF FdsTyped
    <2> QED BY <1>1, <2>1 DEF Slots, Slot, MaybeFd
  <1>3. FdsTyped'
    BY <1>1, <1>2 DEF FdsTyped, MaybeFd, Pcs
  <1>4. (FlagsTyped /\ LinesTyped)'
    BY <1>1 DEF FlagsTyped, LinesTyped
  <1>5. \A u \in Sessions : Registered(u) => Registered(u)'
    BY <1>1 DEF Registered, FdsTyped
  <1>6. Snapshot'
    BY <1>1, <1>5, SnapshotStays
  <1>7. io.s # s /\ (io' = io \/ (io' = At("top") /\ io.at = "off"))
    BY <1>1 DEF IoSlot, Registered, Busy
  <1>8. IoTyped'
    <2>1. At("top") \in [at : Places, s : Sessions \union {Nil}, fd : MaybeFd, owner : BOOLEAN,
                         lines : Seq(Line)]
      BY DEF At, Places, MaybeFd
    <2> QED BY <1>7, <2>1 DEF IoTyped
  <1>9. \A u \in Sessions : u # s => /\ owner'[u] = owner[u] /\ fd'[u] = fd[u]
                                     /\ pc'[u] = pc[u] /\ fd[u] # f
    <2>1. \A u \in Sessions : u # s => owner'[u] = owner[u]
      BY <1>1 DEF FlagsTyped
    <2>2. \A u \in Sessions : u # s => fd'[u] = fd[u] /\ pc'[u] = pc[u]
      BY <1>1 DEF FdsTyped
    <2>3. \A u \in Sessions : fd[u] # Nil => open[fd[u]] = u
      BY DEF Slots, Slot
    <2> QED BY <1>2, <2>1, <2>2, <2>3
  <1>10. Slots'
    <2>1. Slot(s)'
      <3>1. fd'[s] = f /\ pc'[s] = "inserted" /\ sessions_'[f] = s
        BY <1>1, <1>2 DEF FdsTyped
      <3>3. taken[s] = Nil
        BY <1>1 DEF Slots, Slot
      <3>2. owner'[s]
        BY <1>1 DEF FlagsTyped
      <3> QED BY <1>1, <1>2, <3>1, <3>2, <3>3 DEF Slot
    <2>2. ASSUME NEW u \in Sessions, u # s PROVE Slot(u)'
      <3>1. ClosingOwned(u) => ClosingOwned(u)'
        BY <1>7 DEF ClosingOwned
      <3>2. fd[u] # Nil => sessions_'[fd[u]] = sessions_[fd[u]]
        BY <1>1, <1>9, <2>2 DEF FdsTyped, MaybeFd
      <3>3. Slot(u)
        BY DEF Slots
      <3> QED BY <1>1, <1>9, <2>2, <3>1, <3>2, <3>3 DEF Slot
    <2> QED BY <2>1, <2>2 DEF Slots
  <1>11. Table'
    <2>1. \A g \in Fds : sessions_'[g] = IF g = f THEN s ELSE sessions_[g]
      BY <1>1 DEF FdsTyped
    <2>2. fd'[s] = f
      BY <1>1 DEF FdsTyped
    <2>3. \A g \in Fds : sessions_[g] \in Sessions \union {Nil}
      BY DEF FdsTyped
    <2>4. fd[s] = Nil
      BY <1>1 DEF Slots, Slot
    <2> QED BY <1>9, <2>1, <2>2, <2>3, <2>4 DEF Table
  <1>12. IoSlot'
    <2>1. CASE io' = io
      <3>1. \A u \in Sessions : Registered(u) => u # s
        BY <1>1 DEF Registered
      <3>2. \A u \in Sessions : pc[u] = "gone" => pc'[u] = "gone"
        BY <1>1 DEF FdsTyped
      <3>3. IoHolds'
        BY <1>1, <2>1, <3>2, IoHoldsStays
      <3> QED BY <1>1, <1>5, <1>9, <2>1, <3>1, <3>3, IoSlotStays DEF IoSlot
    <2>2. CASE io' = At("top")
      BY <1>1, <2>2 DEF IoSlot, IoHolds, At, Busy
    <2> QED BY <1>7, <2>1, <2>2
  <1>13. Lines'
    <2>1. CASE io' = io
      <3>1. io.at \in Busy => io.s \in Sessions /\ owner'[io.s] = owner[io.s]
        BY <1>7, <1>9 DEF IoSlot
      <3> QED BY <1>1, <2>1, <3>1 DEF Lines, Reading, Busy
    <2>2. CASE io' = At("top")
      BY <2>2 DEF Lines, Reading, At
    <2> QED BY <1>7, <2>1, <2>2
  <1>14. Delivered'
    BY <1>1 DEF Delivered
  <1>15. Counted'
    <2>1. \A u \in Sessions : InHand(u)' = InHand(u)
      BY <1>7 DEF InHand, Reading, At
    <2>2. \A u \in Sessions : io'.s = u /\ io'.owner => io.s = u /\ io.owner
      BY <1>7 DEF At
    <2>3. InHand(s) = 0
      BY <1>7 DEF InHand
    <2>4. ~stray => read[s] = 0 /\ delivered[s] = <<>>
      BY <1>1 DEF Counted, Registered
    <2>5. ASSUME NEW u \in Sessions, ~stray, delegate_[u], owner'[u] \/ (io'.s = u /\ io'.owner)
          PROVE  Len(delivered[u]) + InHand(u) = read[u]
      <3>1. CASE u = s
        BY <2>3, <2>4, <2>5, <3>1
      <3>2. CASE u # s
        BY <1>9, <2>2, <2>5, <3>2 DEF Counted
      <3> QED BY <3>1, <3>2
    <2>6. ASSUME NEW u \in Sessions, ~stray, ~Registered(u)'
          PROVE  read[u] = 0 /\ delivered[u] = <<>>
      BY <1>5, <2>6 DEF Counted
    <2> QED BY <1>1, <2>1, <2>5, <2>6 DEF Counted
  <1> QED BY <1>3, <1>4, <1>6, <1>8, <1>10, <1>11, <1>12, <1>13, <1>14, <1>15

-----------------------------------------------------------------------------
(* Stop and the destructor *)

\* Stop closes no descriptor itself: without a slot none is stored.
LEMMA StopCloses ==
  ASSUME IoInv, NEW s \in Sessions, StopBegins(s)
  PROVE  /\ open' = open /\ sock_fd_' = sock_fd_ /\ pc[s] = "on"
         /\ \/ pc' = [pc EXCEPT ![s] = "unregister"]
            \/ pc' = [pc EXCEPT ![s] = "stopped"] /\ sock_fd_[s] = Nil /\ fd[s] = Nil
PROOF
  <1> USE DEF IoInv, Typed
  <1>1. CASE session_slot_[s]
    BY <1>1 DEF StopBegins
  <1>2. CASE ~session_slot_[s]
    <2>1. pc[s] = "on" /\ sock_fd_[s] = Nil /\ fd[s] = Nil
      BY <1>2 DEF StopBegins, Slots, Slot
    <2>2. open' = open
      BY <1>2, <2>1, CloseNone DEF StopBegins
    <2>3. sock_fd_' = [sock_fd_ EXCEPT ![s] = Nil] /\ sock_fd_ \in [Sessions -> MaybeFd]
      BY <1>2 DEF StopBegins, FdsTyped
    <2>4. sock_fd_' = sock_fd_
      BY <2>1, <2>3
    <2> QED BY <1>2, <2>1, <2>2, <2>4 DEF StopBegins
  <1> QED BY <1>1, <1>2

\* A session is stopped, by its application or in a callback.
LEMMA StopKeeps ==
  ASSUME IoInv, (\E s \in Sessions : Stop(s)) \/ StopInCallback
  PROVE  IoInv'
PROOF
  <1> USE DEF IoInv, Typed
  <1>1. PICK s \in Sessions : /\ StopBegins(s)
                              /\ \/ io' = io
                                 \/ io' = [io EXCEPT !.at = "stopping"] /\ io.at = "callback"
    BY DEF Stop, StopInCallback, IoSlot, Busy
  <1>2. /\ open' = open /\ sock_fd_' = sock_fd_ /\ pc[s] = "on"
        /\ \/ pc' = [pc EXCEPT ![s] = "unregister"]
           \/ pc' = [pc EXCEPT ![s] = "stopped"] /\ sock_fd_[s] = Nil /\ fd[s] = Nil
    BY <1>1, StopCloses
  <1>3. /\ delegate_' = [delegate_ EXCEPT ![s] = FALSE]
        /\ session_slot_' = [session_slot_ EXCEPT ![s] = FALSE]
        /\ UNCHANGED <<taken, slots, sessions_, loop, manager, sent, read, delivered, stray>>
    BY <1>1 DEF StopBegins, net
  <1>4. io'.lines = io.lines /\ io'.s = io.s /\ io'.fd = io.fd /\ (io'.owner <=> io.owner)
    BY <1>1 DEF IoTyped
  <1>5. io'.at = io.at \/ (io'.at = "stopping" /\ io.at = "callback")
    BY <1>1 DEF IoTyped
  <1>6. FdsTyped'
    BY <1>2, <1>3 DEF FdsTyped, Pcs, slots
  <1>7. FlagsTyped' /\ LinesTyped'
    BY <1>3 DEF FlagsTyped, LinesTyped, slots
  <1>8. IoTyped'
    BY <1>1 DEF IoTyped, Places
  <1>9. \A u \in Sessions : Registered(u) => Registered(u)'
    BY <1>2 DEF Registered, FdsTyped
  <1>10. Snapshot'
    BY <1>3, <1>9, SnapshotStays
  <1>11. Slots'
    <2>1. \A u \in Sessions : Slot(u) /\ (ClosingOwned(u)' <=> ClosingOwned(u))
      BY <1>4, <1>5 DEF Slots, ClosingOwned
    <2>2. Slot(s)'
      <3>1. pc'[s] = "unregister" \/ (pc'[s] = "stopped" /\ sock_fd_[s] = Nil /\ fd[s] = Nil)
        BY <1>2 DEF FdsTyped
      <3> QED BY <1>2, <1>3, <2>1, <3>1 DEF Slot, slots
    <2>3. ASSUME NEW u \in Sessions, u # s PROVE Slot(u)'
      <3>1. pc'[u] = pc[u]
        BY <1>2, <2>3 DEF FdsTyped
      <3>2. session_slot_'[u] = session_slot_[u]
        BY <1>3, <2>3 DEF FlagsTyped
      <3> QED BY <1>2, <1>3, <2>1, <3>1, <3>2 DEF Slot, slots
    <2> QED BY <2>2, <2>3 DEF Slots
  <1>12. Table'
    BY <1>3 DEF Table, slots
  <1>13. IoSlot'
    <2>1. \A u \in Sessions : pc[u] = "gone" => pc'[u] = "gone"
      BY <1>2 DEF FdsTyped
    <2>2. IoHolds'
      BY <1>2, <1>3, <1>4, <1>5, <2>1 DEF IoSlot, IoHolds, Busy
    <2> QED BY <1>2, <1>3, <1>4, <1>5, <1>9, <2>2 DEF IoSlot, Busy, slots
  <1>14. Lines' /\ Delivered' /\ Counted'
    <2>1. \A u \in Sessions : delegate_'[u] => delegate_[u]
      BY <1>3 DEF FlagsTyped
    <2>2. (Reading' <=> Reading) /\ (io'.at = "blocked" <=> io.at = "blocked")
      BY <1>5 DEF Reading
    <2> QED BY <1>3, <1>4, <1>9, <2>1, <2>2, LinesStayInHand DEF slots
  <1> QED BY <1>6, <1>7, <1>8, <1>10, <1>11, <1>12, <1>13, <1>14

\* UnregisterSession takes the owner away.
LEMMA UnregisterDisownsKeeps ==
  ASSUME IoInv, NEW s \in Sessions, UnregisterDisowns(s)
  PROVE  IoInv'
PROOF
  <1> USE DEF IoInv, Typed
  <1>1. /\ pc[s] = "unregister"
        /\ owner' = [owner EXCEPT ![s] = FALSE]
        /\ pc' = [pc EXCEPT ![s] = IF owner[s] THEN "erase owned" ELSE "erase"]
        /\ UNCHANGED <<sock_fd_, session_slot_, delegate_, taken, fd, sessions_, io, loop,
                       manager, open, sent, read, delivered, stray>>
    BY DEF UnregisterDisowns, net
  <1>2. FdsTyped'
    BY <1>1 DEF FdsTyped, Pcs
  <1>3. (FlagsTyped /\ LinesTyped /\ IoTyped)'
    BY <1>1 DEF FlagsTyped, LinesTyped, IoTyped
  <1>4. \A u \in Sessions : Registered(u) => Registered(u)'
    BY <1>1 DEF Registered, FdsTyped
  <1>5. Snapshot'
    BY <1>1, <1>4, SnapshotStays
  <1>6. ~owner'[s] /\ \A u \in Sessions : u # s => owner'[u] = owner[u]
    BY <1>1 DEF FlagsTyped
  <1>7. Slots'
    <2>1. \A u \in Sessions : Slot(u) /\ (ClosingOwned(u)' <=> ClosingOwned(u))
      BY <1>1 DEF Slots, ClosingOwned
    <2>2. Slot(s)'
      <3>1. pc'[s] = IF owner[s] THEN "erase owned" ELSE "erase"
        BY <1>1 DEF FdsTyped
      <3>2. Slot(s) /\ (ClosingOwned(s)' <=> ClosingOwned(s))
        BY <2>1
      <3>3. /\ sock_fd_' = sock_fd_ /\ session_slot_' = session_slot_ /\ taken' = taken
            /\ fd' = fd /\ sessions_' = sessions_ /\ open' = open /\ pc[s] = "unregister"
        BY <1>1
      <3>4. ~owner[s] => sock_fd_[s] = Nil \/ ClosingOwned(s)
        BY <3>2, <3>3 DEF Slot
      <3>5. /\ taken[s] = Nil
            /\ fd[s] # Nil => open[fd[s]] = s /\ sessions_[fd[s]] = s
        BY <3>2, <3>3 DEF Slot
      <3> QED BY <1>6, <3>1, <3>2, <3>3, <3>4, <3>5 DEF Slot
    <2>3. ASSUME NEW u \in Sessions, u # s PROVE Slot(u)'
      <3>1. pc'[u] = pc[u]
        BY <1>1, <2>3 DEF FdsTyped
      <3> QED BY <1>1, <1>6, <2>1, <2>3, <3>1, ZenonT(30) DEF Slot
    <2> QED BY <2>2, <2>3 DEF Slots
  <1>8. Table'
    BY <1>1 DEF Table
  <1>9. \A u \in Sessions : owner'[u] => owner[u]
    BY <1>6
  <1>10. IoSlot'
    <2>1. \A u \in Sessions : pc[u] = "gone" => pc'[u] = "gone"
      BY <1>1, <1>2 DEF FdsTyped
    <2>2. \A g \in Fds : io.at = "close" /\ open[g] = io.s => open'[g] = io.s
      BY <1>1, <1>2 DEF CloseFd, IoSlot
    <2>3. IoHolds'
      BY <1>1, <2>1, <2>2, IoHoldsStays
    <2> QED BY <1>1, <1>4, <1>9, <2>3, IoSlotStays DEF IoSlot
  <1>11. Lines' /\ Delivered' /\ Counted'
    BY <1>1, <1>4, <1>9, LinesStay
  <1> QED BY <1>2, <1>3, <1>5, <1>7, <1>8, <1>10, <1>11

\* Erased leaves the slots of the other sessions.
LEMMA ErasedOnly ==
  ASSUME IoInv, NEW s \in Sessions
  PROVE  /\ Erased(s) \in [Fds -> Sessions \union {Nil}]
         /\ \A u \in Sessions : u # s /\ fd[u] # Nil => Erased(s)[fd[u]] = u
         /\ \A f \in Fds : Erased(s)[f] # Nil => Erased(s)[f] # s /\ fd[Erased(s)[f]] = f
PROOF
  <1> USE DEF IoInv, Typed
  <1>1. \A f \in Fds : Erased(s)[f] = IF f = fd[s] /\ sessions_[f] = s THEN Nil ELSE sessions_[f]
    BY DEF Erased
  <1>2. Erased(s) \in [Fds -> Sessions \union {Nil}]
    BY DEF Erased, FdsTyped
  <1>3. \A u \in Sessions : fd[u] # Nil => fd[u] \in Fds /\ sessions_[fd[u]] = u
    BY DEF Slots, Slot, FdsTyped, MaybeFd
  <1>4. \A u \in Sessions : u # s /\ fd[u] # Nil => Erased(s)[fd[u]] = u
    BY <1>1, <1>3
  <1>5. \A f \in Fds : Erased(s)[f] # Nil => Erased(s)[f] # s /\ fd[Erased(s)[f]] = f
    BY <1>1 DEF Table
  <1> QED BY <1>2, <1>4, <1>5

\* UnregisterSession erases the session from the table.
LEMMA UnregisterErasesKeeps ==
  ASSUME IoInv, NEW s \in Sessions, UnregisterErases(s)
  PROVE  IoInv'
PROOF
  <1> USE DEF IoInv, Typed
  <1>1. /\ pc[s] \in {"erase owned", "erase"}
        /\ taken' = [taken EXCEPT ![s] = fd[s]] /\ fd' = [fd EXCEPT ![s] = Nil]
        /\ sessions_' = Erased(s)
        /\ pc' = [pc EXCEPT ![s] = IF pc[s] = "erase" THEN "close" ELSE "close owned"]
        /\ UNCHANGED <<sock_fd_, session_slot_, delegate_, owner, io, loop, manager, open,
                       sent, read, delivered, stray>>
    BY DEF UnregisterErases, net
  <1>2. /\ Erased(s) \in [Fds -> Sessions \union {Nil}]
        /\ \A u \in Sessions : u # s /\ fd[u] # Nil => Erased(s)[fd[u]] = u
        /\ \A f \in Fds : Erased(s)[f] # Nil => Erased(s)[f] # s /\ fd[Erased(s)[f]] = f
    BY ErasedOnly
  <1>3. FdsTyped'
    BY <1>1, <1>2 DEF FdsTyped, Pcs, MaybeFd
  <1>4. (FlagsTyped /\ LinesTyped /\ IoTyped)'
    BY <1>1 DEF FlagsTyped, LinesTyped, IoTyped
  <1>5. \A u \in Sessions : Registered(u) => Registered(u)'
    BY <1>1 DEF Registered, FdsTyped
  <1>6. Snapshot'
    BY <1>1, <1>5, SnapshotStays
  <1>7. \A u \in Sessions : u # s => fd'[u] = fd[u] /\ pc'[u] = pc[u] /\ taken'[u] = taken[u]
    BY <1>1 DEF FdsTyped
  <1>8. fd'[s] = Nil /\ taken'[s] = fd[s]
        /\ pc'[s] = IF pc[s] = "erase" THEN "close" ELSE "close owned"
    BY <1>1 DEF FdsTyped
  <1>9. ~owner[s]
    BY <1>1 DEF Slots, Slot
  <1>10. Slots'
    <2>1. \A u \in Sessions : Slot(u) /\ (ClosingOwned(u)' <=> ClosingOwned(u))
      BY <1>1 DEF Slots, ClosingOwned
    <2>2. Slot(s)'
      <3>1. Slot(s) /\ (ClosingOwned(s)' <=> ClosingOwned(s))
        BY <2>1
      <3>2. sock_fd_' = sock_fd_ /\ owner' = owner /\ open' = open
        BY <1>1
      <3>3. /\ fd[s] # Nil => open[fd[s]] = s
            /\ pc[s] = "erase" => sock_fd_[s] = Nil \/ ClosingOwned(s)
        BY <3>1 DEF Slot
      <3>4. CASE pc[s] = "erase"
        BY <1>8, <1>9, <3>1, <3>2, <3>3, <3>4 DEF Slot
      <3>5. CASE pc[s] = "erase owned"
        BY <1>8, <1>9, <3>2, <3>3, <3>5 DEF Slot
      <3> QED BY <1>1, <3>4, <3>5
    <2>3. ASSUME NEW u \in Sessions, u # s PROVE Slot(u)'
      <3>1. fd[u] # Nil => open[fd[u]] = u /\ sessions_'[fd[u]] = u
        BY <1>1, <1>2, <2>1, <2>3 DEF Slot
      <3>2. /\ sock_fd_' = sock_fd_ /\ owner' = owner /\ open' = open
            /\ session_slot_' = session_slot_
        BY <1>1
      <3>3. Slot(u) /\ (ClosingOwned(u)' <=> ClosingOwned(u))
        BY <2>1
      <3>4. fd'[u] = fd[u] /\ pc'[u] = pc[u] /\ taken'[u] = taken[u]
        BY <1>7, <2>3
      <3> HIDE DEF IoInv
      <3> QED BY <3>1, <3>2, <3>3, <3>4, OthersKeep DEF Slot
    <2> QED BY <2>2, <2>3 DEF Slots
  <1>11. Table'
    <2> SUFFICES ASSUME NEW g \in Fds, sessions_'[g] # Nil
                 PROVE  fd'[sessions_'[g]] = g
      BY DEF Table
    <2>1. sessions_'[g] \in Sessions
      BY <1>3 DEF FdsTyped
    <2> QED BY <1>1, <1>2, <1>7, <2>1
  <1>12. IoSlot'
    <2>1. IoHolds'
      BY <1>1, <1>7, <1>8, IoHoldsStays
    <2>2. \A u \in Sessions : owner'[u] => owner[u] /\ fd'[u] = fd[u]
      BY <1>1, <1>7, <1>9
    <2>3. \A u \in Sessions : fd[u] = Nil => fd'[u] = Nil
      BY <1>7, <1>8
    <2> QED BY <1>1, <1>5, <2>1, <2>2, <2>3, IoSlotStays
  <1>13. Lines' /\ Delivered' /\ Counted'
    BY <1>1, <1>5, LinesStay
  <1> QED BY <1>3, <1>4, <1>6, <1>10, <1>11, <1>12, <1>13

\* UnregisterSession closes the descriptor it took; the destructor one that its session
\* had and no other has.
LEMMA ClosesKeep ==
  ASSUME IoInv, NEW s \in Sessions, UnregisterCloses(s) \/ Destroy(s), ~stale'
  PROVE  IoInv'
PROOF
  <1> USE NoDescriptor DEF IoInv, Typed
  <1>1. /\ UNCHANGED <<session_slot_, delegate_, slots, sessions_, io, loop, manager, sent, read,
                       delivered, stray>>
        /\ pc[s] \in {"close owned", "close", "stopped"}
        /\ pc' = [pc EXCEPT ![s] = "stopped"] \/ pc' = [pc EXCEPT ![s] = "gone"]
    BY DEF UnregisterCloses, Destroy, net
  <1>2. Slot(s) /\ taken[s] \in MaybeFd /\ sock_fd_[s] \in MaybeFd
    BY DEF Slots, FdsTyped
  <1>3. PICK f \in MaybeFd :
          /\ CloseFd(f) /\ taken' = [taken EXCEPT ![s] = Nil]
          /\ \/ sock_fd_' = [sock_fd_ EXCEPT ![s] = Nil]
             \/ sock_fd_' = sock_fd_ /\ pc[s] = "close" /\ pc'[s] = "stopped"
          /\ f # Nil => open[f] \in {Nil, s}
          /\ f # Nil => taken[s] # Nil \/ (pc'[s] = "gone" /\ ClosingOwned(s))
    <2>1. CASE UnregisterCloses(s)
      <3>1. taken[s] # Nil => open[taken[s]] = s
        BY <1>2 DEF Slot
      <3>2. pc'[s] = "stopped"
        BY <2>1 DEF UnregisterCloses, FdsTyped
      <3> QED BY <1>2, <2>1, <3>1, <3>2 DEF UnregisterCloses
    <2>2. CASE Destroy(s)
      <3>1. pc[s] = "stopped"
        BY <2>2 DEF Destroy
      <3>2. taken[s] = Nil /\ (sock_fd_[s] = Nil \/ ClosingOwned(s))
        BY <1>2, <3>1 DEF Slot
      <3>3. ~(IoInside(s) /\ Hits(s, sock_fd_[s]))
        BY <2>2 DEF Destroy
      <3>4. sock_fd_[s] # Nil => open[sock_fd_[s]] \in {Nil, s}
        BY <3>2, <3>3 DEF IoInside, Hits, ClosingOwned
      <3>5. taken \in [Sessions -> MaybeFd] /\ pc'[s] = "gone"
        BY <2>2 DEF Destroy, FdsTyped
      <3>6. taken' = [taken EXCEPT ![s] = Nil]
        BY <2>2, <3>2, <3>5 DEF Destroy
      <3> QED BY <1>2, <2>2, <3>2, <3>4, <3>5, <3>6 DEF Destroy
    <2> QED BY <2>1, <2>2
  <1>5. FdsTyped'
    BY <1>1, <1>3 DEF FdsTyped, MaybeFd, Pcs, CloseFd, slots
  <1>6. (FlagsTyped /\ LinesTyped /\ IoTyped)'
    BY <1>1 DEF FlagsTyped, LinesTyped, IoTyped, slots
  <1>7. \A u \in Sessions : Registered(u) => Registered(u)'
    BY <1>1 DEF Registered, FdsTyped
  <1>8. Snapshot'
    BY <1>1, <1>7, SnapshotStays
  <1>9. Slots'
    <2>1. \A u \in Sessions : Slot(u) /\ (ClosingOwned(u)' <=> ClosingOwned(u))
      BY <1>1 DEF Slots, ClosingOwned
    <2>2. Slot(s)'
      <3>1. pc'[s] \in {"stopped", "gone"} /\ taken'[s] = Nil
            /\ \/ sock_fd_'[s] = Nil
               \/ sock_fd_'[s] = sock_fd_[s] /\ pc[s] = "close" /\ pc'[s] = "stopped"
        BY <1>1, <1>3 DEF FdsTyped
      <3>2. fd[s] = Nil /\ ~owner[s]
        BY <1>1, <1>2 DEF Slot
      <3>3. pc[s] = "close" => sock_fd_[s] = Nil \/ ClosingOwned(s)'
        BY <1>2, <2>1 DEF Slot
      <3> QED BY <1>1, <3>1, <3>2, <3>3 DEF Slot, slots
    <2>3. ASSUME NEW u \in Sessions, u # s PROVE Slot(u)'
      <3>1. /\ fd[u] # Nil => open'[fd[u]] = u
            /\ taken[u] # Nil => open'[taken[u]] = u
            /\ pc[u] = "connected" => open'[sock_fd_[u]] = u
        BY <1>3, <2>3, OthersOpen
      <3>2. pc'[u] = pc[u] /\ sock_fd_'[u] = sock_fd_[u] /\ taken'[u] = taken[u]
        BY <1>1, <1>3, <2>3 DEF FdsTyped
      <3> QED BY <1>1, <2>1, <3>1, <3>2, ZenonT(30) DEF Slot, slots
    <2> QED BY <2>2, <2>3 DEF Slots
  <1>10. Table'
    BY <1>1 DEF Table, slots
  <1>11. IoSlot'
    <2>1. io.at = "close" /\ io.fd # Nil => io.fd \in Fds /\ io.s \in Sessions
      BY DEF IoSlot, IoTyped, MaybeFd, Busy
    <2>2. IoHolds
      BY DEF IoSlot
    <2>3. \A u \in Sessions : pc[u] = "gone" => pc'[u] = "gone"
      BY <1>1 DEF FdsTyped
    <2>4. io.at = "close" /\ io.fd # Nil => taken'[io.s] = Nil
      BY <1>3, <2>1, <2>2 DEF IoHolds, FdsTyped
    <2>5. ASSUME io.at = "close", io.fd # Nil, open[io.fd] = io.s
          PROVE  open'[io.fd] = io.s \/ (pc'[io.s] = "gone" /\ io.owner)
      <3>1. CASE f = io.fd
        <4>1. io.s = s /\ taken[s] = Nil
          BY <1>3, <2>1, <2>2, <2>5, <3>1 DEF IoHolds
        <4> QED BY <1>3, <2>5, <3>1, <4>1 DEF ClosingOwned
      <3>2. CASE f # io.fd
        BY <1>3, <2>1, <2>5, <3>2 DEF CloseFd
      <3> QED BY <3>1, <3>2
    <2>6. IoHolds'
      BY <1>1, <2>1, <2>2, <2>3, <2>4, <2>5 DEF IoHolds
    <2> QED BY <1>1, <1>7, <2>6, IoSlotStays DEF slots
  <1>12. Lines' /\ Delivered' /\ Counted'
    BY <1>1, <1>7, LinesStay DEF slots
  <1> QED BY <1>5, <1>6, <1>8, <1>9, <1>10, <1>11, <1>12

-----------------------------------------------------------------------------
(* The IO thread: Run *)

\* A step of the IO thread that leaves the sessions and their descriptors.
LEMMA IoMoves ==
  ASSUME IoInv, UNCHANGED <<app, slots, sessions_, open>>,
         \A u \in Sessions : ClosingOwned(u) => ClosingOwned(u)'
  PROVE  /\ FdsTyped' /\ Slots' /\ Table'
         /\ stray' \in BOOLEAN => FlagsTyped'
         /\ \A u \in Sessions : Registered(u)' <=> Registered(u)
PROOF
  <1> USE DEF IoInv, Typed, app, slots
  <1>1. FdsTyped' /\ Table' /\ (stray' \in BOOLEAN => FlagsTyped')
    BY DEF FdsTyped, Table, FlagsTyped
  <1>2. \A u \in Sessions : Registered(u)' <=> Registered(u)
    BY DEF Registered
  <1>3. ASSUME NEW u \in Sessions PROVE Slot(u)'
    <2>1. Slot(u)
      BY DEF Slots
    <2> QED BY <2>1 DEF Slot
  <1> QED BY <1>1, <1>2, <1>3 DEF Slots

\* The loop of Run around the calls for one session.
LEMMA RunKeeps ==
  ASSUME IoInv, RunTop \/ PollEnters \/ PollReturns \/ DrainWakePipe \/ RunNext
  PROVE  IoInv'
PROOF
  <1> USE NoDescriptor DEF IoInv, Typed
  <1>1. UNCHANGED <<app, slots, sessions_, open, manager, sent, read, delivered, stray>>
    BY DEF RunTop, PollEnters, PollReturns, DrainWakePipe, RunNext, net
  <1>2. io.at \in {"top", "poll", "wait", "drain", "next"}
    BY DEF RunTop, PollEnters, PollReturns, DrainWakePipe, RunNext
  <1>3. io.s = Nil /\ ~io.owner
    BY <1>2 DEF IoSlot, Busy
  <1>4. \/ \E x \in {"top", "poll", "wait", "drain", "next", "ended"} : io' = At(x)
        \/ \E u \in Sessions :
             /\ events[u] # "none"
             /\ \/ io' = [At("disown") EXCEPT !.s = u]
                \/ io' = [At("recv") EXCEPT !.s = u, !.fd = fd[u]] /\ fd[u] # Nil
    BY DEF RunTop, PollEnters, PollReturns, DrainWakePipe, RunNext, HandleReadable
  <1>14. PICK place, v, g :
           /\ io' = [at |-> place, s |-> v, fd |-> g, owner |-> FALSE, lines |-> <<>>]
           /\ \/ /\ place \in {"top", "poll", "wait", "drain", "next", "ended"}
                 /\ v = Nil /\ g = Nil
              \/ place = "disown" /\ v \in Sessions /\ events[v] # "none" /\ g = Nil
              \/ place = "recv" /\ v \in Sessions /\ events[v] # "none" /\ g = fd[v] /\ fd[v] # Nil
    <2>1. CASE \E x \in {"top", "poll", "wait", "drain", "next", "ended"} : io' = At(x)
      BY <2>1 DEF At
    <2>2. ASSUME NEW u \in Sessions, events[u] # "none", io' = [At("disown") EXCEPT !.s = u]
          PROVE  io' = [at |-> "disown", s |-> u, fd |-> Nil, owner |-> FALSE, lines |-> <<>>]
      BY <2>2 DEF At
    <2>3. ASSUME NEW u \in Sessions, events[u] # "none",
                 io' = [At("recv") EXCEPT !.s = u, !.fd = fd[u]]
          PROVE  io' = [at |-> "recv", s |-> u, fd |-> fd[u], owner |-> FALSE, lines |-> <<>>]
      BY <2>3 DEF At
    <2> QED BY <1>4, <2>1, <2>2, <2>3
  <1>5. /\ io'.at \in {"top", "poll", "wait", "drain", "next", "ended", "disown", "recv"}
        /\ ~io'.owner /\ io'.lines = <<>>
        /\ io'.at \notin {"disown", "recv"} => io'.s = Nil
        /\ io'.at \in {"disown", "recv"} => io'.s \in Sessions /\ events[io'.s] # "none"
        /\ io'.at = "recv" => io'.fd # Nil /\ io'.fd = fd[io'.s]
    BY <1>14
  <1>6. IoTyped'
    <2>1. g \in MaybeFd /\ place \in Places /\ v \in Sessions \union {Nil}
      BY <1>14 DEF FdsTyped, MaybeFd, Places
    <2>2. io' \in [at : Places, s : Sessions \union {Nil}, fd : MaybeFd, owner : BOOLEAN,
                   lines : Seq(Line)]
      BY <1>14, <2>1
    <2> QED BY <2>2 DEF IoTyped
  <1>7. /\ FdsTyped' /\ Slots' /\ Table' /\ FlagsTyped'
        /\ \A u \in Sessions : Registered(u)' <=> Registered(u)
    <2>1. \A u \in Sessions : ~ClosingOwned(u)
      BY <1>3 DEF ClosingOwned
    <2>2. stray' \in BOOLEAN
      BY <1>1 DEF FlagsTyped
    <2> QED BY <1>1, <2>1, <2>2, IoMoves
  <1>8. LinesTyped'
    BY <1>1 DEF LinesTyped
  <1>9. Snapshot'
    <2>1. \A u \in Sessions : fd[u] # Nil => Registered(u)
      BY DEF Slots, Slot, Registered
    <2>2. CASE RunTop
      <3>1. \/ polled' = polled
            \/ polled' = [u \in Sessions |-> IF u \in SnapshotSessions THEN fd[u] ELSE Nil]
        BY <2>2 DEF RunTop
      <3>2. polled' \in [Sessions -> MaybeFd] /\ \A u \in Sessions : polled'[u] # Nil => Registered(u)
        BY <2>1, <3>1 DEF Snapshot, FdsTyped, MaybeFd
      <3> QED BY <1>7, <2>2, <3>2 DEF RunTop, Snapshot
    <2>3. CASE PollEnters
      BY <1>7, <2>3 DEF PollEnters, Snapshot, NoFds, MaybeFd
    <2>4. CASE PollReturns
      BY <1>7, <2>4 DEF PollReturns, Snapshot, NoEvents, Revents
    <2>5. CASE DrainWakePipe
      BY <1>7, <2>5 DEF DrainWakePipe, Snapshot, loop
    <2>6. CASE RunNext
      <3>1. events' = events \/ \E u \in Sessions : events' = [events EXCEPT ![u] = "none"]
        BY <2>6 DEF RunNext
      <3>2. DOMAIN events' = Sessions /\ \A u \in Sessions : events'[u] # "none" => events[u] # "none"
        BY <3>1 DEF Snapshot
      <3> QED BY <1>7, <2>6, <3>2 DEF RunNext, Snapshot
    <2> QED BY <2>2, <2>3, <2>4, <2>5, <2>6
  <1>10. IoSlot'
    <2>1. io'.at \in {"disown", "recv"} => Registered(io.s)'
      BY <1>1, <1>5 DEF Snapshot, Registered, app
    <2>2. manager # "off"
      BY <1>2 DEF IoSlot
    <2>3. manager' # "off" /\ fd' = fd
      BY <1>1, <2>2 DEF slots
    <2> QED BY <1>5, <2>1, <2>3 DEF IoSlot, IoHolds, Busy
  <1>11. ~Reading /\ ~Reading'
    BY <1>2, <1>5 DEF Reading
  <1>12. Lines' /\ Delivered'
    BY <1>1, <1>5, <1>11 DEF Lines, Delivered
  <1>13. Counted'
    <2>1. \A u \in Sessions : InHand(u) = 0 /\ InHand(u)' = 0
      BY <1>11 DEF InHand
    <2> QED BY <1>1, <1>5, <1>7, <2>1 DEF Counted, app, slots
  <1> QED BY <1>6, <1>7, <1>8, <1>9, <1>10, <1>12, <1>13

-----------------------------------------------------------------------------
(* HandleReadable *)

\* A step of the IO thread inside HandleReadable for one session.
LEMMA ReadMoves ==
  ASSUME IoInv, UNCHANGED <<app, slots, sessions_, open, manager, sent, loop>>,
         io.at \in {"recv", "blocked", "lines", "parse", "callback", "stopping"},
         LinesTyped', IoTyped', stray' \in BOOLEAN
  PROVE  /\ Typed' /\ Snapshot' /\ Slots' /\ Table'
         /\ \A u \in Sessions : Registered(u)' <=> Registered(u)
PROOF
  <1>1. \A u \in Sessions : ~ClosingOwned(u)
    BY DEF ClosingOwned
  <1>2. /\ FdsTyped' /\ Slots' /\ Table' /\ FlagsTyped'
        /\ \A u \in Sessions : Registered(u)' <=> Registered(u)
    BY <1>1, IoMoves
  <1>3. Snapshot'
    BY <1>2, SnapshotStays
  <1> QED BY <1>2, <1>3 DEF Typed

\* recv returns lines of connection c, or the end of it.
LEMMA RecvFromKeeps ==
  ASSUME IoInv, UNCHANGED <<app, slots, sessions_, open, manager, sent, loop, delivered>>,
         io.at \in {"recv", "blocked"}, NEW c \in Sessions, RecvFrom(c),
         stray' \in BOOLEAN, stray => stray', owner[io.s] \/ ~stray' => c = io.s
  PROVE  IoInv'
PROOF
  <1> USE DEF IoInv, Typed
  <1>1. /\ io.s \in Sessions /\ Registered(io.s) /\ ~io.owner /\ ~Reading /\ manager # "off"
    BY DEF IoSlot, Busy, Reading
  <1>2. sent[c] \in Nat /\ read[c] \in Nat /\ read \in [Sessions -> Nat]
    BY DEF LinesTyped
  <1>3. CASE io' = [io EXCEPT !.at = "disown", !.fd = Nil] /\ UNCHANGED read
    <2>1. /\ io'.at = "disown" /\ io'.s = io.s /\ ~io'.owner
      BY <1>1, <1>3 DEF IoTyped
    <2>2. IoTyped' /\ LinesTyped'
      BY <1>3 DEF IoTyped, LinesTyped, Places, MaybeFd
    <2>3. /\ Typed' /\ Snapshot' /\ Slots' /\ Table'
          /\ \A u \in Sessions : Registered(u)' <=> Registered(u)
      BY <2>2, ReadMoves
    <2>4. IoSlot'
      BY <1>1, <2>1, <2>3 DEF IoSlot, IoHolds, Busy
    <2>5. ~Reading' /\ Lines' /\ Delivered'
      BY <1>3, <2>1 DEF Lines, Reading, Delivered
    <2>6. Counted'
      <3>1. \A u \in Sessions : InHand(u) = 0 /\ InHand(u)' = 0
        BY <1>1, <2>5 DEF InHand
      <3> QED BY <1>3, <2>1, <2>3, <3>1 DEF Counted, app, slots
    <2> QED BY <2>3, <2>4, <2>5, <2>6
  <1>4. ASSUME NEW k \in 1..Available(c),
               io' = [io EXCEPT !.at = "lines", !.fd = Nil,
                                !.lines = [i \in 1..k |-> <<c, read[c] + i>>]],
               read' = [read EXCEPT ![c] = read[c] + k]
        PROVE  IoInv'
    <2> DEFINE new == [i \in 1..k |-> <<c, read[c] + i>>]
    <2>1. k \in Nat
      BY <1>2 DEF Available
    <2>2. new \in Seq(Line) /\ Len(new) = k /\ \A i \in 1..k : new[i] = <<c, read[c] + i>>
      <3>1. \A i \in 1..k : <<c, read[c] + i>> \in Line
        BY <1>2, <2>1 DEF Line
      <3> HIDE DEF Line
      <3> QED BY <2>1, <3>1
    <2>3. /\ io'.at = "lines" /\ io'.s = io.s /\ ~io'.owner /\ io'.lines = new
      BY <1>1, <1>4 DEF IoTyped
    <2>4. read'[c] = read[c] + k /\ read' \in [Sessions -> Nat]
      BY <1>2, <1>4, <2>1
    <2>5. \A u \in Sessions : u # c => read'[u] = read[u]
      BY <1>2, <1>4
    <2> HIDE DEF new
    <2>6. IoTyped'
      <3>1. io' = [io EXCEPT !.at = "lines", !.fd = Nil, !.lines = new]
        BY <1>4 DEF new
      <3> QED BY <2>2, <3>1 DEF IoTyped, Places, MaybeFd
    <2>7. LinesTyped'
      BY <2>4 DEF LinesTyped
    <2>8. /\ Typed' /\ Snapshot' /\ Slots' /\ Table'
          /\ \A u \in Sessions : Registered(u)' <=> Registered(u)
      BY <2>6, <2>7, ReadMoves
    <2>9. IoSlot'
      BY <1>1, <2>3, <2>8 DEF IoSlot, IoHolds, Busy
    <2>10. Lines'
      <3>1. \A i \in 1..Len(new) : new[i] = <<c, read'[c] - Len(new) + i>>
        BY <1>2, <2>1, <2>2, <2>4
      <3>2. \A i \in 1..Len(delivered[c]) : delivered[c][i][2] <= read'[c] - Len(new)
        BY <1>2, <2>1, <2>2, <2>4 DEF Delivered
      <3>3. Len(new) <= read'[c]
        BY <1>2, <2>1, <2>2, <2>4
      <3>4. (owner[io.s] \/ ~stray' => c = io.s) /\ owner' = owner /\ io'.at # "blocked"
        BY <2>3 DEF slots
      <3> QED BY <2>3, <3>1, <3>2, <3>3, <3>4 DEF Lines
    <2>11. Delivered'
      <3>1. \A u \in Sessions : \A i \in 1..Len(delivered[u]) : delivered[u][i][2] \in Nat
        <4>1. \A u \in Sessions : \A i \in 1..Len(delivered[u]) : delivered[u][i] \in Line
          BY DEF LinesTyped
        <4> QED BY <4>1 DEF Line
      <3>2. \A u \in Sessions : read[u] \in Nat /\ read[u] <= read'[u] /\ read'[u] \in Nat
        BY <1>2, <2>1, <2>4, <2>5
      <3>3. \A u \in Sessions : \A i \in 1..Len(delivered[u]) : delivered[u][i][2] <= read'[u]
        BY <3>1, <3>2 DEF Delivered
      <3> QED BY <3>3 DEF Delivered
    <2>12. Counted'
      <3>1. \A u \in Sessions : InHand(u) = 0
        BY <1>1 DEF InHand
      <3>2. \A u \in Sessions : InHand(u)' = IF u = io.s THEN k ELSE 0
        BY <2>2, <2>3 DEF InHand, Reading
      <3>3. CASE stray'
        BY <3>3 DEF Counted
      <3>4. CASE ~stray'
        <4>1. c = io.s /\ ~stray
          BY <3>4
        <4>2. ASSUME NEW u \in Sessions, ~Registered(u)' PROVE read'[u] = 0 /\ delivered[u] = <<>>
          BY <1>1, <2>5, <2>8, <4>1, <4>2 DEF Counted
        <4>3. ASSUME NEW u \in Sessions, delegate_'[u], owner'[u] \/ (io'.s = u /\ io'.owner)
              PROVE  Len(delivered[u]) + InHand(u)' = read'[u]
          <5>1. Len(delivered[u]) + 0 = read[u] /\ Len(delivered[u]) \in Nat
            BY <2>3, <3>1, <4>1, <4>3 DEF Counted, app, slots, LinesTyped
          <5>2. CASE u = c
            BY <1>2, <2>1, <2>4, <3>2, <4>1, <5>1, <5>2
          <5>3. CASE u # c
            BY <2>5, <3>2, <4>1, <5>1, <5>3
          <5> QED BY <5>2, <5>3
        <4> QED BY <4>2, <4>3 DEF Counted
      <3> QED BY <3>3, <3>4
    <2> QED BY <2>8, <2>9, <2>10, <2>11, <2>12
  <1> QED BY <1>3, <1>4 DEF RecvFrom

\* The descriptor of an owned session leads to its connection, also after it
\* was loaded.
LEMMA RecvKeeps ==
  ASSUME IoInv, Recv
  PROVE  IoInv'
PROOF
  <1> USE NoDescriptor DEF IoInv, Typed
  <1> DEFINE c == open[io.fd]
  <1>1. /\ io.at = "recv" /\ stray' = (stray \/ c \notin {Nil, io.s})
        /\ UNCHANGED <<app, slots, sessions_, open, manager, sent, loop, delivered>>
    BY DEF Recv, net
  <1>2. /\ io.s \in Sessions /\ Registered(io.s) /\ ~io.owner /\ ~Reading /\ manager # "off"
        /\ io.fd \in Fds
    BY <1>1 DEF IoSlot, Busy, Reading, IoTyped, MaybeFd
  <1>3. owner[io.s] => c = io.s
    <2>1. owner[io.s] => io.fd = fd[io.s]
      BY <1>1 DEF IoSlot
    <2>2. fd[io.s] # Nil => open[fd[io.s]] = io.s
      BY <1>2 DEF Slots, Slot
    <2> QED BY <1>2, <2>1, <2>2
  <1>4. c \in Sessions \union {Nil} /\ stray' \in BOOLEAN /\ (stray => stray')
    <2>1. c \in Sessions \union {Nil}
      BY <1>2 DEF FdsTyped
    <2>2. stray' \in BOOLEAN /\ (stray => stray')
      BY <1>1 DEF FlagsTyped
    <2> QED BY <2>1, <2>2
  <1>5. c # Nil => (owner[io.s] \/ ~stray' => c = io.s)
    BY <1>1, <1>3
  <1>6. CASE c # Nil /\ RecvFrom(c)
    <2> HIDE DEF c
    <2> QED BY <1>1, <1>4, <1>5, <1>6, RecvFromKeeps
  <1>7. CASE \/ c = Nil /\ io' = [io EXCEPT !.at = "disown", !.fd = Nil] /\ UNCHANGED read
             \/ c # Nil /\ io' = [io EXCEPT !.at = "blocked", !.lines = <<c>>] /\ UNCHANGED read
    <2>1. /\ io'.at \in {"disown", "blocked"} /\ io'.s = io.s /\ ~io'.owner
          /\ io'.at = "blocked" => io'.lines = <<c>> /\ c # Nil
      BY <1>2, <1>7 DEF IoTyped
    <2>2. IoTyped'
      <3>1. c # Nil => <<c>> \in Seq(Sessions)
        BY <1>4
      <3> HIDE DEF c
      <3> QED BY <1>7, <3>1, ZenonT(30) DEF IoTyped, Places, MaybeFd
    <2>3. LinesTyped'
      BY <1>1, <1>7 DEF LinesTyped
    <2>4. /\ Typed' /\ Snapshot' /\ Slots' /\ Table'
          /\ \A u \in Sessions : Registered(u)' <=> Registered(u)
      BY <1>1, <1>4, <2>2, <2>3, ReadMoves
    <2>5. IoSlot'
      BY <1>1, <1>2, <2>1, <2>4 DEF IoSlot, IoHolds, Busy
    <2>6. ~Reading'
      BY <2>1 DEF Reading
    <2>7. Lines'
      BY <1>1, <1>4, <1>5, <2>1, <2>6 DEF Lines, slots
    <2>8. Delivered'
      BY <1>1, <1>4, <1>7 DEF Delivered
    <2>9. Counted'
      <3>1. \A u \in Sessions : InHand(u) = 0 /\ InHand(u)' = 0
        BY <1>2, <2>6 DEF InHand
      <3> QED BY <1>1, <1>4, <1>7, <2>1, <2>4, <3>1 DEF Counted, app, slots
    <2> QED BY <2>4, <2>5, <2>7, <2>8, <2>9
  <1> QED BY <1>6, <1>7 DEF Recv

\* A receive that blocked on a stray descriptor comes back.
LEMMA RecvUnblocksKeeps ==
  ASSUME IoInv, RecvUnblocks
  PROVE  IoInv'
PROOF
  <1> USE DEF IoInv, Typed
  <1>1. PICK c \in Sessions : io.lines = <<c>> /\ (owner[io.s] \/ ~stray => c = io.s)
    BY DEF RecvUnblocks, Lines
  <1>2. io.lines[1] = c
    BY <1>1
  <1>3. stray' \in BOOLEAN /\ stray' = stray
    BY DEF RecvUnblocks, FlagsTyped
  <1>4. RecvFrom(c) /\ io.at = "blocked"
        /\ UNCHANGED <<app, slots, sessions_, open, manager, sent, loop, delivered>>
    BY <1>2 DEF RecvUnblocks, net
  <1> QED BY <1>1, <1>3, <1>4, RecvFromKeeps

\* What is left of the lines once the first is gone.
LEMMA TailOfLines ==
  ASSUME NEW q \in Seq(Line), q # <<>>, NEW c \in Sessions, NEW n \in Nat, Len(q) <= n,
         \A k \in 1..Len(q) : q[k] = <<c, n - Len(q) + k>>
  PROVE  /\ Tail(q) \in Seq(Line) /\ Len(Tail(q)) = Len(q) - 1 /\ Len(q) \in Nat \ {0}
         /\ Head(q) = <<c, n - Len(Tail(q))>> /\ Head(q) \in Line
         /\ \A k \in 1..Len(Tail(q)) : Tail(q)[k] = <<c, n - Len(Tail(q)) + k>>
PROOF
  <1>1. Len(q) \in Nat \ {0} /\ Tail(q) \in Seq(Line) /\ Len(Tail(q)) = Len(q) - 1
    OBVIOUS
  <1>2. Head(q) = q[1] /\ q[1] \in Line
    BY <1>1
  <1>3. \A k \in 1..Len(Tail(q)) : Tail(q)[k] = q[k + 1] /\ k + 1 \in 1..Len(q)
    BY <1>1
  <1>4. Head(q) = <<c, n - Len(Tail(q))>>
    BY <1>1, <1>2
  <1>5. \A k \in 1..Len(Tail(q)) : Tail(q)[k] = <<c, n - Len(Tail(q)) + k>>
    BY <1>1, <1>3
  <1> QED BY <1>1, <1>2, <1>4, <1>5

\* The IO thread hands a line to the delegate.
LEMMA DispatchLineKeeps ==
  ASSUME IoInv, DispatchLine
  PROVE  IoInv'
PROOF
  <1> USE NoDescriptor DEF IoInv, Typed
  <1>1. /\ io.at = "lines"
        /\ UNCHANGED <<app, slots, sessions_, open, manager, sent, loop, read, delivered, stray>>
    BY DEF DispatchLine, net
  <1>2. /\ io.s \in Sessions /\ Registered(io.s) /\ ~io.owner /\ Reading /\ manager # "off"
        /\ io.lines \in Seq(Line)
    BY <1>1 DEF IoSlot, Busy, Reading, IoTyped
  <1>3. stray' \in BOOLEAN /\ LinesTyped' /\ Delivered'
    BY <1>1 DEF FlagsTyped, LinesTyped, Delivered
  <1>4. PICK c \in Sessions :
          /\ \A k \in 1..Len(io.lines) : io.lines[k] = <<c, read[c] - Len(io.lines) + k>>
          /\ Len(io.lines) <= read[c]
          /\ \A i \in 1..Len(delivered[c]) : delivered[c][i][2] <= read[c] - Len(io.lines)
          /\ owner[io.s] \/ io.owner => c = io.s
          /\ ~stray => c = io.s
    BY <1>2 DEF Lines
  <1>5. CASE io.lines = <<>> /\ io' = At("next")
    <2>1. IoTyped'
      <3>1. io' \in [at : Places, s : Sessions \union {Nil}, fd : MaybeFd, owner : BOOLEAN,
                     lines : Seq(Line)]
        BY <1>5 DEF At, Places, MaybeFd
      <3> QED BY <3>1 DEF IoTyped
    <2>2. /\ Typed' /\ Snapshot' /\ Slots' /\ Table'
          /\ \A u \in Sessions : Registered(u)' <=> Registered(u)
      BY <1>1, <1>3, <2>1, ReadMoves
    <2>3. IoSlot' /\ Lines' /\ ~io'.owner /\ ~Reading'
      BY <1>1, <1>2, <1>5 DEF IoSlot, IoHolds, At, Busy, Lines, Reading
    <2>4. \A u \in Sessions : InHand(u) = 0 /\ InHand(u)' = 0
      BY <1>5, <2>3 DEF InHand
    <2>5. Counted'
      BY <1>1, <2>2, <2>3, <2>4 DEF Counted, app, slots
    <2> QED BY <1>3, <2>2, <2>3, <2>5
  <1>6. CASE owner[io.s] /\ io.lines # <<>> /\ io' = [io EXCEPT !.at = "parse", !.owner = TRUE]
    <2>1. io'.at = "parse" /\ io'.owner /\ io'.s = io.s /\ io'.lines = io.lines
      BY <1>6 DEF IoTyped
    <2>2. IoTyped'
      BY <1>2, <1>6 DEF IoTyped, Places
    <2>3. /\ Typed' /\ Snapshot' /\ Slots' /\ Table'
          /\ \A u \in Sessions : Registered(u)' <=> Registered(u)
      BY <1>1, <1>3, <2>2, ReadMoves
    <2>4. IoSlot'
      BY <1>1, <1>2, <1>6, <2>1, <2>3 DEF IoSlot, IoHolds, Busy
    <2>5. Lines'
      BY <1>1, <1>4, <1>6, <2>1 DEF Lines
    <2>6. Counted'
      <3>1. \A u \in Sessions : InHand(u)' = InHand(u)
        BY <1>2, <2>1 DEF InHand, Reading
      <3>2. \A u \in Sessions : io'.s = u /\ io'.owner => owner[u]
        BY <1>6, <2>1
      <3> QED BY <1>1, <2>3, <3>1, <3>2 DEF Counted, app, slots
    <2> QED BY <1>3, <2>3, <2>4, <2>5, <2>6
  <1>7. CASE ~owner[io.s] /\ io.lines # <<>> /\ io' = [io EXCEPT !.lines = Tail(io.lines)]
    <2>1. io'.at = "lines" /\ ~io'.owner /\ io'.s = io.s /\ io'.lines = Tail(io.lines)
      BY <1>1, <1>2, <1>7 DEF IoTyped
    <2>2. read[c] \in Nat
      BY DEF LinesTyped
    <2>3. /\ Tail(io.lines) \in Seq(Line) /\ Len(Tail(io.lines)) = Len(io.lines) - 1
          /\ Len(io.lines) \in Nat \ {0}
          /\ \A k \in 1..Len(Tail(io.lines)) :
               Tail(io.lines)[k] = <<c, read[c] - Len(Tail(io.lines)) + k>>
      BY <1>2, <1>4, <1>7, <2>2, TailOfLines
    <2>4. IoTyped'
      BY <1>1, <1>7, <2>3 DEF IoTyped
    <2>5. /\ Typed' /\ Snapshot' /\ Slots' /\ Table'
          /\ \A u \in Sessions : Registered(u)' <=> Registered(u)
      BY <1>1, <1>3, <2>4, ReadMoves
    <2>6. IoSlot'
      BY <1>1, <1>2, <2>1, <2>5 DEF IoSlot, IoHolds, Busy
    <2>7. Lines'
      <3>1. Len(Tail(io.lines)) <= read[c]
        BY <1>4, <2>2, <2>3
      <3>2. \A i \in 1..Len(delivered[c]) : delivered[c][i] \in Line
        BY DEF LinesTyped
      <3>3. \A i \in 1..Len(delivered[c]) : delivered[c][i][2] \in Nat
        BY <3>2 DEF Line
      <3>4. \A i \in 1..Len(delivered[c]) : delivered[c][i][2] <= read[c] - Len(Tail(io.lines))
        BY <1>4, <2>2, <2>3, <3>3
      <3>5. owner' = owner /\ read' = read /\ delivered' = delivered /\ stray' = stray
        BY <1>1 DEF slots
      <3> QED BY <1>4, <1>7, <2>1, <2>3, <3>1, <3>4, <3>5, ZenonT(30) DEF Lines
    <2>8. Counted'
      <3>1. \A u \in Sessions : u # io.s => InHand(u)' = InHand(u)
        BY <2>1 DEF InHand
      <3> QED BY <1>1, <1>7, <2>1, <2>5, <3>1 DEF Counted, app, slots
    <2> QED BY <1>3, <2>5, <2>6, <2>7, <2>8
  <1> QED BY <1>5, <1>6, <1>7 DEF DispatchLine

\* Lines of connection s up to number n; in order; without a gap.
UpTo(e, s, n) == \A i \in 1..Len(e) : e[i][1] = s /\ e[i][2] <= n
Rising(e) == \A i, j \in 1..Len(e) : i < j => e[i][2] < e[j][2]
Gapless(e) == \A i \in 1..Len(e) : e[i][2] = i

\* What was delivered, e, all up to line m of s, became d.
OneMore(e, s, m, d) ==
  /\ d \in Seq(Line) /\ Len(d) = Len(e) + 1 /\ Len(e) \in Nat
  /\ UpTo(d, s, m + 1) /\ Rising(d)
  /\ Gapless(e) /\ Len(e) = m => Gapless(d)

\* Line m + 1 comes after all lines up to m.
LEMMA AppendLine ==
  ASSUME NEW s \in Sessions, NEW e \in Seq(Line), NEW m \in Nat, UpTo(e, s, m), Rising(e)
  PROVE  OneMore(e, s, m, Append(e, <<s, m + 1>>))
PROOF
  <1> DEFINE d == Append(e, <<s, m + 1>>)
  <1> USE DEF UpTo, Rising, Gapless, OneMore
  <1> DEFINE x == <<s, m + 1>>
  <1>1. x \in Line /\ x[1] = s /\ x[2] = m + 1
    BY DEF Line
  <1>2. /\ d \in Seq(Line) /\ Len(d) = Len(e) + 1 /\ Len(e) \in Nat
        /\ d[Len(e) + 1] = x /\ \A i \in 1..Len(e) : d[i] = e[i]
    BY <1>1
  <1>3. \A i \in 1..Len(e) : e[i][2] \in Nat
    <2>1. \A i \in 1..Len(e) : e[i] \in Line
      OBVIOUS
    <2> QED BY <2>1 DEF Line
  <1> HIDE DEF x, d
  <1>4. \A i \in 1..Len(d) : i \in 1..Len(e) \/ i = Len(e) + 1
    BY <1>2
  <1>5. \A i \in 1..Len(d) : d[i][1] = s /\ d[i][2] <= m + 1
    <2>1. TAKE i \in 1..Len(d)
    <2>2. CASE i \in 1..Len(e)
      <3>1. d[i] = e[i] /\ e[i][1] = s /\ e[i][2] <= m /\ e[i][2] \in Nat
        BY <1>2, <1>3, <2>2
      <3> QED BY <3>1
    <2>3. CASE i = Len(e) + 1
      BY <1>1, <1>2, <2>3
    <2> QED BY <1>4, <2>2, <2>3
  <1>6. \A i, j \in 1..Len(d) : i < j => d[i][2] < d[j][2]
    <2>1. TAKE i, j \in 1..Len(d)
    <2>2. HAVE i < j
    <2>3. i \in 1..Len(e) /\ d[i] = e[i] /\ e[i][2] <= m /\ e[i][2] \in Nat
      <3>1. i \in 1..Len(e)
        BY <1>2, <2>2
      <3> QED BY <1>2, <1>3, <3>1
    <2>4. CASE j \in 1..Len(e)
      BY <1>2, <2>2, <2>3, <2>4
    <2>5. CASE j = Len(e) + 1
      BY <1>1, <1>2, <2>3, <2>5
    <2> QED BY <1>4, <2>4, <2>5
  <1>7. ASSUME \A i \in 1..Len(e) : e[i][2] = i, Len(e) = m
        PROVE  \A i \in 1..Len(d) : d[i][2] = i
    <2>1. TAKE i \in 1..Len(d)
    <2>2. CASE i \in 1..Len(e)
      BY <1>2, <1>7, <2>2
    <2>3. CASE i = Len(e) + 1
      BY <1>1, <1>2, <1>7, <2>3
    <2> QED BY <1>4, <2>2, <2>3
  <1>8. OneMore(e, s, m, d)
    BY <1>2, <1>5, <1>6, <1>7
  <1> QED BY <1>8 DEF d

\* The delegate gets the line after the last one it got.
LEMMA ParseKeeps ==
  ASSUME IoInv, ParseAndDispatch
  PROVE  IoInv'
PROOF
  <1> USE NoDescriptor DEF IoInv, Typed
  <1> DEFINE s == io.s
             q == io.lines
  <1>1. /\ io.at = "parse"
        /\ UNCHANGED <<app, slots, sessions_, open, manager, sent, loop, read, stray>>
    BY DEF ParseAndDispatch, net
  <1>2. /\ s \in Sessions /\ Registered(s) /\ io.owner /\ Reading /\ manager # "off"
        /\ q \in Seq(Line) /\ q # <<>>
    BY <1>1 DEF IoSlot, Busy, Reading, IoTyped
  <1>3. /\ \A k \in 1..Len(q) : q[k] = <<s, read[s] - Len(q) + k>>
        /\ Len(q) <= read[s]
        /\ \A i \in 1..Len(delivered[s]) : delivered[s][i][2] <= read[s] - Len(q)
    BY <1>2 DEF Lines
  <1>4. read[s] \in Nat /\ delivered[s] \in Seq(Line)
    BY <1>2 DEF LinesTyped
  <1>5. /\ Tail(q) \in Seq(Line) /\ Len(Tail(q)) = Len(q) - 1 /\ Len(q) \in Nat \ {0}
        /\ Head(q) = <<s, read[s] - Len(Tail(q))>> /\ Head(q) \in Line
        /\ \A k \in 1..Len(Tail(q)) : Tail(q)[k] = <<s, read[s] - Len(Tail(q)) + k>>
    BY <1>2, <1>3, <1>4, TailOfLines
  <1>6. \A i \in 1..Len(delivered[s]) : delivered[s][i][1] = s /\ delivered[s][i][2] \in Nat
    <2>1. \A i \in 1..Len(delivered[s]) : delivered[s][i] \in Line
      BY <1>4
    <2> QED BY <1>2, <2>1 DEF Line, Delivered
  <1>7. /\ io' = [io EXCEPT !.at = "callback", !.lines = Tail(q)]
           \/ io' = [io EXCEPT !.at = "lines", !.owner = FALSE, !.lines = Tail(q)]
    BY DEF ParseAndDispatch
  <1>8. /\ io'.s = s /\ io'.lines = Tail(q)
        /\ \/ io'.at = "callback" /\ io'.owner
           \/ io'.at = "lines" /\ ~io'.owner
    BY <1>2, <1>7 DEF IoTyped
  <1>9. IoTyped'
    <2>1. io'.lines \in Seq(Line)
      BY <1>5, <1>8
    <2>2. io' \in [at : Places, s : Sessions \union {Nil}, fd : MaybeFd, owner : BOOLEAN,
                   lines : Seq(Line) \union Seq(Sessions)]
      <3>1. Tail(q) \in Seq(Line) \union Seq(Sessions)
        BY <1>5
      <3>2. io \in [at : Places, s : Sessions \union {Nil}, fd : MaybeFd, owner : BOOLEAN,
                    lines : Seq(Line) \union Seq(Sessions)]
        BY DEF IoTyped
      <3>3. "callback" \in Places /\ "lines" \in Places
        BY DEF Places
      <3> HIDE DEF q
      <3> QED BY <1>7, <3>1, <3>2, <3>3
    <2> QED BY <2>1, <2>2 DEF IoTyped
  <1>10. stray' \in BOOLEAN
    BY <1>1 DEF FlagsTyped
  <1>11. \A u \in Sessions : u # s => InHand(u)' = 0 /\ InHand(u) = 0
    BY <1>8 DEF InHand
  <1>12. /\ \A u \in Sessions : u = s => InHand(u)' = Len(Tail(q))
         /\ InHand(s) = Len(q)
    BY <1>2, <1>8 DEF InHand, Reading
  <1>13. CASE delegate_[s] /\ delivered' = [delivered EXCEPT ![s] = Append(delivered[s], Head(q))]
              /\ io'.at = "callback"
    <2> DEFINE d == Append(delivered[s], Head(q))
    <2>1. delivered'[s] = d /\ \A u \in Sessions : u # s => delivered'[u] = delivered[u]
      BY <1>2, <1>13 DEF LinesTyped
    <2>2. /\ d \in Seq(Line) /\ Len(d) = Len(delivered[s]) + 1 /\ Len(delivered[s]) \in Nat
          /\ \A i \in 1..Len(d) : /\ d[i][1] = s
                                  /\ d[i][2] <= read[s] - Len(q) + 1 /\ d[i][2] <= read[s]
          /\ \A i, j \in 1..Len(d) : i < j => d[i][2] < d[j][2]
          /\ (\A i \in 1..Len(delivered[s]) : delivered[s][i][2] = i)
             /\ Len(delivered[s]) + Len(q) = read[s]
             => \A i \in 1..Len(d) : d[i][2] = i
      <3>1. PICK m \in Nat : m = read[s] - Len(q)
        BY <1>3, <1>4, <1>5
      <3>2. Head(q) = <<s, m + 1>> /\ m + 1 <= read[s]
        BY <1>4, <1>5, <3>1
      <3>3. PICK e \in Seq(Line), u \in Sessions : e = delivered[s] /\ u = s
        BY <1>2, <1>4
      <3>4. UpTo(e, u, m)
        BY <1>3, <1>6, <3>1, <3>3 DEF UpTo
      <3>5. Rising(e)
        BY <1>2, <3>3 DEF Delivered, Rising
      <3>6. PICK z : z = Append(e, <<u, m + 1>>)
        OBVIOUS
      <3>7. OneMore(e, u, m, z)
        BY <3>4, <3>5, <3>6, AppendLine, Zenon
      <3>8. d = z
        BY <3>2, <3>3, <3>6
      <3>9. \A i \in 1..Len(z) : z[i][2] \in Nat
        <4>1. \A i \in 1..Len(z) : z[i] \in Line
          BY <3>7 DEF OneMore
        <4> QED BY <4>1 DEF Line
      <3> HIDE DEF d, s, q
      <3>10. \A i \in 1..Len(z) : /\ z[i][1] = s
                                  /\ z[i][2] <= read[s] - Len(q) + 1 /\ z[i][2] <= read[s]
        <4>1. TAKE i \in 1..Len(z)
        <4>2. z[i][1] = s /\ z[i][2] <= m + 1 /\ z[i][2] \in Nat
          BY <3>3, <3>7, <3>9 DEF UpTo, OneMore
        <4> QED BY <1>4, <1>5, <3>1, <3>2, <4>2, SMTT(30)
      <3>11. Len(e) + Len(q) = read[s] => Len(e) = m
        BY <1>4, <1>5, <3>1, <3>7 DEF OneMore
      <3> QED BY <3>3, <3>7, <3>8, <3>10, <3>11 DEF Rising, Gapless, OneMore
    <2> HIDE DEF d
    <2>3. LinesTyped'
      BY <1>1, <1>2, <1>5, <1>13 DEF LinesTyped
    <2>4. /\ Typed' /\ Snapshot' /\ Slots' /\ Table'
          /\ \A u \in Sessions : Registered(u)' <=> Registered(u)
      BY <1>1, <1>9, <1>10, <2>3, ReadMoves
    <2>5. IoSlot'
      BY <1>1, <1>2, <1>8, <1>13, <2>4 DEF IoSlot, IoHolds, Busy
    <2>6. Lines'
      <3>1. \A i \in 1..Len(d) : d[i][2] <= read[s] - Len(Tail(q))
        <4>1. read[s] - Len(Tail(q)) = read[s] - Len(q) + 1
          BY <1>4, <1>5
        <4> QED BY <2>2, <4>1
      <3>2. Len(Tail(q)) <= read[s]
        BY <1>3, <1>4, <1>5
      <3>3. /\ read' = read /\ owner' = owner /\ stray' = stray
            /\ io'.at = "callback" /\ io'.s = s /\ io'.lines = Tail(q)
        BY <1>1, <1>8, <1>13 DEF slots
      <3>4. \A k \in 1..Len(Tail(q)) : Tail(q)[k] = <<s, read[s] - Len(Tail(q)) + k>>
        BY <1>5
      <3> HIDE DEF s, q
      <3>5. delivered'[s] = d
        BY <2>1
      <3>6. /\ \A k \in 1..Len(io'.lines) : io'.lines[k] = <<s, read'[s] - Len(io'.lines) + k>>
            /\ Len(io'.lines) <= read'[s]
            /\ \A i \in 1..Len(delivered'[s]) : delivered'[s][i][2] <= read'[s] - Len(io'.lines)
        BY <3>1, <3>2, <3>3, <3>4, <3>5, Zenon
      <3>7. io'.at # "blocked"
        BY <3>3
      <3> QED BY <1>2, <3>3, <3>6, <3>7, Zenon DEF Lines
    <2>7. ~stray => Len(delivered[s]) + Len(q) = read[s]
      BY <1>2, <1>12, <1>13 DEF Counted
    <2>10. Delivered'
      <3>1. ~stray => \A i \in 1..Len(d) : d[i][2] = i
        BY <1>2, <2>2, <2>7 DEF Delivered
      <3>2. ASSUME NEW u \in Sessions
            PROVE  /\ \A i \in 1..Len(delivered'[u]) :
                        delivered'[u][i][1] = u /\ delivered'[u][i][2] <= read[u]
                   /\ \A i, j \in 1..Len(delivered'[u]) :
                        i < j => delivered'[u][i][2] < delivered'[u][j][2]
                   /\ ~stray => \A i \in 1..Len(delivered'[u]) : delivered'[u][i][2] = i
        <4>1. CASE u = s
          BY <2>1, <2>2, <3>1, <4>1
        <4>2. CASE u # s
          BY <2>1, <4>2 DEF Delivered
        <4> QED BY <4>1, <4>2
      <3> QED BY <1>1, <3>2 DEF Delivered
    <2>11. Counted'
      <3>1. ASSUME NEW u \in Sessions, ~stray, ~Registered(u)'
            PROVE  read[u] = 0 /\ delivered'[u] = <<>>
        BY <1>2, <2>1, <2>4, <3>1 DEF Counted
      <3>2. ASSUME NEW u \in Sessions, ~stray, delegate_[u], owner[u] \/ (io'.s = u /\ io'.owner)
            PROVE  Len(delivered'[u]) + InHand(u)' = read[u]
        <4>1. CASE u = s
          <5>1. InHand(u)' = Len(q) - 1 /\ Len(delivered'[u]) = Len(delivered[s]) + 1
            BY <1>5, <1>12, <2>1, <2>2, <4>1
          <5> HIDE DEF s, q
          <5> QED BY <1>4, <1>5, <2>2, <2>7, <3>2, <4>1, <5>1
        <4>2. CASE u # s
          BY <1>8, <1>11, <2>1, <3>2, <4>2 DEF Counted
        <4> QED BY <4>1, <4>2
      <3> QED BY <1>1, <3>1, <3>2 DEF Counted, app, slots
    <2> QED BY <2>4, <2>5, <2>6, <2>10, <2>11
  <1>14. CASE ~delegate_[s] /\ delivered' = delivered /\ io'.at = "lines"
    <2>1. LinesTyped'
      BY <1>1, <1>14 DEF LinesTyped
    <2>2. /\ Typed' /\ Snapshot' /\ Slots' /\ Table'
          /\ \A u \in Sessions : Registered(u)' <=> Registered(u)
      BY <1>1, <1>9, <1>10, <2>1, ReadMoves
    <2>3. IoSlot'
      BY <1>1, <1>2, <1>8, <1>14, <2>2 DEF IoSlot, IoHolds, Busy
    <2>4. Lines'
      <3>1. \A i \in 1..Len(delivered[s]) : delivered[s][i][2] <= read[s] - Len(Tail(q))
        BY <1>3, <1>4, <1>5, <1>6, SMTT(30)
      <3>2. Len(Tail(q)) <= read[s]
        BY <1>3, <1>4, <1>5
      <3>3. read' = read /\ io'.at # "blocked"
        BY <1>1, <1>14
      <3> QED BY <1>2, <1>5, <1>8, <1>14, <3>1, <3>2, <3>3 DEF Lines
    <2>5. Delivered'
      BY <1>1, <1>14 DEF Delivered
    <2>6. Counted'
      BY <1>1, <1>2, <1>8, <1>11, <1>14, <2>2 DEF Counted, app, slots
    <2> QED BY <2>2, <2>3, <2>4, <2>5, <2>6
  <1>15. \/ delegate_[s] /\ delivered' = [delivered EXCEPT ![s] = Append(delivered[s], Head(q))]
              /\ io' = [io EXCEPT !.at = "callback", !.lines = Tail(q)]
         \/ ~delegate_[s] /\ delivered' = delivered
              /\ io' = [io EXCEPT !.at = "lines", !.owner = FALSE, !.lines = Tail(q)]
    BY DEF ParseAndDispatch
  <1>16. CASE delegate_[s]
    <2>1. io'.at = "callback"
      BY <1>15, <1>16 DEF IoTyped
    <2> QED BY <1>13, <1>15, <1>16, <2>1
  <1>17. CASE ~delegate_[s]
    <2>1. io'.at = "lines"
      BY <1>15, <1>17 DEF IoTyped
    <2> QED BY <1>14, <1>15, <1>17, <2>1
  <1> QED BY <1>16, <1>17

\* A function of the delegate returns.
LEMMA CallbackReturnsKeeps ==
  ASSUME IoInv, CallbackReturns
  PROVE  IoInv'
PROOF
  <1> USE NoDescriptor DEF IoInv, Typed
  <1>1. /\ io.at \in {"callback", "stopping"} /\ io' = [io EXCEPT !.at = "lines", !.owner = FALSE]
        /\ UNCHANGED <<app, slots, sessions_, open, manager, sent, loop, read, delivered, stray>>
    BY DEF CallbackReturns, net
  <1>2. /\ io.s \in Sessions /\ Registered(io.s) /\ Reading /\ manager # "off"
        /\ io.lines \in Seq(Line)
    BY <1>1 DEF IoSlot, Busy, Reading, IoTyped
  <1>3. stray' \in BOOLEAN /\ LinesTyped' /\ Delivered'
    BY <1>1 DEF FlagsTyped, LinesTyped, Delivered
  <1>4. io'.at = "lines" /\ ~io'.owner /\ io'.s = io.s /\ io'.lines = io.lines
    BY <1>1 DEF IoTyped
  <1>5. IoTyped'
    BY <1>1, <1>2 DEF IoTyped, Places
  <1>6. /\ Typed' /\ Snapshot' /\ Slots' /\ Table'
        /\ \A u \in Sessions : Registered(u)' <=> Registered(u)
    BY <1>1, <1>3, <1>5, ReadMoves
  <1>7. IoSlot'
    BY <1>1, <1>2, <1>4, <1>6 DEF IoSlot, IoHolds, Busy
  <1>8. Lines'
    BY <1>1, <1>2, <1>4 DEF Lines, slots
  <1>9. Counted'
    <2>1. \A u \in Sessions : InHand(u)' = InHand(u)
      BY <1>2, <1>4 DEF InHand, Reading
    <2> QED BY <1>1, <1>4, <1>6, <2>1 DEF Counted, app, slots
  <1> QED BY <1>3, <1>6, <1>7, <1>8, <1>9

\* CloseSession takes the session from its owner.
LEMMA CloseDisownsKeeps ==
  ASSUME IoInv, CloseDisowns
  PROVE  IoInv'
PROOF
  <1> USE NoDescriptor DEF IoInv, Typed
  <1> DEFINE s == io.s
  <1>1. /\ io.at = "disown" /\ owner' = [owner EXCEPT ![s] = FALSE]
        /\ io' = [io EXCEPT !.at = "erase", !.owner = owner[s], !.lines = <<>>]
        /\ UNCHANGED <<app, fd, sessions_, loop, manager, open, sent, read, delivered, stray>>
    BY DEF CloseDisowns, net
  <1>2. s \in Sessions /\ Registered(s) /\ ~io.owner /\ manager # "off" /\ owner[s] \in BOOLEAN
    BY <1>1 DEF IoSlot, Busy, FlagsTyped
  <1>3. io'.at = "erase" /\ io'.s = s /\ io'.lines = <<>> /\ (io'.owner <=> owner[s])
    BY <1>1 DEF IoTyped
  <1>4. ~owner'[s] /\ \A u \in Sessions : u # s => owner'[u] = owner[u]
    BY <1>1, <1>2 DEF FlagsTyped
  <1>5. FdsTyped' /\ LinesTyped' /\ Delivered' /\ Table'
    BY <1>1 DEF FdsTyped, LinesTyped, Delivered, Table, app
  <1>6. FlagsTyped'
    BY <1>1 DEF FlagsTyped, app
  <1>7. IoTyped'
    <2>1. <<>> \in Seq(Line) /\ <<>> \in Seq(Line) \union Seq(Sessions) /\ "erase" \in Places
      BY DEF Places
    <2>2. io \in [at : Places, s : Sessions \union {Nil}, fd : MaybeFd, owner : BOOLEAN,
                  lines : Seq(Line) \union Seq(Sessions)]
      BY DEF IoTyped
    <2> QED BY <1>1, <1>2, <1>3, <2>1, <2>2 DEF IoTyped
  <1>8. \A u \in Sessions : Registered(u)' <=> Registered(u)
    BY <1>1 DEF Registered, app
  <1>9. Snapshot'
    BY <1>1, <1>8, SnapshotStays
  <1>10. Slots'
    <2>1. \A u \in Sessions : Slot(u) /\ ~ClosingOwned(u)
      BY <1>1 DEF Slots, ClosingOwned
    <2>2. /\ pc' = pc /\ sock_fd_' = sock_fd_ /\ session_slot_' = session_slot_ /\ taken' = taken
          /\ fd' = fd /\ open' = open /\ sessions_' = sessions_
      BY <1>1 DEF app
    <2>3. \A u \in Sessions : u = s /\ owner[u] => ClosingOwned(u)'
      BY <1>3 DEF ClosingOwned
    <2> HIDE DEF s
    <2>4. ASSUME NEW u \in Sessions PROVE Slot(u)'
      <3>1. Slot(u) /\ ~ClosingOwned(u)
        BY <2>1
      <3>2. CASE u = s
        <4>1. ~owner'[u] /\ (owner[u] => ClosingOwned(u)')
          BY <1>4, <2>3, <3>2
        <4> HIDE DEF IoInv
        <4> QED BY <2>2, <3>1, <4>1 DEF Slot
      <3>3. CASE u # s
        <4>1. owner'[u] = owner[u]
          BY <1>4, <3>3
        <4> HIDE DEF IoInv
        <4> QED BY <2>2, <3>1, <4>1 DEF Slot
      <3> QED BY <3>2, <3>3
    <2> QED BY <2>4 DEF Slots
  <1>11. IoSlot'
    BY <1>1, <1>2, <1>3, <1>4, <1>8 DEF IoSlot, IoHolds, Busy
  <1>12. Lines'
    BY <1>3 DEF Lines, Reading
  <1>13. Counted'
    <2>1. \A u \in Sessions : InHand(u) = 0 /\ InHand(u)' = 0
      BY <1>1, <1>3 DEF InHand, Reading
    <2>2. \A u \in Sessions : owner'[u] \/ (io'.s = u /\ io'.owner) => owner[u]
      BY <1>3, <1>4
    <2> QED BY <1>1, <1>8, <2>1, <2>2 DEF Counted, app
  <1> QED BY <1>5, <1>6, <1>7, <1>9, <1>10, <1>11, <1>12, <1>13

\* CloseSession takes the descriptor out of the slot and the slot out of the table.
LEMMA CloseErasesKeeps ==
  ASSUME IoInv, CloseErases
  PROVE  IoInv'
PROOF
  <1> USE NoDescriptor DEF IoInv, Typed
  <1> DEFINE s == io.s
  <1>1. /\ io.at = "erase" /\ fd' = [fd EXCEPT ![s] = Nil] /\ sessions_' = Erased(s)
        /\ io' = [io EXCEPT !.at = "close", !.fd = fd[s]]
        /\ UNCHANGED <<app, owner, loop, manager, open, sent, read, delivered, stray>>
    BY DEF CloseErases, net
  <1>2. s \in Sessions /\ Registered(s) /\ manager # "off" /\ ~owner[s] /\ io.lines = <<>>
    BY <1>1 DEF IoSlot, Busy
  <1>3. io'.at = "close" /\ io'.s = s /\ io'.lines = <<>> /\ io'.fd = fd[s]
        /\ (io'.owner <=> io.owner)
    BY <1>1, <1>2 DEF IoTyped
  <1>4. fd'[s] = Nil /\ \A u \in Sessions : u # s => fd'[u] = fd[u]
    BY <1>1, <1>2 DEF FdsTyped
  <1>5. /\ Erased(s) \in [Fds -> Sessions \union {Nil}]
        /\ \A u \in Sessions : u # s /\ fd[u] # Nil => Erased(s)[fd[u]] = u
        /\ \A f \in Fds : Erased(s)[f] # Nil => Erased(s)[f] # s /\ fd[Erased(s)[f]] = f
    <2> HIDE DEF s
    <2> QED BY <1>2, ErasedOnly
  <1>6. FdsTyped'
    BY <1>1, <1>5 DEF FdsTyped, MaybeFd, app
  <1>7. FlagsTyped' /\ LinesTyped' /\ Delivered'
    BY <1>1 DEF FlagsTyped, LinesTyped, Delivered, app
  <1>8. IoTyped'
    <2>1. fd[s] \in MaybeFd /\ "close" \in Places /\ <<>> \in Seq(Line)
      BY <1>2 DEF Places, FdsTyped
    <2>2. io \in [at : Places, s : Sessions \union {Nil}, fd : MaybeFd, owner : BOOLEAN,
                  lines : Seq(Line) \union Seq(Sessions)]
      BY DEF IoTyped
    <2> QED BY <1>1, <1>3, <2>1, <2>2 DEF IoTyped
  <1>9. \A u \in Sessions : Registered(u)' <=> Registered(u)
    BY <1>1 DEF Registered, app
  <1>10. Snapshot'
    BY <1>1, <1>9, SnapshotStays
  <1>11. Slots'
    <2>1. \A u \in Sessions : Slot(u) /\ (ClosingOwned(u) => ClosingOwned(u)')
      BY <1>1, <1>3 DEF Slots, ClosingOwned
    <2>2. /\ pc' = pc /\ sock_fd_' = sock_fd_ /\ session_slot_' = session_slot_ /\ taken' = taken
          /\ owner' = owner /\ open' = open
      BY <1>1 DEF app
    <2> HIDE DEF s
    <2>3. ASSUME NEW u \in Sessions PROVE Slot(u)'
      <3>1. Slot(u) /\ (ClosingOwned(u) => ClosingOwned(u)')
        BY <2>1
      <3>2. CASE u = s
        <4>1. ~owner[u] /\ fd'[u] = Nil
          BY <1>2, <1>4, <3>2
        <4> HIDE DEF IoInv
        <4> QED BY <2>2, <3>1, <4>1 DEF Slot
      <3>3. CASE u # s
        <4>1. fd'[u] = fd[u] /\ (fd[u] # Nil => sessions_'[fd[u]] = u)
          BY <1>1, <1>4, <1>5, <3>3
        <4> HIDE DEF IoInv
        <4> QED BY <2>2, <3>1, <4>1 DEF Slot
      <3> QED BY <3>2, <3>3
    <2> QED BY <2>3 DEF Slots
  <1>12. Table'
    <2> SUFFICES ASSUME NEW g \in Fds, sessions_'[g] # Nil
                 PROVE  fd'[sessions_'[g]] = g
      BY DEF Table
    <2>1. sessions_'[g] \in Sessions
      BY <1>6 DEF FdsTyped
    <2> QED BY <1>1, <1>4, <1>5, <2>1
  <1>13. IoSlot'
    <2>1. fd[s] # Nil => open[fd[s]] = s /\ taken[s] = Nil
      BY <1>2 DEF Slots, Slot
    <2> QED BY <1>1, <1>2, <1>3, <1>4, <1>9, <2>1 DEF IoSlot, IoHolds, Busy, app
  <1>14. Lines'
    BY <1>3 DEF Lines, Reading
  <1>15. Counted'
    <2>1. \A u \in Sessions : InHand(u) = 0 /\ InHand(u)' = 0
      BY <1>1, <1>3 DEF InHand, Reading
    <2> QED BY <1>1, <1>3, <1>9, <2>1 DEF Counted, app
  <1> QED BY <1>6, <1>7, <1>8, <1>10, <1>11, <1>12, <1>13, <1>14, <1>15

\* CloseSession closes the descriptor it took, which leads to no other session.
LEMMA CloseClosesKeeps ==
  ASSUME IoInv, CloseCloses, ~stale'
  PROVE  IoInv'
PROOF
  <1> USE NoDescriptor DEF IoInv, Typed
  <1> DEFINE s == io.s
             f == io.fd
  <1>1. /\ io.at = "close" /\ CloseFd(f)
        /\ \/ io.owner /\ io' = [io EXCEPT !.at = "tell", !.fd = Nil]
           \/ ~io.owner /\ io' = At("next")
        /\ UNCHANGED <<app, slots, sessions_, loop, manager, sent, read, delivered, stray>>
    BY DEF CloseCloses, net
  <1>2. /\ s \in Sessions /\ Registered(s) /\ manager # "off" /\ ~owner[s] /\ io.lines = <<>>
        /\ fd[s] = Nil /\ (f # Nil => open[f] \in {Nil, s} /\ taken[s] = Nil) /\ f \in MaybeFd
    <2>1. ~(IoInside(s) /\ pc[s] = "gone" /\ Hits(s, f))
      BY DEF CloseCloses
    <2> QED BY <1>1, <2>1 DEF IoSlot, IoHolds, Busy, IoTyped, IoInside, Hits
  <1>3. /\ io'.lines = <<>> /\ (io'.owner <=> io.owner) /\ (io.owner => io'.s = s)
        /\ \/ io'.at = "tell" /\ io'.owner
           \/ io'.at = "next" /\ ~io'.owner /\ io'.s = Nil
    <2>1. CASE io.owner /\ io' = [io EXCEPT !.at = "tell", !.fd = Nil]
      BY <1>2, <2>1 DEF IoTyped
    <2>2. CASE ~io.owner /\ io' = At("next")
      BY <2>2 DEF At
    <2> QED BY <1>1, <2>1, <2>2
  <1>4. FdsTyped'
    <2>1. open' \in [Fds -> Sessions \union {Nil}]
      BY <1>1 DEF CloseFd, FdsTyped
    <2> QED BY <1>1, <2>1 DEF FdsTyped, app, slots
  <1>5. FlagsTyped' /\ LinesTyped' /\ Delivered' /\ Table'
    BY <1>1 DEF FlagsTyped, LinesTyped, Delivered, Table, app, slots
  <1>6. IoTyped'
    <2>1. /\ "tell" \in Places /\ "next" \in Places /\ Nil \in MaybeFd /\ <<>> \in Seq(Line)
          /\ <<>> \in Seq(Line) \union Seq(Sessions)
      BY DEF Places, MaybeFd
    <2>2. io \in [at : Places, s : Sessions \union {Nil}, fd : MaybeFd, owner : BOOLEAN,
                  lines : Seq(Line) \union Seq(Sessions)]
      BY DEF IoTyped
    <2>3. io' \in [at : Places, s : Sessions \union {Nil}, fd : MaybeFd, owner : BOOLEAN,
                   lines : Seq(Line) \union Seq(Sessions)]
      <3>1. CASE io' = [io EXCEPT !.at = "tell", !.fd = Nil]
        BY <2>1, <2>2, <3>1
      <3>2. CASE io' = At("next")
        BY <2>1, <3>2 DEF At
      <3> QED BY <1>1, <3>1, <3>2
    <2> QED BY <1>3, <2>1, <2>3 DEF IoTyped
  <1>7. \A u \in Sessions : Registered(u)' <=> Registered(u)
    BY <1>1 DEF Registered, app
  <1>8. Snapshot'
    BY <1>1, <1>7, SnapshotStays
  <1>9. Slots'
    <2>1. \A u \in Sessions : Slot(u) /\ (ClosingOwned(u) => ClosingOwned(u)')
      BY <1>1, <1>3 DEF Slots, ClosingOwned
    <2>2. /\ pc' = pc /\ sock_fd_' = sock_fd_ /\ session_slot_' = session_slot_ /\ taken' = taken
          /\ owner' = owner /\ fd' = fd /\ sessions_' = sessions_
      BY <1>1 DEF app, slots
    <2> HIDE DEF s, f
    <2>3. ASSUME NEW u \in Sessions PROVE Slot(u)'
      <3>1. Slot(u) /\ (ClosingOwned(u) => ClosingOwned(u)')
        BY <2>1
      <3>2. CASE u = s
        <4>1. fd[u] = Nil /\ ~owner[u] /\ pc[u] # "connected"
          BY <1>2, <3>2 DEF Registered
        <4>2. taken[u] # Nil => open' = open
          <5>1. taken[u] # Nil => f = Nil
            BY <1>2, <3>2
          <5> QED BY <1>1, <5>1, CloseNone
        <4> HIDE DEF IoInv
        <4> QED BY <2>2, <3>1, <4>1, <4>2 DEF Slot
      <3>3. CASE u # s
        <4>1. /\ fd[u] # Nil => open'[fd[u]] = u
              /\ taken[u] # Nil => open'[taken[u]] = u
              /\ pc[u] = "connected" => open'[sock_fd_[u]] = u
          BY <1>1, <1>2, <3>3, OthersOpen
        <4> HIDE DEF IoInv
        <4> QED BY <2>2, <3>1, <4>1 DEF Slot
      <3> QED BY <3>2, <3>3
    <2> QED BY <2>3 DEF Slots
  <1>10. IoSlot'
    BY <1>1, <1>2, <1>3, <1>7 DEF IoSlot, IoHolds, Busy, slots
  <1>11. Lines'
    BY <1>3 DEF Lines, Reading
  <1>12. Counted'
    <2>1. \A u \in Sessions : InHand(u) = 0 /\ InHand(u)' = 0
      BY <1>1, <1>3 DEF InHand, Reading
    <2>2. \A u \in Sessions : io'.s = u /\ io'.owner => io.s = u /\ io.owner
      BY <1>3
    <2> QED BY <1>1, <1>7, <2>1, <2>2 DEF Counted, app, slots
  <1> QED BY <1>4, <1>5, <1>6, <1>8, <1>9, <1>10, <1>11, <1>12

\* CloseSession clears the descriptor its owner stored, and reports the loss.
LEMMA CloseTellsKeeps ==
  ASSUME IoInv, CloseTells
  PROVE  IoInv'
PROOF
  <1> USE NoDescriptor DEF IoInv, Typed
  <1> DEFINE s == io.s
  <1>1. /\ io.at = "tell" /\ sock_fd_' = [sock_fd_ EXCEPT ![s] = Nil]
        /\ session_slot_' = [session_slot_ EXCEPT ![s] = FALSE]
        /\ \/ io' = [io EXCEPT !.at = "callback"]
           \/ io' = At("next")
        /\ UNCHANGED <<pc, delegate_, taken, slots, sessions_, loop, manager, open, sent, read,
                       delivered, stray>>
    BY DEF CloseTells, net
  <1>2. /\ s \in Sessions /\ Registered(s) /\ manager # "off" /\ ~owner[s] /\ io.lines = <<>>
        /\ fd[s] = Nil
    BY <1>1 DEF IoSlot, Busy
  <1>3. /\ io'.lines = <<>>
        /\ \/ io'.at = "callback" /\ io'.s = s /\ (io'.owner <=> io.owner)
           \/ io'.at = "next" /\ ~io'.owner /\ io'.s = Nil
    BY <1>1, <1>2 DEF IoTyped, At
  <1>4. FdsTyped'
    BY <1>1, <1>2 DEF FdsTyped, MaybeFd, slots
  <1>5. LinesTyped' /\ Delivered' /\ Table'
    BY <1>1 DEF LinesTyped, Delivered, Table, slots
  <1>6. FlagsTyped'
    BY <1>1, <1>2 DEF FlagsTyped, slots
  <1>7. IoTyped'
    <2>1. /\ "callback" \in Places /\ "next" \in Places /\ Nil \in MaybeFd /\ <<>> \in Seq(Line)
          /\ <<>> \in Seq(Line) \union Seq(Sessions)
      BY DEF Places, MaybeFd
    <2>2. io \in [at : Places, s : Sessions \union {Nil}, fd : MaybeFd, owner : BOOLEAN,
                  lines : Seq(Line) \union Seq(Sessions)]
      BY DEF IoTyped
    <2>3. io' \in [at : Places, s : Sessions \union {Nil}, fd : MaybeFd, owner : BOOLEAN,
                   lines : Seq(Line) \union Seq(Sessions)]
      <3>1. CASE io' = [io EXCEPT !.at = "callback"]
        BY <2>1, <2>2, <3>1
      <3>2. CASE io' = At("next")
        BY <2>1, <3>2 DEF At
      <3> QED BY <1>1, <3>1, <3>2
    <2> QED BY <1>3, <2>1, <2>3 DEF IoTyped
  <1>8. \A u \in Sessions : Registered(u)' <=> Registered(u)
    BY <1>1 DEF Registered
  <1>9. Snapshot'
    BY <1>1, <1>8, SnapshotStays
  <1>10. /\ sock_fd_'[s] = Nil
         /\ \A u \in Sessions : u # s => sock_fd_'[u] = sock_fd_[u]
    BY <1>1, <1>2 DEF FdsTyped
  <1>11. \A u \in Sessions : u # s => session_slot_'[u] = session_slot_[u]
    BY <1>1, <1>2 DEF FlagsTyped
  <1>12. Slots'
    <2>1. \A u \in Sessions : Slot(u) /\ (ClosingOwned(u) => u = s)
      BY <1>1 DEF Slots, ClosingOwned
    <2>2. /\ pc' = pc /\ taken' = taken /\ owner' = owner /\ fd' = fd
          /\ sessions_' = sessions_ /\ open' = open
      BY <1>1 DEF slots
    <2> HIDE DEF s
    <2>3. ASSUME NEW u \in Sessions PROVE Slot(u)'
      <3>1. Slot(u) /\ (ClosingOwned(u) => u = s)
        BY <2>1
      <3>2. CASE u = s
        <4>1. fd[u] = Nil /\ ~owner[u] /\ pc[u] # "connected" /\ sock_fd_'[u] = Nil
          BY <1>2, <1>10, <3>2 DEF Registered
        <4> HIDE DEF IoInv
        <4> QED BY <2>2, <3>1, <4>1 DEF Slot
      <3>3. CASE u # s
        <4>1. sock_fd_'[u] = sock_fd_[u] /\ session_slot_'[u] = session_slot_[u]
          BY <1>10, <1>11, <3>3
        <4> HIDE DEF IoInv
        <4> QED BY <2>2, <3>1, <3>3, <4>1 DEF Slot
      <3> QED BY <3>2, <3>3
    <2> QED BY <2>3 DEF Slots
  <1>13. IoSlot'
    BY <1>1, <1>2, <1>3, <1>8 DEF IoSlot, IoHolds, Busy
  <1>14. \A c \in Sessions : /\ read[c] \in Nat /\ Len(<<>>) = 0
                             /\ \A i \in 1..Len(delivered[c]) : delivered[c][i][2] <= read[c]
    BY DEF LinesTyped, Delivered
  <1>15. Lines'
    <2>1. /\ \A k \in 1..Len(<<>>) : <<>>[k] = <<s, read[s] - Len(<<>>) + k>>
          /\ Len(<<>>) <= read[s] /\ read[s] - Len(<<>>) = read[s]
      BY <1>2, <1>14
    <2>2. /\ read' = read /\ delivered' = delivered /\ io'.at # "blocked"
          /\ Reading' => io'.s = s
      BY <1>1, <1>3 DEF Reading
    <2> HIDE DEF s
    <2> QED BY <1>2, <1>3, <1>14, <2>1, <2>2 DEF Lines
  <1>16. Counted'
    <2>1. \A u \in Sessions : InHand(u) = 0 /\ InHand(u)' = 0
      BY <1>1, <1>3 DEF InHand, Reading
    <2>2. \A u \in Sessions : io'.s = u /\ io'.owner => io.s = u /\ io.owner
      BY <1>2, <1>3
    <2> QED BY <1>1, <1>8, <2>1, <2>2 DEF Counted, slots
  <1> QED BY <1>4, <1>5, <1>6, <1>7, <1>9, <1>12, <1>13, <1>15, <1>16

\* The IO thread uses a session that was destroyed.
LEMMA UseAfterDestroyKeeps ==
  ASSUME IoInv, UseAfterDestroy
  PROVE  IoInv'
PROOF
  <1> USE NoDescriptor DEF IoInv, Typed
  <1>1. /\ io.at \in {"parse", "tell"} /\ pc[io.s] = "gone" /\ io' = At("crashed")
        /\ UNCHANGED <<app, slots, sessions_, open, manager, sent, loop, read, delivered, stray>>
    BY DEF UseAfterDestroy, net
  <1>2. io.s \in Sessions /\ manager # "off"
    BY <1>1 DEF IoSlot, Busy
  <1>3. ~owner[io.s] /\ sock_fd_[io.s] = Nil
    BY <1>1, <1>2 DEF Slots, Slot
  <1>4. io'.at = "crashed" /\ io'.s = Nil /\ ~io'.owner /\ io'.lines = <<>>
    BY <1>1 DEF At
  <1>5. FdsTyped' /\ FlagsTyped' /\ LinesTyped' /\ Delivered' /\ Table'
    BY <1>1 DEF FdsTyped, FlagsTyped, LinesTyped, Delivered, Table, app, slots
  <1>6. IoTyped'
    <2>1. io' \in [at : Places, s : Sessions \union {Nil}, fd : MaybeFd, owner : BOOLEAN,
                   lines : Seq(Line)]
      BY <1>1 DEF At, Places, MaybeFd
    <2> QED BY <2>1 DEF IoTyped
  <1>7. \A u \in Sessions : Registered(u)' <=> Registered(u)
    BY <1>1 DEF Registered, app
  <1>8. Snapshot'
    BY <1>1, <1>7, SnapshotStays
  <1>9. Slots'
    <2>1. ASSUME NEW u \in Sessions PROVE Slot(u)'
      <3>1. Slot(u) /\ (ClosingOwned(u) => u = io.s)
        BY DEF Slots, ClosingOwned
      <3>2. /\ pc' = pc /\ sock_fd_' = sock_fd_ /\ session_slot_' = session_slot_
            /\ taken' = taken /\ owner' = owner /\ fd' = fd /\ sessions_' = sessions_
            /\ open' = open
        BY <1>1 DEF app, slots
      <3> QED BY <1>3, <3>1, <3>2 DEF Slot
    <2> QED BY <2>1 DEF Slots
  <1>10. IoSlot' /\ Lines' /\ ~Reading'
    BY <1>1, <1>2, <1>4 DEF IoSlot, IoHolds, Busy, Lines, Reading
  <1>11. Counted'
    <2>1. \A u \in Sessions : u # io.s => InHand(u) = 0
      BY DEF InHand
    <2>2. \A u \in Sessions : InHand(u)' = 0
      BY <1>10 DEF InHand
    <2> QED BY <1>1, <1>2, <1>3, <1>4, <1>7, <2>1, <2>2 DEF Counted, app, slots
  <1> QED BY <1>5, <1>6, <1>8, <1>9, <1>10, <1>11

-----------------------------------------------------------------------------
\* Every step keeps the invariant, but for the close that hits another session.
LEMMA IoNext ==
  ASSUME IoInv, [Next]_vars, ~stale'
  PROVE  IoInv'
PROOF
  <1>1. CASE IoStep
    BY <1>1, RunKeeps, RecvKeeps, RecvUnblocksKeeps, DispatchLineKeeps, ParseKeeps,
       CallbackReturnsKeeps, CloseDisownsKeeps, CloseErasesKeeps, CloseClosesKeeps,
       CloseTellsKeeps, UseAfterDestroyKeeps DEF IoStep
  <1>2. CASE StopInCallback
    BY <1>2, StopKeeps
  <1>3. CASE ExitBegins \/ ExitStep
    <2>1. /\ UNCHANGED <<app, slots, sessions_, io, loop, open, read, delivered, stray, sent>>
          /\ manager' # "off"
      BY <1>3 DEF ExitBegins, ExitStep, ExitWakes, ExitJoins, net
    <2>2. sent' \in [Sessions -> Nat]
      BY <2>1 DEF IoInv, Typed, LinesTyped
    <2> QED BY <2>1, <2>2, IoStutter
  <1>4. ASSUME NEW s \in Sessions, AppStep(s)
        PROVE  IoInv'
    BY <1>4, RegisterKeeps, StartKeeps, UnregisterDisownsKeeps, UnregisterErasesKeeps, ClosesKeep
       DEF AppStep
  <1>5. ASSUME NEW s \in Sessions, Environment(s)
        PROVE  IoInv'
    <2>1. CASE SendLoads(s) \/ SendLine(s) \/ ServerSends(s) \/ HangUp(s)
      <3>1. UNCHANGED <<app, slots, sessions_, io, loop, open, read, delivered, stray, manager>>
        BY <2>1 DEF SendLoads, SendLine, ServerSends, HangUp, net
      <3>2. sent' = sent \/ sent' = [sent EXCEPT ![s] = sent[s] + 1]
        BY <2>1 DEF SendLoads, SendLine, ServerSends, HangUp, net
      <3>3. sent' \in [Sessions -> Nat]
        <4>1. sent \in [Sessions -> Nat]
          BY DEF IoInv, Typed, LinesTyped
        <4> QED BY <3>2, <4>1
      <3> QED BY <3>1, <3>3, IoStutter
    <2>2. CASE Stop(s)
      BY <2>2, StopKeeps
    <2> QED BY <1>5, <2>1, <2>2, ConnectKeeps, StartKeeps, RegisterFailsKeeps, ClosesKeep
            DEF Environment
  <1>6. CASE UNCHANGED vars
    <2>1. /\ UNCHANGED <<app, slots, sessions_, io, loop, open, read, delivered, stray, manager>>
          /\ sent' = sent
      BY <1>6 DEF vars, net
    <2>2. sent' \in [Sessions -> Nat]
      BY <2>1 DEF IoInv, Typed, LinesTyped
    <2> QED BY <2>1, <2>2, IoStutter
  <1> QED BY <1>1, <1>2, <1>3, <1>4, <1>5, <1>6 DEF Next

\* stale is never reset.
LEMMA StaleStays ==
  ASSUME stale, [Next]_vars
  PROVE  stale'
PROOF
  <1>1. CASE IoStep
    BY <1>1 DEF IoStep, RunTop, PollEnters, PollReturns, DrainWakePipe, RunNext, Recv,
       RecvUnblocks, DispatchLine, ParseAndDispatch, CallbackReturns, CloseDisowns, CloseErases,
       CloseCloses, CloseTells, UseAfterDestroy
  <1>2. CASE StopInCallback \/ ExitBegins \/ ExitStep \/ UNCHANGED vars
    BY <1>2 DEF StopInCallback, StopBegins, ExitBegins, ExitStep, ExitWakes, ExitJoins, vars
  <1>3. ASSUME NEW s \in Sessions, AppStep(s) \/ Environment(s)
        PROVE  stale'
    BY <1>3 DEF AppStep, Environment, RegisterSession, RegisterWakes, Attach, UnregisterDisowns,
       UnregisterErases, UnregisterCloses, Connect, ConnectFails, RegisterFails, Stop,
       StopBegins, Destroy, SendLoads, SendLine, ServerSends, HangUp
  <1> QED BY <1>1, <1>2, <1>3 DEF Next

\* IoInv holds of every reachable state until a session that is destroyed while the IO
\* thread is in its CloseSession hits, or is the reason of a close that hits, another one.
THEOREM IoInvariance == Spec => [](stale \/ IoInv)
PROOF
  <1>1. Init => IoInv
    BY IoInit
  <1>2. (stale \/ IoInv) /\ [Next]_vars => (stale \/ IoInv)'
    BY IoNext, StaleStays
  <1> QED BY <1>1, <1>2, PTL DEF Spec

\* The table of the manager leads from a descriptor to the session whose
\* connection it is, over any reuse of descriptor numbers: UnregisterSession
\* and CloseSession erase before they close.
THEOREM TableIsRight == Spec => []TableAgrees
PROOF
  <1>1. stale \/ IoInv => TableAgrees
    <2> SUFFICES ASSUME IoInv, NEW f \in Fds, sessions_[f] # Nil
                 PROVE  open[f] = sessions_[f]
      BY DEF TableAgrees
    <2>1. sessions_[f] \in Sessions /\ fd[sessions_[f]] = f /\ f # Nil
      BY NoDescriptor DEF IoInv, Typed, FdsTyped, Table
    <2>2. PICK u \in Sessions : u = sessions_[f]
      BY <2>1
    <2>3. fd[u] # Nil => open[fd[u]] = u
      BY DEF IoInv, Slots, Slot
    <2> QED BY <2>1, <2>2, <2>3
  <1> QED BY <1>1, IoInvariance, PTL

\* No close of one session, by its owner or by the IO thread, hits the descriptor of
\* another one that is in use, unless the session was destroyed inside CloseSession.
THEOREM OpenWhileInUse == Spec => []InUseIsOpen
PROOF
  <1>1. stale \/ IoInv => InUseIsOpen
    BY DEF IoInv, Slots, Slot, InUseIsOpen, UseIsOpen
  <1> QED BY <1>1, IoInvariance, PTL

\* A delegate gets the lines of its own connection, in order and none twice,
\* and none is left out unless a descriptor changed hands under the IO thread.
THEOREM LinesAreOwn == Spec => []OwnLines
PROOF
  <1>1. stale \/ IoInv => OwnLines
    BY DEF IoInv, Delivered, OwnLines
  <1> QED BY <1>1, IoInvariance, PTL

=============================================================================
