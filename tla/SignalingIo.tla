----------------------------- MODULE SignalingIo -----------------------------
(***************************************************************************)
(* The signaling connections of a process: TcpClientSession (core/signal/  *)
(* tcp_session.cpp), the transport helpers it is made of (session_         *)
(* transport.cpp) and the SharedSignalingIoManager whose one thread polls  *)
(* and reads them all (shared_signaling_io_manager.h).                     *)
(*                                                                         *)
(* A session object is started once, as its two users do (RtcStreamSession *)
(* and Publisher make a new one for every Start), so one name stands for   *)
(* the object, its slot and its TCP connection.  Its application thread    *)
(* takes it through Start, Stop and the destructor; another one sends; the *)
(* IO thread is shared.  Every atomic access, every block under mu_ and    *)
(* every system call is a step; accesses of one thread that no other       *)
(* thread can tell apart are one step.                                     *)
(*                                                                         *)
(* The kernel gives out the lowest free descriptor number: a number that   *)
(* was closed comes back at the next dial.  Sockets are blocking.  A line  *)
(* is read as a whole: read_buffer, which joins the parts of a line, and   *)
(* the welcome line, which is kept by the session, are left out.           *)
(***************************************************************************)
EXTENDS Naturals, Sequences, FiniteSets, FiniteSetsExt

CONSTANTS
  Sessions,     \* TcpClientSession objects
  NumFds,       \* descriptor numbers
  MaxLines,     \* bound on the lines that are sent, in both directions together
  Senders,      \* the sessions on which the application sends
  MayFail,      \* may dialing and registering fail?
  Losable       \* the sessions whose connection may end

ASSUME SignalingIoAssumption ==
  /\ NumFds \in Nat /\ MaxLines \in Nat
  /\ MayFail \in BOOLEAN /\ Losable \subseteq Sessions
  /\ Senders \subseteq Sessions
  /\ 0 \notin Sessions

Fds == 1..NumFds
Nil == 0          \* no descriptor (-1), no session

VARIABLES
  pc,             \* where the application's thread is with each session
  running_, sock_fd_, session_slot_, delegate_,   \* TcpClientSession
  owner, active, fd,                              \* TcpClientSessionSlot
  sessions_,      \* descriptor -> registered session, or Nil
  taken,          \* UnregisterSession: the descriptor it took out of the slot
  io,             \* the IO thread: where, with which slot, descriptor, owner and lines
  polled, watch, events,   \* Run: the slots' descriptors, files and revents
  wake,           \* is there a byte in the wake pipe?
  manager,        \* "off", "running", then the destructor: "stopped", "join", "done"
  open,           \* kernel: descriptor -> the session whose connection it is, or Nil
  sent, read,     \* per connection: lines sent by the server, lines read
  end,            \* per connection: "up", "fin" or "rst"
  sending,        \* SendLine: the descriptor loaded from sock_fd_, or Nil
  sends,
  delivered,      \* history: lines passed to the session's delegate
  stray,          \* history: the IO thread read from a descriptor that changed hands
  crossed,        \* history: a line was sent on another session's connection
  stale           \* history: the close of a session destroyed inside CloseSession hit another

app == <<pc, running_, sock_fd_, session_slot_, delegate_, taken>>
slots == <<owner, active, fd>>
loop == <<polled, watch, events>>
net == <<sent, end>>
sender == <<sending, sends, crossed>>
vars == <<app, slots, sessions_, io, loop, wake, manager, open, net, read, sender, delivered,
          stray, stale>>

NoFds == [s \in Sessions |-> Nil]
NoEvents == [s \in Sessions |-> "none"]
At(where) == [at |-> where, s |-> Nil, fd |-> Nil, owner |-> FALSE, lines |-> <<>>]

Init ==
  /\ pc = [s \in Sessions |-> "new"]
  /\ running_ = [s \in Sessions |-> FALSE] /\ sock_fd_ = NoFds
  /\ session_slot_ = [s \in Sessions |-> FALSE] /\ delegate_ = [s \in Sessions |-> TRUE]
  /\ owner = [s \in Sessions |-> FALSE] /\ active = [s \in Sessions |-> FALSE] /\ fd = NoFds
  /\ sessions_ = [f \in Fds |-> Nil] /\ taken = NoFds
  /\ io = At("off") /\ polled = NoFds /\ watch = NoEvents /\ events = NoEvents
  /\ wake = FALSE /\ manager = "off"
  /\ open = [f \in Fds |-> Nil]
  /\ sent = [s \in Sessions |-> 0] /\ read = [s \in Sessions |-> 0]
  /\ end = [s \in Sessions |-> "up"]
  /\ sending = NoFds /\ sends = 0
  /\ delivered = [s \in Sessions |-> <<>>] /\ stray = FALSE /\ crossed = FALSE
  /\ stale = FALSE

-----------------------------------------------------------------------------
(* The kernel *)

Free == {f \in Fds : open[f] = Nil}
CloseFd(f) == open' = [g \in Fds |-> IF g = f THEN Nil ELSE open[g]]
Available(c) == sent[c] - read[c]
IsOpen(c) == \E f \in Fds : open[f] = c

\* revents of one entry of poll_fds.  A file closed while it is polled was
\* shut down before.
Revents(w) ==
  IF w = "none" THEN "none"
  ELSE IF w = "nval" \/ ~IsOpen(w) \/ end[w] = "rst" THEN "hup"
  ELSE IF Available(w) > 0 \/ end[w] = "fin" THEN "in" ELSE "none"

Traffic == sends + MapThenSumSet(LAMBDA c : sent[c], Sessions)

\* The server, and the network.
ServerSends(s) ==
  /\ IsOpen(s) /\ end[s] = "up" /\ Traffic < MaxLines
  /\ sent' = [sent EXCEPT ![s] = @ + 1]
  /\ UNCHANGED <<app, slots, sessions_, io, loop, wake, manager, open, end, read, sender,
                 delivered, stray, stale>>

HangUp(s) ==
  /\ s \in Losable /\ IsOpen(s) /\ end[s] = "up"
  /\ \E how \in {"fin", "rst"} : end' = [end EXCEPT ![s] = how]
  /\ UNCHANGED <<app, slots, sessions_, io, loop, wake, manager, open, sent, read, sender,
                 delivered, stray, stale>>

-----------------------------------------------------------------------------
(* TcpClientSession::Start *)

Quiet == manager \in {"off", "running"}      \* the process is not exiting

\* Connect: DialAndStoreFd, then RegisterOrCloseStoredFd.
Connect(s) ==
  /\ Quiet /\ pc[s] = "new"
  /\ \E f \in Free :
       /\ \A g \in Free : f <= g
       /\ open' = [open EXCEPT ![f] = s]
       /\ sock_fd_' = [sock_fd_ EXCEPT ![s] = f]
  /\ running_' = [running_ EXCEPT ![s] = TRUE]
  /\ pc' = [pc EXCEPT ![s] = "connected"]
  /\ UNCHANGED <<session_slot_, delegate_, taken, slots, sessions_, io, loop, wake, manager,
                 net, read, sender, delivered, stray, stale>>

\* Dialing or sending the register line failed; running_ is FALSE again.
ConnectFails(s) ==
  /\ MayFail /\ Quiet /\ pc[s] = "new"
  /\ pc' = [pc EXCEPT ![s] = "stopped"]
  /\ UNCHANGED <<running_, sock_fd_, session_slot_, delegate_, taken, slots, sessions_, io, loop,
                 wake, manager, open, net, read, sender, delivered, stray, stale>>

\* AttachSessionToIo makes the slot; EnsureStarted, then the insert under mu_.
RegisterSession(s) ==
  /\ pc[s] = "connected"
  /\ owner' = [owner EXCEPT ![s] = TRUE]
  /\ active' = [active EXCEPT ![s] = TRUE]
  /\ fd' = [fd EXCEPT ![s] = sock_fd_[s]]
  /\ manager' = "running"
  /\ io' = IF manager = "off" THEN At("top") ELSE io
  /\ sessions_' = [sessions_ EXCEPT ![sock_fd_[s]] = s]
  /\ pc' = [pc EXCEPT ![s] = "inserted"]
  /\ UNCHANGED <<running_, sock_fd_, session_slot_, delegate_, taken, loop, wake, open, net,
                 read, sender, delivered, stray, stale>>

\* EnsureStarted got no pipe.
RegisterFails(s) ==
  /\ MayFail /\ pc[s] = "connected" /\ manager = "off"
  /\ CloseFd(sock_fd_[s])
  /\ sock_fd_' = [sock_fd_ EXCEPT ![s] = Nil]
  /\ running_' = [running_ EXCEPT ![s] = FALSE]
  /\ pc' = [pc EXCEPT ![s] = "stopped"]
  /\ UNCHANGED <<session_slot_, delegate_, taken, slots, sessions_, io, loop, wake, manager,
                 net, read, sender, delivered, stray, stale>>

\* Mutant of RegisterWakes: nobody tells the IO thread.
RegisterForgetsWake(s) ==
  /\ pc[s] = "inserted"
  /\ pc' = [pc EXCEPT ![s] = "attaching"]
  /\ UNCHANGED <<running_, sock_fd_, session_slot_, delegate_, taken, slots, sessions_, io, loop,
                 wake, manager, open, net, read, sender, delivered, stray, stale>>

RegisterWakes(s) ==
  /\ pc[s] = "inserted"
  /\ wake' = TRUE
  /\ pc' = [pc EXCEPT ![s] = "attaching"]
  /\ UNCHANGED <<running_, sock_fd_, session_slot_, delegate_, taken, slots, sessions_, io, loop,
                 manager, open, net, read, sender, delivered, stray, stale>>

\* The assignment after RegisterSession: the IO thread may have closed the slot by now.
Attach(s) ==
  /\ pc[s] = "attaching"
  /\ session_slot_' = [session_slot_ EXCEPT ![s] = TRUE]
  /\ pc' = [pc EXCEPT ![s] = "on"]
  /\ UNCHANGED <<running_, sock_fd_, delegate_, taken, slots, sessions_, io, loop, wake, manager,
                 open, net, read, sender, delivered, stray, stale>>

-----------------------------------------------------------------------------
(* TcpClientSession::Stop, after SetDelegate(nullptr) as its users call it *)

\* Without a slot the stored descriptor is closed, if there is one.
StopBegins(s) ==
  /\ pc[s] = "on"
  /\ delegate_' = [delegate_ EXCEPT ![s] = FALSE]
  /\ running_' = [running_ EXCEPT ![s] = FALSE]
  /\ session_slot_' = [session_slot_ EXCEPT ![s] = FALSE]
  /\ IF session_slot_[s]
     THEN /\ pc' = [pc EXCEPT ![s] = "unregister"]
          /\ UNCHANGED <<sock_fd_, open>>
     ELSE /\ pc' = [pc EXCEPT ![s] = "stopped"]
          /\ sock_fd_' = [sock_fd_ EXCEPT ![s] = Nil]
          /\ CloseFd(sock_fd_[s])
  /\ UNCHANGED <<taken, slots, sessions_, loop, wake, manager, net, read, sender, delivered,
                 stray, stale>>

Stop(s) == Quiet /\ StopBegins(s) /\ UNCHANGED io

\* UnregisterSession.
UnregisterDisowns(s) ==
  /\ pc[s] = "unregister"
  /\ owner' = [owner EXCEPT ![s] = FALSE]
  /\ active' = [active EXCEPT ![s] = FALSE]
  /\ pc' = [pc EXCEPT ![s] = IF owner[s] THEN "erase owned" ELSE "erase"]
  /\ UNCHANGED <<running_, sock_fd_, session_slot_, delegate_, taken, fd, sessions_, io, loop,
                 wake, manager, open, net, read, sender, delivered, stray, stale>>

\* Mutant of Erased: the slot is looked up after its descriptor became -1.
ErasedTooLate(s) == sessions_

\* sessions_ without the slot, if the slot's descriptor still leads to it.
Erased(s) ==
  [f \in Fds |-> IF f = fd[s] /\ sessions_[f] = s THEN Nil ELSE sessions_[f]]

UnregisterErases(s) ==
  /\ pc[s] \in {"erase owned", "erase"}
  /\ taken' = [taken EXCEPT ![s] = fd[s]]
  /\ fd' = [fd EXCEPT ![s] = Nil]
  /\ sessions_' = Erased(s)
  /\ pc' = [pc EXCEPT ![s] = IF @ = "erase" THEN "close" ELSE "close owned"]
  /\ UNCHANGED <<running_, sock_fd_, session_slot_, delegate_, owner, active, io, loop, wake,
                 manager, open, net, read, sender, delivered, stray, stale>>

UnregisterCloses(s) ==
  /\ pc[s] \in {"close owned", "close"}
  /\ sock_fd_' = IF pc[s] = "close" THEN sock_fd_ ELSE [sock_fd_ EXCEPT ![s] = Nil]
  /\ CloseFd(taken[s])
  /\ taken' = [taken EXCEPT ![s] = Nil]
  /\ wake' = TRUE
  /\ pc' = [pc EXCEPT ![s] = "stopped"]
  /\ UNCHANGED <<running_, session_slot_, delegate_, slots, sessions_, io, loop, manager, net,
                 read, sender, delivered, stray, stale>>

\* Has the IO thread loaded the session as the owner of a slot?
IoInside(s) == io.s = s /\ io.owner

\* Does a close for session s close the connection of another one?
Hits(s, f) == f # Nil /\ open[f] \notin {Nil, s}

\* ~TcpClientSession calls Stop again.  Nothing in it waits for the IO thread, which may be
\* in CloseSession and not have cleared sock_fd_.
Destroy(s) ==
  /\ Quiet /\ pc[s] = "stopped"
  /\ CloseFd(sock_fd_[s])
  /\ stale' = (stale \/ (IoInside(s) /\ Hits(s, sock_fd_[s])))
  /\ sock_fd_' = [sock_fd_ EXCEPT ![s] = Nil]
  /\ pc' = [pc EXCEPT ![s] = "gone"]
  /\ UNCHANGED <<running_, session_slot_, delegate_, taken, slots, sessions_, io, loop, wake,
                 manager, net, read, sender, delivered, stray>>

-----------------------------------------------------------------------------
(* TcpClientSession::Send: SendLine loads sock_fd_ before it takes send_mutex_ *)

SendLoads(s) ==
  /\ Quiet /\ s \in Senders /\ pc[s] = "on"
  /\ sending[s] = Nil /\ sock_fd_[s] # Nil /\ Traffic < MaxLines
  /\ sending' = [sending EXCEPT ![s] = sock_fd_[s]]
  /\ sends' = sends + 1
  /\ UNCHANGED <<app, slots, sessions_, io, loop, wake, manager, open, net, read, crossed,
                 delivered, stray, stale>>

\* A server that closed answers with a reset.
SendLine(s) ==
  /\ sending[s] # Nil
  /\ LET c == open[sending[s]] IN
       /\ crossed' = (crossed \/ c \notin {Nil, s})
       /\ end' = [d \in Sessions |-> IF d = c /\ end[d] = "fin" THEN "rst" ELSE end[d]]
  /\ sending' = [sending EXCEPT ![s] = Nil]
  /\ UNCHANGED <<app, slots, sessions_, io, loop, wake, manager, open, sent, read, sends,
                 delivered, stray, stale>>

-----------------------------------------------------------------------------
(* The IO thread: Run *)

SnapshotSessions ==
  {s \in Sessions : active[s] /\ fd[s] # Nil /\ \E f \in Fds : sessions_[f] = s}

RunTop ==
  /\ io.at = "top"
  /\ IF manager = "running"
     THEN /\ io' = At("poll")
          /\ polled' = [s \in Sessions |-> IF s \in SnapshotSessions THEN fd[s] ELSE Nil]
     ELSE io' = At("ended") /\ UNCHANGED polled
  /\ UNCHANGED <<app, slots, sessions_, watch, events, wake, manager, open, net, read, sender,
                 delivered, stray, stale>>

\* poll looks the descriptors up, and then waits on the files it found.
PollEnters ==
  /\ io.at = "poll"
  /\ watch' = [s \in Sessions |-> IF polled[s] = Nil THEN "none"
                                  ELSE IF open[polled[s]] = Nil THEN "nval"
                                  ELSE open[polled[s]]]
  /\ polled' = NoFds
  /\ io' = At("wait")
  /\ UNCHANGED <<app, slots, sessions_, events, wake, manager, open, net, read, sender,
                 delivered, stray, stale>>

PollReturns ==
  /\ io.at = "wait"
  /\ wake \/ \E s \in Sessions : Revents(watch[s]) # "none"
  /\ events' = [s \in Sessions |-> Revents(watch[s])]
  /\ watch' = NoEvents
  /\ io' = At(IF wake THEN "drain" ELSE "next")
  /\ UNCHANGED <<app, slots, sessions_, polled, wake, manager, open, net, read, sender,
                 delivered, stray, stale>>

DrainWakePipe ==
  /\ io.at = "drain"
  /\ wake' = FALSE
  /\ io' = At("next")
  /\ UNCHANGED <<app, slots, sessions_, loop, manager, open, net, read, sender, delivered,
                 stray, stale>>

\* HandleReadable loads the descriptor.
HandleReadable(s) ==
  IF fd[s] = Nil \/ ~active[s] THEN At("next")
  ELSE [At("recv") EXCEPT !.s = s, !.fd = fd[s]]

\* The loop over the snapshot, whose order is that of an unordered map.
RunNext ==
  /\ io.at = "next"
  /\ IF events = NoEvents
     THEN io' = At("top") /\ UNCHANGED events
     ELSE \E s \in Sessions :
            /\ events[s] # "none"
            /\ events' = [events EXCEPT ![s] = "none"]
            /\ io' = IF events[s] = "hup" THEN [At("disown") EXCEPT !.s = s]
                     ELSE HandleReadable(s)
  /\ UNCHANGED <<app, slots, sessions_, polled, watch, wake, manager, open, net, read, sender,
                 delivered, stray, stale>>

-----------------------------------------------------------------------------
(* HandleReadable, from recv on *)

\* recv returns some of the lines, or 0 or an error; "fin" stands for the end
\* of the stream and for a buffer that overflows without a newline.
RecvFrom(c) ==
  \/ /\ Available(c) > 0
     /\ \E k \in 1..Available(c) :
          /\ io' = [io EXCEPT !.at = "lines", !.fd = Nil,
                              !.lines = [i \in 1..k |-> <<c, read[c] + i>>]]
          /\ read' = [read EXCEPT ![c] = @ + k]
  \/ /\ Available(c) = 0 /\ (end[c] # "up" \/ ~IsOpen(c))
     /\ io' = [io EXCEPT !.at = "disown", !.fd = Nil]
     /\ UNCHANGED read

\* The descriptor is looked up, and on a blocking socket without data the thread waits.
Recv ==
  /\ io.at = "recv"
  /\ LET c == open[io.fd] IN
       /\ stray' = (stray \/ c \notin {Nil, io.s})
       /\ IF c = Nil
          THEN io' = [io EXCEPT !.at = "disown", !.fd = Nil] /\ UNCHANGED read
          ELSE \/ RecvFrom(c)
               \/ /\ Available(c) = 0 /\ end[c] = "up"
                  /\ io' = [io EXCEPT !.at = "blocked", !.lines = <<c>>]
                  /\ UNCHANGED read
  /\ UNCHANGED <<app, slots, sessions_, loop, wake, manager, open, net, sender, delivered,
                 stale>>

RecvUnblocks ==
  /\ io.at = "blocked"
  /\ RecvFrom(io.lines[1])
  /\ UNCHANGED <<app, slots, sessions_, loop, wake, manager, open, net, sender, delivered,
                 stray, stale>>

\* DispatchLine loads the owner.
DispatchLine ==
  /\ io.at = "lines"
  /\ io' = IF io.lines = <<>> THEN At("next")
           ELSE IF owner[io.s] THEN [io EXCEPT !.at = "parse", !.owner = TRUE]
           ELSE [io EXCEPT !.lines = Tail(@)]
  /\ UNCHANGED <<app, slots, sessions_, loop, wake, manager, open, net, read, sender, delivered,
                 stray, stale>>

\* Mutant of ParseAndDispatch: parse_offset stays where it was.
DispatchesAgain ==
  /\ io.at = "parse"
  /\ Len(delivered[io.s]) <= MaxLines
  /\ delivered' = [delivered EXCEPT ![io.s] = Append(@, Head(io.lines))]
  /\ io' = [io EXCEPT !.at = "callback"]
  /\ UNCHANGED <<app, slots, sessions_, loop, wake, manager, open, net, read, sender, stray, stale>>

\* ParseAndDispatch calls the delegate, if there is one now.
ParseAndDispatch ==
  /\ io.at = "parse" /\ pc[io.s] # "gone"
  /\ IF delegate_[io.s]
     THEN /\ delivered' = [delivered EXCEPT ![io.s] = Append(@, Head(io.lines))]
          /\ io' = [io EXCEPT !.at = "callback", !.lines = Tail(@)]
     ELSE /\ io' = [io EXCEPT !.at = "lines", !.owner = FALSE, !.lines = Tail(@)]
          /\ UNCHANGED delivered
  /\ UNCHANGED <<app, slots, sessions_, loop, wake, manager, open, net, read, sender, stray, stale>>

\* A user's function, called from the delegate, closes the stream.
StopInCallback ==
  /\ io.at = "callback"
  /\ StopBegins(io.s)
  /\ io' = [io EXCEPT !.at = "stopping"]

\* Also the return of OnSignalError, which ends CloseSession: no lines are left then.
CallbackReturns ==
  /\ io.at = "callback" \/ (io.at = "stopping" /\ pc[io.s] \in {"stopped", "gone"})
  /\ io' = [io EXCEPT !.at = "lines", !.owner = FALSE]
  /\ UNCHANGED <<app, slots, sessions_, loop, wake, manager, open, net, read, sender, delivered,
                 stray, stale>>

-----------------------------------------------------------------------------
(* CloseSession *)

CloseDisowns ==
  /\ io.at = "disown"
  /\ owner' = [owner EXCEPT ![io.s] = FALSE]
  /\ active' = [active EXCEPT ![io.s] = FALSE]
  /\ io' = [io EXCEPT !.at = "erase", !.owner = owner[io.s], !.lines = <<>>]
  /\ UNCHANGED <<app, fd, sessions_, loop, wake, manager, open, net, read, sender, delivered,
                 stray, stale>>

\* Mutant of CloseErases: the slot's descriptor is loaded, not exchanged.
CloseErasesLoads ==
  /\ io.at = "erase"
  /\ sessions_' = Erased(io.s)
  /\ io' = [io EXCEPT !.at = "close", !.fd = fd[io.s]]
  /\ UNCHANGED <<app, slots, loop, wake, manager, open, net, read, sender, delivered, stray, stale>>

CloseErases ==
  /\ io.at = "erase"
  /\ fd' = [fd EXCEPT ![io.s] = Nil]
  /\ sessions_' = Erased(io.s)
  /\ io' = [io EXCEPT !.at = "close", !.fd = fd[io.s]]
  /\ UNCHANGED <<app, owner, active, loop, wake, manager, open, net, read, sender, delivered,
                 stray, stale>>

CloseCloses ==
  /\ io.at = "close"
  /\ CloseFd(io.fd)
  /\ stale' = (stale \/ (IoInside(io.s) /\ pc[io.s] = "gone" /\ Hits(io.s, io.fd)))
  /\ io' = IF io.owner THEN [io EXCEPT !.at = "tell", !.fd = Nil] ELSE At("next")
  /\ UNCHANGED <<app, slots, sessions_, loop, wake, manager, net, read, sender, delivered, stray>>

\* sock_fd_, running_ and session_slot_ of the owner, then ReportError.
CloseTells ==
  /\ io.at = "tell" /\ pc[io.s] # "gone"
  /\ LET s == io.s IN
       /\ sock_fd_' = [sock_fd_ EXCEPT ![s] = Nil]
       /\ running_' = [running_ EXCEPT ![s] = FALSE]
       /\ session_slot_' = [session_slot_ EXCEPT ![s] = FALSE]
       /\ io' = IF delegate_[s] THEN [io EXCEPT !.at = "callback"] ELSE At("next")
  /\ UNCHANGED <<pc, delegate_, taken, slots, sessions_, loop, wake, manager, open, net, read,
                 sender, delivered, stray, stale>>

\* ParseAndDispatch or CloseSession uses an owner that was destroyed.  What happens then is
\* undefined; the IO thread is followed no further.
UseAfterDestroy ==
  /\ io.at \in {"parse", "tell"} /\ pc[io.s] = "gone"
  /\ io' = At("crashed")
  /\ UNCHANGED <<app, slots, sessions_, loop, wake, manager, open, net, read, sender, delivered,
                 stray, stale>>

-----------------------------------------------------------------------------
(* ~SharedSignalingIoManager, when the process exits *)

ExitBegins ==
  /\ manager = "running"
  /\ \A s \in Sessions : pc[s] \in {"new", "on", "stopped", "gone"}
  /\ manager' = "stopped"
  /\ UNCHANGED <<app, slots, sessions_, io, loop, wake, open, net, read, sender, delivered, stray,
                 stale>>

ExitWakes ==
  /\ manager = "stopped"
  /\ manager' = "join"
  /\ wake' = TRUE
  /\ UNCHANGED <<app, slots, sessions_, io, loop, open, net, read, sender, delivered, stray,
                 stale>>

ExitJoins ==
  /\ manager = "join" /\ io.at = "ended"
  /\ manager' = "done"
  /\ UNCHANGED <<app, slots, sessions_, io, loop, wake, open, net, read, sender, delivered,
                 stray, stale>>

-----------------------------------------------------------------------------
IoStep ==
  \/ RunTop \/ PollEnters \/ PollReturns \/ DrainWakePipe \/ RunNext
  \/ Recv \/ RecvUnblocks \/ DispatchLine \/ ParseAndDispatch
  \/ CallbackReturns
  \/ CloseDisowns \/ CloseErases \/ CloseCloses \/ CloseTells \/ UseAfterDestroy

\* What a thread inside Start, Stop or the manager's destructor goes on with.
AppStep(s) ==
  \/ RegisterSession(s) \/ RegisterWakes(s) \/ Attach(s)
  \/ UnregisterDisowns(s) \/ UnregisterErases(s) \/ UnregisterCloses(s)

ExitStep == ExitWakes \/ ExitJoins

Environment(s) ==
  \/ Connect(s) \/ ConnectFails(s) \/ RegisterFails(s) \/ Stop(s) \/ Destroy(s)
  \/ SendLoads(s) \/ SendLine(s) \/ ServerSends(s) \/ HangUp(s)

Next ==
  \/ IoStep \/ StopInCallback \/ ExitBegins \/ ExitStep
  \/ \E s \in Sessions : AppStep(s) \/ Environment(s)

Spec == Init /\ [][Next]_vars

\* Threads run; the user's functions return.  Nobody need send, stop or exit.
Fairness ==
  /\ WF_vars(IoStep) /\ WF_vars(ExitStep)
  /\ \A s \in Sessions : WF_vars(AppStep(s))

FairSpec == Spec /\ Fairness

-----------------------------------------------------------------------------
Places == {"off", "top", "poll", "wait", "drain", "next", "recv", "blocked", "lines",
           "parse", "callback", "stopping", "disown", "erase", "close", "tell", "crashed", "ended"}

\* The types of the variables.
TypeOK ==
  /\ pc \in [Sessions -> {"new", "connected", "inserted", "attaching", "on", "unregister",
                          "erase owned", "erase", "close owned", "close", "stopped", "gone"}]
  /\ {running_, session_slot_, delegate_, owner, active} \subseteq [Sessions -> BOOLEAN]
  /\ {sock_fd_, fd, taken, sending, polled} \subseteq [Sessions -> Fds \union {Nil}]
  /\ {sessions_, open} \subseteq [Fds -> Sessions \union {Nil}]
  /\ io.at \in Places /\ io.s \in Sessions \union {Nil} /\ io.fd \in Fds \union {Nil}
  /\ io.owner \in BOOLEAN
  /\ watch \in [Sessions -> Sessions \union {"none", "nval"}]
  /\ events \in [Sessions -> {"none", "in", "hup"}]
  /\ manager \in {"off", "running", "stopped", "join", "done"} /\ wake \in BOOLEAN
  /\ sent \in [Sessions -> 0..MaxLines] /\ read \in [Sessions -> 0..MaxLines]
  /\ end \in [Sessions -> {"up", "fin", "rst"}] /\ sends \in 0..MaxLines
  /\ stray \in BOOLEAN /\ crossed \in BOOLEAN /\ stale \in BOOLEAN

\* What sessions_ has under a descriptor is the session whose connection that
\* descriptor is, although numbers are used again: both ways to close a session
\* (UnregisterSession, CloseSession) erase before they close.  (Until stale.)
TableAgrees == stale \/ \A f \in Fds : sessions_[f] # Nil => open[f] = sessions_[f]

UseIsOpen(s) ==
  pc[s] \in {"inserted", "attaching", "on"} /\ owner[s] =>
    fd[s] = sock_fd_[s] /\ fd[s] # Nil /\ open[fd[s]] = s

\* Nobody closes the connection of a session in use: while the session is
\* owned and not stopped, its stored descriptor and its slot's are the same
\* and lead to its connection, whatever other sessions close.  There is one way in
\* which this fails: a session is destroyed while the IO thread is in its CloseSession,
\* so that both close its number, and the second of them hits whoever got it.
InUseIsOpen == stale \/ \A s \in Sessions : UseIsOpen(s)

\* A delegate gets the lines of its own connection, in order, none twice, and
\* without a gap unless a line was read through a descriptor that changed
\* hands: the slot is disowned before its descriptor can be given out again.
\* (Until stale.)
OwnLines ==
  stale \/ \A s \in Sessions :
    /\ \A i \in 1..Len(delivered[s]) : delivered[s][i][1] = s
    /\ \A i, j \in 1..Len(delivered[s]) : i < j => delivered[s][i][2] < delivered[s][j][2]
    /\ ~stray => \A i \in 1..Len(delivered[s]) : delivered[s][i][2] = i

\* Has something happened after which the code promises nothing?
Broken == stray \/ stale \/ io.at = "crashed"

\* Time and again every line the server sent to a session in use has reached the
\* delegate, unless the connection was reset: no wake-up of the IO thread is lost.
LinesDelivered ==
  []<>(\A s \in Sessions :
         pc[s] = "on" => Len(delivered[s]) >= sent[s] \/ end[s] = "rst" \/ Broken \/ ~Quiet)

\* A session whose connection ended learns of it: CloseSession clears running_
\* also where Start has not yet assigned session_slot_.
LossNoticed ==
  []<>(\A s \in Sessions : pc[s] = "on" /\ end[s] # "up" => ~running_[s] \/ Broken \/ ~Quiet)

\* The manager's destructor joins the IO thread, wherever the thread was when
\* running_ was cleared.
ExitReturns == manager = "stopped" ~> (manager = "done" \/ Broken)

\* Known deviations, checked by configurations of their own.

\* The IO thread uses a session only while the object exists.
OwnerAlive == io.at # "crashed"

\* The same without exception.
InUseAlwaysOpen == \A s \in Sessions : UseIsOpen(s)

\* The IO thread reads a descriptor only for the session it belongs to.
NoStrayRead == ~stray

\* A line is sent on the sender's connection or not at all.
OwnWire == ~crossed

=============================================================================
