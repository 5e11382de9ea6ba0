-------------------------- MODULE SignalingServer --------------------------
(***************************************************************************)
(* The signaling server (core/signal/server.cpp): one epoll thread that    *)
(* accepts, registers, reads and disconnects clients, and n_ shard workers *)
(* that route complete lines between a stream's publisher and subscribers. *)
(*                                                                         *)
(* A handler of the epoll thread changes the tables in one step (no other  *)
(* thread changes them, and a descriptor number it frees can only be given *)
(* out again by its own next accept) and leaves the lines it then sends in *)
(* writes[Epoll]; it takes up its next event when they are written.  A   *)
(* shard worker pops a line, looks up the target's descriptor and writes   *)
(* in separate steps.  SendJsonLine writes payload and newline by two      *)
(* calls, without a lock: two tokens.  A connection is named by the        *)
(* sequence number of the peer id it got; a free descriptor is 0's.        *)
(***************************************************************************)
EXTENDS Naturals, Sequences, FiniteSets

CONSTANTS
  Streams,
  MaxFd,         \* descriptor numbers the process can hold for clients
  NShards,       \* n_
  MaxQueueLines, \* max_queue_lines_ (it also stands for max_queue_bytes_)
  MaxConns,      \* bound on registered connections
  MaxSends,      \* bound on lines the clients send
  MaxTimeouts,   \* bound on writes given up after kIoTimeoutMs
  SignalMayCome, \* is the process sent SIGINT or SIGTERM?
  EpollAddMayFail \* can epoll_ctl(ADD) fail (ENOMEM, ENOSPC)?

ASSUME ServerAssumption ==
  /\ MaxFd \in Nat /\ NShards \in Nat \ {0} /\ MaxQueueLines \in Nat /\ MaxConns \in Nat
  /\ MaxSends \in Nat /\ MaxTimeouts \in Nat 
  /\ SignalMayCome \in BOOLEAN /\ EpollAddMayFail \in BOOLEAN

Conns == 1..MaxConns
Fds == 1..MaxFd
Shards == 0..(NShards - 1)
Epoll == NShards   \* the epoll thread, beside the shard workers
Threads == 0..NShards

VARIABLES
  g_peer_seq,    \* ids given out so far
  client,        \* Client objects: fd, role, stream_id of each registered connection
  dead,          \* Client::dead
  open,          \* the kernel's table: the connection behind each descriptor
  g_publishers,  \* stream -> descriptor of its publisher
  g_subscribers, \* stream -> ids of its subscribers (the descriptor is client[id].fd)
  g_fd_to_info,  \* descriptor -> id
  g_clients,     \* descriptor -> Client
  adding,        \* the descriptor about to be given to epoll, 0 if none
  hups,          \* descriptors with an EPOLLHUP still to handle in the current batch
  queues,        \* the shards' queues of lines
  held,          \* the line each shard worker has popped, as a sequence of at most one
  writes,        \* what each thread is about to write: descriptor and token
  server,        \* "up", "signalled", "draining", "down"
  workerExited,  \* shards whose thread has returned
  sends, timeouts, \* history: lines sent, writes given up
  stalled,       \* history: connections on which a write was given up
  received,      \* history: the tokens each open connection was sent
  late           \* history: lines of a dead client written after its death

tables == <<g_peer_seq, client, dead, open, g_publishers, g_subscribers, g_fd_to_info, g_clients>>
workers == <<queues, held, workerExited>>
history == <<timeouts, stalled, late>>
vars == <<tables, adding, hups, workers, writes, server, sends, received, history>>

NL == [kind |-> "nl", id |-> 0, n |-> 0]
Welcome(c) == [kind |-> "welcome", id |-> c, n |-> 0]
Join(c) == [kind |-> "subscriber_join", id |-> c, n |-> 0]
Leave(c) == [kind |-> "subscriber_leave", id |-> c, n |-> 0]
Forward(line) == [kind |-> "line", id |-> line.from, n |-> line.n]

\* SendJsonLine: payload, then newline; `locked' if g_mutex is held meanwhile.
SendJsonLine(fd, text, locked) ==
  << [fd |-> fd, tok |-> text, locked |-> locked], [fd |-> fd, tok |-> NL, locked |-> locked] >>

Init ==
  /\ g_peer_seq = 0
  /\ client = [c \in Conns |-> [fd |-> 0, role |-> "none", stream_id |-> "none"]]
  /\ dead = {}
  /\ open = [fd \in Fds |-> 0]
  /\ g_publishers = [s \in Streams |-> 0]
  /\ g_subscribers = [s \in Streams |-> {}]
  /\ g_fd_to_info = [fd \in Fds |-> 0]
  /\ g_clients = [fd \in Fds |-> 0]
  /\ adding = 0
  /\ hups = {}
  /\ queues = [k \in Shards |-> <<>>]
  /\ held = [k \in Shards |-> <<>>]
  /\ writes = [t \in Threads |-> <<>>]
  /\ server = "up"
  /\ workerExited = {}
  /\ sends = 0 /\ timeouts = 0
  /\ stalled = {}
  /\ received = [c \in Conns |-> <<>>]
  /\ late = [c \in Conns |-> 0]

-----------------------------------------------------------------------------
(* The epoll thread. *)

\* What was sent on a connection that is now closed is forgotten.
ForgetClosed ==
  received' = [c \in Conns |-> IF \E fd \in Fds : open'[fd] = c THEN received[c] ELSE <<>>]

EpollIdle == server \in {"up", "signalled"} /\ writes[Epoll] = <<>> /\ adding = 0

\* Descriptors are given out lowest first.
LowestFree(fd) == open[fd] = 0 /\ \A f \in 1..(fd - 1) : open[f] # 0

\* The ids of a set in some order: the iteration of an unordered_map.
Orders(S) == {q \in [1..Cardinality(S) -> S] : \A c \in S : \E i \in DOMAIN q : q[i] = c}

\* Mutants of JoinLines and Replaced: the subscribers already there are not announced; the
\* earlier publisher is left alone.
JoinLinesNone(fd, q) == <<>>

ReplacedNone(s) == {}

\* subscriber_join for each of them, under g_mutex.
JoinLines(fd, q) ==
  [i \in 1..(2 * Len(q)) |-> [fd |-> fd,
                              tok |-> IF i % 2 = 1 THEN Join(q[(i + 1) \div 2]) ELSE NL,
                              locked |-> TRUE]]

\* The descriptor of the stream's earlier publisher.
Replaced(s) == {g_publishers[s]} \ {0}

\* accept, HandleInitialRegister for a publisher: an earlier publisher of the stream
\* is cut off; the new one is told every subscriber while g_mutex is held.
RegisterPublisher(fd, s) ==
  LET c == g_peer_seq + 1
      old == Replaced(s)
  IN /\ EpollIdle /\ server = "up"
     /\ c \in Conns
     /\ LowestFree(fd)
     /\ g_peer_seq' = c
     /\ client' = [client EXCEPT ![c] = [fd |-> fd, role |-> "publisher", stream_id |-> s]]
     /\ dead' = dead \cup ({g_clients[f] : f \in old} \ {0})
     /\ open' = [f \in Fds |-> IF f \in old THEN 0 ELSE IF f = fd THEN c ELSE open[f]]
     /\ g_fd_to_info' = [f \in Fds |-> IF f = fd THEN c ELSE IF f \in old THEN 0 ELSE g_fd_to_info[f]]
     /\ g_clients' = [f \in Fds |-> IF f = fd THEN c ELSE IF f \in old THEN 0 ELSE g_clients[f]]
     /\ g_publishers' = [g_publishers EXCEPT ![s] = fd]
     /\ \E q \in Orders(g_subscribers[s]) :
          writes' = [writes EXCEPT ![Epoll] = SendJsonLine(fd, Welcome(c), FALSE) \o JoinLines(fd, q)]
     /\ adding' = fd
     /\ ForgetClosed
     /\ UNCHANGED <<g_subscribers, hups, workers, server, sends, history>>

\* NotifyPublisherSubscriberEvent: the lines to the stream's publisher, if it has one.
ToPublisher(s, text) ==
  IF g_publishers[s] = 0 THEN <<>> ELSE SendJsonLine(g_publishers[s], text, FALSE)

\* accept, HandleInitialRegister for a subscriber.
RegisterSubscriber(fd, s) ==
  LET c == g_peer_seq + 1
  IN /\ EpollIdle /\ server = "up"
     /\ c \in Conns
     /\ LowestFree(fd)
     /\ g_peer_seq' = c
     /\ client' = [client EXCEPT ![c] = [fd |-> fd, role |-> "subscriber", stream_id |-> s]]
     /\ open' = [open EXCEPT ![fd] = c]
     /\ g_subscribers' = [g_subscribers EXCEPT ![s] = @ \cup {c}]
     /\ g_fd_to_info' = [g_fd_to_info EXCEPT ![fd] = c]
     /\ g_clients' = [g_clients EXCEPT ![fd] = c]
     /\ writes' = [writes EXCEPT ![Epoll] = SendJsonLine(fd, Welcome(c), FALSE) \o ToPublisher(s, Join(c))]
     /\ adding' = fd
     /\ UNCHANGED <<dead, g_publishers, hups, workers, server, sends, received, history>>

\* epoll_ctl(ADD) for the connection just registered.  If it fails (after a signal the
\* epoll descriptor is closed) the connection is closed, and the tables keep it.
EpollAdd ==
  /\ adding # 0 /\ writes[Epoll] = <<>>
  /\ adding' = 0
  /\ \/ server = "up" /\ UNCHANGED open
     \/ /\ server # "up" \/ EpollAddMayFail
        /\ open' = [open EXCEPT ![adding] = 0]
  /\ ForgetClosed
  /\ UNCHANGED <<g_peer_seq, client, dead, g_publishers, g_subscribers, g_fd_to_info, g_clients,
                 hups, workers, writes, server, sends, history>>

\* CloseClientFd and RemoveClientResources, with the leave notice.
RemoveClientResources(fd) ==
  LET c == g_fd_to_info[fd]
      s == client[c].stream_id
      pubs == IF c # 0 /\ client[c].role = "publisher" /\ g_publishers[s] = fd
              THEN [g_publishers EXCEPT ![s] = 0] ELSE g_publishers
  IN /\ g_fd_to_info' = [g_fd_to_info EXCEPT ![fd] = 0]
     /\ open' = [open EXCEPT ![fd] = 0]
     /\ g_publishers' = pubs
     /\ g_subscribers' = IF c # 0 /\ client[c].role = "subscriber"
                         THEN [g_subscribers EXCEPT ![s] = @ \ {c}] ELSE g_subscribers
     /\ writes' = [writes EXCEPT ![Epoll] =
                     IF c # 0 /\ pubs[s] # 0 THEN SendJsonLine(pubs[s], Leave(c), FALSE) ELSE <<>>]

\* DisconnectClient, for a client that g_clients holds.
DisconnectClient(fd) ==
  /\ dead' = dead \cup {g_clients[fd]}
  /\ g_clients' = [g_clients EXCEPT ![fd] = 0]
  /\ RemoveClientResources(fd)
  /\ ForgetClosed
  /\ UNCHANGED <<g_peer_seq, client, adding>>

\* ProcessClientRead ends in end of file, a receive error or an overlong buffer.
ReadEnds(fd) ==
  /\ EpollIdle
  /\ open[fd] # 0 /\ g_clients[fd] # 0
  /\ DisconnectClient(fd)
  /\ UNCHANGED <<hups, workers, server, sends, history>>

\* epoll_wait returns, after its timeout or with hangups among the events of the batch.
EpollWait(batch) ==
  /\ EpollIdle /\ server = "up" /\ hups = {}
  /\ \A fd \in batch : open[fd] # 0
  /\ hups' = batch
  /\ UNCHANGED <<tables, adding, workers, writes, server, sends, received, history>>

\* The EPOLLHUP branch: whoever has the descriptor number now is closed.
HandleHup(fd) ==
  /\ EpollIdle
  /\ fd \in hups
  /\ hups' = hups \ {fd}
  /\ IF g_clients[fd] # 0
     THEN DisconnectClient(fd)
     ELSE /\ open' = [open EXCEPT ![fd] = 0]
          /\ ForgetClosed
          /\ UNCHANGED <<g_peer_seq, client, dead, g_publishers, g_subscribers, g_fd_to_info,
                         g_clients, adding, writes>>
  /\ UNCHANGED <<workers, server, sends, history>>

\* Mutant of ShardOf: lines are spread over the shards one by one.
ShardByLine(fd) == sends % NShards

\* The shard of a descriptor's lines.
ShardOf(fd) == fd % NShards

QueueFull(k) == Len(queues[k]) >= MaxQueueLines

\* DrainCompleteLines takes one complete line, for subscriber `to' if a publisher sends
\* it: into the shard's queue, or the client is disconnected if the queue is full.
ReadLine(fd, to) ==
  LET c == g_clients[fd]
      k == ShardOf(fd)
  IN /\ EpollIdle
     /\ sends < MaxSends
     /\ open[fd] # 0 /\ c # 0
     /\ to \in IF client[c].role = "publisher" THEN 1..g_peer_seq ELSE {0}
     /\ sends' = sends + 1
     /\ IF QueueFull(k)
        THEN DisconnectClient(fd) /\ UNCHANGED queues
        ELSE /\ queues' = [queues EXCEPT ![k] = Append(@, [from |-> c, to |-> to, n |-> sends + 1])]
             /\ UNCHANGED <<tables, adding, writes, received>>
     /\ UNCHANGED <<hups, held, workerExited, server, history>>

-----------------------------------------------------------------------------
(* The shard workers: RunShard. *)

\* Pop the next line; it is forgotten if its client is dead (or already freed).
TakeLine(k) ==
  /\ queues[k] # <<>> /\ held[k] = <<>> /\ writes[k] = <<>>
  /\ queues' = [queues EXCEPT ![k] = Tail(@)]
  /\ held' = [held EXCEPT ![k] = IF Head(queues[k]).from \in dead THEN <<>> ELSE <<Head(queues[k])>>]
  /\ UNCHANGED <<tables, adding, hups, writes, server, workerExited, sends, received, history>>

\* RoutePublisherMessage, RouteSubscriberMessage: the target's descriptor, 0 if none.
Target(line) ==
  LET c == client[line.from]
  IN IF c.role = "publisher"
     THEN IF line.to \in g_subscribers[c.stream_id] THEN client[line.to].fd ELSE 0
     ELSE g_publishers[c.stream_id]

\* Look up the target under g_mutex, which the epoll thread may be holding.
Route(k) ==
  /\ held[k] # <<>>
  /\ writes[Epoll] # <<>> => ~Head(writes[Epoll]).locked
  /\ LET line == Head(held[k])
         fd == Target(line)
     IN writes' = [writes EXCEPT ![k] = IF fd = 0 THEN <<>> ELSE SendJsonLine(fd, Forward(line), FALSE)]
  /\ held' = [held EXCEPT ![k] = <<>>]
  /\ UNCHANGED <<tables, adding, hups, queues, server, workerExited, sends, received, history>>

-----------------------------------------------------------------------------
(* WriteAllWithPoll, by any thread. *)

\* Mutant of AfterFailure: try again.
AfterFailureRetry(q) == q

\* The rest of the current line is given up: the newline of a failed payload is not sent.
AfterFailure(q) == IF Head(q).tok # NL THEN Tail(Tail(q)) ELSE Tail(q)

WriteOk(t) ==
  /\ writes[t] # <<>>
  /\ LET w == Head(writes[t])
         c == open[w.fd]
     IN /\ c # 0
        /\ received' = [received EXCEPT ![c] = Append(@, w.tok)]
        /\ late' = IF w.tok.kind = "line" /\ w.tok.id \in dead
                   THEN [late EXCEPT ![w.tok.id] = @ + 1] ELSE late
  /\ writes' = [writes EXCEPT ![t] = Tail(@)]
  /\ UNCHANGED <<tables, adding, hups, workers, server, sends, timeouts, stalled>>

\* The descriptor is closed.
WriteBadFd(t) ==
  /\ writes[t] # <<>>
  /\ open[Head(writes[t]).fd] = 0
  /\ writes' = [writes EXCEPT ![t] = AfterFailure(@)]
  /\ UNCHANGED <<tables, adding, hups, workers, server, sends, received, history>>

\* The peer does not read: the write is given up, what was written stays written.
WriteTimesOut(t) ==
  /\ timeouts < MaxTimeouts
  /\ writes[t] # <<>>
  /\ open[Head(writes[t]).fd] # 0
  /\ timeouts' = timeouts + 1
  /\ stalled' = stalled \cup {open[Head(writes[t]).fd]}
  /\ writes' = [writes EXCEPT ![t] = AfterFailure(@)]
  /\ UNCHANGED <<tables, adding, hups, workers, server, sends, received, late>>

-----------------------------------------------------------------------------
(* Shutdown: SIGINT or SIGTERM, the end of RunMain, ~ShardedLineWorkers. *)

Signal ==
  /\ SignalMayCome
  /\ server = "up"
  /\ server' = "signalled"
  /\ UNCHANGED <<tables, adding, hups, workers, writes, sends, received, history>>

\* The loop of RunMain ends after its batch; the workers are told to stop.
LoopEnds ==
  /\ server = "signalled" /\ EpollIdle /\ hups = {}
  /\ server' = "draining"
  /\ UNCHANGED <<tables, adding, hups, workers, writes, sends, received, history>>

\* Mutant of WorkerExit: stop_ alone ends the thread.
WorkerExitEarly(k) ==
  /\ server = "draining" /\ k \notin workerExited
  /\ held[k] = <<>> /\ writes[k] = <<>>
  /\ workerExited' = workerExited \cup {k}
  /\ UNCHANGED <<tables, adding, hups, queues, held, writes, server, sends, received, history>>

\* stop_ is set and the queue is empty.
WorkerExit(k) ==
  /\ server = "draining" /\ k \notin workerExited
  /\ queues[k] = <<>> /\ held[k] = <<>> /\ writes[k] = <<>>
  /\ workerExited' = workerExited \cup {k}
  /\ UNCHANGED <<tables, adding, hups, queues, held, writes, server, sends, received, history>>

ServerExits ==
  /\ server = "draining"
  /\ workerExited = Shards
  /\ server' = "down"
  /\ UNCHANGED <<tables, adding, hups, workers, writes, sends, received, history>>

-----------------------------------------------------------------------------
EpollStep ==
  \/ \E fd \in Fds, s \in Streams : RegisterPublisher(fd, s) \/ RegisterSubscriber(fd, s)
  \/ \E fd \in Fds : ReadEnds(fd) \/ HandleHup(fd)
  \/ \E fd \in Fds, to \in 0..MaxConns : ReadLine(fd, to)
  \/ \E batch \in SUBSET Fds : EpollWait(batch)
  \/ EpollAdd

WriteStep(t) == WriteOk(t) \/ WriteBadFd(t) \/ WriteTimesOut(t)

\* A worker that has returned takes no line.
WorkerStep(k) == k \notin workerExited /\ (TakeLine(k) \/ Route(k) \/ WriteStep(k))

Stopped == server = "down" /\ UNCHANGED vars

Next ==
  \/ EpollStep
  \/ WriteStep(Epoll)
  \/ \E k \in Shards : WorkerStep(k) \/ WorkerExit(k)
  \/ Signal \/ LoopEnds \/ ServerExits
  \/ Stopped

\* The threads run and a write ends within its timeout.  Nobody is obliged to connect,
\* to send, to hang up or to signal the process.
Fairness ==
  /\ WF_vars(WriteStep(Epoll)) /\ WF_vars(EpollAdd)
  /\ \A fd \in Fds : WF_vars(HandleHup(fd))
  /\ \A k \in Shards : WF_vars(WorkerStep(k)) /\ WF_vars(WorkerExit(k))
  /\ WF_vars(LoopEnds) /\ WF_vars(ServerExits)

Spec == Init /\ [][Next]_vars

FairSpec == Spec /\ Fairness

-----------------------------------------------------------------------------
Tokens == [kind : {"nl", "welcome", "subscriber_join", "subscriber_leave", "line"},
           id : 0..MaxConns, n : Nat]
Lines == [from : Conns, to : 0..MaxConns, n : Nat]

\* The types, and the limit of the shards' queues.
TypeOK ==
  /\ g_peer_seq \in 0..MaxConns
  /\ client \in [Conns -> [fd : 0..MaxFd, role : {"none", "publisher", "subscriber"},
                           stream_id : Streams \cup {"none"}]]
  /\ dead \subseteq Conns
  /\ open \in [Fds -> 0..MaxConns]
  /\ g_publishers \in [Streams -> 0..MaxFd]
  /\ g_subscribers \in [Streams -> SUBSET Conns]
  /\ g_fd_to_info \in [Fds -> 0..MaxConns]
  /\ g_clients \in [Fds -> 0..MaxConns]
  /\ adding \in 0..MaxFd
  /\ hups \subseteq Fds
  /\ queues \in [Shards -> Seq(Lines)]
  /\ \A k \in Shards : Len(queues[k]) <= MaxQueueLines
  /\ held \in [Shards -> Seq(Lines)]
  /\ writes \in [Threads -> Seq([fd : Fds, tok : Tokens, locked : BOOLEAN])]
  /\ server \in {"up", "signalled", "draining", "down"}
  /\ workerExited \subseteq Shards
  /\ sends \in Nat /\ timeouts \in Nat
  /\ stalled \subseteq Conns
  /\ received \in [Conns -> Seq(Tokens)]
  /\ late \in [Conns -> Nat]

Publisher(s) == IF g_publishers[s] = 0 THEN 0 ELSE open[g_publishers[s]]

\* The five tables agree with each other and with the kernel while the server accepts
\* connections: a descriptor stands for the same connection everywhere, a stream's publisher
\* and subscribers are exactly its open connections of that role, and a Client is dead
\* exactly when its connection is closed -- through replaced publishers, hangups, overflows
\* and descriptor numbers given out again.
TablesAgree ==
  server = "up" =>
    /\ \A fd \in Fds : g_clients[fd] = open[fd] /\ g_fd_to_info[fd] = open[fd]
    /\ \A fd \in Fds : open[fd] # 0 => client[open[fd]].fd = fd
    /\ \A s \in Streams, c \in Conns :
         /\ (c \in g_subscribers[s]) <=>
              (/\ \E fd \in Fds : open[fd] = c
               /\ client[c].role = "subscriber" /\ client[c].stream_id = s)
         /\ (c = Publisher(s)) <=>
              (/\ \E fd \in Fds : open[fd] = c
               /\ client[c].role = "publisher" /\ client[c].stream_id = s)
    /\ \A c \in 1..g_peer_seq : (c \in dead) <=> \A fd \in Fds : open[fd] # c

Told(c, kind) == {received[c][i].id : i \in {j \in 1..Len(received[c]) : received[c][j].kind = kind}}

\* A stream's publisher knows its subscribers: between two handlers, those announced on its
\* connection and not withdrawn are the stream's subscribers (unless a write to it was given up).
PublisherView ==
  \A s \in Streams : LET p == Publisher(s) IN
    (server = "up" /\ EpollIdle /\ p # 0 /\ p \notin stalled) =>
      Told(p, "subscriber_join") \ Told(p, "subscriber_leave") = g_subscribers[s]

\* No subscriber is announced twice, or withdrawn before it was announced.
JoinThenLeave ==
  \A p \in Conns \ stalled : \A i, j \in 1..Len(received[p]) :
    LET a == received[p][i]
        b == received[p][j]
    IN (a.id = b.id /\ i < j /\ b.kind \in {"subscriber_join", "subscriber_leave"}) =>
         a.kind # "subscriber_leave" /\ (b.kind = "subscriber_join" => a.kind # "subscriber_join")

\* Lines of one client that reach the same connection arrive in the order they were sent:
\* one shard handles all lines of a descriptor.
LineOrder ==
  \A c \in Conns : \A i, j \in 1..Len(received[c]) :
    LET a == received[c][i]
        b == received[c][j]
    IN (i < j /\ a.kind = "line" /\ b.kind = "line" /\ a.id = b.id) => a.n < b.n

\* Of a client that is dead (hung up, or a replaced publisher) at most one more line is
\* routed, however many are queued.
OneLateLine == \A c \in Conns : late[c] <= 1

\* The server exits only when every line that was queued has been taken and handled.
ExitDrains == server = "down" => \A k \in Shards : queues[k] = <<>> /\ held[k] = <<>> /\ writes[k] = <<>>

\* What is queued is routed to the end: no shard worker is stuck on a peer that
\* is gone or does not read.
QueuesDrain ==
  \A k \in Shards :
    (queues[k] # <<>>) ~> (queues[k] = <<>> /\ held[k] = <<>> /\ writes[k] = <<>>)

\* A signal makes the server exit.
SignalStops == (server = "signalled") ~> (server = "down")

\* server.h:4 "routing over TCP + epoll using the line protocol": what a connection is sent
\* is a sequence of lines.
LinesWellFramed ==
  \A c \in Conns : \A i \in 1..Len(received[c]) : (received[c][i] = NL) <=> (i % 2 = 0)

\* server.h:4 "publisher/subscriber routing": a connection is sent lines of its own stream only.
OwnStreamOnly ==
  \A c \in Conns : \A i \in 1..Len(received[c]) :
    received[c][i].kind = "line" => client[received[c][i].id].stream_id = client[c].stream_id
=============================================================================
