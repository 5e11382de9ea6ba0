----------------------- MODULE SignalingServerProofs -----------------------
(***************************************************************************)
(* Proofs about the signaling server, for any streams, any number of       *)
(* descriptors, connections, shards and lines.  ServerInv is inductive:    *)
(* ids are given out once and a descriptor's Client stays on its shard     *)
(* (Registered, Named); a thread writes payload and newline, a shard       *)
(* worker only lines it took (Framed, Workers); a shard's lines are        *)
(* numbered in the order of their reading, and what a client's line was    *)
(* delivered before is behind it (Numbered, Behind).  While the server     *)
(* accepts connections and epoll_ctl(ADD) does not fail, the tables agree  *)
(* (TablesAgree, PublisherOpen), and what a publisher was told, with what  *)
(* the epoll thread is about to tell it, are its stream's subscribers      *)
(* (EpollOpen, View).                                                      *)
(***************************************************************************)
EXTENDS SignalingServer, FiniteSetTheorems, SequenceTheorems, TLAPS

\* A connection that got an id has a descriptor, a role and a stream.
Registered ==
  /\ \A c \in Conns : c <= g_peer_seq =>
       client[c].fd \in Fds /\ client[c].role \in {"publisher", "subscriber"} /\ client[c].stream_id \in Streams
  /\ \A fd \in Fds : g_clients[fd] # 0 => client[g_clients[fd]].fd = fd

\* Only ids that were given out are used.
Named ==
  /\ \A fd \in Fds : open[fd] <= g_peer_seq /\ g_clients[fd] <= g_peer_seq /\ g_fd_to_info[fd] <= g_peer_seq
  /\ \A c \in dead : c <= g_peer_seq
  /\ \A s \in Streams : \A c \in g_subscribers[s] : c <= g_peer_seq
  /\ \A t \in Threads : \A i \in 1..Len(writes[t]) : writes[t][i].tok.id <= g_peer_seq
  /\ \A c \in Conns : \A i \in 1..Len(received[c]) : received[c][i].id <= g_peer_seq
  /\ \A c \in Conns : c > g_peer_seq => received[c] = <<>>

\* Every payload is followed by its newline.
InLines(q) ==
  \A i \in 1..Len(q) : q[i].tok # NL => i + 1 \in 1..Len(q) /\ q[i + 1].tok = NL

Framed == \A t \in Threads : InLines(writes[t])

\* A shard worker holds one line or writes one, the epoll thread writes none.
OneLine(q) ==
  /\ Len(q) <= 2
  /\ \A i \in 1..Len(q) :
       q[i].tok.kind \in {"nl", "line"} /\ (q[i].tok.kind = "line" => i = 1 /\ q[i].tok.id \in Conns)

NoLine(q) == \A i \in 1..Len(q) : q[i].tok.kind # "line"

Workers ==
  /\ \A k \in Shards :
       Len(held[k]) <= 1 /\ (held[k] # <<>> => writes[k] = <<>>) /\ OneLine(writes[k])
  /\ NoLine(writes[Epoll])

\* Line n of client c is in the hands of shard k: it waits in its queue, is
\* routed, or is being written.
Waits(k, c, n) == \E i \in 1..Len(queues[k]) : queues[k][i].from = c /\ queues[k][i].n = n
Routed(k, c, n) == \E i \in 1..Len(held[k]) : held[k][i].from = c /\ held[k][i].n = n
Written(k, c, n) ==
  \E i \in 1..Len(writes[k]) :
    writes[k][i].tok.kind = "line" /\ writes[k][i].tok.id = c /\ writes[k][i].tok.n = n

InHands(k, c, n) == Waits(k, c, n) \/ Routed(k, c, n) \/ Written(k, c, n)

\* All lines of a client are in the hands of the shard of its descriptor; they
\* are numbered in the order of their reading.
Numbered ==
  /\ \A k \in Shards, c \in Conns, n \in Nat : InHands(k, c, n) =>
       c <= g_peer_seq /\ ShardOf(client[c].fd) = k /\ n <= sends
  /\ \A k \in Shards : \A i, j \in 1..Len(queues[k]) : i < j => queues[k][i].n < queues[k][j].n
  /\ \A k \in Shards, c \in Conns, m, n \in Nat :
       (Routed(k, c, m) \/ Written(k, c, m)) /\ Waits(k, c, n) => m < n

\* A line that was delivered is behind every line of its client that is not.
Delivered(c, a, n) ==
  \E i \in 1..Len(received[c]) : received[c][i].kind = "line" /\ received[c][i].id = a /\ received[c][i].n = n

Behind ==
  \A c, a \in Conns, m \in Nat : Delivered(c, a, m) =>
    m <= sends /\ \A k \in Shards, n \in Nat : InHands(k, a, n) => m < n

\* The descriptor of a publisher, and one the epoll thread writes to, is open.
PublisherOpen == server = "up" => \A s \in Streams : g_publishers[s] # 0 => open[g_publishers[s]] # 0

Reached == \A i \in 1..Len(writes[Epoll]) : open[writes[Epoll][i].fd] # 0
EpollOpen == server = "up" => Reached

\* Subscriber c is announced to (withdrawn from) p, or is about to be.
Heard(p, kind, c) == \E i \in 1..Len(received[p]) : received[p][i].kind = kind /\ received[p][i].id = c

Coming(p, kind, c) ==
  \E i \in 1..Len(writes[Epoll]) :
    open[writes[Epoll][i].fd] = p /\ writes[Epoll][i].tok.kind = kind /\ writes[Epoll][i].tok.id = c

Mentioned(p, kind, c) == Heard(p, kind, c) \/ Coming(p, kind, c)

\* A stream's publisher has been told, or is being told, its subscribers.
Sees ==
  \A s \in Streams : Publisher(s) # 0 /\ Publisher(s) \notin stalled =>
    \A c \in 0..MaxConns : (c \in g_subscribers[s]) <=>
      Mentioned(Publisher(s), "subscriber_join", c) /\ ~Mentioned(Publisher(s), "subscriber_leave", c)
View == server = "up" => Sees

\* The part that does not need the tables, and the part that does.
LinesInv == TypeOK /\ Registered /\ Named /\ Framed /\ Workers /\ Numbered /\ Behind /\ LineOrder
TablesInv == TablesAgree /\ PublisherOpen /\ EpollOpen /\ View
ServerInv == LinesInv /\ TablesInv

-----------------------------------------------------------------------------
(* The type invariant, in parts *)

Pieces == [fd : Fds, tok : Tokens, locked : BOOLEAN]

TablesTyped ==
  /\ g_peer_seq \in 0..MaxConns
  /\ client \in [Conns -> [fd : 0..MaxFd, role : {"none", "publisher", "subscriber"},
                           stream_id : Streams \cup {"none"}]]
  /\ dead \subseteq Conns
  /\ open \in [Fds -> 0..MaxConns]
  /\ g_publishers \in [Streams -> 0..MaxFd]
  /\ g_subscribers \in [Streams -> SUBSET Conns]
  /\ g_fd_to_info \in [Fds -> 0..MaxConns]
  /\ g_clients \in [Fds -> 0..MaxConns]
  /\ adding \in 0..MaxFd
  /\ hups \subseteq Fds

QueuesTyped ==
  /\ queues \in [Shards -> Seq(Lines)]
  /\ \A k \in Shards : Len(queues[k]) <= MaxQueueLines
  /\ held \in [Shards -> Seq(Lines)]
  /\ sends \in Nat

WritesTyped == writes \in [Threads -> Seq(Pieces)]

RestTyped ==
  /\ server \in {"up", "signalled", "draining", "down"}
  /\ workerExited \subseteq Shards
  /\ timeouts \in Nat
  /\ stalled \subseteq Conns
  /\ received \in [Conns -> Seq(Tokens)]
  /\ late \in [Conns -> Nat]

\* TypeOK is its parts.
LEMMA TypeParts == TypeOK <=> TablesTyped /\ QueuesTyped /\ WritesTyped /\ RestTyped
BY Zenon DEF TypeOK, TablesTyped, QueuesTyped, WritesTyped, RestTyped, Pieces

\* The same of the next state.
LEMMA TypePartsNext == TypeOK' <=> TablesTyped' /\ QueuesTyped' /\ WritesTyped' /\ RestTyped'
BY TypeParts, PTL

\* The shards and the epoll thread are all threads.
LEMMA ThreadsAre ==
  /\ Epoll \in Threads /\ Epoll \notin Shards
  /\ Shards \subseteq Threads
  /\ \A t \in Threads : t # Epoll => t \in Shards
  /\ \A fd \in Fds : ShardOf(fd) \in Shards
BY ServerAssumption DEF Epoll, Threads, Shards, ShardOf, Fds

-----------------------------------------------------------------------------
(* Pieces to write *)

\* A line is its text and a newline.
LEMMA SentIsLine ==
  ASSUME NEW fd \in Fds, NEW tok \in Tokens, NEW b \in BOOLEAN
  PROVE  LET q == SendJsonLine(fd, tok, b)
         IN /\ q \in Seq(Pieces) /\ Len(q) = 2 /\ InLines(q)
            /\ q[1] = [fd |-> fd, tok |-> tok, locked |-> b]
            /\ q[2] = [fd |-> fd, tok |-> NL, locked |-> b]
<1> DEFINE q == SendJsonLine(fd, tok, b)
<1>1. NL \in Tokens
  BY ServerAssumption DEF NL, Tokens
<1>2. /\ [fd |-> fd, tok |-> tok, locked |-> b] \in Pieces
      /\ [fd |-> fd, tok |-> NL, locked |-> b] \in Pieces
  BY <1>1 DEF Pieces
<1>3. /\ q \in Seq(Pieces) /\ Len(q) = 2
      /\ q[1] = [fd |-> fd, tok |-> tok, locked |-> b]
      /\ q[2] = [fd |-> fd, tok |-> NL, locked |-> b]
  BY <1>2 DEF SendJsonLine
<1>4. InLines(q)
  <2> SUFFICES ASSUME NEW i \in 1..Len(q), q[i].tok # NL
               PROVE  i + 1 \in 1..Len(q) /\ q[i + 1].tok = NL
    BY DEF InLines
  <2>1. i = 1
    BY <1>3
  <2> QED
    BY <1>3, <2>1
<1> QED
  BY <1>3, <1>4

\* Lines after lines are lines.
LEMMA LinesAfterLines ==
  ASSUME NEW q \in Seq(Pieces), NEW r \in Seq(Pieces), InLines(q), InLines(r)
  PROVE  /\ q \o r \in Seq(Pieces) /\ InLines(q \o r)
         /\ \A i \in 1..Len(q \o r) :
              \/ \E j \in 1..Len(q) : (q \o r)[i] = q[j]
              \/ \E j \in 1..Len(r) : (q \o r)[i] = r[j]
         /\ \A j \in 1..Len(q) : \E i \in 1..Len(q \o r) : (q \o r)[i] = q[j]
         /\ \A j \in 1..Len(r) : \E i \in 1..Len(q \o r) : (q \o r)[i] = r[j]
<1> DEFINE u == q \o r
<1>1. PICK m \in Nat, n \in Nat : m = Len(q) /\ n = Len(r)
  BY LenProperties
<1>2. /\ u \in Seq(Pieces) /\ Len(u) = m + n
      /\ \A i \in 1..(m + n) : u[i] = IF i <= m THEN q[i] ELSE r[i - m]
  BY <1>1, ConcatProperties
<1> HIDE DEF u
<1>3. InLines(u)
  <2> SUFFICES ASSUME NEW i \in 1..(m + n), u[i].tok # NL
               PROVE  i + 1 \in 1..(m + n) /\ u[i + 1].tok = NL
    BY <1>2 DEF InLines
  <2>1. CASE i <= m
    <3>1. i \in 1..m /\ u[i] = q[i]
      BY <1>2, <2>1
    <3>2. i + 1 \in 1..m /\ q[i + 1].tok = NL
      BY <1>1, <3>1 DEF InLines
    <3> QED
      BY <1>2, <3>2
  <2>2. CASE ~(i <= m)
    <3>1. i - m \in 1..n /\ u[i] = r[i - m]
      BY <1>2, <2>2
    <3>2. (i - m) + 1 \in 1..n /\ r[(i - m) + 1].tok = NL
      BY <1>1, <3>1 DEF InLines
    <3>3. (i + 1) - m = (i - m) + 1 /\ ~(i + 1 <= m) /\ i + 1 \in 1..(m + n)
      BY <2>2, <3>2
    <3>4. u[i + 1] = r[(i + 1) - m]
      BY <1>2, <3>3
    <3> QED
      BY <3>2, <3>3, <3>4
  <2> QED
    BY <2>1, <2>2
<1>4. ASSUME NEW i \in 1..(m + n)
      PROVE  (\E j \in 1..m : u[i] = q[j]) \/ (\E j \in 1..n : u[i] = r[j])
  <2>1. CASE i <= m
    BY <1>2, <2>1
  <2>2. CASE ~(i <= m)
    <3>1. i - m \in 1..n /\ u[i] = r[i - m]
      BY <1>2, <2>2
    <3> QED
      BY <3>1
  <2> QED
    BY <2>1, <2>2
<1>5. ASSUME NEW j \in 1..m PROVE \E i \in 1..(m + n) : u[i] = q[j]
  <2>1. j \in 1..(m + n) /\ u[j] = q[j]
    BY <1>2
  <2> QED
    BY <2>1
<1>6. ASSUME NEW j \in 1..n PROVE \E i \in 1..(m + n) : u[i] = r[j]
  <2>1. j + m \in 1..(m + n) /\ ~(j + m <= m) /\ (j + m) - m = j
    OBVIOUS
  <2>2. u[j + m] = r[j]
    BY <1>2, <2>1
  <2> QED
    BY <2>1, <2>2
<1> QED
  BY <1>1, <1>2, <1>3, <1>4, <1>5, <1>6 DEF u

\* The announcements of the subscribers in q are lines, one for each.
LEMMA JoinsAreLines ==
  ASSUME NEW fd \in Fds, NEW S \in SUBSET Conns, NEW n \in Nat, NEW q \in [1..n -> S]
  PROVE  LET r == JoinLines(fd, q)
         IN /\ r \in Seq(Pieces) /\ InLines(r)
            /\ \A i \in 1..Len(r) :
                 r[i].fd = fd /\ (r[i].tok = NL \/ \E j \in 1..n : r[i].tok = Join(q[j]))
            /\ \A j \in 1..n : \E i \in 1..Len(r) : r[i].tok = Join(q[j])
<1> DEFINE r == JoinLines(fd, q)
           e(i) == [fd |-> fd, tok |-> IF i % 2 = 1 THEN Join(q[(i + 1) \div 2]) ELSE NL, locked |-> TRUE]
<1>1. q \in Seq(S) /\ Len(q) = n
  OBVIOUS
<1>2. r = [i \in 1..(2 * n) |-> e(i)]
  BY <1>1 DEF JoinLines
<1>3. \A c \in Conns : Join(c) \in Tokens /\ Join(c) # NL
  BY ServerAssumption DEF Join, Tokens, NL, Conns
<1>4. NL \in Tokens
  BY ServerAssumption DEF NL, Tokens
<1>5. ASSUME NEW i \in 1..(2 * n), i % 2 = 1
      PROVE  (i + 1) \div 2 \in 1..n /\ i + 1 \in 1..(2 * n) /\ (i + 1) % 2 # 1
  BY <1>5
<1>6. ASSUME NEW i \in 1..(2 * n) PROVE e(i) \in Pieces
  <2>1. CASE i % 2 = 1
    BY <1>3, <1>5, <2>1 DEF Pieces
  <2>2. CASE i % 2 # 1
    BY <1>4, <2>2 DEF Pieces
  <2> QED
    BY <2>1, <2>2
<1>7. 2 * n \in Nat
  OBVIOUS
<1>8. r \in Seq(Pieces) /\ Len(r) = 2 * n /\ \A i \in 1..(2 * n) : r[i] = e(i)
  BY <1>2, <1>6, <1>7
<1> HIDE DEF r
<1>9. InLines(r)
  <2> SUFFICES ASSUME NEW i \in 1..(2 * n), r[i].tok # NL
               PROVE  i + 1 \in 1..(2 * n) /\ r[i + 1].tok = NL
    BY <1>8 DEF InLines
  <2>1. i % 2 = 1
    BY <1>8
  <2>2. i + 1 \in 1..(2 * n) /\ (i + 1) % 2 # 1
    BY <1>5, <2>1
  <2> QED
    BY <1>8, <2>2
<1>10. ASSUME NEW i \in 1..(2 * n)
       PROVE  r[i].fd = fd /\ (r[i].tok = NL \/ \E j \in 1..n : r[i].tok = Join(q[j]))
  <2>1. CASE i % 2 = 1
    <3>1. PICK j \in 1..n : j = (i + 1) \div 2
      BY <1>5, <2>1
    <3>2. r[i] = [fd |-> fd, tok |-> Join(q[j]), locked |-> TRUE]
      BY <1>8, <2>1, <3>1
    <3> QED
      BY <3>2
  <2>2. CASE i % 2 # 1
    <3>1. r[i] = [fd |-> fd, tok |-> NL, locked |-> TRUE]
      BY <1>8, <2>2
    <3> QED
      BY <3>1
  <2> QED
    BY <2>1, <2>2
<1>11. ASSUME NEW j \in 1..n PROVE \E i \in 1..(2 * n) : r[i].tok = Join(q[j])
  <2>1. 2 * j - 1 \in 1..(2 * n) /\ (2 * j - 1) % 2 = 1 /\ ((2 * j - 1) + 1) \div 2 = j
    OBVIOUS
  <2>2. r[2 * j - 1].tok = Join(q[j])
    BY <1>8, <2>1
  <2> QED
    BY <2>1, <2>2
<1> QED
  BY <1>8, <1>9, <1>10, <1>11 DEF r

\* What is left to write after a write, done or given up: lines without the
\* first piece, and without the newline of a payload given up.
Left(q) == {Tail(q), AfterFailure(q)}

\* What is left consists of whole lines, of pieces that were there before.
LEMMA LeftAreLines ==
  ASSUME NEW q \in Seq(Pieces), q # <<>>, InLines(q), NEW r \in Left(q)
  PROVE  /\ 1 \in 1..Len(q) /\ Head(q) = q[1]
         /\ r \in Seq(Pieces) /\ InLines(r) /\ Len(r) < Len(q)
         /\ \A i \in 1..Len(r) : \E j \in 1..Len(q) : j > i /\ r[i] = q[j]
         /\ \A j \in 1..Len(q) :
              j = 1 \/ (j = 2 /\ q[j].tok = NL) \/ \E i \in 1..Len(r) : r[i] = q[j]
<1>1. PICK n \in Nat \ {0} : n = Len(q)
  BY EmptySeq
<1>2. Head(q) = q[1] /\ 1 \in 1..n
  BY <1>1
<1>3. /\ Tail(q) \in Seq(Pieces) /\ Len(Tail(q)) = n - 1
      /\ \A i \in 1..(n - 1) : Tail(q)[i] = q[i + 1]
  BY <1>1, HeadTailProperties
<1>4. CASE q[1].tok # NL /\ r = Tail(Tail(q))
  <2>1. n >= 2 /\ q[2].tok = NL
    BY <1>1, <1>2, <1>4 DEF InLines
  <2>2. Len(Tail(q)) \in Nat \ {0}
    BY <1>3, <2>1
  <2>3. Tail(q) # <<>>
    BY <2>2, EmptySeq
  <2>4. /\ r \in Seq(Pieces) /\ Len(r) = Len(Tail(q)) - 1
        /\ \A i \in 1..Len(r) : r[i] = Tail(q)[i + 1]
    BY <1>3, <1>4, <2>3, HeadTailProperties
  <2>5. Len(r) = n - 2 /\ \A i \in 1..(n - 2) : r[i] = q[i + 2]
    <3>1. Len(r) = n - 2
      BY <1>3, <2>4
    <3>2. ASSUME NEW i \in 1..(n - 2) PROVE r[i] = q[i + 2]
      <4>1. i + 1 \in 1..(n - 1) /\ (i + 1) + 1 = i + 2
        BY <2>1
      <4> QED
        BY <1>3, <2>4, <3>1, <4>1
    <3> QED
      BY <3>1, <3>2
  <2>6. InLines(r)
    <3> SUFFICES ASSUME NEW i \in 1..(n - 2), r[i].tok # NL
                 PROVE  i + 1 \in 1..(n - 2) /\ r[i + 1].tok = NL
      BY <2>5 DEF InLines
    <3>1. i + 2 \in 1..n /\ q[i + 2].tok # NL
      BY <2>1, <2>5
    <3>2. (i + 2) + 1 \in 1..n /\ q[(i + 2) + 1].tok = NL
      BY <1>1, <3>1 DEF InLines
    <3>3. i + 1 \in 1..(n - 2) /\ (i + 1) + 2 = (i + 2) + 1
      BY <3>2
    <3> QED
      BY <2>5, <3>2, <3>3
  <2>7. ASSUME NEW i \in 1..(n - 2) PROVE \E j \in 1..n : j > i /\ r[i] = q[j]
    <3>1. i + 2 \in 1..n /\ i + 2 > i
      OBVIOUS
    <3> QED
      BY <2>5, <3>1
  <2>8. ASSUME NEW j \in 1..n, j # 1, j # 2 PROVE \E i \in 1..(n - 2) : r[i] = q[j]
    <3>1. j - 2 \in 1..(n - 2) /\ (j - 2) + 2 = j
      BY <2>8
    <3>2. r[j - 2] = q[j]
      BY <2>5, <3>1
    <3> QED
      BY <3>1, <3>2
  <2>9. \A j \in 1..n : j = 1 \/ (j = 2 /\ q[j].tok = NL) \/ \E i \in 1..(n - 2) : r[i] = q[j]
    BY <2>1, <2>8
  <2>10. n - 2 < n
    OBVIOUS
  <2> QED
    BY <1>1, <1>2, <2>4, <2>5, <2>6, <2>7, <2>9, <2>10
<1>5. CASE r = Tail(q)
  <2>1. InLines(r)
    <3> SUFFICES ASSUME NEW i \in 1..(n - 1), r[i].tok # NL
                 PROVE  i + 1 \in 1..(n - 1) /\ r[i + 1].tok = NL
      BY <1>3, <1>5 DEF InLines
    <3>1. i + 1 \in 1..n /\ q[i + 1].tok # NL
      BY <1>3, <1>5
    <3>2. (i + 1) + 1 \in 1..n /\ q[(i + 1) + 1].tok = NL
      BY <1>1, <3>1 DEF InLines
    <3>3. i + 1 \in 1..(n - 1)
      BY <3>2
    <3> QED
      BY <1>3, <1>5, <3>2, <3>3
  <2>2. ASSUME NEW i \in 1..(n - 1) PROVE \E j \in 1..n : j > i /\ r[i] = q[j]
    <3>1. i + 1 \in 1..n /\ i + 1 > i
      OBVIOUS
    <3> QED
      BY <1>3, <1>5, <3>1
  <2>3. ASSUME NEW j \in 1..n, j # 1 PROVE \E i \in 1..(n - 1) : r[i] = q[j]
    <3>1. j - 1 \in 1..(n - 1) /\ (j - 1) + 1 = j
      BY <2>3
    <3>2. r[j - 1] = q[j]
      BY <1>3, <1>5, <3>1
    <3> QED
      BY <3>1, <3>2
  <2>4. \A j \in 1..n : j = 1 \/ \E i \in 1..(n - 1) : r[i] = q[j]
    BY <2>3
  <2>5. n - 1 < n
    OBVIOUS
  <2> QED
    BY <1>1, <1>2, <1>3, <1>5, <2>1, <2>2, <2>4, <2>5
<1> QED
  BY <1>2, <1>4, <1>5 DEF Left, AfterFailure

-----------------------------------------------------------------------------
(* What a handler of the epoll thread leaves to be written *)

\* Lines of the server's own, about ids up to n.
Notices(q, n) ==
  q \in Seq(Pieces) /\ InLines(q) /\ \A i \in 1..Len(q) : q[i].tok.kind # "line" /\ q[i].tok.id <= n

\* The server's texts are texts.
LEMMA TextsTyped ==
  /\ NL \in Tokens /\ NL.kind = "nl" /\ NL.id = 0
  /\ \A c \in Conns :
       /\ Welcome(c) \in Tokens /\ Welcome(c).kind = "welcome" /\ Welcome(c).id = c
       /\ Join(c) \in Tokens /\ Join(c).kind = "subscriber_join" /\ Join(c).id = c
       /\ Leave(c) \in Tokens /\ Leave(c).kind = "subscriber_leave" /\ Leave(c).id = c
BY ServerAssumption DEF NL, Welcome, Join, Leave, Tokens, Conns

\* A new publisher is welcomed and told the stream's subscribers.
LEMMA PublisherWrites ==
  ASSUME TypeOK, Named, NEW fd \in Fds, NEW s \in Streams, RegisterPublisher(fd, s)
  PROVE  \E q :
           /\ writes' = [writes EXCEPT ![Epoll] = q] /\ Notices(q, g_peer_seq')
           /\ \A i \in 1..Len(q) : q[i].fd = fd /\ q[i].tok.kind # "subscriber_leave"
           /\ \A i \in 1..Len(q) : q[i].tok.kind = "subscriber_join" => q[i].tok.id \in g_subscribers[s]
           /\ \A c \in g_subscribers[s] :
                \E i \in 1..Len(q) : q[i].tok.kind = "subscriber_join" /\ q[i].tok.id = c
<1> DEFINE S == g_subscribers[s]
           n == Cardinality(S)
           c == g_peer_seq + 1
<1>1. c \in Conns /\ g_peer_seq' = c /\ g_peer_seq \in Nat
  BY DEF RegisterPublisher, TypeOK
<1>2. S \in SUBSET Conns /\ \A d \in S : d <= g_peer_seq
  BY DEF TypeOK, Named
<1>3. n \in Nat
  <2>1. IsFiniteSet(Conns)
    BY ServerAssumption, FS_Interval DEF Conns
  <2>2. IsFiniteSet(S)
    BY <1>2, <2>1, FS_Subset
  <2> QED
    BY <2>2, FS_CardinalityType
<1>4. PICK o \in Orders(S) :
        writes' = [writes EXCEPT ![Epoll] = SendJsonLine(fd, Welcome(c), FALSE) \o JoinLines(fd, o)]
  BY DEF RegisterPublisher
<1>5. o \in [1..n -> S] /\ \A d \in S : \E i \in 1..n : o[i] = d
  BY <1>4 DEF Orders
<1> DEFINE a == SendJsonLine(fd, Welcome(c), FALSE)
           b == JoinLines(fd, o)
<1>6. /\ a \in Seq(Pieces) /\ InLines(a)
      /\ \A i \in 1..Len(a) : a[i].fd = fd /\ a[i].tok \in {Welcome(c), NL}
  <2>1. Welcome(c) \in Tokens /\ FALSE \in BOOLEAN
    BY <1>1, TextsTyped
  <2>2. /\ a \in Seq(Pieces) /\ InLines(a) /\ Len(a) = 2
        /\ a[1] = [fd |-> fd, tok |-> Welcome(c), locked |-> FALSE]
        /\ a[2] = [fd |-> fd, tok |-> NL, locked |-> FALSE]
    BY <2>1, SentIsLine
  <2> HIDE DEF a
  <2> QED
    BY <2>2
<1>7. /\ b \in Seq(Pieces) /\ InLines(b)
      /\ \A i \in 1..Len(b) : b[i].fd = fd /\ (b[i].tok = NL \/ \E j \in 1..n : b[i].tok = Join(o[j]))
      /\ \A j \in 1..n : \E i \in 1..Len(b) : b[i].tok = Join(o[j])
  BY <1>2, <1>3, <1>5, JoinsAreLines, ZenonT(30)
<1>8. /\ a \o b \in Seq(Pieces) /\ InLines(a \o b)
      /\ \A i \in 1..Len(a \o b) :
           \/ \E j \in 1..Len(a) : (a \o b)[i] = a[j]
           \/ \E j \in 1..Len(b) : (a \o b)[i] = b[j]
      /\ \A j \in 1..Len(b) : \E i \in 1..Len(a \o b) : (a \o b)[i] = b[j]
  BY <1>6, <1>7, LinesAfterLines
<1>9. PICK q : q = a \o b
  OBVIOUS
<1> HIDE DEF a, b, S, n
<1>10. ASSUME NEW i \in 1..Len(q)
       PROVE  q[i].fd = fd /\ (q[i].tok \in {Welcome(c), NL} \/ \E d \in S : q[i].tok = Join(d))
  <2>1. CASE \E j \in 1..Len(a) : q[i] = a[j]
    BY <1>6, <2>1
  <2>2. CASE \E j \in 1..Len(b) : q[i] = b[j]
    <3>1. PICK j \in 1..Len(b) : q[i] = b[j]
      BY <2>2
    <3>2. b[j].fd = fd /\ (b[j].tok = NL \/ \E h \in 1..n : b[j].tok = Join(o[h]))
      BY <1>7
    <3>3. \A h \in 1..n : o[h] \in S
      BY <1>5
    <3> QED
      BY <3>1, <3>2, <3>3
  <2> QED
    BY <1>8, <1>9, <2>1, <2>2
<1>11. ASSUME NEW i \in 1..Len(q)
       PROVE  /\ q[i].tok.kind # "line" /\ q[i].tok.kind # "subscriber_leave" /\ q[i].tok.id <= c
              /\ q[i].tok.kind = "subscriber_join" => q[i].tok.id \in S
  <2>1. CASE q[i].tok \in {Welcome(c), NL}
    BY <1>1, <2>1, TextsTyped
  <2>2. ASSUME NEW d \in S, q[i].tok = Join(d)
        PROVE  /\ q[i].tok.kind # "line" /\ q[i].tok.kind # "subscriber_leave" /\ q[i].tok.id <= c
               /\ q[i].tok.kind = "subscriber_join" => q[i].tok.id \in S
    <3>1. d \in Conns /\ d <= c
      BY <1>1, <1>2 DEF Conns
    <3> QED
      BY <2>2, <3>1, TextsTyped
  <2> QED
    BY <1>10, <2>1, <2>2
<1>12. ASSUME NEW d \in S
       PROVE  \E i \in 1..Len(q) : q[i].tok.kind = "subscriber_join" /\ q[i].tok.id = d
  <2>1. PICK j \in 1..n : o[j] = d
    BY <1>5
  <2>2. PICK i \in 1..Len(b) : b[i].tok = Join(d)
    BY <1>7, <2>1
  <2>3. PICK h \in 1..Len(q) : q[h].tok = Join(d)
    BY <1>8, <1>9, <2>2
  <2>4. d \in Conns
    BY <1>2
  <2> QED
    BY <2>3, <2>4, TextsTyped
<1>13. Notices(q, g_peer_seq')
  BY <1>1, <1>8, <1>9, <1>11 DEF Notices
<1>14. writes' = [writes EXCEPT ![Epoll] = q]
  BY <1>4, <1>9 DEF a, b
<1>15. /\ \A i \in 1..Len(q) : q[i].fd = fd /\ q[i].tok.kind # "subscriber_leave"
       /\ \A i \in 1..Len(q) : q[i].tok.kind = "subscriber_join" => q[i].tok.id \in g_subscribers[s]
       /\ \A d \in g_subscribers[s] :
            \E i \in 1..Len(q) : q[i].tok.kind = "subscriber_join" /\ q[i].tok.id = d
  BY <1>10, <1>11, <1>12 DEF S
<1> QED
  BY <1>13, <1>14, <1>15, Zenon

\* A new subscriber is welcomed and announced to the publisher.
LEMMA SubscriberWrites ==
  ASSUME TypeOK, NEW fd \in Fds, NEW s \in Streams, RegisterSubscriber(fd, s)
  PROVE  \E q :
           /\ writes' = [writes EXCEPT ![Epoll] = q] /\ Notices(q, g_peer_seq')
           /\ \A i \in 1..Len(q) :
                \/ q[i].fd = fd /\ q[i].tok.kind \in {"welcome", "nl"}
                \/ /\ g_publishers[s] # 0 /\ q[i].fd = g_publishers[s]
                   /\ q[i].tok.kind \in {"subscriber_join", "nl"}
                   /\ q[i].tok.kind = "subscriber_join" => q[i].tok.id = g_peer_seq'
           /\ g_publishers[s] # 0 => \E i \in 1..Len(q) :
                q[i].fd = g_publishers[s] /\ q[i].tok.kind = "subscriber_join" /\ q[i].tok.id = g_peer_seq'
<1> DEFINE c == g_peer_seq + 1
           a == SendJsonLine(fd, Welcome(c), FALSE)
           b == ToPublisher(s, Join(c))
<1>1. c \in Conns /\ g_peer_seq' = c /\ g_peer_seq \in Nat /\ writes' = [writes EXCEPT ![Epoll] = a \o b]
  BY DEF RegisterSubscriber, TypeOK
<1>2. /\ a \in Seq(Pieces) /\ InLines(a)
      /\ \A i \in 1..Len(a) : a[i].fd = fd /\ a[i].tok \in {Welcome(c), NL}
  <2>1. Welcome(c) \in Tokens /\ FALSE \in BOOLEAN
    BY <1>1, TextsTyped
  <2>2. /\ a \in Seq(Pieces) /\ InLines(a) /\ Len(a) = 2
        /\ a[1] = [fd |-> fd, tok |-> Welcome(c), locked |-> FALSE]
        /\ a[2] = [fd |-> fd, tok |-> NL, locked |-> FALSE]
    BY <2>1, SentIsLine
  <2> HIDE DEF a
  <2> QED
    BY <2>2
<1>3. /\ b \in Seq(Pieces) /\ InLines(b)
      /\ \A i \in 1..Len(b) : g_publishers[s] # 0 /\ b[i].fd = g_publishers[s] /\ b[i].tok \in {Join(c), NL}
      /\ g_publishers[s] # 0 => 1 \in 1..Len(b) /\ b[1].fd = g_publishers[s] /\ b[1].tok = Join(c)
  <2>1. CASE g_publishers[s] = 0
    <3>1. b = <<>>
      BY <2>1 DEF ToPublisher
    <3>2. <<>> \in Seq(Pieces) /\ Len(<<>>) = 0
      BY EmptySeq
    <3> HIDE DEF b
    <3>3. 1..Len(b) = {} /\ b \in Seq(Pieces)
      BY <3>1, <3>2
    <3> QED
      BY <2>1, <3>3 DEF InLines
  <2>2. CASE g_publishers[s] # 0
    <3>1. Join(c) \in Tokens /\ FALSE \in BOOLEAN /\ g_publishers[s] \in Fds
      BY <1>1, <2>2, TextsTyped DEF TypeOK, Fds
    <3>2. PICK f \in Fds, t \in Tokens : f = g_publishers[s] /\ t = Join(c)
      BY <3>1
    <3>3. b = SendJsonLine(f, t, FALSE)
      BY <2>2, <3>2 DEF ToPublisher
    <3>4. /\ b \in Seq(Pieces) /\ InLines(b) /\ Len(b) = 2
          /\ b[1] = [fd |-> f, tok |-> t, locked |-> FALSE]
          /\ b[2] = [fd |-> f, tok |-> NL, locked |-> FALSE]
      BY <3>1, <3>3, SentIsLine
    <3> HIDE DEF b
    <3> QED
      BY <2>2, <3>2, <3>4
  <2> QED
    BY <2>1, <2>2
<1>4. /\ a \o b \in Seq(Pieces) /\ InLines(a \o b)
      /\ \A i \in 1..Len(a \o b) :
           \/ \E j \in 1..Len(a) : (a \o b)[i] = a[j]
           \/ \E j \in 1..Len(b) : (a \o b)[i] = b[j]
      /\ \A j \in 1..Len(b) : \E i \in 1..Len(a \o b) : (a \o b)[i] = b[j]
  BY <1>2, <1>3, LinesAfterLines
<1>5. PICK q : q = a \o b
  OBVIOUS
<1> HIDE DEF a, b
<1>6. ASSUME NEW i \in 1..Len(q)
      PROVE  \/ q[i].fd = fd /\ q[i].tok \in {Welcome(c), NL}
             \/ g_publishers[s] # 0 /\ q[i].fd = g_publishers[s] /\ q[i].tok \in {Join(c), NL}
  <2>1. CASE \E j \in 1..Len(a) : q[i] = a[j]
    BY <1>2, <2>1, Zenon
  <2>2. CASE \E j \in 1..Len(b) : q[i] = b[j]
    <3>1. PICK j \in 1..Len(b) : q[i] = b[j]
      BY <2>2
    <3>2. /\ g_publishers[s] # 0
          /\ b[j].fd = g_publishers[s] /\ b[j].tok \in {Join(c), NL}
      BY <1>3, Zenon
    <3> QED
      BY <3>1, <3>2, Zenon
  <2> QED
    BY <1>4, <1>5, <2>1, <2>2, Zenon
<1>7. ASSUME NEW i \in 1..Len(q)
      PROVE  /\ q[i].tok.kind # "line" /\ q[i].tok.id <= c
             /\ \/ q[i].fd = fd /\ q[i].tok.kind \in {"welcome", "nl"}
                \/ /\ g_publishers[s] # 0 /\ q[i].fd = g_publishers[s]
                   /\ q[i].tok.kind \in {"subscriber_join", "nl"}
                   /\ q[i].tok.kind = "subscriber_join" => q[i].tok.id = c
  BY <1>1, <1>6, TextsTyped
<1>8. g_publishers[s] # 0 => \E i \in 1..Len(q) :
        q[i].fd = g_publishers[s] /\ q[i].tok.kind = "subscriber_join" /\ q[i].tok.id = c
  <2> SUFFICES ASSUME g_publishers[s] # 0
               PROVE  \E i \in 1..Len(q) :
                        q[i].fd = g_publishers[s] /\ q[i].tok.kind = "subscriber_join" /\ q[i].tok.id = c
    OBVIOUS
  <2>1. 1 \in 1..Len(b) /\ b[1].fd = g_publishers[s] /\ b[1].tok = Join(c)
    BY <1>3
  <2>2. PICK i \in 1..Len(q) : q[i] = b[1]
    BY <1>4, <1>5, <2>1
  <2> QED
    BY <1>1, <2>1, <2>2, TextsTyped
<1>9. Notices(q, g_peer_seq')
  BY <1>1, <1>4, <1>5, <1>7 DEF Notices
<1> QED
  BY <1>1, <1>5, <1>7, <1>8, <1>9

\* The publisher, unless it is the one that goes, is told who goes.
LEMMA LeaveWrites ==
  ASSUME TypeOK, Registered, Named, NEW fd \in Fds, RemoveClientResources(fd)
  PROVE  LET c == g_fd_to_info[fd]
             s == client[c].stream_id
         IN \E q :
              /\ writes' = [writes EXCEPT ![Epoll] = q] /\ Notices(q, g_peer_seq)
              /\ \A i \in 1..Len(q) :
                   /\ c # 0 /\ s \in Streams /\ g_publishers'[s] # 0 /\ q[i].fd = g_publishers'[s]
                   /\ q[i].tok.kind \in {"subscriber_leave", "nl"}
                   /\ q[i].tok.kind = "subscriber_leave" => q[i].tok.id = c
              /\ (c # 0 /\ g_publishers'[s] # 0) => \E i \in 1..Len(q) :
                   q[i].fd = g_publishers'[s] /\ q[i].tok.kind = "subscriber_leave" /\ q[i].tok.id = c
<1> DEFINE c == g_fd_to_info[fd]
           s == client[c].stream_id
<1>0. PICK P : P = g_publishers'
  OBVIOUS
<1>1. PICK q : /\ q = IF c # 0 /\ P[s] # 0 THEN SendJsonLine(P[s], Leave(c), FALSE) ELSE <<>>
               /\ writes' = [writes EXCEPT ![Epoll] = q]
  <2>1. P = IF c # 0 /\ client[c].role = "publisher" /\ g_publishers[s] = fd
            THEN [g_publishers EXCEPT ![s] = 0] ELSE g_publishers
    BY <1>0 DEF RemoveClientResources
  <2>2. writes' = [writes EXCEPT ![Epoll] =
                     IF c # 0 /\ P[s] # 0 THEN SendJsonLine(P[s], Leave(c), FALSE) ELSE <<>>]
    BY <2>1 DEF RemoveClientResources
  <2> QED
    BY <2>2
<1>2. CASE ~(c # 0 /\ P[s] # 0)
  <2>1. q = <<>> /\ <<>> \in Seq(Pieces) /\ Len(<<>>) = 0
    BY <1>1, <1>2, EmptySeq
  <2>2. Notices(q, g_peer_seq) /\ 1..Len(q) = {}
    <3>1. 1..Len(q) = {} /\ q \in Seq(Pieces)
      BY <2>1
    <3> QED
      BY <3>1 DEF Notices, InLines
  <2> QED
    BY <1>0, <1>1, <1>2, <2>1, <2>2
<1>3. CASE c # 0 /\ P[s] # 0
  <2>1. c \in Conns /\ c <= g_peer_seq
    BY <1>3 DEF TypeOK, Named, Conns
  <2>2. s \in Streams
    BY <2>1 DEF Registered
  <2>3. P \in [Streams -> 0..MaxFd]
    <3>1. P \in {g_publishers, [g_publishers EXCEPT ![s] = 0]}
      BY <1>0 DEF RemoveClientResources
    <3>2. g_publishers \in [Streams -> 0..MaxFd] /\ 0 \in 0..MaxFd
      BY ServerAssumption DEF TypeOK
    <3> QED
      BY <2>2, <3>1, <3>2
  <2>4. P[s] \in Fds /\ Leave(c) \in Tokens /\ FALSE \in BOOLEAN
    BY <1>3, <2>1, <2>2, <2>3, TextsTyped DEF Fds
  <2>5. /\ q \in Seq(Pieces) /\ InLines(q) /\ Len(q) = 2
        /\ q[1] = [fd |-> P[s], tok |-> Leave(c), locked |-> FALSE]
        /\ q[2] = [fd |-> P[s], tok |-> NL, locked |-> FALSE]
    BY <1>1, <1>3, <2>4, SentIsLine
  <2>6. ASSUME NEW i \in 1..Len(q) PROVE q[i].fd = P[s] /\ q[i].tok \in {Leave(c), NL}
    BY <2>5
  <2>7. Notices(q, g_peer_seq)
    BY <2>1, <2>5, <2>6, TextsTyped DEF Notices, TypeOK
  <2> HIDE DEF c, s
  <2>8. ASSUME NEW i \in 1..Len(q)
        PROVE  q[i].tok.kind \in {"subscriber_leave", "nl"} /\ (q[i].tok.kind = "subscriber_leave" => q[i].tok.id = c)
    BY <2>1, <2>6, TextsTyped
  <2>9. 1 \in 1..Len(q) /\ q[1].fd = P[s] /\ q[1].tok.kind = "subscriber_leave" /\ q[1].tok.id = c
    BY <2>1, <2>5, TextsTyped
  <2>10. \E i \in 1..Len(q) :
           q[i].fd = P[s] /\ q[i].tok.kind = "subscriber_leave" /\ q[i].tok.id = c
    BY <2>9
  <2>11. \A i \in 1..Len(q) :
           /\ c # 0 /\ s \in Streams /\ g_publishers'[s] # 0 /\ q[i].fd = g_publishers'[s]
           /\ q[i].tok.kind \in {"subscriber_leave", "nl"}
           /\ q[i].tok.kind = "subscriber_leave" => q[i].tok.id = c
    BY <1>0, <1>3, <2>2, <2>6, <2>8
  <2>12. \E i \in 1..Len(q) :
           q[i].fd = g_publishers'[s] /\ q[i].tok.kind = "subscriber_leave" /\ q[i].tok.id = c
    BY <1>0, <2>10
  <2>13. writes' = [writes EXCEPT ![Epoll] = q]
    BY <1>1
  <2> QED
    BY <2>7, <2>11, <2>12, <2>13, Zenon DEF c, s
<1> QED
  BY <1>2, <1>3

-----------------------------------------------------------------------------
(* The kinds of steps *)

\* The epoll thread removes a client: after end of file, a hangup, or because
\* the queue is full.
Removes(fd) ==
  /\ EpollIdle /\ g_clients[fd] # 0 /\ DisconnectClient(fd)
  /\ hups' \subseteq hups /\ sends' \in {sends, sends + 1}
  /\ UNCHANGED <<workers, server, history>>

\* A hangup on a descriptor without a client.
Closes(fd) ==
  /\ EpollIdle /\ g_clients[fd] = 0 /\ open' = [open EXCEPT ![fd] = 0] /\ ForgetClosed
  /\ hups' \subseteq hups
  /\ UNCHANGED <<g_peer_seq, client, dead, g_publishers, g_subscribers, g_fd_to_info, g_clients,
                 adding, writes, workers, server, sends, history>>

\* A line is queued.
Queues(fd, to) ==
  /\ g_clients[fd] # 0 /\ to \in 0..MaxConns /\ ~QueueFull(ShardOf(fd))
  /\ sends' = sends + 1
  /\ queues' = [queues EXCEPT ![ShardOf(fd)] =
                  Append(@, [from |-> g_clients[fd], to |-> to, n |-> sends + 1])]
  /\ UNCHANGED <<tables, adding, hups, held, workerExited, writes, server, received, history>>

\* Nothing moves but the batch, the signal and the threads that end.
Silent ==
  /\ hups' \subseteq Fds /\ workerExited' \subseteq Shards
  /\ server' \in {"up", "signalled", "draining", "down"} /\ (server' = "up" => server = "up")
  /\ UNCHANGED <<tables, adding, queues, held, writes, sends, received, history>>

\* Every step is of one of these kinds.
LEMMA StepKinds ==
  ASSUME TypeOK, [Next]_vars
  PROVE  \/ \E fd \in Fds, s \in Streams : RegisterPublisher(fd, s)
         \/ \E fd \in Fds, s \in Streams : RegisterSubscriber(fd, s)
         \/ \E fd \in Fds : Removes(fd)
         \/ \E fd \in Fds : Closes(fd)
         \/ \E fd \in Fds, to \in 0..MaxConns : Queues(fd, to)
         \/ EpollAdd
         \/ \E k \in Shards : TakeLine(k)
         \/ \E k \in Shards : Route(k)
         \/ \E t \in Threads : WriteOk(t)
         \/ \E t \in Threads : WriteBadFd(t)
         \/ \E t \in Threads : WriteTimesOut(t)
         \/ Silent
<1>1. ASSUME NEW fd \in Fds, ReadEnds(fd) PROVE Removes(fd)
  BY <1>1 DEF ReadEnds, Removes, workers, history
<1>2. ASSUME NEW fd \in Fds, HandleHup(fd) PROVE Removes(fd) \/ Closes(fd)
  BY <1>2 DEF HandleHup, Removes, Closes, workers, history
<1>3. ASSUME NEW fd \in Fds, NEW to \in 0..MaxConns, ReadLine(fd, to) PROVE Removes(fd) \/ Queues(fd, to)
  BY <1>3 DEF ReadLine, Removes, Queues, workers, history
<1>4. ASSUME NEW batch \in SUBSET Fds, EpollWait(batch) PROVE Silent
  BY <1>4 DEF EpollWait, Silent, TypeOK, workers
<1>5. ASSUME Signal \/ LoopEnds \/ ServerExits \/ Stopped PROVE Silent
  BY <1>5 DEF Signal, LoopEnds, ServerExits, Stopped, Silent, TypeOK, workers, vars
<1>6. ASSUME NEW k \in Shards, WorkerExit(k) PROVE Silent
  BY <1>6 DEF WorkerExit, Silent, TypeOK
<1>7. ASSUME UNCHANGED vars PROVE Silent
  BY <1>7 DEF Silent, TypeOK, workers, vars
<1>8. ASSUME EpollStep
      PROVE  \/ \E fd \in Fds, s \in Streams : RegisterPublisher(fd, s)
             \/ \E fd \in Fds, s \in Streams : RegisterSubscriber(fd, s)
             \/ \E fd \in Fds : Removes(fd)
             \/ \E fd \in Fds : Closes(fd)
             \/ \E fd \in Fds, to \in 0..MaxConns : Queues(fd, to)
             \/ EpollAdd
             \/ Silent
  BY <1>1, <1>2, <1>3, <1>4, <1>8, Zenon DEF EpollStep
<1>9. ASSUME NEW t \in Threads, WriteStep(t) PROVE WriteOk(t) \/ WriteBadFd(t) \/ WriteTimesOut(t)
  BY <1>9 DEF WriteStep
<1>10. ASSUME NEW k \in Shards, WorkerStep(k) PROVE TakeLine(k) \/ Route(k) \/ WriteStep(k)
  BY <1>10 DEF WorkerStep
<1>11. Epoll \in Threads /\ \A k \in Shards : k \in Threads
  BY ThreadsAre
<1>12. CASE UNCHANGED vars
  BY <1>7, <1>12
<1>13. CASE EpollStep
  BY <1>8, <1>13, Zenon
<1>14. CASE WriteStep(Epoll)
  BY <1>9, <1>11, <1>14, Zenon
<1>15. CASE \E k \in Shards : WorkerStep(k) \/ WorkerExit(k)
  BY <1>6, <1>9, <1>10, <1>11, <1>15, Zenon
<1>16. CASE Signal \/ LoopEnds \/ ServerExits \/ Stopped
  BY <1>5, <1>16
<1> QED
  BY <1>12, <1>13, <1>14, <1>15, <1>16, Zenon DEF Next

\* A client that is removed, or a connection that is registered, changes the
\* tables; nobody else but a hangup and a failed epoll_ctl the kernel's.
LEMMA TablesNext ==
  ASSUME TypeOK, Registered, Named, [Next]_vars
  PROVE  TablesTyped'
<1> USE DEF TablesTyped
<1>1. ASSUME NEW fd \in Fds, NEW s \in Streams, RegisterPublisher(fd, s) PROVE TablesTyped'
  <2>1. g_peer_seq + 1 \in Conns /\ g_peer_seq' = g_peer_seq + 1 /\ fd \in 0..MaxFd
    BY <1>1 DEF RegisterPublisher, Fds
  <2>2. g_peer_seq' \in 0..MaxConns /\ adding' \in 0..MaxFd /\ hups' \subseteq Fds
    BY <1>1, <2>1 DEF RegisterPublisher, TypeOK, Conns
  <2>3. client' \in [Conns -> [fd : 0..MaxFd, role : {"none", "publisher", "subscriber"},
                               stream_id : Streams \cup {"none"}]]
    BY <1>1, <2>1 DEF RegisterPublisher, TypeOK
  <2>4. g_publishers' \in [Streams -> 0..MaxFd] /\ g_subscribers' \in [Streams -> SUBSET Conns]
    BY <1>1, <2>1 DEF RegisterPublisher, TypeOK
  <2>5. g_peer_seq + 1 \in 0..MaxConns /\ 0 \in 0..MaxConns
    BY <2>1, ServerAssumption DEF Conns
  <2>6. /\ g_fd_to_info' \in [Fds -> 0..MaxConns] /\ g_clients' \in [Fds -> 0..MaxConns]
        /\ open' \in [Fds -> 0..MaxConns]
    BY <1>1, <2>5 DEF RegisterPublisher, TypeOK
  <2>7. dead' \subseteq Conns
    <3>1. Replaced(s) \subseteq Fds
      BY DEF Replaced, TypeOK, Fds
    <3>2. \A f \in Fds : g_clients[f] # 0 => g_clients[f] \in Conns
      BY DEF TypeOK, Conns
    <3> QED
      BY <1>1, <3>1, <3>2 DEF RegisterPublisher, TypeOK
  <2> QED
    BY <2>2, <2>3, <2>4, <2>6, <2>7
<1>2. ASSUME NEW fd \in Fds, NEW s \in Streams, RegisterSubscriber(fd, s) PROVE TablesTyped'
  <2>1. g_peer_seq + 1 \in Conns /\ g_peer_seq' = g_peer_seq + 1 /\ fd \in 0..MaxFd
    BY <1>2 DEF RegisterSubscriber, Fds
  <2>2. g_peer_seq' \in 0..MaxConns /\ adding' \in 0..MaxFd /\ hups' \subseteq Fds /\ dead' \subseteq Conns
    BY <1>2, <2>1 DEF RegisterSubscriber, TypeOK, Conns
  <2>3. client' \in [Conns -> [fd : 0..MaxFd, role : {"none", "publisher", "subscriber"},
                               stream_id : Streams \cup {"none"}]]
    BY <1>2, <2>1 DEF RegisterSubscriber, TypeOK
  <2>4. g_publishers' \in [Streams -> 0..MaxFd] /\ g_subscribers' \in [Streams -> SUBSET Conns]
    BY <1>2, <2>1 DEF RegisterSubscriber, TypeOK
  <2>5. g_peer_seq + 1 \in 0..MaxConns
    BY <2>1 DEF Conns
  <2>6. /\ g_fd_to_info' \in [Fds -> 0..MaxConns] /\ g_clients' \in [Fds -> 0..MaxConns]
        /\ open' \in [Fds -> 0..MaxConns]
    BY <1>2, <2>5 DEF RegisterSubscriber, TypeOK
  <2> QED
    BY <2>2, <2>3, <2>4, <2>6
<1>3. ASSUME NEW fd \in Fds, Removes(fd) PROVE TablesTyped'
  <2> DEFINE c == g_fd_to_info[fd]
             s == client[c].stream_id
  <2>1. c # 0 => c \in Conns /\ s \in Streams
    BY DEF TypeOK, Named, Registered, Conns
  <2>2. /\ g_fd_to_info' \in [Fds -> 0..MaxConns] /\ open' \in [Fds -> 0..MaxConns]
        /\ g_clients' \in [Fds -> 0..MaxConns]
    BY <1>3, ServerAssumption DEF Removes, DisconnectClient, RemoveClientResources, TypeOK
  <2>3. /\ g_publishers' = g_publishers \/ (c # 0 /\ g_publishers' = [g_publishers EXCEPT ![s] = 0])
        /\ g_subscribers' = g_subscribers
             \/ (c # 0 /\ g_subscribers' = [g_subscribers EXCEPT ![s] = @ \ {c}])
    BY <1>3 DEF Removes, DisconnectClient, RemoveClientResources
  <2> HIDE DEF c, s
  <2>4. g_publishers' \in [Streams -> 0..MaxFd] /\ g_subscribers' \in [Streams -> SUBSET Conns]
    <3>1. /\ g_publishers \in [Streams -> 0..MaxFd] /\ g_subscribers \in [Streams -> SUBSET Conns]
          /\ 0 \in 0..MaxFd
      BY ServerAssumption DEF TypeOK
    <3>2. g_publishers' \in [Streams -> 0..MaxFd]
      BY <2>1, <2>3, <3>1
    <3>3. g_subscribers' \in [Streams -> SUBSET Conns]
      <4>1. CASE c # 0 /\ g_subscribers' = [g_subscribers EXCEPT ![s] = @ \ {c}]
        <5>1. g_subscribers[s] \ {c} \in SUBSET Conns
          BY <2>1, <3>1, <4>1
        <5> QED
          BY <3>1, <4>1, <5>1
      <4> QED
        BY <2>3, <3>1, <4>1
    <3> QED
      BY <3>2, <3>3
  <2>5. /\ UNCHANGED <<g_peer_seq, client, adding>> /\ hups' \subseteq hups
        /\ dead' = dead \cup {g_clients[fd]} /\ g_clients[fd] # 0
    BY <1>3 DEF Removes, DisconnectClient
  <2>6. dead' \subseteq Conns
    <3>1. g_clients[fd] \in 0..MaxConns /\ dead \subseteq Conns
      BY DEF TypeOK
    <3>2. g_clients[fd] \in Conns
      BY <2>5, <3>1, ServerAssumption DEF Conns
    <3> QED
      BY <2>5, <3>1, <3>2
  <2> QED
    BY <2>2, <2>4, <2>5, <2>6 DEF TypeOK
<1>4. ASSUME NEW fd \in Fds, Closes(fd) PROVE TablesTyped'
  <2>1. open' \in [Fds -> 0..MaxConns]
    BY <1>4, ServerAssumption DEF Closes, TypeOK
  <2> QED
    BY <1>4, <2>1 DEF Closes, TypeOK
<1>5. ASSUME EpollAdd PROVE TablesTyped'
  <2>1. open' \in [Fds -> 0..MaxConns] /\ adding' \in 0..MaxFd
    <3>1. open' = open \/ open' = [open EXCEPT ![adding] = 0]
      BY <1>5 DEF EpollAdd
    <3>2. 0 \in 0..MaxConns /\ 0 \in 0..MaxFd /\ open \in [Fds -> 0..MaxConns]
      BY ServerAssumption DEF TypeOK
    <3>3. open' \in [Fds -> 0..MaxConns]
      BY <3>1, <3>2
    <3> QED
      BY <1>5, <3>2, <3>3 DEF EpollAdd
  <2> QED
    BY <1>5, <2>1 DEF EpollAdd, TypeOK
<1>6. UNCHANGED <<tables, adding, hups>> => TablesTyped'
  BY DEF tables, TypeOK
<1>7. ASSUME \/ \E fd \in Fds, to \in 0..MaxConns : Queues(fd, to)
             \/ \E k \in Shards : TakeLine(k) \/ Route(k)
             \/ \E t \in Threads : WriteOk(t) \/ WriteBadFd(t) \/ WriteTimesOut(t)
      PROVE  TablesTyped'
  BY <1>6, <1>7 DEF Queues, TakeLine, Route, WriteOk, WriteBadFd, WriteTimesOut
<1>8. ASSUME Silent PROVE TablesTyped'
  BY <1>8 DEF Silent, tables, TypeOK
<1> QED
  BY <1>1, <1>2, <1>3, <1>4, <1>5, <1>7, <1>8, StepKinds, Zenon

\* Ids are given out once, and what was registered under one stays.
LEMMA IdsGrow ==
  ASSUME TypeOK, [Next]_vars
  PROVE  /\ g_peer_seq \in Nat /\ g_peer_seq' \in Nat /\ g_peer_seq <= g_peer_seq'
         /\ \A c \in Conns : c <= g_peer_seq => client'[c] = client[c]
<1>1. g_peer_seq \in Nat /\ client \in [Conns -> [fd : 0..MaxFd, role : {"none", "publisher", "subscriber"},
                                                  stream_id : Streams \cup {"none"}]]
  BY DEF TypeOK
<1>2. ASSUME NEW fd \in Fds, NEW s \in Streams, RegisterPublisher(fd, s) \/ RegisterSubscriber(fd, s)
      PROVE  g_peer_seq' = g_peer_seq + 1 /\ \A c \in Conns : c <= g_peer_seq => client'[c] = client[c]
  <2>1. \E r : g_peer_seq' = g_peer_seq + 1 /\ client' = [client EXCEPT ![g_peer_seq + 1] = r]
    BY <1>2 DEF RegisterPublisher, RegisterSubscriber
  <2> QED
    BY <1>1, <2>1 DEF Conns
<1>3. ASSUME ~(\E fd \in Fds, s \in Streams : RegisterPublisher(fd, s) \/ RegisterSubscriber(fd, s))
      PROVE  g_peer_seq' = g_peer_seq /\ client' = client
  <2>1. \/ \E fd \in Fds : Removes(fd)
        \/ \E fd \in Fds : Closes(fd)
        \/ \E fd \in Fds, to \in 0..MaxConns : Queues(fd, to)
        \/ EpollAdd
        \/ \E k \in Shards : TakeLine(k)
        \/ \E k \in Shards : Route(k)
        \/ \E t \in Threads : WriteOk(t)
        \/ \E t \in Threads : WriteBadFd(t)
        \/ \E t \in Threads : WriteTimesOut(t)
        \/ Silent
    BY <1>3, StepKinds, Zenon
  <2> QED
    BY <2>1 DEF Removes, DisconnectClient, Closes, Queues, EpollAdd, TakeLine, Route, WriteOk, WriteBadFd,
       WriteTimesOut, Silent, tables
<1> QED
  BY <1>1, <1>2, <1>3

\* Each descriptor's Client is the one that was registered on it.
LEMMA RegisteredNext ==
  ASSUME TypeOK, Registered, Named, [Next]_vars
  PROVE  Registered'
<1>1. ASSUME NEW fd \in Fds, NEW s \in Streams, RegisterPublisher(fd, s) \/ RegisterSubscriber(fd, s)
      PROVE  Registered'
  <2> DEFINE n == g_peer_seq + 1
  <2>1. /\ n \in Conns /\ g_peer_seq' = n /\ client'[n].fd = fd
        /\ client'[n].role \in {"publisher", "subscriber"} /\ client'[n].stream_id = s
    <3>1. n \in Conns /\ g_peer_seq' = n
      BY <1>1 DEF RegisterPublisher, RegisterSubscriber
    <3>2. PICK role \in {"publisher", "subscriber"} :
            client' = [client EXCEPT ![n] = [fd |-> fd, role |-> role, stream_id |-> s]]
      BY <1>1 DEF RegisterPublisher, RegisterSubscriber
    <3>3. client'[n] = [fd |-> fd, role |-> role, stream_id |-> s]
      BY <3>1, <3>2 DEF TypeOK
    <3> QED
      BY <3>1, <3>3
  <2>2. \A f \in Fds : g_clients'[f] \in {0, g_clients[f]} \/ (f = fd /\ g_clients'[f] = n)
    BY <1>1 DEF RegisterPublisher, RegisterSubscriber, TypeOK
  <2>3. ASSUME NEW c \in Conns, c <= g_peer_seq'
        PROVE  /\ client'[c].fd \in Fds /\ client'[c].role \in {"publisher", "subscriber"}
               /\ client'[c].stream_id \in Streams
    <3>1. CASE c = n
      BY <2>1, <3>1
    <3>2. CASE c # n
      <4>1. c <= g_peer_seq
        BY <2>1, <2>3, <3>2, IdsGrow DEF Conns
      <4> QED
        BY <4>1, IdsGrow DEF Registered
    <3> QED
      BY <3>1, <3>2
  <2>4. ASSUME NEW f \in Fds, g_clients'[f] # 0 PROVE client'[g_clients'[f]].fd = f
    <3>1. CASE g_clients'[f] = g_clients[f]
      <4>1. g_clients[f] \in Conns /\ g_clients[f] <= g_peer_seq
        BY <2>4, <3>1 DEF TypeOK, Named, Conns
      <4> QED
        BY <2>4, <3>1, <4>1, IdsGrow DEF Registered
    <3>2. CASE f = fd /\ g_clients'[f] = n
      BY <2>1, <3>2
    <3> QED
      BY <2>2, <2>4, <3>1, <3>2
  <2> HIDE DEF n
  <2> QED
    BY <2>3, <2>4 DEF Registered
<1>2. ASSUME UNCHANGED <<g_peer_seq, client>>, \A f \in Fds : g_clients'[f] \in {0, g_clients[f]}
      PROVE  Registered'
  BY <1>2 DEF Registered
<1>3. ASSUME NEW fd \in Fds, Removes(fd) PROVE Registered'
  <2>1. UNCHANGED <<g_peer_seq, client>> /\ \A f \in Fds : g_clients'[f] \in {0, g_clients[f]}
    BY <1>3 DEF Removes, DisconnectClient, TypeOK
  <2> QED
    BY <1>2, <2>1
<1>4. ASSUME UNCHANGED <<g_peer_seq, client, g_clients>> PROVE Registered'
  BY <1>4 DEF Registered
<1>5. ASSUME \/ \E fd \in Fds, to \in 0..MaxConns : Queues(fd, to)
             \/ \E fd \in Fds : Closes(fd)
             \/ \E k \in Shards : TakeLine(k) \/ Route(k)
             \/ \E t \in Threads : WriteOk(t) \/ WriteBadFd(t) \/ WriteTimesOut(t)
             \/ EpollAdd \/ Silent
      PROVE  UNCHANGED <<g_peer_seq, client, g_clients>>
  BY <1>5 DEF Queues, Closes, TakeLine, Route, WriteOk, WriteBadFd, WriteTimesOut, EpollAdd, Silent, tables
<1> QED
  BY <1>1, <1>3, <1>4, <1>5, StepKinds, Zenon

-----------------------------------------------------------------------------
(* What is written *)

\* A shard worker has looked up where its line goes.
RouteWrites(k) ==
  /\ held[k] # <<>> /\ held' = [held EXCEPT ![k] = <<>>]
  /\ \/ writes' = [writes EXCEPT ![k] = <<>>]
     \/ \E fd \in Fds : writes' = [writes EXCEPT ![k] = SendJsonLine(fd, Forward(Head(held[k])), FALSE)]

\* The target of a line of a registered client is a descriptor or none.
LEMMA RouteGoes ==
  ASSUME TypeOK, Registered, Named, NEW k \in Shards, held[k] # <<>>,
         Head(held[k]).from \in Conns, Head(held[k]).from <= g_peer_seq, Route(k)
  PROVE  RouteWrites(k)
<1>1. PICK line : line = Head(held[k])
  OBVIOUS
<1>2. client[line.from].stream_id \in Streams
  BY <1>1 DEF Registered
<1>3. Target(line) # 0 => Target(line) \in Fds
  <2>1. g_publishers[client[line.from].stream_id] \in 0..MaxFd
    BY <1>2 DEF TypeOK
  <2>2. ASSUME line.to \in g_subscribers[client[line.from].stream_id] PROVE client[line.to].fd \in 0..MaxFd
    BY <1>2, <2>2 DEF TypeOK
  <2> QED
    BY <2>1, <2>2, ServerAssumption DEF Target, Fds
<1>4. /\ writes' = [writes EXCEPT ![k] = IF Target(line) = 0 THEN <<>>
                                         ELSE SendJsonLine(Target(line), Forward(line), FALSE)]
      /\ held' = [held EXCEPT ![k] = <<>>]
  BY <1>1 DEF Route
<1>5. CASE Target(line) = 0
  BY <1>4, <1>5 DEF RouteWrites
<1>6. CASE Target(line) # 0
  <2>1. PICK fd \in Fds : fd = Target(line)
    BY <1>3, <1>6
  <2>2. writes' = [writes EXCEPT ![k] = SendJsonLine(fd, Forward(Head(held[k])), FALSE)]
    BY <1>1, <1>4, <1>6, <2>1
  <2> QED
    BY <1>4, <2>2 DEF RouteWrites
<1> QED
  BY <1>5, <1>6

\* Somebody writes the first of its pieces, or gives it up.
Writes(t) ==
  writes[t] # <<>> /\ \E r \in Left(writes[t]) : writes' = [writes EXCEPT ![t] = r]

\* A handler of the epoll thread leaves notices.
Tells == writes[Epoll] = <<>> /\ \E q : writes' = [writes EXCEPT ![Epoll] = q] /\ Notices(q, g_peer_seq')

\* What happens to the pieces and to the lines popped.
LEMMA WriteKinds ==
  ASSUME TypeOK, Registered, Named, [Next]_vars,
         \A k \in Shards : held[k] # <<>> => Head(held[k]).from \in Conns /\ Head(held[k]).from <= g_peer_seq
  PROVE  \/ Tells /\ UNCHANGED held
         \/ \E t \in Threads : Writes(t) /\ UNCHANGED <<queues, held, sends>>
         \/ \E k \in Shards : RouteWrites(k) /\ UNCHANGED <<queues, sends, received>>
         \/ \E k \in Shards : TakeLine(k)
         \/ UNCHANGED <<writes, held>>
<1>1. ASSUME NEW fd \in Fds, NEW s \in Streams, RegisterPublisher(fd, s) PROVE Tells /\ UNCHANGED held
  <2>1. \E q : writes' = [writes EXCEPT ![Epoll] = q] /\ Notices(q, g_peer_seq')
    BY <1>1, PublisherWrites, Zenon
  <2> QED
    BY <1>1, <2>1 DEF Tells, RegisterPublisher, EpollIdle, workers
<1>2. ASSUME NEW fd \in Fds, NEW s \in Streams, RegisterSubscriber(fd, s) PROVE Tells /\ UNCHANGED held
  <2>1. \E q : writes' = [writes EXCEPT ![Epoll] = q] /\ Notices(q, g_peer_seq')
    BY <1>2, SubscriberWrites, Zenon
  <2> QED
    BY <1>2, <2>1 DEF Tells, RegisterSubscriber, EpollIdle, workers
<1>3. ASSUME NEW fd \in Fds, Removes(fd) PROVE Tells /\ UNCHANGED held
  <2>1. RemoveClientResources(fd) /\ g_peer_seq' = g_peer_seq /\ writes[Epoll] = <<>> /\ UNCHANGED held
    BY <1>3 DEF Removes, DisconnectClient, EpollIdle, workers
  <2>2. \E q : writes' = [writes EXCEPT ![Epoll] = q] /\ Notices(q, g_peer_seq)
    BY <2>1, LeaveWrites, Zenon
  <2> QED
    BY <2>1, <2>2 DEF Tells
<1>4. ASSUME NEW t \in Threads, WriteOk(t) \/ WriteBadFd(t) \/ WriteTimesOut(t)
      PROVE  Writes(t) /\ UNCHANGED <<queues, held, sends>>
  BY <1>4 DEF WriteOk, WriteBadFd, WriteTimesOut, Writes, Left, workers
<1>5. ASSUME NEW k \in Shards, Route(k) PROVE RouteWrites(k) /\ UNCHANGED <<queues, sends, received>>
  <2>1. held[k] # <<>> /\ UNCHANGED <<queues, sends, received>>
    BY <1>5 DEF Route
  <2> QED
    BY <1>5, <2>1, RouteGoes
<1>6. ASSUME \/ \E fd \in Fds, to \in 0..MaxConns : Queues(fd, to)
             \/ \E fd \in Fds : Closes(fd)
             \/ EpollAdd \/ Silent
      PROVE  UNCHANGED <<writes, held>>
  BY <1>6 DEF Queues, Closes, EpollAdd, Silent, workers
<1> QED
  BY <1>1, <1>2, <1>3, <1>4, <1>5, <1>6, StepKinds, Zenon

\* The line a worker holds is a registered client's.
LEMMA HeldIsKnown ==
  ASSUME TypeOK, Numbered, NEW k \in Shards, held[k] # <<>>
  PROVE  /\ held[k] \in Seq(Lines) /\ Len(held[k]) \in Nat \ {0} /\ 1 \in 1..Len(held[k])
         /\ Head(held[k]) = held[k][1] /\ held[k][1] \in Lines
         /\ held[k][1].from \in Conns /\ held[k][1].from <= g_peer_seq
         /\ Forward(held[k][1]) \in Tokens
<1>1. held[k] \in Seq(Lines)
  BY DEF TypeOK
<1>2. Len(held[k]) \in Nat \ {0}
  BY <1>1, EmptySeq
<1>3. 1 \in 1..Len(held[k]) /\ Head(held[k]) = held[k][1]
  BY <1>1, <1>2
<1>4. held[k][1] \in Lines
  BY <1>1, <1>3, ElementOfSeq
<1>5. PICK c \in Conns, n \in Nat : c = held[k][1].from /\ n = held[k][1].n
  BY <1>4 DEF Lines
<1>6. InHands(k, c, n)
  BY <1>3, <1>5 DEF InHands, Routed
<1>7. c <= g_peer_seq
  BY <1>6 DEF Numbered
<1>8. Forward(held[k][1]) \in Tokens
  BY <1>5, ServerAssumption DEF Forward, Tokens, Conns
<1> QED
  BY <1>1, <1>2, <1>3, <1>4, <1>5, <1>7, <1>8

\* Hence every step treats pieces and popped lines in one of five ways.
LEMMA WriteSteps ==
  ASSUME TypeOK, Registered, Named, Numbered, [Next]_vars
  PROVE  \/ Tells /\ UNCHANGED held
         \/ \E t \in Threads : Writes(t) /\ UNCHANGED <<queues, held, sends>>
         \/ \E k \in Shards : RouteWrites(k) /\ UNCHANGED <<queues, sends, received>>
         \/ \E k \in Shards : TakeLine(k)
         \/ UNCHANGED <<writes, held>>
<1>1. \A k \in Shards : held[k] # <<>> => Head(held[k]).from \in Conns /\ Head(held[k]).from <= g_peer_seq
  <2> SUFFICES ASSUME NEW k \in Shards, held[k] # <<>>
               PROVE  Head(held[k]).from \in Conns /\ Head(held[k]).from <= g_peer_seq
    OBVIOUS
  <2>1. Head(held[k]) = held[k][1] /\ held[k][1].from \in Conns /\ held[k][1].from <= g_peer_seq
    BY HeldIsKnown
  <2> QED
    BY <2>1
<1> QED
  BY <1>1, WriteKinds, Zenon

\* Each thread writes whole lines.
LEMMA WritesNext ==
  ASSUME TypeOK, Registered, Named, Framed, Numbered, [Next]_vars
  PROVE  WritesTyped' /\ Framed'
<1>1. writes \in [Threads -> Seq(Pieces)] /\ \A t \in Threads : InLines(writes[t])
  BY DEF TypeOK, Framed, Pieces
<1>2. ASSUME NEW t \in Threads, NEW q \in Seq(Pieces), InLines(q), writes' = [writes EXCEPT ![t] = q]
      PROVE  WritesTyped' /\ Framed'
  <2>1. writes' \in [Threads -> Seq(Pieces)]
    BY <1>1, <1>2
  <2>2. ASSUME NEW u \in Threads PROVE InLines(writes'[u])
    <3>1. writes'[u] = q \/ writes'[u] = writes[u]
      BY <1>1, <1>2
    <3> QED
      BY <1>1, <1>2, <3>1
  <2> QED
    BY <2>1, <2>2 DEF WritesTyped, Framed, InLines
<1>3. CASE Tells
  BY <1>2, <1>3, ThreadsAre DEF Tells, Notices
<1>4. ASSUME NEW t \in Threads, Writes(t) PROVE WritesTyped' /\ Framed'
  <2>1. PICK r \in Left(writes[t]) : writes' = [writes EXCEPT ![t] = r] /\ writes[t] # <<>>
    BY <1>4 DEF Writes
  <2>2. r \in Seq(Pieces) /\ InLines(r)
    BY <1>1, <2>1, LeftAreLines
  <2> QED
    BY <1>2, <2>1, <2>2
<1>5. ASSUME NEW k \in Shards, RouteWrites(k) PROVE WritesTyped' /\ Framed'
  <2>1. k \in Threads /\ held[k] # <<>>
    BY <1>5, ThreadsAre DEF RouteWrites
  <2>2. CASE writes' = [writes EXCEPT ![k] = <<>>]
    <3>1. <<>> \in Seq(Pieces) /\ 1..Len(<<>>) = {}
      BY EmptySeq
    <3>2. InLines(<<>>)
      BY <3>1 DEF InLines
    <3> QED
      BY <1>2, <2>1, <2>2, <3>1, <3>2
  <2>3. ASSUME NEW fd \in Fds, writes' = [writes EXCEPT ![k] = SendJsonLine(fd, Forward(Head(held[k])), FALSE)]
        PROVE  WritesTyped' /\ Framed'
    <3>1. PICK tok \in Tokens : tok = Forward(Head(held[k]))
      BY <2>1, HeldIsKnown
    <3>2. SendJsonLine(fd, tok, FALSE) \in Seq(Pieces) /\ InLines(SendJsonLine(fd, tok, FALSE))
      BY SentIsLine
    <3> QED
      BY <1>2, <2>1, <2>3, <3>1, <3>2
  <2> QED
    BY <1>5, <2>2, <2>3 DEF RouteWrites
<1>6. ASSUME UNCHANGED writes PROVE WritesTyped' /\ Framed'
  BY <1>1, <1>6 DEF WritesTyped, Framed, InLines
<1>7. ASSUME NEW k \in Shards, TakeLine(k) PROVE WritesTyped' /\ Framed'
  BY <1>6, <1>7 DEF TakeLine
<1> QED
  BY <1>3, <1>4, <1>5, <1>6, <1>7, WriteSteps, Zenon

\* The workers write one line at a time.
LEMMA WorkersNext ==
  ASSUME TypeOK, Registered, Named, Framed, Workers, Numbered, [Next]_vars
  PROVE  Workers'
<1>1. /\ writes \in [Threads -> Seq(Pieces)] /\ \A t \in Threads : InLines(writes[t])
      /\ held \in [Shards -> Seq(Lines)]
  BY DEF TypeOK, Framed, Pieces
<1>2. OneLine(<<>>) /\ NoLine(<<>>) /\ Len(<<>>) = 0
  <2>1. Len(<<>>) = 0 /\ 1..Len(<<>>) = {}
    OBVIOUS
  <2> QED
    BY <2>1 DEF OneLine, NoLine
<1>3. SUFFICES /\ \A k \in Shards :
                    /\ Len(held'[k]) <= 1 /\ (held'[k] # <<>> => writes'[k] = <<>>)
                    /\ OneLine(writes'[k])
               /\ NoLine(writes'[Epoll])
  BY DEF Workers, OneLine, NoLine
<1> DEFINE Good == /\ \A k \in Shards :
                        /\ Len(held'[k]) <= 1 /\ (held'[k] # <<>> => writes'[k] = <<>>)
                        /\ OneLine(writes'[k])
                   /\ NoLine(writes'[Epoll])
<1>4. ASSUME Tells, UNCHANGED held PROVE Good
  <2>1. PICK q : writes' = [writes EXCEPT ![Epoll] = q] /\ NoLine(q)
    BY <1>4 DEF Tells, Notices, NoLine
  <2>2. writes'[Epoll] = q /\ \A k \in Shards : writes'[k] = writes[k]
    BY <1>1, <2>1, ThreadsAre
  <2> QED
    BY <1>4, <2>1, <2>2 DEF Workers
<1>5. ASSUME NEW t \in Threads, Writes(t), UNCHANGED held PROVE Good
  <2>1. PICK r \in Left(writes[t]) : writes' = [writes EXCEPT ![t] = r] /\ writes[t] # <<>>
    BY <1>5 DEF Writes
  <2>2. PICK q \in Seq(Pieces) : q = writes[t] /\ InLines(q) /\ q # <<>>
    BY <1>1, <2>1
  <2>3. /\ r \in Seq(Pieces) /\ Len(r) < Len(q)
        /\ \A i \in 1..Len(r) : \E j \in 1..Len(q) : j > i /\ r[i] = q[j]
    BY <2>1, <2>2, LeftAreLines
  <2>4. writes'[t] = r /\ \A u \in Threads : u # t => writes'[u] = writes[u]
    BY <1>1, <2>1
  <2>5. CASE t = Epoll
    <3>1. NoLine(r)
      BY <2>2, <2>3, <2>5 DEF Workers, NoLine
    <3>2. \A k \in Shards : writes'[k] = writes[k]
      BY <2>4, <2>5, ThreadsAre
    <3> QED
      BY <1>5, <2>4, <2>5, <3>1, <3>2 DEF Workers
  <2>6. CASE t \in Shards
    <3>1. OneLine(q) /\ held[t] = <<>>
      BY <2>2, <2>6 DEF Workers
    <3>2. Len(r) \in Nat /\ Len(q) \in Nat
      BY <2>2, <2>3, LenProperties
    <3>3. ASSUME NEW i \in 1..Len(r) PROVE r[i].tok.kind = "nl"
      <4>1. PICK j \in 1..Len(q) : j > i /\ r[i] = q[j]
        BY <2>3
      <4>2. j # 1
        BY <3>2, <4>1
      <4> QED
        BY <3>1, <4>1, <4>2 DEF OneLine
    <3>4. OneLine(r)
      BY <2>3, <3>1, <3>2, <3>3 DEF OneLine
    <3>5. writes'[Epoll] = writes[Epoll]
      BY <2>4, <2>6, ThreadsAre
    <3>6. \A k \in Shards : k # t => writes'[k] = writes[k]
      BY <2>4, ThreadsAre
    <3> QED
      BY <1>5, <2>4, <3>1, <3>4, <3>5, <3>6 DEF Workers
  <2> QED
    BY <2>5, <2>6, ThreadsAre
<1>6. ASSUME NEW k \in Shards, RouteWrites(k) PROVE Good
  <2>1. held'[k] = <<>> /\ (\A h \in Shards : h # k => held'[h] = held[h]) /\ held[k] # <<>>
    BY <1>1, <1>6 DEF RouteWrites
  <2>2. OneLine(writes'[k])
    <3>1. CASE writes' = [writes EXCEPT ![k] = <<>>]
      BY <1>1, <1>2, <3>1, ThreadsAre
    <3>2. ASSUME NEW fd \in Fds, writes' = [writes EXCEPT ![k] = SendJsonLine(fd, Forward(Head(held[k])), FALSE)]
          PROVE  OneLine(writes'[k])
      <4>1. PICK tok \in Tokens : tok = Forward(Head(held[k]))
        BY <2>1, HeldIsKnown
      <4>2. PICK q : q = SendJsonLine(fd, tok, FALSE)
        OBVIOUS
      <4>3. /\ Len(q) = 2 /\ q[1].tok = tok /\ q[2].tok = NL
        <5>1. /\ Len(q) = 2
              /\ q[1] = [fd |-> fd, tok |-> tok, locked |-> FALSE]
              /\ q[2] = [fd |-> fd, tok |-> NL, locked |-> FALSE]
          BY <4>2, SentIsLine
        <5> QED
          BY <5>1
      <4>4. tok.kind = "line" /\ tok.id \in Conns /\ NL.kind = "nl"
        <5>1. Head(held[k]) = held[k][1] /\ held[k][1].from \in Conns
          BY <2>1, HeldIsKnown
        <5> QED
          BY <4>1, <5>1 DEF Forward, NL
      <4>5. OneLine(q)
        BY <4>3, <4>4 DEF OneLine
      <4>6. writes'[k] = q
        BY <1>1, <3>2, <4>1, <4>2, ThreadsAre
      <4> QED
        BY <4>5, <4>6
    <3> QED
      BY <1>6, <3>1, <3>2 DEF RouteWrites
  <2>3. \A t \in Threads : t # k => writes'[t] = writes[t]
    BY <1>1, <1>6 DEF RouteWrites
  <2>4. writes'[Epoll] = writes[Epoll] /\ \A h \in Shards : h # k => writes'[h] = writes[h]
    BY <2>3, ThreadsAre
  <2> QED
    BY <1>2, <2>1, <2>2, <2>4 DEF Workers
<1>7. ASSUME NEW k \in Shards, TakeLine(k) PROVE Good
  <2>1. writes' = writes /\ writes[k] = <<>> /\ \A h \in Shards : h # k => held'[h] = held[h]
    BY <1>1, <1>7 DEF TakeLine
  <2>2. PICK x : held'[k] \in {<<>>, <<x>>}
    BY <1>1, <1>7 DEF TakeLine
  <2>3. Len(held'[k]) <= 1
    <3>1. PICK H : H = held'[k]
      OBVIOUS
    <3>2. CASE H = <<>>
      BY <3>1, <3>2
    <3>3. CASE H = <<x>>
      <4>1. Len(H) = 1
        BY <3>3
      <4> QED
        BY <3>1, <4>1
    <3> QED
      BY <2>2, <3>1, <3>2, <3>3
  <2> QED
    BY <2>1, <2>3 DEF Workers
<1>8. ASSUME UNCHANGED <<writes, held>> PROVE Good
  BY <1>8 DEF Workers
<1> HIDE DEF Good
<1>9. Good
  BY <1>4, <1>5, <1>6, <1>7, <1>8, WriteSteps, Zenon
<1> QED
  BY <1>9 DEF Good

-----------------------------------------------------------------------------
(* Queues and what is delivered *)

\* What happens to the queues and the lines popped.
LEMMA QueueSteps ==
  ASSUME TypeOK, [Next]_vars
  PROVE  \/ \E fd \in Fds, to \in 0..MaxConns : Queues(fd, to)
         \/ \E k \in Shards : TakeLine(k)
         \/ \E k \in Shards : held' = [held EXCEPT ![k] = <<>>] /\ UNCHANGED <<queues, sends>>
         \/ UNCHANGED <<queues, held>> /\ sends' \in {sends, sends + 1}
<1>1. ASSUME NEW k \in Shards, Route(k) PROVE held' = [held EXCEPT ![k] = <<>>] /\ UNCHANGED <<queues, sends>>
  BY <1>1 DEF Route
<1>2. ASSUME \/ \E fd \in Fds, s \in Streams : RegisterPublisher(fd, s) \/ RegisterSubscriber(fd, s)
             \/ \E fd \in Fds : Removes(fd) \/ Closes(fd)
             \/ \E t \in Threads : WriteOk(t) \/ WriteBadFd(t) \/ WriteTimesOut(t)
             \/ EpollAdd \/ Silent
      PROVE  UNCHANGED <<queues, held>> /\ sends' \in {sends, sends + 1}
  BY <1>2 DEF RegisterPublisher, RegisterSubscriber, Removes, Closes, WriteOk, WriteBadFd, WriteTimesOut,
     EpollAdd, Silent, workers
<1> QED
  BY <1>1, <1>2, StepKinds, Zenon

\* A queue that is not full takes a line, and is in its limits then.
LEMMA QueuesNext ==
  ASSUME TypeOK, [Next]_vars
  PROVE  QueuesTyped'
<1>1. /\ queues \in [Shards -> Seq(Lines)] /\ held \in [Shards -> Seq(Lines)] /\ sends \in Nat
      /\ \A k \in Shards : Len(queues[k]) <= MaxQueueLines
  BY DEF TypeOK
<1>2. ASSUME NEW fd \in Fds, NEW to \in 0..MaxConns, Queues(fd, to) PROVE QueuesTyped'
  <2>1. PICK k \in Shards : k = ShardOf(fd)
    BY ThreadsAre
  <2>2. PICK line : line = [from |-> g_clients[fd], to |-> to, n |-> sends + 1]
    OBVIOUS
  <2>3. line \in Lines
    BY <1>1, <1>2, <2>2 DEF Lines, Queues, TypeOK, Conns
  <2>4. queues' = [queues EXCEPT ![k] = Append(queues[k], line)] /\ held' = held /\ sends' = sends + 1
    BY <1>2, <2>1, <2>2 DEF Queues
  <2>5. Append(queues[k], line) \in Seq(Lines) /\ Len(Append(queues[k], line)) = Len(queues[k]) + 1
    BY <1>1, <2>3
  <2>6. Len(queues[k]) + 1 <= MaxQueueLines
    <3>1. Len(queues[k]) \in Nat /\ ~(Len(queues[k]) >= MaxQueueLines)
      BY <1>1, <1>2, <2>1 DEF Queues, QueueFull
    <3> QED
      BY <3>1, ServerAssumption
  <2>7. queues' \in [Shards -> Seq(Lines)] /\ \A h \in Shards : Len(queues'[h]) <= MaxQueueLines
    BY <1>1, <2>4, <2>5, <2>6
  <2> QED
    BY <1>1, <2>4, <2>7 DEF QueuesTyped
<1>3. ASSUME NEW k \in Shards, TakeLine(k) PROVE QueuesTyped'
  <2>1. PICK q \in Seq(Lines) : q = queues[k] /\ q # <<>>
    BY <1>1, <1>3 DEF TakeLine
  <2>2. Tail(q) \in Seq(Lines) /\ Len(Tail(q)) = Len(q) - 1 /\ Head(q) \in Lines /\ Len(q) \in Nat
    BY <2>1, HeadTailProperties, LenProperties
  <2>3. PICK h : /\ h = IF Head(q).from \in dead THEN <<>> ELSE <<Head(q)>>
                 /\ held' = [held EXCEPT ![k] = h]
    BY <1>3, <2>1 DEF TakeLine
  <2>4. h \in Seq(Lines)
    BY <2>2, <2>3
  <2>5. queues' = [queues EXCEPT ![k] = Tail(q)] /\ sends' = sends
    BY <1>3, <2>1 DEF TakeLine
  <2>6. queues' \in [Shards -> Seq(Lines)] /\ held' \in [Shards -> Seq(Lines)]
    BY <1>1, <2>2, <2>3, <2>4, <2>5
  <2>7. ASSUME NEW m \in Shards PROVE Len(queues'[m]) <= MaxQueueLines
    <3>1. CASE m = k
      <4>1. queues'[m] = Tail(q) /\ Len(q) <= MaxQueueLines
        BY <1>1, <2>1, <2>5, <3>1
      <4> QED
        BY <2>2, <4>1, ServerAssumption
    <3>2. CASE m # k
      BY <1>1, <2>5, <3>2
    <3> QED
      BY <3>1, <3>2
  <2> QED
    BY <1>1, <2>5, <2>6, <2>7 DEF QueuesTyped
<1>4. ASSUME NEW k \in Shards, held' = [held EXCEPT ![k] = <<>>], UNCHANGED <<queues, sends>> PROVE QueuesTyped'
  <2>1. <<>> \in Seq(Lines)
    BY EmptySeq
  <2>2. held' \in [Shards -> Seq(Lines)]
    BY <1>1, <1>4, <2>1
  <2> QED
    BY <1>1, <1>4, <2>2 DEF QueuesTyped
<1>5. ASSUME UNCHANGED <<queues, held>>, sends' \in {sends, sends + 1} PROVE QueuesTyped'
  BY <1>1, <1>5 DEF QueuesTyped
<1> QED
  BY <1>2, <1>3, <1>4, <1>5, QueueSteps, Zenon

\* A write that succeeds adds a piece to what the connection behind the
\* descriptor was sent.
Delivers(t, c, tok) ==
  /\ writes[t] # <<>> /\ writes[t][1].tok = tok /\ open[writes[t][1].fd] = c
  /\ writes' = [writes EXCEPT ![t] = Tail(writes[t])]
  /\ received' = [received EXCEPT ![c] = Append(received[c], tok)]
  /\ UNCHANGED <<tables, adding, hups, workers, server, sends, timeouts, stalled>>

\* WriteOk is such a write.
LEMMA WriteDelivers ==
  ASSUME TypeOK, NEW t \in Threads, WriteOk(t)
  PROVE  \E c \in Conns, tok \in Tokens : Delivers(t, c, tok)
<1>1. PICK q \in Seq(Pieces) : q = writes[t] /\ q # <<>>
  BY DEF TypeOK, WriteOk, Pieces
<1>2. Head(q) = q[1] /\ Head(q) \in Pieces
  BY <1>1, HeadTailProperties
<1>3. PICK tok \in Tokens, fd \in Fds : tok = q[1].tok /\ fd = q[1].fd
  BY <1>2 DEF Pieces
<1>4. open[fd] # 0 /\ received' = [received EXCEPT ![open[fd]] = Append(received[open[fd]], tok)]
  BY <1>1, <1>2, <1>3 DEF WriteOk
<1>5. open[fd] \in Conns
  BY <1>4, ServerAssumption DEF TypeOK, Conns
<1>6. /\ writes' = [writes EXCEPT ![t] = Tail(writes[t])]
      /\ UNCHANGED <<tables, adding, hups, workers, server, sends, timeouts, stalled>>
  BY DEF WriteOk
<1>7. Delivers(t, open[fd], tok)
  BY <1>1, <1>3, <1>4, <1>6 DEF Delivers
<1> QED
  BY <1>5, <1>7

\* Other steps leave what was sent, or forget all that a closed connection was
\* sent.
LEMMA ReceivedSteps ==
  ASSUME TypeOK, [Next]_vars
  PROVE  \/ \E t \in Threads : \E c \in Conns, tok \in Tokens : Delivers(t, c, tok)
         \/ received' \in [Conns -> Seq(Tokens)] /\ \A c \in Conns : received'[c] \in {received[c], <<>>}
<1>1. received \in [Conns -> Seq(Tokens)] /\ <<>> \in Seq(Tokens)
  BY EmptySeq DEF TypeOK
<1>2. ASSUME ForgetClosed
      PROVE  received' \in [Conns -> Seq(Tokens)] /\ \A c \in Conns : received'[c] \in {received[c], <<>>}
  <2>1. received' = [c \in Conns |-> IF \E fd \in Fds : open'[fd] = c THEN received[c] ELSE <<>>]
    BY <1>2 DEF ForgetClosed
  <2>2. \A c \in Conns : received'[c] \in {received[c], <<>>}
    BY <2>1
  <2>3. \A c \in Conns : (IF \E fd \in Fds : open'[fd] = c THEN received[c] ELSE <<>>) \in Seq(Tokens)
    BY <1>1
  <2>4. received' \in [Conns -> Seq(Tokens)]
    BY <2>1, <2>3
  <2> QED
    BY <2>2, <2>4
<1>3. ASSUME UNCHANGED received
      PROVE  received' \in [Conns -> Seq(Tokens)] /\ \A c \in Conns : received'[c] \in {received[c], <<>>}
  BY <1>1, <1>3
<1>4. ASSUME \/ \E fd \in Fds, s \in Streams : RegisterPublisher(fd, s)
             \/ \E fd \in Fds : Removes(fd) \/ Closes(fd)
             \/ EpollAdd
      PROVE  ForgetClosed
  BY <1>4 DEF RegisterPublisher, Removes, DisconnectClient, Closes, EpollAdd
<1>5. ASSUME \/ \E fd \in Fds, s \in Streams : RegisterSubscriber(fd, s)
             \/ \E fd \in Fds, to \in 0..MaxConns : Queues(fd, to)
             \/ \E k \in Shards : TakeLine(k) \/ Route(k)
             \/ \E t \in Threads : WriteBadFd(t) \/ WriteTimesOut(t)
             \/ Silent
      PROVE  UNCHANGED received
  BY <1>5 DEF RegisterSubscriber, Queues, TakeLine, Route, WriteBadFd, WriteTimesOut, Silent
<1>6. ASSUME NEW t \in Threads, WriteOk(t) PROVE \E c \in Conns, tok \in Tokens : Delivers(t, c, tok)
  BY <1>6, WriteDelivers
<1> QED
  BY <1>2, <1>3, <1>4, <1>5, <1>6, StepKinds, Zenon

\* An appended piece is the last one.
LEMMA AppendedIsLast ==
  ASSUME NEW S, NEW q \in Seq(S), NEW x \in S
  PROVE  /\ Append(q, x) \in Seq(S) /\ Len(q) \in Nat /\ Len(Append(q, x)) = Len(q) + 1
         /\ \A i \in 1..(Len(q) + 1) : Append(q, x)[i] = IF i = Len(q) + 1 THEN x ELSE q[i]
OBVIOUS

\* The types of the rest.
LEMMA RestNext ==
  ASSUME TypeOK, [Next]_vars
  PROVE  RestTyped'
<1>1. received' \in [Conns -> Seq(Tokens)]
  <2>1. ASSUME NEW t \in Threads, NEW c \in Conns, NEW tok \in Tokens, Delivers(t, c, tok)
        PROVE  received' \in [Conns -> Seq(Tokens)]
    <3>1. received \in [Conns -> Seq(Tokens)] /\ received' = [received EXCEPT ![c] = Append(received[c], tok)]
      BY <2>1 DEF TypeOK, Delivers
    <3>2. Append(received[c], tok) \in Seq(Tokens)
      BY <3>1
    <3> QED
      BY <3>1, <3>2
  <2> QED
    BY <2>1, ReceivedSteps, Zenon
<1>2. ASSUME NEW t \in Threads, WriteOk(t) PROVE UNCHANGED <<server, workerExited, timeouts, stalled>> /\ late' \in [Conns -> Nat]
  <2>1. late' = late \/ \E c \in dead : late' = [late EXCEPT ![c] = @ + 1]
    BY <1>2 DEF WriteOk
  <2>2. late' \in [Conns -> Nat]
    BY <2>1 DEF TypeOK
  <2> QED
    BY <1>2, <2>2 DEF WriteOk, workers
<1>3. ASSUME NEW t \in Threads, WriteTimesOut(t)
      PROVE  UNCHANGED <<server, workerExited, late>> /\ timeouts' \in Nat /\ stalled' \subseteq Conns
  <2>1. PICK q \in Seq(Pieces) : q = writes[t] /\ q # <<>>
    BY <1>3 DEF TypeOK, WriteTimesOut, Pieces
  <2>2. Head(q).fd \in Fds
    <3>1. Head(q) \in Pieces
      BY <2>1, HeadTailProperties
    <3> QED
      BY <3>1 DEF Pieces
  <2>3. open[Head(q).fd] # 0 /\ stalled' = stalled \cup {open[Head(q).fd]}
    BY <1>3, <2>1 DEF WriteTimesOut
  <2>4. open[Head(q).fd] \in Conns
    BY <2>2, <2>3, ServerAssumption DEF TypeOK, Conns
  <2> QED
    BY <1>3, <2>3, <2>4 DEF WriteTimesOut, TypeOK, workers
<1>4. ASSUME \/ \E fd \in Fds, s \in Streams : RegisterPublisher(fd, s) \/ RegisterSubscriber(fd, s)
             \/ \E fd \in Fds : Removes(fd) \/ Closes(fd)
             \/ \E fd \in Fds, to \in 0..MaxConns : Queues(fd, to)
             \/ \E k \in Shards : TakeLine(k) \/ Route(k)
             \/ \E t \in Threads : WriteBadFd(t)
             \/ EpollAdd
      PROVE  UNCHANGED <<server, workerExited, timeouts, stalled, late>>
  BY <1>4 DEF RegisterPublisher, RegisterSubscriber, Removes, Closes, Queues, TakeLine, Route, WriteBadFd,
     EpollAdd, workers, history
<1>5. ASSUME Silent
      PROVE  /\ UNCHANGED <<timeouts, stalled, late>> /\ workerExited' \subseteq Shards
             /\ server' \in {"up", "signalled", "draining", "down"}
  BY <1>5 DEF Silent, history
<1>6. /\ server' \in {"up", "signalled", "draining", "down"} /\ workerExited' \subseteq Shards
      /\ timeouts' \in Nat /\ stalled' \subseteq Conns /\ late' \in [Conns -> Nat]
  <2>1. /\ server \in {"up", "signalled", "draining", "down"} /\ workerExited \subseteq Shards
        /\ timeouts \in Nat /\ stalled \subseteq Conns /\ late \in [Conns -> Nat]
    BY DEF TypeOK
  <2> DEFINE Good == /\ server' \in {"up", "signalled", "draining", "down"} /\ workerExited' \subseteq Shards
                     /\ timeouts' \in Nat /\ stalled' \subseteq Conns /\ late' \in [Conns -> Nat]
  <2>2. ASSUME NEW t \in Threads, WriteOk(t) PROVE Good
    BY <1>2, <2>1, <2>2
  <2>3. ASSUME NEW t \in Threads, WriteTimesOut(t) PROVE Good
    BY <1>3, <2>1, <2>3
  <2>4. ASSUME UNCHANGED <<server, workerExited, timeouts, stalled, late>> PROVE Good
    BY <2>1, <2>4
  <2>5. ASSUME Silent PROVE Good
    BY <1>5, <2>1, <2>5
  <2> HIDE DEF Good
  <2>6. Good
    BY <1>4, <2>2, <2>3, <2>4, <2>5, StepKinds, Zenon
  <2> QED
    BY <2>6 DEF Good
<1> QED
  BY <1>1, <1>6 DEF RestTyped

\* Only ids that were given out are used, in the tables.
NamedTables ==
  /\ \A fd \in Fds : open[fd] <= g_peer_seq /\ g_clients[fd] <= g_peer_seq /\ g_fd_to_info[fd] <= g_peer_seq
  /\ \A c \in dead : c <= g_peer_seq
  /\ \A s \in Streams : \A c \in g_subscribers[s] : c <= g_peer_seq

\* Every step keeps to ids that were given out, in the tables.
LEMMA NamedTablesNext ==
  ASSUME TypeOK, Registered, Named, [Next]_vars
  PROVE  NamedTables'
<1>1. /\ \A fd \in Fds : open[fd] <= g_peer_seq /\ g_clients[fd] <= g_peer_seq /\ g_fd_to_info[fd] <= g_peer_seq
      /\ \A c \in dead : c <= g_peer_seq
      /\ \A s \in Streams : \A c \in g_subscribers[s] : c <= g_peer_seq
  BY DEF Named
<1>2. g_peer_seq \in Nat /\ g_peer_seq' \in Nat /\ g_peer_seq <= g_peer_seq'
  BY IdsGrow
<1>3. /\ \A fd \in Fds : {open[fd], g_clients[fd], g_fd_to_info[fd]} \subseteq Nat
      /\ dead \subseteq Nat /\ \A s \in Streams : g_subscribers[s] \subseteq Nat
  BY DEF TypeOK, Conns
<1> DEFINE News == /\ \A fd \in Fds : /\ open'[fd] \in {0, open[fd], g_peer_seq'}
                                      /\ g_clients'[fd] \in {0, g_clients[fd], g_peer_seq'}
                                      /\ g_fd_to_info'[fd] \in {0, g_fd_to_info[fd], g_peer_seq'}
                   /\ \A c \in dead' : c \in dead \/ \E fd \in Fds : c = g_clients[fd]
                   /\ \A s \in Streams : \A c \in g_subscribers'[s] : c \in g_subscribers[s] \/ c = g_peer_seq'
<1>4. ASSUME News PROVE NamedTables'
  <2>1. ASSUME NEW fd \in Fds
        PROVE  open'[fd] <= g_peer_seq' /\ g_clients'[fd] <= g_peer_seq' /\ g_fd_to_info'[fd] <= g_peer_seq'
    <3>1. /\ open'[fd] \in {0, open[fd], g_peer_seq'} /\ g_clients'[fd] \in {0, g_clients[fd], g_peer_seq'}
          /\ g_fd_to_info'[fd] \in {0, g_fd_to_info[fd], g_peer_seq'}
      BY <1>4
    <3>2. /\ open[fd] <= g_peer_seq /\ g_clients[fd] <= g_peer_seq /\ g_fd_to_info[fd] <= g_peer_seq
          /\ open[fd] \in Nat /\ g_clients[fd] \in Nat /\ g_fd_to_info[fd] \in Nat
      BY <1>1, <1>3
    <3> QED
      BY <1>2, <3>1, <3>2
  <2>2. ASSUME NEW c \in dead' PROVE c <= g_peer_seq'
    <3>1. c \in Nat /\ c <= g_peer_seq
      BY <1>1, <1>3, <1>4
    <3> QED
      BY <1>2, <3>1
  <2>3. ASSUME NEW s \in Streams, NEW c \in g_subscribers'[s] PROVE c <= g_peer_seq'
    <3>1. c \in g_subscribers[s] \/ c = g_peer_seq'
      BY <1>4
    <3>2. CASE c \in g_subscribers[s]
      <4>1. c \in Nat /\ c <= g_peer_seq
        BY <1>1, <1>3, <3>2
      <4> QED
        BY <1>2, <4>1
    <3> QED
      BY <1>2, <3>1, <3>2
  <2> QED
    BY <2>1, <2>2, <2>3 DEF NamedTables
<1>5. ASSUME NEW fd \in Fds, NEW s \in Streams, RegisterPublisher(fd, s) PROVE News
  <2>1. \A f \in Fds : /\ open'[f] \in {0, open[f], g_peer_seq'}
                       /\ g_clients'[f] \in {0, g_clients[f], g_peer_seq'}
                       /\ g_fd_to_info'[f] \in {0, g_fd_to_info[f], g_peer_seq'}
    BY <1>5 DEF RegisterPublisher, TypeOK
  <2>2. \A c \in dead' : c \in dead \/ \E f \in Fds : c = g_clients[f]
    <3>1. Replaced(s) \subseteq Fds
      BY DEF Replaced, TypeOK, Fds
    <3> QED
      BY <1>5, <3>1 DEF RegisterPublisher
  <2>3. g_subscribers' = g_subscribers
    BY <1>5 DEF RegisterPublisher
  <2> QED
    BY <2>1, <2>2, <2>3
<1>6. ASSUME NEW fd \in Fds, NEW s \in Streams, RegisterSubscriber(fd, s) PROVE News
  BY <1>6 DEF RegisterSubscriber, TypeOK
<1>7. ASSUME NEW fd \in Fds, Removes(fd) PROVE News
  <2>1. \A f \in Fds : /\ open'[f] \in {0, open[f], g_peer_seq'}
                       /\ g_clients'[f] \in {0, g_clients[f], g_peer_seq'}
                       /\ g_fd_to_info'[f] \in {0, g_fd_to_info[f], g_peer_seq'}
    BY <1>7 DEF Removes, DisconnectClient, RemoveClientResources, TypeOK
  <2>2. \A c \in dead' : c \in dead \/ \E f \in Fds : c = g_clients[f]
    BY <1>7 DEF Removes, DisconnectClient
  <2>3. \E s, c : g_subscribers' = g_subscribers \/ g_subscribers' = [g_subscribers EXCEPT ![s] = @ \ {c}]
    BY <1>7 DEF Removes, DisconnectClient, RemoveClientResources
  <2>4. \A s \in Streams : g_subscribers'[s] \subseteq g_subscribers[s]
    BY <2>3 DEF TypeOK
  <2> QED
    BY <2>1, <2>2, <2>4
<1>8. ASSUME \A f \in Fds : open'[f] \in {0, open[f]}, UNCHANGED <<g_peer_seq, dead, g_subscribers, g_clients, g_fd_to_info>>
      PROVE  News
  BY <1>8
<1>9. ASSUME \/ \E fd \in Fds : Closes(fd)
             \/ EpollAdd
      PROVE  \A f \in Fds : open'[f] \in {0, open[f]}
  BY <1>9 DEF Closes, EpollAdd, TypeOK
<1>10. ASSUME \/ \E fd \in Fds, to \in 0..MaxConns : Queues(fd, to)
              \/ \E k \in Shards : TakeLine(k) \/ Route(k)
              \/ \E t \in Threads : WriteOk(t) \/ WriteBadFd(t) \/ WriteTimesOut(t)
              \/ Silent
      PROVE  \A f \in Fds : open'[f] \in {0, open[f]}
  BY <1>10 DEF Queues, TakeLine, Route, WriteOk, WriteBadFd, WriteTimesOut, Silent, tables
<1>11. ASSUME \/ \E fd \in Fds, to \in 0..MaxConns : Queues(fd, to)
              \/ \E k \in Shards : TakeLine(k) \/ Route(k)
              \/ \E t \in Threads : WriteOk(t) \/ WriteBadFd(t) \/ WriteTimesOut(t)
              \/ \E fd \in Fds : Closes(fd)
              \/ EpollAdd
              \/ Silent
      PROVE  UNCHANGED <<g_peer_seq, dead, g_subscribers, g_clients, g_fd_to_info>>
  BY <1>11 DEF Queues, TakeLine, Route, WriteOk, WriteBadFd, WriteTimesOut, Closes, EpollAdd, Silent, tables
<1> HIDE DEF News
<1> QED
  BY <1>4, <1>5, <1>6, <1>7, <1>8, <1>9, <1>10, <1>11, StepKinds, Zenon

\* The first piece of a thread, where it goes.
LEMMA FirstPiece ==
  ASSUME TypeOK, Named, NEW t \in Threads, writes[t] # <<>>
  PROVE  /\ writes[t] \in Seq(Pieces) /\ Len(writes[t]) \in Nat \ {0} /\ 1 \in 1..Len(writes[t])
         /\ Head(writes[t]) = writes[t][1]
         /\ writes[t][1].fd \in Fds /\ writes[t][1].tok \in Tokens /\ writes[t][1].tok.id <= g_peer_seq
         /\ open[writes[t][1].fd] \in 0..MaxConns /\ open[writes[t][1].fd] <= g_peer_seq
<1>1. writes[t] \in Seq(Pieces)
  BY DEF TypeOK, Pieces
<1>2. Len(writes[t]) \in Nat \ {0}
  BY <1>1, EmptySeq
<1>3. 1 \in 1..Len(writes[t])
  BY <1>2
<1>4. writes[t][1] \in Pieces /\ Head(writes[t]) = writes[t][1]
  BY <1>1, <1>3, ElementOfSeq
<1>5. writes[t][1].fd \in Fds /\ writes[t][1].tok \in Tokens
  BY <1>4 DEF Pieces
<1>6. open[writes[t][1].fd] \in 0..MaxConns
  BY <1>5 DEF TypeOK
<1>7. writes[t][1].tok.id <= g_peer_seq /\ open[writes[t][1].fd] <= g_peer_seq
  BY <1>3, <1>5 DEF Named
<1> QED
  BY <1>1, <1>2, <1>3, <1>4, <1>5, <1>6, <1>7

\* Only ids that were given out are used, in what is written.
LEMMA NamedWritesNext ==
  ASSUME TypeOK, Registered, Named, Framed, Numbered, [Next]_vars
  PROVE  \A t \in Threads : \A i \in 1..Len(writes'[t]) : writes'[t][i].tok.id <= g_peer_seq'
<1> DEFINE Ids(q, n) == \A i \in 1..Len(q) : q[i].tok.id <= n
<1>1. /\ writes \in [Threads -> Seq(Pieces)] /\ \A t \in Threads : Ids(writes[t], g_peer_seq)
  BY DEF TypeOK, Named, Pieces
<1>2. g_peer_seq \in Nat /\ g_peer_seq' \in Nat /\ g_peer_seq <= g_peer_seq'
  BY IdsGrow
<1>3. ASSUME NEW t \in Threads PROVE Ids(writes[t], g_peer_seq')
  <2> SUFFICES ASSUME NEW i \in 1..Len(writes[t]) PROVE writes[t][i].tok.id <= g_peer_seq'
    OBVIOUS
  <2>1. writes[t][i] \in Pieces
    BY <1>1, ElementOfSeq
  <2>2. writes[t][i].tok.id \in Nat /\ writes[t][i].tok.id <= g_peer_seq
    BY <1>1, <2>1 DEF Pieces, Tokens
  <2> QED
    BY <1>2, <2>2
<1>4. SUFFICES \A t \in Threads : Ids(writes'[t], g_peer_seq')
  OBVIOUS
<1> HIDE DEF Ids
<1>5. ASSUME NEW t \in Threads, NEW q, Ids(q, g_peer_seq'), writes' = [writes EXCEPT ![t] = q]
      PROVE  \A u \in Threads : Ids(writes'[u], g_peer_seq')
  <2>1. \A u \in Threads : writes'[u] = q \/ writes'[u] = writes[u]
    BY <1>1, <1>5
  <2> QED
    BY <1>3, <1>5, <2>1
<1>6. CASE Tells
  BY <1>5, <1>6, ThreadsAre DEF Tells, Notices, Ids
<1>7. ASSUME NEW t \in Threads, Writes(t) PROVE \A u \in Threads : Ids(writes'[u], g_peer_seq')
  <2>1. PICK r \in Left(writes[t]) : writes' = [writes EXCEPT ![t] = r] /\ writes[t] # <<>>
    BY <1>7 DEF Writes
  <2>2. \A i \in 1..Len(r) : \E j \in 1..Len(writes[t]) : j > i /\ r[i] = writes[t][j]
    BY <1>1, <2>1, LeftAreLines DEF Framed
  <2>3. Ids(r, g_peer_seq')
    BY <1>3, <2>2 DEF Ids
  <2> QED
    BY <1>5, <2>1, <2>3
<1>8. ASSUME NEW k \in Shards, RouteWrites(k) PROVE \A u \in Threads : Ids(writes'[u], g_peer_seq')
  <2>1. k \in Threads /\ held[k] # <<>>
    BY <1>8, ThreadsAre DEF RouteWrites
  <2>2. CASE writes' = [writes EXCEPT ![k] = <<>>]
    <3>1. 1..Len(<<>>) = {}
      OBVIOUS
    <3>2. Ids(<<>>, g_peer_seq')
      BY <3>1 DEF Ids
    <3> QED
      BY <1>5, <2>1, <2>2, <3>2
  <2>3. ASSUME NEW fd \in Fds, writes' = [writes EXCEPT ![k] = SendJsonLine(fd, Forward(Head(held[k])), FALSE)]
        PROVE  \A u \in Threads : Ids(writes'[u], g_peer_seq')
    <3>1. PICK tok \in Tokens : tok = Forward(held[k][1]) /\ tok = Forward(Head(held[k]))
      BY <2>1, HeldIsKnown
    <3>2. PICK q : q = SendJsonLine(fd, tok, FALSE)
      OBVIOUS
    <3>3. /\ Len(q) = 2
          /\ q[1] = [fd |-> fd, tok |-> tok, locked |-> FALSE]
          /\ q[2] = [fd |-> fd, tok |-> NL, locked |-> FALSE]
      BY <3>2, SentIsLine
    <3>4. tok.id \in Nat /\ tok.id <= g_peer_seq /\ NL.id = 0
      <4>1. tok.id = held[k][1].from
        BY <3>1 DEF Forward
      <4>2. held[k][1].from \in Conns /\ held[k][1].from <= g_peer_seq
        BY <2>1, HeldIsKnown
      <4> QED
        BY <4>1, <4>2, TextsTyped DEF Conns
    <3>5. Ids(q, g_peer_seq')
      BY <1>2, <3>3, <3>4 DEF Ids
    <3> QED
      BY <1>5, <2>1, <2>3, <3>1, <3>2, <3>5
  <2> QED
    BY <1>8, <2>2, <2>3 DEF RouteWrites
<1>9. ASSUME UNCHANGED writes PROVE \A u \in Threads : Ids(writes'[u], g_peer_seq')
  BY <1>3, <1>9
<1>10. ASSUME NEW k \in Shards, TakeLine(k) PROVE \A u \in Threads : Ids(writes'[u], g_peer_seq')
  BY <1>9, <1>10 DEF TakeLine
<1> QED
  BY <1>6, <1>7, <1>8, <1>9, <1>10, WriteSteps, Zenon

\* The same of what was sent.
LEMMA NamedReceivedNext ==
  ASSUME TypeOK, Named, [Next]_vars
  PROVE  \A c \in Conns : /\ \A i \in 1..Len(received'[c]) : received'[c][i].id <= g_peer_seq'
                          /\ c > g_peer_seq' => received'[c] = <<>>
<1>1. /\ received \in [Conns -> Seq(Tokens)]
      /\ \A c \in Conns : \A i \in 1..Len(received[c]) : received[c][i].id <= g_peer_seq
      /\ \A c \in Conns : c > g_peer_seq => received[c] = <<>>
  BY DEF TypeOK, Named
<1>2. g_peer_seq \in Nat /\ g_peer_seq' \in Nat /\ g_peer_seq <= g_peer_seq'
  BY IdsGrow
<1>3. ASSUME NEW c \in Conns, c > g_peer_seq' PROVE received[c] = <<>>
  BY <1>1, <1>2, <1>3 DEF Conns
<1>4. ASSUME NEW c \in Conns, NEW i \in 1..Len(received[c]) PROVE received[c][i].id <= g_peer_seq'
  <2>1. received[c][i] \in Tokens
    BY <1>1, ElementOfSeq
  <2>2. received[c][i].id \in Nat /\ received[c][i].id <= g_peer_seq
    BY <1>1, <2>1 DEF Tokens
  <2> QED
    BY <1>2, <2>2
<1>5. SUFFICES ASSUME NEW c \in Conns
               PROVE  /\ \A i \in 1..Len(received'[c]) : received'[c][i].id <= g_peer_seq'
                      /\ c > g_peer_seq' => received'[c] = <<>>
  OBVIOUS
<1>6. 1..Len(<<>>) = {}
  OBVIOUS
<1>7. CASE \A d \in Conns : received'[d] \in {received[d], <<>>}
  BY <1>3, <1>4, <1>6, <1>7
<1>8. ASSUME NEW t \in Threads, NEW d \in Conns, NEW tok \in Tokens, Delivers(t, d, tok)
      PROVE  /\ \A i \in 1..Len(received'[c]) : received'[c][i].id <= g_peer_seq'
             /\ c > g_peer_seq' => received'[c] = <<>>
  <2>1. d <= g_peer_seq /\ tok.id <= g_peer_seq /\ g_peer_seq' = g_peer_seq
    BY <1>8, FirstPiece DEF Delivers, tables
  <2>2. CASE c # d
    <3>1. received'[c] = received[c]
      BY <1>1, <1>8, <2>2 DEF Delivers
    <3> QED
      BY <1>3, <1>4, <3>1
  <2>3. CASE c = d
    <3>1. PICK q \in Seq(Tokens) : q = received[c]
      BY <1>1
    <3>2. received'[c] = Append(q, tok)
      BY <1>1, <1>8, <2>3, <3>1 DEF Delivers
    <3>3. ~(c > g_peer_seq')
      BY <1>2, <2>1, <2>3 DEF Conns
    <3>4. ASSUME NEW i \in 1..Len(Append(q, tok)) PROVE Append(q, tok)[i].id <= g_peer_seq'
      <4>1. Len(q) \in Nat /\ i \in 1..(Len(q) + 1) /\ Append(q, tok)[i] = IF i = Len(q) + 1 THEN tok ELSE q[i]
        BY AppendedIsLast
      <4>2. CASE i = Len(q) + 1
        BY <2>1, <4>1, <4>2
      <4>3. CASE i # Len(q) + 1
        <5>1. i \in 1..Len(q)
          BY <4>1, <4>3
        <5> QED
          BY <1>4, <3>1, <4>1, <4>3, <5>1
      <4> QED
        BY <4>2, <4>3
    <3> QED
      BY <3>2, <3>3, <3>4
  <2> QED
    BY <2>2, <2>3
<1> QED
  BY <1>7, <1>8, ReceivedSteps, Zenon

\* Together.
LEMMA NamedNext ==
  ASSUME TypeOK, Registered, Named, Framed, Numbered, [Next]_vars
  PROVE  Named'
BY NamedTablesNext, NamedWritesNext, NamedReceivedNext DEF Named, NamedTables

\* The type invariant.
LEMMA TypeNext ==
  ASSUME TypeOK, Registered, Named, Framed, Numbered, [Next]_vars
  PROVE  TypeOK'
BY TablesNext, QueuesNext, WritesNext, RestNext, TypePartsNext

-----------------------------------------------------------------------------
(* The order of lines *)

\* No line comes, and some may be dropped or, with a connection, forgotten.
Fades ==
  /\ UNCHANGED <<queues, held>> /\ sends' \in {sends, sends + 1}
  /\ \A k \in Shards, c \in Conns, n \in Nat : Written(k, c, n)' => Written(k, c, n)
  /\ \A c \in Conns : received'[c] \in {received[c], <<>>}

\* What a step does to the lines.
LEMMA LineSteps ==
  ASSUME TypeOK, Registered, Named, Framed, Workers, Numbered, [Next]_vars
  PROVE  \/ \E fd \in Fds, to \in 0..MaxConns : Queues(fd, to)
         \/ \E k \in Shards : TakeLine(k)
         \/ \E k \in Shards : RouteWrites(k) /\ UNCHANGED <<queues, sends, received>>
         \/ \E t \in Threads : \E c \in Conns, tok \in Tokens : Delivers(t, c, tok)
         \/ Fades
<1>1. writes \in [Threads -> Seq(Pieces)] /\ \A t \in Threads : InLines(writes[t])
  BY DEF TypeOK, Framed, Pieces
<1> DEFINE Steps == \/ \E fd \in Fds, to \in 0..MaxConns : Queues(fd, to)
                    \/ \E k \in Shards : TakeLine(k)
                    \/ \E k \in Shards : RouteWrites(k) /\ UNCHANGED <<queues, sends, received>>
                    \/ \E t \in Threads : \E c \in Conns, tok \in Tokens : Delivers(t, c, tok)
                    \/ Fades
           Calm == /\ UNCHANGED <<queues, held>> /\ sends' \in {sends, sends + 1}
                   /\ \A c \in Conns : received'[c] \in {received[c], <<>>}
<1>2. \/ \E fd \in Fds, to \in 0..MaxConns : Queues(fd, to)
      \/ \E k \in Shards : TakeLine(k)
      \/ \E k \in Shards : Route(k)
      \/ \E t \in Threads : \E c \in Conns, tok \in Tokens : Delivers(t, c, tok)
      \/ Calm
  <2>2. ASSUME \/ \E fd \in Fds, s \in Streams : RegisterPublisher(fd, s) \/ RegisterSubscriber(fd, s)
               \/ \E fd \in Fds : Removes(fd) \/ Closes(fd)
               \/ \E t \in Threads : WriteBadFd(t) \/ WriteTimesOut(t)
               \/ EpollAdd \/ Silent
        PROVE  UNCHANGED <<queues, held>> /\ sends' \in {sends, sends + 1}
    BY <2>2 DEF RegisterPublisher, RegisterSubscriber, Removes, Closes, WriteBadFd, WriteTimesOut,
       EpollAdd, Silent, workers
  <2>3. ASSUME NEW t \in Threads, WriteOk(t) PROVE \E c \in Conns, tok \in Tokens : Delivers(t, c, tok)
    BY <2>3, WriteDelivers
  <2>4. \/ \E t \in Threads : \E c \in Conns, tok \in Tokens : Delivers(t, c, tok)
        \/ \A c \in Conns : received'[c] \in {received[c], <<>>}
    BY ReceivedSteps, Zenon
  <2> QED
    BY <2>2, <2>3, <2>4, StepKinds, Zenon
<1>3. ASSUME Calm, \A k \in Shards, c \in Conns, n \in Nat : Written(k, c, n)' => Written(k, c, n) PROVE Fades
  BY <1>3 DEF Fades
<1>4. ASSUME NEW k \in Shards, Route(k) PROVE RouteWrites(k) /\ UNCHANGED <<queues, sends, received>>
  <2>1. held[k] # <<>> /\ UNCHANGED <<queues, sends, received>>
    BY <1>4 DEF Route
  <2>2. Head(held[k]).from \in Conns /\ Head(held[k]).from <= g_peer_seq
    BY <2>1, HeldIsKnown
  <2> QED
    BY <1>4, <2>1, <2>2, RouteGoes
<1>5. ASSUME \A k \in Shards : writes'[k] = writes[k]
      PROVE  \A k \in Shards, c \in Conns, n \in Nat : Written(k, c, n)' => Written(k, c, n)
  BY <1>5 DEF Written
<1>6. ASSUME NEW t \in Threads, Writes(t)
      PROVE  \A k \in Shards, c \in Conns, n \in Nat : Written(k, c, n)' => Written(k, c, n)
  <2>1. PICK r \in Left(writes[t]) : writes' = [writes EXCEPT ![t] = r] /\ writes[t] # <<>>
    BY <1>6 DEF Writes
  <2>2. \A i \in 1..Len(r) : \E j \in 1..Len(writes[t]) : j > i /\ r[i] = writes[t][j]
    BY <1>1, <2>1, LeftAreLines
  <2> SUFFICES ASSUME NEW k \in Shards, NEW c \in Conns, NEW n \in Nat, Written(k, c, n)'
               PROVE  Written(k, c, n)
    OBVIOUS
  <2>3. CASE k = t
    <3>1. writes'[k] = r
      BY <1>1, <2>1, <2>3
    <3>2. PICK i \in 1..Len(r) : r[i].tok.kind = "line" /\ r[i].tok.id = c /\ r[i].tok.n = n
      BY <3>1 DEF Written
    <3>3. PICK j \in 1..Len(writes[t]) : r[i] = writes[t][j]
      BY <2>2
    <3> QED
      BY <2>3, <3>2, <3>3 DEF Written
  <2>4. CASE k # t
    <3>1. writes'[k] = writes[k]
      BY <1>1, <2>1, <2>4, ThreadsAre
    <3> QED
      BY <3>1 DEF Written
  <2> QED
    BY <2>3, <2>4
<1>7. ASSUME Tells PROVE \A k \in Shards : writes'[k] = writes[k]
  BY <1>1, <1>7, ThreadsAre DEF Tells
<1>8. ASSUME Calm, \E k \in Shards : RouteWrites(k) /\ UNCHANGED <<queues, sends, received>> PROVE Steps
  BY <1>8
<1>9. ASSUME Calm PROVE Steps
  <2>1. ASSUME UNCHANGED <<writes, held>>
        PROVE  \A k \in Shards, c \in Conns, n \in Nat : Written(k, c, n)' => Written(k, c, n)
    BY <1>5, <2>1
  <2>2. CASE Fades
    BY <2>2
  <2>3. CASE \E k \in Shards : RouteWrites(k) /\ UNCHANGED <<queues, sends, received>>
    BY <1>8, <1>9, <2>3
  <2>4. CASE \E k \in Shards : TakeLine(k)
    BY <2>4
  <2> HIDE DEF Steps
  <2>5. \/ Fades
        \/ \E k \in Shards : RouteWrites(k) /\ UNCHANGED <<queues, sends, received>>
        \/ \E k \in Shards : TakeLine(k)
    <3> HIDE DEF Calm
    <3> QED
      BY <1>3, <1>5, <1>6, <1>7, <1>9, <2>1, WriteSteps, Zenon
  <2> QED
    BY <2>2, <2>3, <2>4, <2>5, Zenon
<1> HIDE DEF Calm
<1> QED
  BY <1>2, <1>4, <1>9, Zenon

\* A line is in the hands of one shard, that of its client's descriptor.
LEMMA HandsKnown ==
  ASSUME Numbered, NEW k \in Shards, NEW c \in Conns, NEW n \in Nat, InHands(k, c, n)
  PROVE  c <= g_peer_seq /\ ShardOf(client[c].fd) = k /\ n <= sends
BY DEF Numbered

\* The first part of Numbered, from what came into the hands of the shards.
LEMMA NumberedHands ==
  ASSUME TypeOK, Numbered, [Next]_vars, sends' \in {sends, sends + 1},
         \A k \in Shards, c \in Conns, n \in Nat : InHands(k, c, n)' =>
           \/ InHands(k, c, n)
           \/ c <= g_peer_seq /\ ShardOf(client[c].fd) = k /\ n <= sends'
  PROVE  \A k \in Shards, c \in Conns, n \in Nat : InHands(k, c, n)' =>
           c <= g_peer_seq' /\ ShardOf(client'[c].fd) = k /\ n <= sends'
<1> SUFFICES ASSUME NEW k \in Shards, NEW c \in Conns, NEW n \in Nat, InHands(k, c, n)'
             PROVE  c <= g_peer_seq' /\ ShardOf(client'[c].fd) = k /\ n <= sends'
  OBVIOUS
<1>1. sends \in Nat /\ sends <= sends' /\ sends' \in Nat
  BY DEF TypeOK
<1>2. c <= g_peer_seq /\ ShardOf(client[c].fd) = k /\ n <= sends'
  <2>1. CASE InHands(k, c, n)
    BY <1>1, <2>1, HandsKnown
  <2> QED
    BY <2>1
<1>3. c <= g_peer_seq' /\ client'[c] = client[c]
  BY <1>2, IdsGrow DEF Conns
<1> QED
  BY <1>2, <1>3

\* A line read is behind all lines of its client.
LEMMA QueuesKeeps ==
  ASSUME TypeOK, Registered, Named, Numbered, Behind, LineOrder, [Next]_vars,
         NEW fd \in Fds, NEW to \in 0..MaxConns, Queues(fd, to)
  PROVE  Numbered' /\ Behind' /\ LineOrder'
<1>1. PICK k \in Shards, a \in Conns : k = ShardOf(fd) /\ a = g_clients[fd] /\ a <= g_peer_seq /\ client[a].fd = fd
  <2>1. g_clients[fd] \in Conns /\ g_clients[fd] <= g_peer_seq /\ client[g_clients[fd]].fd = fd
    <3>1. g_clients[fd] # 0 /\ g_clients[fd] \in 0..MaxConns
      BY DEF Queues, TypeOK
    <3>2. g_clients[fd] \in Conns
      BY <3>1, ServerAssumption DEF Conns
    <3> QED
      BY <3>1, <3>2 DEF Named, Registered
  <2> QED
    BY <2>1, ThreadsAre
<1>2. PICK line \in Lines, q \in Seq(Lines) :
        line = [from |-> a, to |-> to, n |-> sends + 1] /\ q = queues[k]
  <2>1. sends \in Nat /\ queues[k] \in Seq(Lines)
    BY DEF TypeOK
  <2>2. [from |-> a, to |-> to, n |-> sends + 1] \in Lines
    BY <2>1 DEF Lines
  <2> QED
    BY <2>1, <2>2
<1>3. /\ queues' = [queues EXCEPT ![k] = Append(q, line)] /\ sends' = sends + 1 /\ sends \in Nat
      /\ UNCHANGED <<held, writes, received, client, g_peer_seq>>
  BY <1>1, <1>2 DEF Queues, TypeOK, tables
<1>4. /\ Len(q) \in Nat /\ Len(Append(q, line)) = Len(q) + 1
      /\ \A i \in 1..(Len(q) + 1) : Append(q, line)[i] = IF i = Len(q) + 1 THEN line ELSE q[i]
  BY AppendedIsLast
<1>5. PICK r : r = Append(q, line)
  OBVIOUS
<1>6. /\ Len(r) = Len(q) + 1 /\ r[Len(q) + 1] = line /\ \A i \in 1..Len(q) : r[i] = q[i]
  BY <1>4, <1>5
<1>7. queues'[k] = r /\ \A h \in Shards : h # k => queues'[h] = queues[h]
  BY <1>3, <1>5 DEF TypeOK
<1>8. ASSUME NEW h \in Shards, NEW c \in Conns, NEW n \in Nat, Waits(h, c, n)'
      PROVE  Waits(h, c, n) \/ (h = k /\ c = a /\ n = sends + 1)
  <2>1. CASE h # k
    BY <1>7, <1>8, <2>1 DEF Waits
  <2>2. CASE h = k
    <3>1. PICK i \in 1..(Len(q) + 1) : r[i].from = c /\ r[i].n = n
      BY <1>6, <1>7, <1>8, <2>2 DEF Waits
    <3>2. CASE i = Len(q) + 1
      BY <1>2, <1>6, <2>2, <3>1, <3>2
    <3>3. CASE i # Len(q) + 1
      <4>1. i \in 1..Len(q)
        BY <1>4, <3>3
      <4> QED
        BY <1>2, <1>6, <2>2, <3>1, <4>1 DEF Waits
    <3> QED
      BY <3>2, <3>3
  <2> QED
    BY <2>1, <2>2
<1>9. \A h \in Shards, c \in Conns, n \in Nat :
        (Routed(h, c, n)' <=> Routed(h, c, n)) /\ (Written(h, c, n)' <=> Written(h, c, n))
  BY <1>3 DEF Routed, Written
<1>10. ASSUME NEW h \in Shards, NEW c \in Conns, NEW n \in Nat, InHands(h, c, n)'
       PROVE  InHands(h, c, n) \/ (h = k /\ c = a /\ n = sends + 1)
  BY <1>8, <1>9, <1>10 DEF InHands
<1>11. Numbered'
  <2>1. \A h \in Shards, c \in Conns, n \in Nat : InHands(h, c, n)' =>
          c <= g_peer_seq' /\ ShardOf(client'[c].fd) = h /\ n <= sends'
    <3>1. \A h \in Shards, c \in Conns, n \in Nat : InHands(h, c, n)' =>
            \/ InHands(h, c, n)
            \/ c <= g_peer_seq /\ ShardOf(client[c].fd) = h /\ n <= sends'
      BY <1>1, <1>3, <1>10
    <3> QED
      BY <1>3, <3>1, NumberedHands
  <2>2. ASSUME NEW h \in Shards, NEW i \in 1..Len(queues'[h]), NEW j \in 1..Len(queues'[h]), i < j
        PROVE  queues'[h][i].n < queues'[h][j].n
    <3>1. CASE h # k
      BY <1>7, <2>2, <3>1 DEF Numbered
    <3>2. CASE h = k
      <4>1. i \in 1..Len(q) /\ j \in 1..(Len(q) + 1) /\ r[i] = q[i] /\ queues'[h] = r
        BY <1>4, <1>6, <1>7, <2>2, <3>2
      <4>2. CASE j = Len(q) + 1
        <5>1. q[i] \in Lines
          BY <4>1, ElementOfSeq
        <5>2. PICK c \in Conns, n \in Nat : c = q[i].from /\ n = q[i].n
          BY <5>1 DEF Lines
        <5>3. InHands(k, c, n)
          <6>1. Waits(k, c, n)
            BY <1>2, <4>1, <5>2 DEF Waits
          <6> QED
            BY <6>1 DEF InHands
        <5>4. n <= sends
          BY <5>3, HandsKnown
        <5>5. r[j].n = sends + 1
          BY <1>2, <1>6, <4>2
        <5>6. n < sends + 1
          BY <1>3, <5>4
        <5>7. r[i].n < r[j].n
          BY <4>1, <5>2, <5>5, <5>6
        <5> QED
          BY <4>1, <5>7
      <4>3. CASE j # Len(q) + 1
        <5>1. j \in 1..Len(q) /\ r[j] = q[j]
          BY <1>4, <1>6, <4>1, <4>3
        <5> QED
          BY <1>2, <2>2, <4>1, <5>1 DEF Numbered
      <4> QED
        BY <4>2, <4>3
    <3> QED
      BY <3>1, <3>2
  <2>3. ASSUME NEW h \in Shards, NEW c \in Conns, NEW m \in Nat, NEW n \in Nat,
               Routed(h, c, m)' \/ Written(h, c, m)', Waits(h, c, n)'
        PROVE  m < n
    <3>1. Routed(h, c, m) \/ Written(h, c, m)
      BY <1>9, <2>3
    <3>2. m <= sends
      BY <3>1, HandsKnown DEF InHands
    <3>3. CASE Waits(h, c, n)
      BY <3>1, <3>3 DEF Numbered
    <3>4. CASE n = sends + 1
      BY <1>3, <3>2, <3>4
    <3> QED
      BY <1>8, <2>3, <3>3, <3>4
  <2> QED
    BY <2>1, <2>2, <2>3 DEF Numbered
<1>12. Behind'
  <2> SUFFICES ASSUME NEW d \in Conns, NEW c \in Conns, NEW m \in Nat, Delivered(d, c, m)'
               PROVE  m <= sends' /\ \A h \in Shards, n \in Nat : InHands(h, c, n)' => m < n
    BY DEF Behind
  <2>1. Delivered(d, c, m)
    BY <1>3 DEF Delivered
  <2>2. m <= sends /\ \A h \in Shards, n \in Nat : InHands(h, c, n) => m < n
    BY <2>1 DEF Behind
  <2> QED
    BY <1>3, <1>10, <2>2
<1>13. LineOrder'
  BY <1>3 DEF LineOrder
<1> QED
  BY <1>11, <1>12, <1>13

\* The rest of Behind and LineOrder where nothing is delivered and no line
\* comes into the hands of a shard.
LEMMA OrderStays ==
  ASSUME TypeOK, Behind, LineOrder, sends' \in {sends, sends + 1},
         \A c \in Conns : received'[c] \in {received[c], <<>>},
         \A k \in Shards, c \in Conns, n \in Nat : InHands(k, c, n)' => InHands(k, c, n)
  PROVE  Behind' /\ LineOrder'
<1>1. 1..Len(<<>>) = {}
  OBVIOUS
<1>2. Behind'
  <2> SUFFICES ASSUME NEW d \in Conns, NEW c \in Conns, NEW m \in Nat, Delivered(d, c, m)'
               PROVE  m <= sends' /\ \A h \in Shards, n \in Nat : InHands(h, c, n)' => m < n
    BY DEF Behind
  <2>1. Delivered(d, c, m)
    BY <1>1 DEF Delivered
  <2>2. m <= sends /\ \A h \in Shards, n \in Nat : InHands(h, c, n) => m < n
    BY <2>1 DEF Behind
  <2>3. m <= sends'
    BY <2>2 DEF TypeOK
  <2> QED
    BY <2>2, <2>3
<1>3. LineOrder'
  <2> SUFFICES ASSUME NEW c \in Conns
               PROVE  \A i, j \in 1..Len(received'[c]) :
                        (/\ i < j /\ received'[c][i].kind = "line" /\ received'[c][j].kind = "line"
                         /\ received'[c][i].id = received'[c][j].id)
                        => received'[c][i].n < received'[c][j].n
    BY DEF LineOrder
  <2>1. CASE received'[c] = <<>>
    BY <1>1, <2>1
  <2>2. CASE received'[c] = received[c]
    BY <2>2 DEF LineOrder
  <2> QED
    BY <2>1, <2>2
<1> QED
  BY <1>2, <1>3

\* A worker takes the first line of its queue.
LEMMA TakeKeeps ==
  ASSUME TypeOK, Numbered, Behind, LineOrder, [Next]_vars, NEW k \in Shards, TakeLine(k)
  PROVE  Numbered' /\ Behind' /\ LineOrder'
<1>1. PICK q \in Seq(Lines) : q = queues[k] /\ q # <<>>
  BY DEF TypeOK, TakeLine
<1>2. PICK r \in Seq(Lines) : r = Tail(q)
  BY <1>1, HeadTailProperties
<1>3. /\ Len(q) \in Nat \ {0} /\ Len(r) = Len(q) - 1 /\ Head(q) = q[1]
      /\ \A i \in 1..Len(r) : r[i] = q[i + 1] /\ i + 1 \in 1..Len(q)
  <2>1. Len(q) \in Nat \ {0} /\ Len(r) = Len(q) - 1 /\ Head(q) = q[1]
    BY <1>1, <1>2, EmptySeq, HeadTailProperties
  <2>2. ASSUME NEW i \in 1..Len(r) PROVE r[i] = q[i + 1] /\ i + 1 \in 1..Len(q)
    BY <1>1, <1>2, <2>1, HeadTailProperties
  <2> QED
    BY <2>1, <2>2
<1>4. PICK h : h = held'[k] /\ h \in {<<>>, <<q[1]>>}
  BY <1>1, <1>3 DEF TakeLine, TypeOK
<1>5. /\ queues'[k] = r /\ \A g \in Shards : g # k => queues'[g] = queues[g] /\ held'[g] = held[g]
  BY <1>1, <1>2 DEF TakeLine, TypeOK
<1>6. writes[k] = <<>> /\ UNCHANGED <<writes, sends, received>>
  BY DEF TakeLine
<1>7. ASSUME NEW g \in Shards, NEW c \in Conns, NEW n \in Nat, Waits(g, c, n)' PROVE Waits(g, c, n)
  <2>1. CASE g # k
    BY <1>5, <1>7, <2>1 DEF Waits
  <2>2. CASE g = k
    <3>1. PICK i \in 1..Len(r) : r[i].from = c /\ r[i].n = n
      BY <1>5, <1>7, <2>2 DEF Waits
    <3>2. q[i + 1].from = c /\ q[i + 1].n = n /\ i + 1 \in 1..Len(q)
      BY <1>3, <3>1
    <3> QED
      BY <1>1, <2>2, <3>2 DEF Waits
  <2> QED
    BY <2>1, <2>2
<1>8. ASSUME NEW g \in Shards, NEW c \in Conns, NEW n \in Nat, Routed(g, c, n)'
      PROVE  (g # k /\ Routed(g, c, n)) \/ (g = k /\ q[1].from = c /\ q[1].n = n /\ Waits(g, c, n))
  <2>1. CASE g # k
    BY <1>5, <1>8, <2>1 DEF Routed
  <2>2. CASE g = k
    <3>1. PICK i \in 1..Len(h) : h[i].from = c /\ h[i].n = n
      BY <1>4, <1>8, <2>2 DEF Routed
    <3>2. h = <<q[1]>>
      <4>1. 1..Len(<<>>) = {}
        OBVIOUS
      <4> QED
        BY <1>4, <3>1, <4>1
    <3>3. i = 1 /\ h[1] = q[1]
      BY <3>2
    <3>4. 1 \in 1..Len(q) /\ q[1].from = c /\ q[1].n = n
      BY <1>3, <3>1, <3>3
    <3>5. Waits(g, c, n)
      BY <1>1, <2>2, <3>4 DEF Waits
    <3> QED
      BY <2>2, <3>4, <3>5
  <2> QED
    BY <2>1, <2>2
<1>9. ASSUME NEW g \in Shards, NEW c \in Conns, NEW n \in Nat, Written(g, c, n)'
      PROVE  g # k /\ Written(g, c, n)
  <2>1. 1..Len(<<>>) = {}
    OBVIOUS
  <2> QED
    BY <1>6, <1>9, <2>1 DEF Written
<1>10. \A g \in Shards, c \in Conns, n \in Nat : InHands(g, c, n)' => InHands(g, c, n)
  BY <1>7, <1>8, <1>9 DEF InHands
<1>11. Numbered'
  <2>1. \A g \in Shards, c \in Conns, n \in Nat : InHands(g, c, n)' =>
          c <= g_peer_seq' /\ ShardOf(client'[c].fd) = g /\ n <= sends'
    BY <1>6, <1>10, NumberedHands
  <2>2. ASSUME NEW g \in Shards, NEW i \in 1..Len(queues'[g]), NEW j \in 1..Len(queues'[g]), i < j
        PROVE  queues'[g][i].n < queues'[g][j].n
    <3>1. CASE g # k
      BY <1>5, <2>2, <3>1 DEF Numbered
    <3>2. CASE g = k
      <4>1. i \in 1..Len(r) /\ j \in 1..Len(r) /\ queues'[g] = r
        BY <1>5, <3>2
      <4>2. /\ r[i] = q[i + 1] /\ r[j] = q[j + 1] /\ i + 1 < j + 1
            /\ i + 1 \in 1..Len(q) /\ j + 1 \in 1..Len(q)
        BY <1>3, <2>2, <4>1
      <4>3. q[i + 1].n < q[j + 1].n
        BY <1>1, <4>2 DEF Numbered
      <4>4. r[i].n < r[j].n
        BY <4>2, <4>3
      <4> QED
        BY <4>1, <4>4
    <3> QED
      BY <3>1, <3>2
  <2>3. ASSUME NEW g \in Shards, NEW c \in Conns, NEW m \in Nat, NEW n \in Nat,
               Routed(g, c, m)' \/ Written(g, c, m)', Waits(g, c, n)'
        PROVE  m < n
    <3>1. CASE g # k
      <4>1. Routed(g, c, m) \/ Written(g, c, m)
        BY <1>8, <1>9, <2>3, <3>1
      <4>2. Waits(g, c, n)
        BY <1>7, <2>3
      <4> QED
        BY <4>1, <4>2 DEF Numbered
    <3>2. CASE g = k
      <4>1. q[1].n = m
        BY <1>8, <1>9, <2>3, <3>2
      <4>2. PICK i \in 1..Len(r) : r[i].n = n
        BY <1>5, <2>3, <3>2 DEF Waits
      <4>3. q[i + 1].n = n /\ 1 < i + 1 /\ i + 1 \in 1..Len(q) /\ 1 \in 1..Len(q)
        BY <1>3, <4>2
      <4>4. q[1].n < q[i + 1].n
        BY <1>1, <4>3 DEF Numbered
      <4> QED
        BY <4>1, <4>3, <4>4
    <3> QED
      BY <3>1, <3>2
  <2> QED
    BY <2>1, <2>2, <2>3 DEF Numbered
<1> QED
  BY <1>6, <1>10, <1>11, OrderStays

\* The line that was popped is about to be written, or has no target.
LEMMA RouteKeeps ==
  ASSUME TypeOK, Numbered, Behind, LineOrder, Workers, [Next]_vars, NEW k \in Shards, RouteWrites(k),
         UNCHANGED <<queues, sends, received>>
  PROVE  Numbered' /\ Behind' /\ LineOrder'
<1>1. held'[k] = <<>> /\ held[k] # <<>> /\ \A g \in Shards : g # k => held'[g] = held[g]
  BY DEF RouteWrites, TypeOK
<1>2. \A g \in Shards : g # k => writes'[g] = writes[g]
  BY ThreadsAre DEF RouteWrites, TypeOK
<1>3. 1..Len(<<>>) = {}
  OBVIOUS
<1>4. \A g \in Shards, c \in Conns, n \in Nat : Waits(g, c, n)' <=> Waits(g, c, n)
  BY DEF Waits
<1>5. ASSUME NEW g \in Shards, NEW c \in Conns, NEW n \in Nat, Routed(g, c, n)' PROVE Routed(g, c, n)
  <2>1. CASE g = k
    BY <1>1, <1>3, <1>5, <2>1 DEF Routed
  <2>2. CASE g # k
    BY <1>1, <1>5, <2>2 DEF Routed
  <2> QED
    BY <2>1, <2>2
<1>6. ASSUME NEW g \in Shards, NEW c \in Conns, NEW n \in Nat, Written(g, c, n)'
      PROVE  Routed(g, c, n) \/ Written(g, c, n)
  <2>1. CASE g # k
    BY <1>2, <1>6, <2>1 DEF Written
  <2>2. CASE g = k
    <3>1. CASE writes' = [writes EXCEPT ![k] = <<>>]
      <4>1. writes'[k] = <<>>
        BY <3>1, ThreadsAre DEF TypeOK
      <4> QED
        BY <1>3, <1>6, <2>2, <4>1 DEF Written
    <3>2. ASSUME NEW fd \in Fds, writes' = [writes EXCEPT ![k] = SendJsonLine(fd, Forward(Head(held[k])), FALSE)]
          PROVE  Routed(g, c, n)
      <4>1. /\ 1 \in 1..Len(held[k]) /\ Head(held[k]) = held[k][1]
            /\ Forward(held[k][1]) \in Tokens
        BY <1>1, HeldIsKnown
      <4>2. PICK tok \in Tokens : tok = Forward(held[k][1])
        BY <4>1
      <4>3. PICK q : q = SendJsonLine(fd, tok, FALSE)
        OBVIOUS
      <4>4. /\ Len(q) = 2
            /\ q[1] = [fd |-> fd, tok |-> tok, locked |-> FALSE]
            /\ q[2] = [fd |-> fd, tok |-> NL, locked |-> FALSE]
        BY <4>3, SentIsLine
      <4>5. writes'[k] = q
        BY <3>2, <4>1, <4>2, <4>3, ThreadsAre DEF TypeOK
      <4>6. PICK i \in 1..2 : q[i].tok.kind = "line" /\ q[i].tok.id = c /\ q[i].tok.n = n
        BY <1>6, <2>2, <4>4, <4>5 DEF Written
      <4>7. i = 1 /\ tok.id = c /\ tok.n = n
        BY <4>4, <4>6, TextsTyped
      <4>8. held[k][1].from = c /\ held[k][1].n = n
        BY <4>2, <4>7 DEF Forward
      <4> QED
        BY <2>2, <4>1, <4>8 DEF Routed
    <3> QED
      BY <3>1, <3>2 DEF RouteWrites
  <2> QED
    BY <2>1, <2>2
<1>7. \A g \in Shards, c \in Conns, n \in Nat : InHands(g, c, n)' => InHands(g, c, n)
  BY <1>4, <1>5, <1>6 DEF InHands
<1>8. Numbered'
  <2>1. \A g \in Shards, c \in Conns, n \in Nat : InHands(g, c, n)' =>
          c <= g_peer_seq' /\ ShardOf(client'[c].fd) = g /\ n <= sends'
    BY <1>7, NumberedHands
  <2>2. \A g \in Shards : \A i, j \in 1..Len(queues'[g]) : i < j => queues'[g][i].n < queues'[g][j].n
    BY DEF Numbered
  <2>3. ASSUME NEW g \in Shards, NEW c \in Conns, NEW m \in Nat, NEW n \in Nat,
               Routed(g, c, m)' \/ Written(g, c, m)', Waits(g, c, n)'
        PROVE  m < n
    <3>1. Waits(g, c, n) /\ (Routed(g, c, m) \/ Written(g, c, m))
      BY <1>4, <1>5, <1>6, <2>3
    <3> QED
      BY <3>1 DEF Numbered
  <2> QED
    BY <2>1, <2>2, <2>3 DEF Numbered
<1>9. \A c \in Conns : received'[c] \in {received[c], <<>>}
  OBVIOUS
<1> QED
  BY <1>7, <1>8, <1>9, OrderStays

\* Nothing comes.
LEMMA FadesKeeps ==
  ASSUME TypeOK, Numbered, Behind, LineOrder, [Next]_vars, Fades
  PROVE  Numbered' /\ Behind' /\ LineOrder'
<1>1. \A g \in Shards, c \in Conns, n \in Nat :
        (Waits(g, c, n)' <=> Waits(g, c, n)) /\ (Routed(g, c, n)' <=> Routed(g, c, n))
  BY DEF Fades, Waits, Routed
<1>2. \A g \in Shards, c \in Conns, n \in Nat : Written(g, c, n)' => Written(g, c, n)
  BY DEF Fades
<1>3. \A g \in Shards, c \in Conns, n \in Nat : InHands(g, c, n)' => InHands(g, c, n)
  BY <1>1, <1>2 DEF InHands
<1>4. sends' \in {sends, sends + 1} /\ UNCHANGED queues /\ \A c \in Conns : received'[c] \in {received[c], <<>>}
  BY DEF Fades
<1>5. Numbered'
  <2>1. \A g \in Shards, c \in Conns, n \in Nat : InHands(g, c, n)' =>
          c <= g_peer_seq' /\ ShardOf(client'[c].fd) = g /\ n <= sends'
    BY <1>3, <1>4, NumberedHands
  <2>2. \A g \in Shards : \A i, j \in 1..Len(queues'[g]) : i < j => queues'[g][i].n < queues'[g][j].n
    BY <1>4 DEF Numbered
  <2>3. ASSUME NEW g \in Shards, NEW c \in Conns, NEW m \in Nat, NEW n \in Nat,
               Routed(g, c, m)' \/ Written(g, c, m)', Waits(g, c, n)'
        PROVE  m < n
    <3>1. Waits(g, c, n) /\ (Routed(g, c, m) \/ Written(g, c, m))
      BY <1>1, <1>2, <2>3
    <3> QED
      BY <3>1 DEF Numbered
  <2> QED
    BY <2>1, <2>2, <2>3 DEF Numbered
<1> QED
  BY <1>3, <1>4, <1>5, OrderStays

\* What is written is delivered to the connection behind the descriptor: all
\* other lines of its client are behind it.
LEMMA DeliversKeeps ==
  ASSUME TypeOK, Named, Framed, Workers, Numbered, Behind, LineOrder, [Next]_vars,
         NEW t \in Threads, NEW d \in Conns, NEW tok \in Tokens, Delivers(t, d, tok)
  PROVE  Numbered' /\ Behind' /\ LineOrder'
<1>1. UNCHANGED <<queues, held, sends>>
  BY DEF Delivers, workers
<1>2. /\ writes[t] \in Seq(Pieces) /\ 1 \in 1..Len(writes[t]) /\ writes[t][1].tok = tok /\ writes[t] # <<>>
      /\ InLines(writes[t]) /\ writes \in [Threads -> Seq(Pieces)]
  BY FirstPiece DEF Delivers, Framed, TypeOK, Pieces
<1>3. \A i \in 1..Len(Tail(writes[t])) : \E j \in 1..Len(writes[t]) : j > i /\ Tail(writes[t])[i] = writes[t][j]
  BY <1>2, LeftAreLines DEF Left
<1>4. writes'[t] = Tail(writes[t]) /\ \A g \in Shards : g # t => writes'[g] = writes[g]
  BY <1>2, ThreadsAre DEF Delivers
<1>5. ASSUME NEW g \in Shards, NEW c \in Conns, NEW n \in Nat, Written(g, c, n)'
      PROVE  g # t /\ Written(g, c, n)
  <2>1. CASE g # t
    BY <1>4, <1>5, <2>1 DEF Written
  <2>2. CASE g = t
    <3>1. PICK i \in 1..Len(Tail(writes[t])) : Tail(writes[t])[i].tok.kind = "line"
      BY <1>4, <1>5, <2>2 DEF Written
    <3>2. PICK j \in 1..Len(writes[t]) : j > i /\ writes[t][j].tok.kind = "line"
      BY <1>3, <3>1
    <3>3. j = 1
      BY <2>2, <3>2 DEF Workers, OneLine
    <3>4. Tail(writes[t]) \in Seq(Pieces)
      BY <1>2, HeadTailProperties
    <3>5. Len(Tail(writes[t])) \in Nat
      BY <3>4, LenProperties
    <3> QED
      BY <3>1, <3>2, <3>3, <3>5
  <2> QED
    BY <2>1, <2>2
<1>6. \A g \in Shards, c \in Conns, n \in Nat :
        (Waits(g, c, n)' <=> Waits(g, c, n)) /\ (Routed(g, c, n)' <=> Routed(g, c, n))
  BY <1>1 DEF Waits, Routed
<1>7. \A g \in Shards, c \in Conns, n \in Nat : InHands(g, c, n)' => InHands(g, c, n)
  BY <1>5, <1>6 DEF InHands
<1>8. Numbered'
  <2>1. \A g \in Shards, c \in Conns, n \in Nat : InHands(g, c, n)' =>
          c <= g_peer_seq' /\ ShardOf(client'[c].fd) = g /\ n <= sends'
    BY <1>1, <1>7, NumberedHands
  <2>2. \A g \in Shards : \A i, j \in 1..Len(queues'[g]) : i < j => queues'[g][i].n < queues'[g][j].n
    BY <1>1 DEF Numbered
  <2>3. ASSUME NEW g \in Shards, NEW c \in Conns, NEW m \in Nat, NEW n \in Nat,
               Routed(g, c, m)' \/ Written(g, c, m)', Waits(g, c, n)'
        PROVE  m < n
    <3>1. Waits(g, c, n) /\ (Routed(g, c, m) \/ Written(g, c, m))
      BY <1>5, <1>6, <2>3
    <3> QED
      BY <3>1 DEF Numbered
  <2> QED
    BY <2>1, <2>2, <2>3 DEF Numbered
<1>9. ASSUME tok.kind = "line", tok.id \in Conns
      PROVE  /\ t \in Shards /\ tok.n \in Nat /\ Written(t, tok.id, tok.n) /\ tok.n <= sends
             /\ \A g \in Shards, n \in Nat : InHands(g, tok.id, n)' => tok.n < n
  <2>1. t \in Shards /\ tok.n \in Nat
    BY <1>2, <1>9, ThreadsAre DEF Workers, NoLine, Tokens
  <2>2. PICK a \in Conns, m \in Nat : a = tok.id /\ m = tok.n
    BY <1>9, <2>1
  <2>3. Written(t, a, m)
    BY <1>2, <1>9, <2>2 DEF Written
  <2>4. InHands(t, a, m)
    BY <2>3 DEF InHands
  <2>5. ShardOf(client[a].fd) = t /\ m <= sends
    BY <2>1, <2>4, HandsKnown
  <2>6. ASSUME NEW g \in Shards, NEW n \in Nat, InHands(g, a, n)' PROVE m < n
    <3>1. g = t
      BY <1>7, <2>5, <2>6, HandsKnown
    <3>2. ~Written(g, a, n)'
      BY <1>5, <3>1
    <3>3. ~Routed(g, a, n)
      <4>1. held[t] = <<>> /\ 1..Len(<<>>) = {}
        BY <1>2, <2>1 DEF Workers
      <4> QED
        BY <3>1, <4>1 DEF Routed
    <3>4. Waits(g, a, n)
      BY <1>6, <2>6, <3>2, <3>3 DEF InHands
    <3> QED
      BY <2>1, <2>3, <3>1, <3>4 DEF Numbered
  <2> QED
    BY <2>1, <2>2, <2>3, <2>5, <2>6
<1>10. PICK q \in Seq(Tokens) : q = received[d]
  BY DEF TypeOK
<1>11. /\ Len(q) \in Nat /\ Len(Append(q, tok)) = Len(q) + 1
       /\ \A i \in 1..(Len(q) + 1) : Append(q, tok)[i] = IF i = Len(q) + 1 THEN tok ELSE q[i]
  BY AppendedIsLast
<1>12. PICK r : r = Append(q, tok)
  OBVIOUS
<1>13. /\ Len(r) = Len(q) + 1 /\ r[Len(q) + 1] = tok /\ \A i \in 1..Len(q) : r[i] = q[i]
  BY <1>11, <1>12
<1>14. received'[d] = r /\ \A c \in Conns : c # d => received'[c] = received[c]
  BY <1>10, <1>12 DEF Delivers, TypeOK
<1>15. ASSUME NEW c \in Conns, NEW a \in Conns, NEW m \in Nat, Delivered(c, a, m)'
       PROVE  Delivered(c, a, m) \/ (c = d /\ tok.kind = "line" /\ tok.id = a /\ tok.n = m)
  <2>1. CASE c # d
    BY <1>14, <1>15, <2>1 DEF Delivered
  <2>2. CASE c = d
    <3>1. PICK i \in 1..(Len(q) + 1) : r[i].kind = "line" /\ r[i].id = a /\ r[i].n = m
      BY <1>13, <1>14, <1>15, <2>2 DEF Delivered
    <3>2. CASE i = Len(q) + 1
      BY <1>13, <2>2, <3>1, <3>2
    <3>3. CASE i # Len(q) + 1
      <4>1. i \in 1..Len(q)
        BY <1>11, <3>3
      <4> QED
        BY <1>10, <1>13, <2>2, <3>1, <4>1 DEF Delivered
    <3> QED
      BY <3>2, <3>3
  <2> QED
    BY <2>1, <2>2
<1>16. Behind'
  <2> SUFFICES ASSUME NEW c \in Conns, NEW a \in Conns, NEW m \in Nat, Delivered(c, a, m)'
               PROVE  m <= sends' /\ \A h \in Shards, n \in Nat : InHands(h, a, n)' => m < n
    BY DEF Behind
  <2>1. CASE Delivered(c, a, m)
    <3>1. m <= sends /\ \A h \in Shards, n \in Nat : InHands(h, a, n) => m < n
      BY <2>1 DEF Behind
    <3> QED
      BY <1>1, <1>7, <3>1
  <2>2. CASE tok.kind = "line" /\ tok.id = a /\ tok.n = m
    BY <1>1, <1>9, <2>2
  <2> QED
    BY <1>15, <2>1, <2>2
<1>17. LineOrder'
  <2> SUFFICES ASSUME NEW c \in Conns, NEW i \in 1..Len(received'[c]), NEW j \in 1..Len(received'[c]),
                      i < j, received'[c][i].kind = "line", received'[c][j].kind = "line",
                      received'[c][i].id = received'[c][j].id
               PROVE  received'[c][i].n < received'[c][j].n
    BY DEF LineOrder
  <2>1. CASE c # d
    BY <1>14, <2>1 DEF LineOrder
  <2>2. CASE c = d
    <3>1. received'[c] = r /\ i \in 1..Len(q) /\ j \in 1..(Len(q) + 1) /\ r[i] = q[i]
      BY <1>11, <1>13, <1>14, <2>2
    <3>2. CASE j = Len(q) + 1
      <4>1. tok.kind = "line" /\ q[i].kind = "line" /\ q[i].id = tok.id /\ r[j] = tok
        BY <1>13, <3>1, <3>2
      <4>2. q[i] \in Tokens
        BY <3>1, ElementOfSeq
      <4>3. tok.id \in Conns
        <5>1. writes[t][1].tok.kind = "line" /\ t \in Shards
          BY <1>2, <4>1, ThreadsAre DEF Workers, NoLine
        <5> QED
          BY <1>2, <5>1 DEF Workers, OneLine
      <4>4. PICK a \in Conns, m \in Nat : a = tok.id /\ m = q[i].n
        BY <4>2, <4>3 DEF Tokens
      <4>5. Delivered(d, a, m)
        BY <1>10, <3>1, <4>1, <4>4 DEF Delivered
      <4>6. InHands(t, a, tok.n) /\ t \in Shards /\ tok.n \in Nat
        BY <1>9, <4>1, <4>4 DEF InHands
      <4>7. m < tok.n
        BY <4>5, <4>6 DEF Behind
      <4>8. r[i].n < r[j].n
        BY <3>1, <4>1, <4>4, <4>7
      <4> QED
        BY <3>1, <4>8
    <3>3. CASE j # Len(q) + 1
      <4>1. j \in 1..Len(q) /\ r[j] = q[j]
        BY <1>11, <1>13, <3>1, <3>3
      <4>2. q[i].kind = "line" /\ q[j].kind = "line" /\ q[i].id = q[j].id
        BY <3>1, <4>1
      <4>3. q[i].n < q[j].n
        BY <1>10, <3>1, <4>1, <4>2 DEF LineOrder
      <4>4. r[i].n < r[j].n
        BY <3>1, <4>1, <4>3
      <4> QED
        BY <3>1, <4>4
    <3> QED
      BY <3>2, <3>3
  <2> QED
    BY <2>1, <2>2
<1> QED
  BY <1>8, <1>16, <1>17

\* What does not need the tables, together.
LEMMA LinesNext ==
  ASSUME LinesInv, [Next]_vars
  PROVE  LinesInv'
<1> USE DEF LinesInv
<1>1. TypeOK' /\ Registered' /\ Named' /\ Framed' /\ Workers'
  BY TypeNext, RegisteredNext, NamedNext, WritesNext, WorkersNext
<1>2. ASSUME NEW fd \in Fds, NEW to \in 0..MaxConns, Queues(fd, to) PROVE Numbered' /\ Behind' /\ LineOrder'
  BY <1>2, QueuesKeeps
<1>3. ASSUME NEW k \in Shards, TakeLine(k) PROVE Numbered' /\ Behind' /\ LineOrder'
  BY <1>3, TakeKeeps
<1>4. ASSUME NEW k \in Shards, RouteWrites(k), UNCHANGED <<queues, sends, received>>
      PROVE  Numbered' /\ Behind' /\ LineOrder'
  BY <1>4, RouteKeeps
<1>5. ASSUME NEW t \in Threads, NEW c \in Conns, NEW tok \in Tokens, Delivers(t, c, tok)
      PROVE  Numbered' /\ Behind' /\ LineOrder'
  BY <1>5, DeliversKeeps
<1>6. ASSUME Fades PROVE Numbered' /\ Behind' /\ LineOrder'
  BY <1>6, FadesKeeps
<1>7. Numbered' /\ Behind' /\ LineOrder'
  BY <1>2, <1>3, <1>4, <1>5, <1>6, LineSteps, Zenon
<1> QED
  BY <1>1, <1>7

-----------------------------------------------------------------------------
(* The tables *)

Alive(c) == \E fd \in Fds : open[fd] = c

SameIds == \A fd \in Fds : g_clients[fd] = open[fd] /\ g_fd_to_info[fd] = open[fd]
OwnFd == \A fd \in Fds : open[fd] # 0 => client[open[fd]].fd = fd
Subscribed ==
  \A s \in Streams, c \in Conns :
    (c \in g_subscribers[s]) <=> Alive(c) /\ client[c].role = "subscriber" /\ client[c].stream_id = s
Published ==
  \A s \in Streams, c \in Conns :
    (c = Publisher(s)) <=> Alive(c) /\ client[c].role = "publisher" /\ client[c].stream_id = s
Died == \A c \in 1..g_peer_seq : (c \in dead) <=> ~Alive(c)
Heads == \A s \in Streams : g_publishers[s] # 0 => open[g_publishers[s]] # 0

Agree == SameIds /\ OwnFd /\ Subscribed /\ Published /\ Died /\ Heads

\* TablesAgree and PublisherOpen, in parts.
LEMMA AgreeParts == (TablesAgree /\ PublisherOpen) <=> (server = "up" => Agree)
<1>1. Died <=> \A c \in 1..g_peer_seq : (c \in dead) <=> \A fd \in Fds : open[fd] # c
  BY DEF Died, Alive
<1>2. (Subscribed /\ Published) <=>
        \A s \in Streams, c \in Conns :
         /\ (c \in g_subscribers[s]) <=>
              (/\ \E fd \in Fds : open[fd] = c
               /\ client[c].role = "subscriber" /\ client[c].stream_id = s)
         /\ (c = Publisher(s)) <=>
              (/\ \E fd \in Fds : open[fd] = c
               /\ client[c].role = "publisher" /\ client[c].stream_id = s)
  BY ZenonT(60) DEF Subscribed, Published, Alive
<1> QED
  BY <1>1, <1>2, Zenon DEF TablesAgree, PublisherOpen, Agree, SameIds, OwnFd, Heads

\* The same of the next state.
LEMMA AgreePartsNext == (TablesAgree' /\ PublisherOpen') <=> (server = "up" => Agree)'
BY AgreeParts, PTL

\* A publisher's descriptor is open, its connection a publisher of the stream.
LEMMA PublisherIs ==
  ASSUME TypeOK, Agree, NEW s \in Streams, g_publishers[s] # 0
  PROVE  /\ g_publishers[s] \in Fds /\ open[g_publishers[s]] \in Conns
         /\ Publisher(s) = open[g_publishers[s]]
         /\ client[open[g_publishers[s]]].role = "publisher"
         /\ client[open[g_publishers[s]]].stream_id = s
<1>1. g_publishers[s] \in Fds
  BY ServerAssumption DEF TypeOK, Fds
<1>2. open[g_publishers[s]] \in 0..MaxConns /\ open[g_publishers[s]] # 0
  BY <1>1 DEF TypeOK, Agree, Heads
<1>3. open[g_publishers[s]] \in Conns /\ Publisher(s) = open[g_publishers[s]]
  BY <1>2, ServerAssumption DEF Conns, Publisher
<1> QED
  BY <1>1, <1>3 DEF Agree, Published

\* A descriptor belongs to one connection.
LEMMA OneFd ==
  ASSUME Agree, NEW f \in Fds, NEW g \in Fds, open[f] = open[g], open[f] # 0
  PROVE  f = g
BY DEF Agree, OwnFd

\* An open connection has a known id.
LEMMA AliveIsKnown ==
  ASSUME TypeOK, Named, NEW c \in Conns, Alive(c)
  PROVE  c <= g_peer_seq
BY DEF Alive, Named

\* A new publisher takes the place of the stream's earlier one.
LEMMA PublisherAgrees ==
  ASSUME TypeOK, Registered, Named, Agree, [Next]_vars,
         NEW fd \in Fds, NEW s \in Streams, RegisterPublisher(fd, s)
  PROVE  Agree'
<1> DEFINE c == g_peer_seq + 1
           old == Replaced(s)
<1>1. /\ c \in Conns /\ g_peer_seq' = c /\ g_peer_seq \in Nat /\ open[fd] = 0
      /\ client' = [client EXCEPT ![c] = [fd |-> fd, role |-> "publisher", stream_id |-> s]]
      /\ g_subscribers' = g_subscribers
  BY DEF RegisterPublisher, LowestFree, TypeOK
<1>2. /\ client'[c] = [fd |-> fd, role |-> "publisher", stream_id |-> s]
      /\ \A d \in Conns : d # c => client'[d] = client[d]
  BY <1>1 DEF TypeOK
<1>3. \A f \in old : f \in Fds /\ f = g_publishers[s] /\ g_publishers[s] # 0 /\ open[f] # 0 /\ f # fd
  <2>1. old = {g_publishers[s]} \ {0}
    BY DEF Replaced
  <2>2. ASSUME g_publishers[s] # 0 PROVE g_publishers[s] \in Fds /\ open[g_publishers[s]] # 0
    BY <2>2, PublisherIs DEF Conns
  <2> QED
    BY <1>1, <2>1, <2>2
<1>4. g_publishers[s] # 0 => g_publishers[s] \in old
  BY DEF Replaced
<1>5. ASSUME NEW f \in Fds
      PROVE  /\ f \in old => open'[f] = 0 /\ g_clients'[f] = 0 /\ g_fd_to_info'[f] = 0
             /\ f = fd => open'[f] = c /\ g_clients'[f] = c /\ g_fd_to_info'[f] = c
             /\ f \notin old /\ f # fd =>
                  open'[f] = open[f] /\ g_clients'[f] = g_clients[f] /\ g_fd_to_info'[f] = g_fd_to_info[f]
  BY <1>3 DEF RegisterPublisher
<1>6. /\ g_publishers'[s] = fd /\ \A z \in Streams : z # s => g_publishers'[z] = g_publishers[z]
      /\ dead' = dead \cup ({g_clients[f] : f \in old} \ {0})
  BY DEF RegisterPublisher, TypeOK
<1> HIDE DEF c, old
<1>7. \A f \in Fds : open[f] \in 0..MaxConns /\ open[f] <= g_peer_seq /\ open[f] # c
  BY <1>1 DEF TypeOK, Named, c
<1>8. c # 0 /\ fd # 0 /\ ~Alive(c)
  BY <1>1, <1>7 DEF Conns, Fds, Alive, c
\* p is the earlier publisher, if there is one.
<1>9. PICK p : p = IF g_publishers[s] = 0 THEN 0 ELSE open[g_publishers[s]]
  OBVIOUS
<1>10. p # 0 => /\ g_publishers[s] # 0 /\ g_publishers[s] \in old /\ g_publishers[s] \in Fds
               /\ p \in Conns /\ p = open[g_publishers[s]] /\ client[p].role = "publisher" /\ client[p].stream_id = s
  BY <1>4, <1>9, PublisherIs
<1>11. \A f \in old : open[f] = p /\ p # 0 /\ g_clients[f] = p
  BY <1>3, <1>9 DEF Agree, SameIds
<1>12. ASSUME NEW d \in Conns PROVE Alive(d)' <=> d = c \/ (d # p /\ Alive(d))
  <2>1. ASSUME Alive(d)' PROVE d = c \/ (d # p /\ Alive(d))
    <3>1. PICK f \in Fds : open'[f] = d
      BY <2>1 DEF Alive
    <3>2. d # 0
      BY DEF Conns
    <3>3. f \notin old
      BY <1>5, <3>1, <3>2
    <3>4. CASE f = fd
      BY <1>5, <3>1, <3>4
    <3>5. CASE f # fd
      <4>1. open[f] = d
        BY <1>5, <3>1, <3>3, <3>5
      <4>2. d # p
        <5> SUFFICES ASSUME d = p PROVE FALSE
          OBVIOUS
        <5>1. g_publishers[s] \in old /\ g_publishers[s] \in Fds /\ open[f] = open[g_publishers[s]]
          BY <1>10, <3>2, <4>1
        <5>2. f = g_publishers[s]
          BY <3>2, <4>1, <5>1, OneFd
        <5> QED
          BY <3>3, <5>1, <5>2
      <4> QED
        BY <4>1, <4>2 DEF Alive
    <3> QED
      BY <3>4, <3>5
  <2>2. ASSUME d = c PROVE Alive(d)'
    <3>1. open'[fd] = d
      BY <1>5, <2>2
    <3> QED
      BY <3>1 DEF Alive
  <2>3. ASSUME d # p, Alive(d) PROVE Alive(d)'
    <3>1. PICK f \in Fds : open[f] = d
      BY <2>3 DEF Alive
    <3>2. f \notin old /\ f # fd
      BY <1>1, <1>11, <2>3, <3>1 DEF Conns
    <3>3. open'[f] = d
      BY <1>5, <3>1, <3>2
    <3> QED
      BY <3>3 DEF Alive
  <2> QED
    BY <2>1, <2>2, <2>3
<1>13. SameIds'
  <2> SUFFICES ASSUME NEW f \in Fds PROVE g_clients'[f] = open'[f] /\ g_fd_to_info'[f] = open'[f]
    BY DEF SameIds
  <2> QED
    BY <1>5 DEF Agree, SameIds
<1>14. OwnFd'
  <2> SUFFICES ASSUME NEW f \in Fds, open'[f] # 0 PROVE client'[open'[f]].fd = f
    BY DEF OwnFd
  <2>1. CASE f = fd
    BY <1>2, <1>5, <2>1
  <2>2. CASE f # fd
    <3>1. open'[f] = open[f] /\ open[f] # 0
      BY <1>5, <2>2
    <3>2. open[f] \in Conns /\ open[f] # c
      BY <1>7, <3>1, ServerAssumption DEF Conns
    <3> QED
      BY <1>2, <3>1, <3>2 DEF Agree, OwnFd
  <2> QED
    BY <2>1, <2>2
<1>15. Subscribed'
  <2> SUFFICES ASSUME NEW z \in Streams, NEW d \in Conns
               PROVE  (d \in g_subscribers[z]) <=>
                        Alive(d)' /\ client'[d].role = "subscriber" /\ client'[d].stream_id = z
    BY <1>1 DEF Subscribed
  <2>1. CASE d = c
    <3>1. d \notin g_subscribers[z]
      BY <1>8, <2>1 DEF Agree, Subscribed
    <3> QED
      BY <1>2, <2>1, <3>1
  <2>2. CASE d # c
    <3>1. client'[d] = client[d] /\ (Alive(d)' <=> d # p /\ Alive(d))
      BY <1>2, <1>12, <2>2
    <3>2. d = p => client[d].role = "publisher"
      BY <1>10 DEF Conns
    <3> QED
      BY <3>1, <3>2 DEF Agree, Subscribed
  <2> QED
    BY <2>1, <2>2
<1>16. ASSUME NEW z \in Streams, z # s
       PROVE  Publisher(z)' = Publisher(z) /\ (g_publishers'[z] # 0 => open'[g_publishers'[z]] # 0)
  <2>1. g_publishers'[z] = g_publishers[z]
    BY <1>6, <1>16
  <2>2. CASE g_publishers[z] = 0
    BY <2>1, <2>2 DEF Publisher
  <2>3. CASE g_publishers[z] # 0
    <3>1. /\ g_publishers[z] \in Fds /\ open[g_publishers[z]] \in Conns
          /\ client[open[g_publishers[z]]].stream_id = z
      BY <2>3, PublisherIs
    <3>2. g_publishers[z] \notin old
      BY <1>10, <1>11, <1>16, <3>1
    <3>3. g_publishers[z] # fd
      BY <1>1, <3>1 DEF Conns
    <3>4. open'[g_publishers[z]] = open[g_publishers[z]]
      BY <1>5, <3>1, <3>2, <3>3
    <3>5. open[g_publishers[z]] # 0
      BY <3>1 DEF Conns
    <3> QED
      BY <2>1, <2>3, <3>4, <3>5 DEF Publisher
  <2> QED
    BY <2>2, <2>3
<1>17. Publisher(s)' = c /\ open'[g_publishers'[s]] # 0
  BY <1>5, <1>6, <1>8 DEF Publisher
<1>18. Published'
  <2> SUFFICES ASSUME NEW z \in Streams, NEW d \in Conns
               PROVE  (d = Publisher(z)') <=>
                        Alive(d)' /\ client'[d].role = "publisher" /\ client'[d].stream_id = z
    BY DEF Published
  <2>1. CASE d = c
    <3>1. client'[d].role = "publisher" /\ client'[d].stream_id = s /\ Alive(d)'
      BY <1>2, <1>12, <2>1
    <3>2. CASE z = s
      BY <1>17, <2>1, <3>1, <3>2
    <3>3. CASE z # s
      <4>1. d # Publisher(z)
        BY <1>8, <2>1 DEF Agree, Published
      <4> QED
        BY <1>16, <3>1, <3>3, <4>1
    <3> QED
      BY <3>2, <3>3
  <2>2. CASE d # c
    <3>1. client'[d] = client[d] /\ (Alive(d)' <=> d # p /\ Alive(d))
      BY <1>2, <1>12, <2>2
    <3>2. CASE z = s
      <4>1. Publisher(s) = p
        BY <1>9 DEF Publisher
      <4> QED
        BY <1>17, <2>2, <3>1, <3>2, <4>1 DEF Agree, Published
    <3>3. CASE z # s
      <4>1. d = p => client[d].stream_id = s
        BY <1>10 DEF Conns
      <4> QED
        BY <1>16, <3>1, <3>3, <4>1 DEF Agree, Published
    <3> QED
      BY <3>2, <3>3
  <2> QED
    BY <2>1, <2>2
<1>19. Died'
  <2> SUFFICES ASSUME NEW d \in 1..c PROVE (d \in dead') <=> ~Alive(d)'
    BY <1>1 DEF Died
  <2>1. d \in Conns
    BY <1>1, ServerAssumption DEF Conns
  <2>2. (d \in dead') <=> d \in dead \/ d = p
    <3>1. ASSUME d = p PROVE d \in {g_clients[f] : f \in old} \ {0}
      BY <1>10, <1>11, <2>1, <3>1 DEF Conns
    <3>2. ASSUME d \in {g_clients[f] : f \in old} PROVE d = p
      BY <1>11, <3>2
    <3> QED
      BY <1>6, <3>1, <3>2
  <2>3. CASE d = c
    <3>1. d \notin dead
      BY <1>1, <2>3 DEF Named, c
    <3>2. d # p
      BY <1>7, <1>10, <2>3, <1>8
    <3> QED
      BY <1>12, <2>1, <2>2, <2>3, <3>1, <3>2
  <2>4. CASE d # c
    <3>1. d \in 1..g_peer_seq
      BY <1>1, <2>4 DEF c
    <3> QED
      BY <1>12, <2>1, <2>2, <2>4, <3>1 DEF Agree, Died
  <2> QED
    BY <2>3, <2>4
<1>20. Heads'
  BY <1>16, <1>17 DEF Heads
<1> QED
  BY <1>13, <1>14, <1>15, <1>18, <1>19, <1>20 DEF Agree

\* A new subscriber joins the stream's.
LEMMA SubscriberAgrees ==
  ASSUME TypeOK, Registered, Named, Agree, [Next]_vars,
         NEW fd \in Fds, NEW s \in Streams, RegisterSubscriber(fd, s)
  PROVE  Agree'
<1> DEFINE c == g_peer_seq + 1
<1>1. /\ c \in Conns /\ g_peer_seq' = c /\ g_peer_seq \in Nat /\ open[fd] = 0
      /\ client' = [client EXCEPT ![c] = [fd |-> fd, role |-> "subscriber", stream_id |-> s]]
      /\ UNCHANGED <<g_publishers, dead>>
  BY DEF RegisterSubscriber, LowestFree, TypeOK
<1>2. /\ client'[c] = [fd |-> fd, role |-> "subscriber", stream_id |-> s]
      /\ \A d \in Conns : d # c => client'[d] = client[d]
  BY <1>1 DEF TypeOK
<1>3. ASSUME NEW f \in Fds
      PROVE  /\ f = fd => open'[f] = c /\ g_clients'[f] = c /\ g_fd_to_info'[f] = c
             /\ f # fd =>
                  open'[f] = open[f] /\ g_clients'[f] = g_clients[f] /\ g_fd_to_info'[f] = g_fd_to_info[f]
  BY DEF RegisterSubscriber, TypeOK
<1>4. /\ g_subscribers'[s] = g_subscribers[s] \cup {c}
      /\ \A z \in Streams : z # s => g_subscribers'[z] = g_subscribers[z]
  BY DEF RegisterSubscriber, TypeOK
<1> HIDE DEF c
<1>5. \A f \in Fds : open[f] \in 0..MaxConns /\ open[f] <= g_peer_seq /\ open[f] # c
  BY <1>1 DEF TypeOK, Named, c
<1>6. c # 0 /\ ~Alive(c)
  BY <1>1, <1>5 DEF Conns, Alive, c
<1>7. ASSUME NEW d \in Conns PROVE Alive(d)' <=> d = c \/ Alive(d)
  <2>1. ASSUME Alive(d)' PROVE d = c \/ Alive(d)
    BY <1>3, <2>1 DEF Alive
  <2>2. ASSUME d = c PROVE Alive(d)'
    <3>1. open'[fd] = d
      BY <1>3, <2>2
    <3> QED
      BY <3>1 DEF Alive
  <2>3. ASSUME Alive(d) PROVE Alive(d)'
    <3>1. PICK f \in Fds : open[f] = d
      BY <2>3 DEF Alive
    <3>2. open'[f] = d
      BY <1>1, <1>3, <3>1 DEF Conns
    <3> QED
      BY <3>2 DEF Alive
  <2> QED
    BY <2>1, <2>2, <2>3
<1>8. SameIds'
  <2> SUFFICES ASSUME NEW f \in Fds PROVE g_clients'[f] = open'[f] /\ g_fd_to_info'[f] = open'[f]
    BY DEF SameIds
  <2> QED
    BY <1>3 DEF Agree, SameIds
<1>9. OwnFd'
  <2> SUFFICES ASSUME NEW f \in Fds, open'[f] # 0 PROVE client'[open'[f]].fd = f
    BY DEF OwnFd
  <2>1. CASE f = fd
    BY <1>2, <1>3, <2>1
  <2>2. CASE f # fd
    <3>1. open'[f] = open[f] /\ open[f] # 0
      BY <1>3, <2>2
    <3>2. open[f] \in Conns /\ open[f] # c
      BY <1>5, <3>1, ServerAssumption DEF Conns
    <3> QED
      BY <1>2, <3>1, <3>2 DEF Agree, OwnFd
  <2> QED
    BY <2>1, <2>2
<1>10. Subscribed'
  <2> SUFFICES ASSUME NEW z \in Streams, NEW d \in Conns
               PROVE  (d \in g_subscribers'[z]) <=>
                        Alive(d)' /\ client'[d].role = "subscriber" /\ client'[d].stream_id = z
    BY DEF Subscribed
  <2>1. CASE d = c
    <3>1. d \notin g_subscribers[z]
      BY <1>6, <2>1 DEF Agree, Subscribed
    <3> QED
      BY <1>2, <1>4, <1>7, <2>1, <3>1
  <2>2. CASE d # c
    <3>1. client'[d] = client[d] /\ (Alive(d)' <=> Alive(d)) /\ (d \in g_subscribers'[z] <=> d \in g_subscribers[z])
      BY <1>2, <1>4, <1>7, <2>2
    <3> QED
      BY <3>1 DEF Agree, Subscribed
  <2> QED
    BY <2>1, <2>2
<1>11. ASSUME NEW z \in Streams
       PROVE  Publisher(z)' = Publisher(z) /\ (g_publishers'[z] # 0 => open'[g_publishers'[z]] # 0)
  <2>1. CASE g_publishers[z] = 0
    BY <1>1, <2>1 DEF Publisher
  <2>2. CASE g_publishers[z] # 0
    <3>1. g_publishers[z] \in Fds /\ open[g_publishers[z]] \in Conns
      BY <2>2, PublisherIs
    <3>2. open[g_publishers[z]] # 0 /\ open'[g_publishers[z]] = open[g_publishers[z]]
      BY <1>1, <1>3, <3>1 DEF Conns
    <3> QED
      BY <1>1, <2>2, <3>2 DEF Publisher
  <2> QED
    BY <2>1, <2>2
<1>12. Published'
  <2> SUFFICES ASSUME NEW z \in Streams, NEW d \in Conns
               PROVE  (d = Publisher(z)') <=>
                        Alive(d)' /\ client'[d].role = "publisher" /\ client'[d].stream_id = z
    BY DEF Published
  <2>1. CASE d = c
    <3>1. d # Publisher(z)
      BY <1>6, <2>1 DEF Agree, Published
    <3> QED
      BY <1>2, <1>11, <2>1, <3>1
  <2>2. CASE d # c
    <3>1. client'[d] = client[d] /\ (Alive(d)' <=> Alive(d))
      BY <1>2, <1>7, <2>2
    <3> QED
      BY <1>11, <3>1 DEF Agree, Published
  <2> QED
    BY <2>1, <2>2
<1>13. Died'
  <2> SUFFICES ASSUME NEW d \in 1..c PROVE (d \in dead) <=> ~Alive(d)'
    BY <1>1 DEF Died
  <2>1. d \in Conns
    BY <1>1, ServerAssumption DEF Conns
  <2>2. CASE d = c
    <3>1. d \notin dead
      BY <1>1, <2>2 DEF Named, c
    <3> QED
      BY <1>7, <2>1, <2>2, <3>1
  <2>3. CASE d # c
    <3>1. d \in 1..g_peer_seq
      BY <1>1, <2>3 DEF c
    <3> QED
      BY <1>7, <2>1, <2>3, <3>1 DEF Agree, Died
  <2> QED
    BY <2>2, <2>3
<1>14. Heads'
  BY <1>11 DEF Heads
<1> QED
  BY <1>8, <1>9, <1>10, <1>12, <1>13, <1>14 DEF Agree

\* Where the tables agree, the client that is removed is the one behind the
\* descriptor in all of them.
LEMMA RemovedIs ==
  ASSUME TypeOK, Registered, Named, Agree, NEW fd \in Fds, Removes(fd)
  PROVE  LET c == open[fd]
             s == client[c].stream_id
         IN /\ c \in Conns /\ c <= g_peer_seq /\ s \in Streams /\ client[c].fd = fd
            /\ client[c].role \in {"publisher", "subscriber"}
            /\ g_clients[fd] = c /\ g_fd_to_info[fd] = c
            /\ client[c].role = "publisher" <=> g_publishers[s] = fd
            /\ g_publishers' = IF client[c].role = "publisher" THEN [g_publishers EXCEPT ![s] = 0] ELSE g_publishers
            /\ g_subscribers' = IF client[c].role = "subscriber"
                                THEN [g_subscribers EXCEPT ![s] = @ \ {c}] ELSE g_subscribers
<1>1. PICK c : c = open[fd] /\ g_clients[fd] = c /\ g_fd_to_info[fd] = c /\ c # 0
  BY DEF Removes, Agree, SameIds
<1>2. c \in Conns /\ c <= g_peer_seq
  <2>1. c \in 0..MaxConns
    BY <1>1 DEF TypeOK
  <2> QED
    BY <1>1, <2>1, ServerAssumption DEF Named, Conns
<1>3. PICK s \in Streams : s = client[c].stream_id /\ client[c].role \in {"publisher", "subscriber"}
  BY <1>2 DEF Registered
<1>4. client[c].fd = fd
  BY <1>1 DEF Agree, OwnFd
<1>5. Alive(c)
  BY <1>1 DEF Alive
<1>6. client[c].role = "publisher" <=> g_publishers[s] = fd
  <2>1. ASSUME client[c].role = "publisher" PROVE g_publishers[s] = fd
    <3>1. c = Publisher(s)
      BY <1>2, <1>3, <1>5, <2>1 DEF Agree, Published
    <3>2. g_publishers[s] # 0 /\ open[g_publishers[s]] = c
      BY <1>1, <3>1 DEF Publisher
    <3>3. g_publishers[s] \in Fds
      BY <3>2, PublisherIs
    <3> QED
      BY <1>1, <3>2, <3>3, OneFd
  <2>2. ASSUME g_publishers[s] = fd PROVE client[c].role = "publisher"
    <3>1. g_publishers[s] # 0
      BY <2>2 DEF Fds
    <3> QED
      BY <1>1, <2>2, <3>1, PublisherIs
  <2> QED
    BY <2>1, <2>2
<1>7. /\ g_publishers' = IF client[c].role = "publisher" THEN [g_publishers EXCEPT ![s] = 0] ELSE g_publishers
      /\ g_subscribers' = IF client[c].role = "subscriber"
                          THEN [g_subscribers EXCEPT ![s] = @ \ {c}] ELSE g_subscribers
  BY <1>1, <1>3, <1>6 DEF Removes, DisconnectClient, RemoveClientResources
<1> QED
  BY <1>1, <1>2, <1>3, <1>4, <1>6, <1>7

\* It is removed from all of them.
LEMMA RemovalAgrees ==
  ASSUME TypeOK, Registered, Named, Agree, [Next]_vars, NEW fd \in Fds, Removes(fd)
  PROVE  Agree'
<1>1. PICK c, s : c = open[fd] /\ s = client[c].stream_id
  OBVIOUS
<1>2. /\ c \in Conns /\ c <= g_peer_seq /\ s \in Streams /\ client[c].fd = fd
      /\ client[c].role \in {"publisher", "subscriber"}
      /\ g_clients[fd] = c /\ g_fd_to_info[fd] = c
      /\ client[c].role = "publisher" <=> g_publishers[s] = fd
      /\ g_publishers' = IF client[c].role = "publisher" THEN [g_publishers EXCEPT ![s] = 0] ELSE g_publishers
      /\ g_subscribers' = IF client[c].role = "subscriber"
                          THEN [g_subscribers EXCEPT ![s] = @ \ {c}] ELSE g_subscribers
  BY <1>1, RemovedIs
<1>3. /\ UNCHANGED <<g_peer_seq, client>> /\ dead' = dead \cup {c}
  BY <1>2 DEF Removes, DisconnectClient
<1>4. ASSUME NEW f \in Fds
      PROVE  /\ f = fd => open'[f] = 0 /\ g_clients'[f] = 0 /\ g_fd_to_info'[f] = 0
             /\ f # fd =>
                  open'[f] = open[f] /\ g_clients'[f] = g_clients[f] /\ g_fd_to_info'[f] = g_fd_to_info[f]
  BY DEF Removes, DisconnectClient, RemoveClientResources, TypeOK
<1>5. c # 0 /\ Alive(c) /\ fd # 0
  BY <1>1, <1>2 DEF Alive, Conns, Fds
<1>6. ASSUME NEW d \in Conns PROVE Alive(d)' <=> d # c /\ Alive(d)
  <2>0. d # 0
    BY DEF Conns
  <2>1. ASSUME Alive(d)' PROVE d # c /\ Alive(d)
    <3>1. PICK f \in Fds : open'[f] = d
      BY <2>1 DEF Alive
    <3>2. f # fd /\ open[f] = d
      BY <1>4, <2>0, <3>1
    <3>3. d # c
      BY <1>1, <2>0, <3>2, OneFd
    <3> QED
      BY <3>2, <3>3 DEF Alive
  <2>2. ASSUME d # c, Alive(d) PROVE Alive(d)'
    <3>1. PICK f \in Fds : open[f] = d
      BY <2>2 DEF Alive
    <3>2. open'[f] = d
      BY <1>1, <1>4, <2>2, <3>1
    <3> QED
      BY <3>2 DEF Alive
  <2> QED
    BY <2>1, <2>2
<1>7. SameIds'
  <2> SUFFICES ASSUME NEW f \in Fds PROVE g_clients'[f] = open'[f] /\ g_fd_to_info'[f] = open'[f]
    BY DEF SameIds
  <2> QED
    BY <1>4 DEF Agree, SameIds
<1>8. OwnFd'
  BY <1>3, <1>4 DEF Agree, OwnFd
<1>9. ASSUME NEW z \in Streams
      PROVE  g_subscribers'[z] = g_subscribers[z] \ (IF z = s /\ client[c].role = "subscriber" THEN {c} ELSE {})
  BY <1>2 DEF TypeOK
<1>10. Subscribed'
  <2> SUFFICES ASSUME NEW z \in Streams, NEW d \in Conns
               PROVE  (d \in g_subscribers'[z]) <=>
                        Alive(d)' /\ client[d].role = "subscriber" /\ client[d].stream_id = z
    BY <1>3 DEF Subscribed
  <2>1. d \in g_subscribers[z] <=> Alive(d) /\ client[d].role = "subscriber" /\ client[d].stream_id = z
    BY DEF Agree, Subscribed
  <2> QED
    BY <1>1, <1>6, <1>9, <2>1
<1>11. ASSUME NEW z \in Streams
       PROVE  /\ Publisher(z)' = IF z = s /\ client[c].role = "publisher" THEN 0 ELSE Publisher(z)
              /\ g_publishers'[z] # 0 => open'[g_publishers'[z]] # 0
  <2>1. CASE z = s /\ client[c].role = "publisher"
    <3>1. g_publishers'[z] = 0
      BY <1>2, <2>1 DEF TypeOK
    <3> QED
      BY <2>1, <3>1 DEF Publisher
  <2>2. CASE ~(z = s /\ client[c].role = "publisher")
    <3>1. g_publishers'[z] = g_publishers[z]
      BY <1>2, <2>2 DEF TypeOK
    <3>2. CASE g_publishers[z] = 0
      BY <2>2, <3>1, <3>2 DEF Publisher
    <3>3. CASE g_publishers[z] # 0
      <4>1. /\ g_publishers[z] \in Fds /\ open[g_publishers[z]] \in Conns
            /\ client[open[g_publishers[z]]].role = "publisher"
            /\ client[open[g_publishers[z]]].stream_id = z
        BY <3>3, PublisherIs
      <4>2. g_publishers[z] # fd
        BY <1>1, <2>2, <4>1
      <4>3. open'[g_publishers[z]] = open[g_publishers[z]] /\ open[g_publishers[z]] # 0
        BY <1>4, <4>1, <4>2 DEF Conns
      <4> QED
        BY <2>2, <3>1, <3>3, <4>3 DEF Publisher
    <3> QED
      BY <3>2, <3>3
  <2> QED
    BY <2>1, <2>2
<1>12. Published'
  <2> SUFFICES ASSUME NEW z \in Streams, NEW d \in Conns
               PROVE  (d = Publisher(z)') <=>
                        Alive(d)' /\ client[d].role = "publisher" /\ client[d].stream_id = z
    BY <1>3 DEF Published
  <2>1. (d = Publisher(z)) <=> Alive(d) /\ client[d].role = "publisher" /\ client[d].stream_id = z
    BY DEF Agree, Published
  <2>2. (c = Publisher(z)) <=> client[c].role = "publisher" /\ s = z
    BY <1>1, <1>2, <1>5 DEF Agree, Published
  <2>3. d # 0
    BY DEF Conns
  <2> QED
    BY <1>1, <1>6, <1>11, <2>1, <2>2, <2>3
<1>13. Died'
  <2> SUFFICES ASSUME NEW d \in 1..g_peer_seq PROVE (d \in dead') <=> ~Alive(d)'
    BY <1>3 DEF Died
  <2>1. d \in Conns
    BY ServerAssumption DEF TypeOK, Conns
  <2>2. d \in dead <=> ~Alive(d)
    BY DEF Agree, Died
  <2> QED
    BY <1>3, <1>6, <2>1, <2>2
<1>14. Heads'
  BY <1>11 DEF Heads
<1> QED
  BY <1>7, <1>8, <1>10, <1>12, <1>13, <1>14 DEF Agree

\* Where epoll_ctl(ADD) does not fail, what happens to the tables of a server
\* that goes on accepting.
LEMMA TableSteps ==
  ASSUME TypeOK, server = "up" => Agree, EpollAddMayFail = FALSE, [Next]_vars, server' = "up"
  PROVE  /\ server = "up" /\ Agree
         /\ \/ \E fd \in Fds, s \in Streams : RegisterPublisher(fd, s)
            \/ \E fd \in Fds, s \in Streams : RegisterSubscriber(fd, s)
            \/ \E fd \in Fds : Removes(fd)
            \/ UNCHANGED tables
<1>1. server = "up" /\ Agree
  <2>1. ASSUME \/ \E fd \in Fds, s \in Streams : RegisterPublisher(fd, s) \/ RegisterSubscriber(fd, s)
               \/ \E fd \in Fds : Removes(fd) \/ Closes(fd)
               \/ \E fd \in Fds, to \in 0..MaxConns : Queues(fd, to)
               \/ \E k \in Shards : TakeLine(k) \/ Route(k)
               \/ \E t \in Threads : WriteOk(t) \/ WriteBadFd(t) \/ WriteTimesOut(t)
               \/ EpollAdd \/ Silent
        PROVE  server = "up"
    BY <2>1 DEF RegisterPublisher, RegisterSubscriber, Removes, Closes, Queues, TakeLine, Route, WriteOk,
       WriteBadFd, WriteTimesOut, EpollAdd, Silent
  <2>2. server = "up"
    BY <2>1, StepKinds, Zenon
  <2> QED
    BY <2>2
<1>2. ASSUME NEW fd \in Fds, Closes(fd) PROVE UNCHANGED tables
  <2>1. open[fd] = 0
    BY <1>1, <1>2 DEF Closes, Agree, SameIds
  <2>2. open' = open
    BY <1>2, <2>1 DEF Closes, TypeOK
  <2> QED
    BY <1>2, <2>2 DEF Closes, tables
<1>3. ASSUME EpollAdd PROVE UNCHANGED tables
  BY <1>1, <1>3 DEF EpollAdd, tables
<1>4. ASSUME \/ \E fd \in Fds, to \in 0..MaxConns : Queues(fd, to)
             \/ \E k \in Shards : TakeLine(k) \/ Route(k)
             \/ \E t \in Threads : WriteOk(t) \/ WriteBadFd(t) \/ WriteTimesOut(t)
             \/ Silent
      PROVE  UNCHANGED tables
  BY <1>4 DEF Queues, TakeLine, Route, WriteOk, WriteBadFd, WriteTimesOut, Silent
<1> QED
  BY <1>1, <1>2, <1>3, <1>4, StepKinds, Zenon

\* The tables go on agreeing.
LEMMA AgreeNext ==
  ASSUME TypeOK, Registered, Named, server = "up" => Agree, EpollAddMayFail = FALSE, [Next]_vars
  PROVE  (server = "up" => Agree)'
<1> SUFFICES ASSUME server' = "up" PROVE Agree'
  OBVIOUS
<1>1. server = "up" /\ Agree
  BY TableSteps
<1>2. ASSUME NEW fd \in Fds, NEW s \in Streams, RegisterPublisher(fd, s) PROVE Agree'
  BY <1>1, <1>2, PublisherAgrees
<1>3. ASSUME NEW fd \in Fds, NEW s \in Streams, RegisterSubscriber(fd, s) PROVE Agree'
  BY <1>1, <1>3, SubscriberAgrees
<1>4. ASSUME NEW fd \in Fds, Removes(fd) PROVE Agree'
  BY <1>1, <1>4, RemovalAgrees
<1>5. ASSUME UNCHANGED tables PROVE Agree'
  BY <1>1, <1>5 DEF tables, Agree, SameIds, OwnFd, Subscribed, Published, Died, Heads, Alive, Publisher
<1> QED
  BY <1>2, <1>3, <1>4, <1>5, TableSteps, Zenon

-----------------------------------------------------------------------------
(* What a publisher is told *)

\* A stream's publisher is an open connection, and not another stream's.
Apart ==
  /\ \A z \in Streams : Publisher(z) # 0 =>
       Publisher(z) \in Conns /\ Alive(Publisher(z)) /\ g_publishers[z] \in Fds /\ g_publishers[z] # 0
  /\ \A y, z \in Streams : Publisher(y) # 0 /\ Publisher(y) = Publisher(z) => y = z

\* So it is where the tables agree.
LEMMA PublishersApart == TypeOK /\ Agree => Apart
<1> SUFFICES ASSUME TypeOK, Agree PROVE Apart
  OBVIOUS
<1>1. ASSUME NEW z \in Streams, Publisher(z) # 0
      PROVE  /\ Publisher(z) \in Conns /\ Alive(Publisher(z)) /\ g_publishers[z] \in Fds /\ g_publishers[z] # 0
             /\ client[Publisher(z)].stream_id = z
  <2>1. g_publishers[z] # 0
    BY <1>1 DEF Publisher
  <2>2. /\ g_publishers[z] \in Fds /\ open[g_publishers[z]] \in Conns /\ Publisher(z) = open[g_publishers[z]]
        /\ client[open[g_publishers[z]]].stream_id = z
    BY <2>1, PublisherIs
  <2> QED
    BY <2>1, <2>2 DEF Alive
<1>2. ASSUME NEW y \in Streams, NEW z \in Streams, Publisher(y) # 0, Publisher(y) = Publisher(z) PROVE y = z
  BY <1>1, <1>2
<1> QED
  BY <1>1, <1>2 DEF Apart

\* The same of the next state.
LEMMA PublishersApartNext == TypeOK' /\ Agree' => Apart'
BY PublishersApart, PTL

\* A write is given up: the descriptor is closed, or the peer does not read.
GivesUp(t) ==
  /\ writes[t] # <<>> /\ open[writes[t][1].fd] \in stalled' \cup {0}
  /\ writes' = [writes EXCEPT ![t] = AfterFailure(writes[t])]
  /\ stalled \subseteq stalled'
  /\ UNCHANGED <<tables, received>>

\* Nothing changes for the publishers.
Calm ==
  /\ UNCHANGED <<tables, stalled>> /\ writes'[Epoll] = writes[Epoll]
  /\ \A p \in Conns : Alive(p) => received'[p] = received[p]

\* What a step of a server that accepts connections is to its publishers.
LEMMA ViewSteps ==
  ASSUME TypeOK, Named, Agree, EpollAddMayFail = FALSE, [Next]_vars, server = "up", server' = "up"
  PROVE  \/ \E fd \in Fds, s \in Streams : RegisterPublisher(fd, s)
         \/ \E fd \in Fds, s \in Streams : RegisterSubscriber(fd, s)
         \/ \E fd \in Fds : Removes(fd)
         \/ \E t \in Threads : \E c \in Conns, tok \in Tokens : Delivers(t, c, tok)
         \/ \E t \in Threads : GivesUp(t)
         \/ Calm
<1>1. ASSUME NEW fd \in Fds, Closes(fd) PROVE Calm
  <2>1. UNCHANGED <<tables, stalled, writes>>
    <3>1. open[fd] = 0
      BY <1>1 DEF Closes, Agree, SameIds
    <3>2. open' = open
      BY <1>1, <3>1 DEF Closes, TypeOK
    <3> QED
      BY <1>1, <3>2 DEF Closes, tables, history
  <2>2. received' = [c \in Conns |-> IF \E f \in Fds : open'[f] = c THEN received[c] ELSE <<>>]
    BY <1>1 DEF Closes, ForgetClosed
  <2>3. open' = open
    BY <2>1 DEF tables
  <2>4. \A p \in Conns : Alive(p) => received'[p] = received[p]
    BY <2>2, <2>3 DEF Alive
  <2> QED
    BY <2>1, <2>4 DEF Calm
<1>2. ASSUME EpollAdd PROVE Calm
  <2>1. UNCHANGED <<tables, stalled, writes>>
    BY <1>2 DEF EpollAdd, tables, history
  <2>2. received' = [c \in Conns |-> IF \E f \in Fds : open'[f] = c THEN received[c] ELSE <<>>]
    BY <1>2 DEF EpollAdd, ForgetClosed
  <2>3. open' = open
    BY <2>1 DEF tables
  <2>4. \A p \in Conns : Alive(p) => received'[p] = received[p]
    BY <2>2, <2>3 DEF Alive
  <2> QED
    BY <2>1, <2>4 DEF Calm
<1>3. ASSUME \/ \E fd \in Fds, to \in 0..MaxConns : Queues(fd, to)
             \/ \E k \in Shards : TakeLine(k)
             \/ Silent
      PROVE  Calm
  BY <1>3 DEF Queues, TakeLine, Silent, Calm, history
<1>4. ASSUME NEW k \in Shards, Route(k) PROVE Calm
  <2>1. /\ UNCHANGED <<tables, stalled, received>>
        /\ \E q : writes' = [writes EXCEPT ![k] = q]
    BY <1>4 DEF Route, history
  <2>2. writes'[Epoll] = writes[Epoll]
    BY <2>1, ThreadsAre DEF TypeOK
  <2> QED
    BY <2>1, <2>2 DEF Calm
<1>5. ASSUME NEW t \in Threads, WriteOk(t) PROVE \E c \in Conns, tok \in Tokens : Delivers(t, c, tok)
  BY <1>5, WriteDelivers
<1>6. ASSUME NEW t \in Threads, WriteBadFd(t) \/ WriteTimesOut(t) PROVE GivesUp(t)
  <2>1. writes[t] # <<>>
    BY <1>6 DEF WriteBadFd, WriteTimesOut
  <2>2. Head(writes[t]) = writes[t][1]
    BY <2>1, FirstPiece
  <2> QED
    BY <1>6, <2>1, <2>2 DEF WriteBadFd, WriteTimesOut, GivesUp, history
<1> QED
  BY <1>1, <1>2, <1>3, <1>4, <1>5, <1>6, StepKinds, Zenon

\* A new publisher is told the subscribers there are.
LEMMA PublisherSees ==
  ASSUME TypeOK, Registered, Named, Agree, TypeOK', Agree', Sees,
         NEW fd \in Fds, NEW s \in Streams, RegisterPublisher(fd, s)
  PROVE  Reached' /\ Sees'
<1>1. PICK q :
           /\ writes' = [writes EXCEPT ![Epoll] = q] /\ Notices(q, g_peer_seq')
           /\ \A i \in 1..Len(q) : q[i].fd = fd /\ q[i].tok.kind # "subscriber_leave"
           /\ \A i \in 1..Len(q) : q[i].tok.kind = "subscriber_join" => q[i].tok.id \in g_subscribers[s]
           /\ \A c \in g_subscribers[s] :
                \E i \in 1..Len(q) : q[i].tok.kind = "subscriber_join" /\ q[i].tok.id = c
  BY PublisherWrites, Zenon
<1>2. writes'[Epoll] = q /\ 1..Len(writes[Epoll]) = {}
  <2>1. writes[Epoll] = <<>>
    BY DEF RegisterPublisher, EpollIdle
  <2>2. Epoll \in DOMAIN writes
    BY ThreadsAre DEF TypeOK
  <2> QED
    BY <1>1, <2>1, <2>2
<1>3. PICK c : /\ c = g_peer_seq + 1 /\ c \in Conns /\ g_peer_seq \in Nat /\ open[fd] = 0 /\ fd # 0
               /\ g_publishers' = [g_publishers EXCEPT ![s] = fd]
               /\ g_subscribers' = g_subscribers /\ stalled' = stalled
  BY DEF RegisterPublisher, LowestFree, TypeOK, history, Fds
<1>4. /\ g_publishers'[s] = fd
      /\ \A z \in Streams : z # s => g_publishers'[z] = g_publishers[z]
  BY <1>3 DEF TypeOK
<1>5. /\ \A f \in Fds : f # fd => open'[f] \in {0, open[f]}
      /\ open'[fd] = c /\ c # 0
  <2>1. open' = [f \in Fds |-> IF f \in Replaced(s) THEN 0 ELSE IF f = fd THEN c ELSE open[f]]
    BY <1>3 DEF RegisterPublisher
  <2>2. fd \notin Replaced(s)
    <3>1. g_publishers[s] # 0 => open[g_publishers[s]] # 0
      BY PublisherIs DEF Conns
    <3> QED
      BY <1>3, <3>1 DEF Replaced
  <2> QED
    BY <1>3, <2>1, <2>2 DEF Conns
<1>6. \A p \in Conns : Alive(p)' => received'[p] = received[p]
  BY DEF RegisterPublisher, ForgetClosed, Alive
<1>7. Reached'
  BY <1>1, <1>2, <1>5 DEF Reached
<1>8. Publisher(s)' = c
  BY <1>3, <1>4, <1>5 DEF Publisher
<1>9. received'[c] = <<>>
  <2>1. Alive(c)'
    BY <1>5 DEF Alive
  <2>2. received[c] = <<>>
    BY <1>3 DEF Named
  <2> QED
    BY <1>3, <1>6, <2>1, <2>2
<1>10. Apart /\ Apart'
  BY PublishersApart, PublishersApartNext
<1>11. Sees'
  <2> SUFFICES ASSUME NEW z \in Streams, Publisher(z)' # 0, Publisher(z)' \notin stalled',
                      NEW d \in 0..MaxConns
               PROVE  (d \in g_subscribers'[z]) <=>
                        /\ Mentioned(Publisher(z), "subscriber_join", d)'
                        /\ ~Mentioned(Publisher(z), "subscriber_leave", d)'
    BY DEF Sees
  <2>1. CASE z = s
    <3>1. ASSUME NEW kind PROVE Mentioned(Publisher(z), kind, d)' <=>
                                \E i \in 1..Len(q) : q[i].tok.kind = kind /\ q[i].tok.id = d
      BY <1>1, <1>2, <1>5, <1>8, <1>9, <2>1 DEF Mentioned, Heard, Coming
    <3> QED
      BY <1>1, <1>3, <2>1, <3>1
  <2>2. CASE z # s
    <3>1. PICK p : p = Publisher(z)'
      OBVIOUS
    <3>2. p \in Conns /\ p # c /\ received'[p] = received[p]
      BY <1>6, <1>8, <1>10, <2>2, <3>1 DEF Apart
    <3>3. p = Publisher(z)
      <4>1. PICK f \in Fds : f = g_publishers'[z] /\ f # 0 /\ open'[f] = p
        BY <1>10, <3>1 DEF Apart, Publisher
      <4>2. f = g_publishers[z] /\ f # fd
        BY <1>4, <1>5, <2>2, <3>2, <4>1
      <4>3. open[f] = p
        BY <1>5, <3>1, <4>1, <4>2
      <4> QED
        BY <4>1, <4>2, <4>3 DEF Publisher
    <3>4. ASSUME NEW kind PROVE Mentioned(p, kind, d)' <=> Mentioned(p, kind, d)
      BY <1>1, <1>2, <1>5, <3>2 DEF Mentioned, Heard, Coming
    <3>5. (d \in g_subscribers[z]) <=> Mentioned(p, "subscriber_join", d) /\ ~Mentioned(p, "subscriber_leave", d)
      BY <1>3, <3>1, <3>3 DEF Sees
    <3>6. (d \in g_subscribers'[z]) <=> Mentioned(p, "subscriber_join", d)' /\ ~Mentioned(p, "subscriber_leave", d)'
      BY <1>3, <3>4, <3>5
    <3> QED
      BY <3>1, <3>6 DEF Mentioned, Heard, Coming
  <2> QED
    BY <2>1, <2>2
<1> QED
  BY <1>7, <1>11

\* A new subscriber is announced to the publisher.
LEMMA SubscriberSees ==
  ASSUME TypeOK, Registered, Named, Agree, Sees,
         NEW fd \in Fds, NEW s \in Streams, RegisterSubscriber(fd, s)
  PROVE  Reached' /\ Sees'
<1>1. PICK q :
           /\ writes' = [writes EXCEPT ![Epoll] = q] /\ Notices(q, g_peer_seq')
           /\ \A i \in 1..Len(q) :
                \/ q[i].fd = fd /\ q[i].tok.kind \in {"welcome", "nl"}
                \/ /\ g_publishers[s] # 0 /\ q[i].fd = g_publishers[s]
                   /\ q[i].tok.kind \in {"subscriber_join", "nl"}
                   /\ q[i].tok.kind = "subscriber_join" => q[i].tok.id = g_peer_seq'
           /\ g_publishers[s] # 0 => \E i \in 1..Len(q) :
                q[i].fd = g_publishers[s] /\ q[i].tok.kind = "subscriber_join" /\ q[i].tok.id = g_peer_seq'
  BY SubscriberWrites
<1>2. writes'[Epoll] = q /\ 1..Len(writes[Epoll]) = {}
  <2>1. writes[Epoll] = <<>>
    BY DEF RegisterSubscriber, EpollIdle
  <2>2. Epoll \in DOMAIN writes
    BY ThreadsAre DEF TypeOK
  <2> QED
    BY <1>1, <2>1, <2>2
<1>3. PICK c : /\ c = g_peer_seq + 1 /\ c = g_peer_seq' /\ c \in Conns /\ g_peer_seq \in Nat /\ open[fd] = 0
               /\ open' = [open EXCEPT ![fd] = c]
               /\ g_subscribers' = [g_subscribers EXCEPT ![s] = g_subscribers[s] \cup {c}]
               /\ UNCHANGED <<g_publishers, stalled, received>>
  <2>1. PICK c : c = g_peer_seq + 1
    OBVIOUS
  <2>2. g_peer_seq \in Nat
    BY DEF TypeOK
  <2> QED
    BY <2>1, <2>2 DEF RegisterSubscriber, LowestFree, history
<1>4. /\ \A f \in Fds : f # fd => open'[f] = open[f]
      /\ open'[fd] = c /\ c # 0
  BY <1>3 DEF TypeOK, Conns
<1>5. ASSUME NEW z \in Streams, g_publishers[z] # 0
      PROVE  /\ g_publishers[z] \in Fds /\ g_publishers[z] # fd
             /\ open'[g_publishers[z]] = Publisher(z) /\ Publisher(z) \in Conns
  <2>1. g_publishers[z] \in Fds /\ open[g_publishers[z]] = Publisher(z) /\ Publisher(z) \in Conns
    BY <1>5, PublisherIs
  <2> QED
    BY <1>3, <1>4, <2>1 DEF Conns
<1>6. Reached'
  <2> SUFFICES ASSUME NEW i \in 1..Len(q) PROVE open'[q[i].fd] # 0
    BY <1>2 DEF Reached
  <2> QED
    BY <1>1, <1>4, <1>5 DEF Conns
<1>7. Apart
  BY PublishersApart
<1>8. ASSUME NEW z \in Streams PROVE Publisher(z)' = Publisher(z)
  BY <1>3, <1>5 DEF Publisher
<1>9. Sees'
  <2> SUFFICES ASSUME NEW z \in Streams, Publisher(z)' # 0, Publisher(z)' \notin stalled',
                      NEW d \in 0..MaxConns
               PROVE  (d \in g_subscribers'[z]) <=>
                        /\ Mentioned(Publisher(z), "subscriber_join", d)'
                        /\ ~Mentioned(Publisher(z), "subscriber_leave", d)'
    BY DEF Sees
  <2>0. PICK p : p = Publisher(z)' /\ p = Publisher(z) /\ p # 0 /\ p \notin stalled
    BY <1>3, <1>8
  <2>1. (d \in g_subscribers[z]) <=> Mentioned(p, "subscriber_join", d) /\ ~Mentioned(p, "subscriber_leave", d)
    BY <2>0 DEF Sees
  <2>2. /\ p \in Conns /\ g_publishers[z] # 0 /\ g_publishers[z] \in Fds /\ g_publishers[z] # fd
        /\ open'[g_publishers[z]] = p
    BY <1>5, <1>7, <2>0 DEF Apart
  <2>3. ASSUME NEW kind PROVE Heard(p, kind, d)' <=> Heard(p, kind, d)
    BY <1>3 DEF Heard
  <2>4. ASSUME NEW kind PROVE ~Coming(p, kind, d)
    BY <1>2 DEF Coming
  <2>5. ~Coming(p, "subscriber_leave", d)'
    BY <1>1, <1>2 DEF Coming
  <2>6. Heard(p, "subscriber_leave", d) => d # c
    <3> SUFFICES ASSUME NEW i \in 1..Len(received[p]) PROVE received[p][i].id # c
      BY DEF Heard
    <3>1. received[p] \in Seq(Tokens)
      BY <2>2 DEF TypeOK
    <3>2. received[p][i] \in Tokens
      BY <3>1, ElementOfSeq
    <3>3. received[p][i].id \in Nat /\ received[p][i].id <= g_peer_seq
      BY <2>2, <3>2 DEF Named, Tokens
    <3> QED
      BY <1>3, <3>3
  <2>7. Coming(p, "subscriber_join", d)' <=> z = s /\ d = c
    <3>1. ASSUME Coming(p, "subscriber_join", d)' PROVE z = s /\ d = c
      <4>1. PICK i \in 1..Len(q) :
                  open'[q[i].fd] = p /\ q[i].tok.kind = "subscriber_join" /\ q[i].tok.id = d
        BY <1>2, <3>1 DEF Coming
      <4>2. g_publishers[s] # 0 /\ q[i].fd = g_publishers[s] /\ d = c
        BY <1>1, <1>3, <4>1
      <4>3. p = Publisher(s)
        BY <1>5, <4>1, <4>2
      <4> QED
        BY <1>7, <2>0, <4>2, <4>3 DEF Apart
    <3>2. ASSUME z = s, d = c PROVE Coming(p, "subscriber_join", d)'
      <4>1. PICK i \in 1..Len(q) :
                  q[i].fd = g_publishers[s] /\ q[i].tok.kind = "subscriber_join" /\ q[i].tok.id = c
        BY <1>1, <1>3, <2>2, <3>2
      <4>2. open'[q[i].fd] = p
        BY <2>2, <3>2, <4>1
      <4> QED
        BY <1>2, <3>2, <4>1, <4>2 DEF Coming
    <3> QED
      BY <3>1, <3>2
  <2>8. d \in g_subscribers'[z] <=> d \in g_subscribers[z] \/ (z = s /\ d = c)
    BY <1>3 DEF TypeOK
  <2>9. /\ Mentioned(p, "subscriber_join", d)' <=> Mentioned(p, "subscriber_join", d) \/ (z = s /\ d = c)
        /\ Mentioned(p, "subscriber_leave", d)' <=> Mentioned(p, "subscriber_leave", d)
        /\ Mentioned(p, "subscriber_leave", d) => d # c
    BY <2>3, <2>4, <2>5, <2>6, <2>7, Zenon DEF Mentioned
  <2>10. (d \in g_subscribers'[z]) <=> Mentioned(p, "subscriber_join", d)' /\ ~Mentioned(p, "subscriber_leave", d)'
    BY <2>1, <2>8, <2>9
  <2> QED
    BY <2>0, <2>10 DEF Mentioned, Heard, Coming
<1> QED
  BY <1>6, <1>9

\* A client that goes is withdrawn from the publisher.
LEMMA RemovalSees ==
  ASSUME TypeOK, Registered, Named, Agree, TypeOK', Agree', Sees, NEW fd \in Fds, Removes(fd)
  PROVE  Reached' /\ Sees'
<1>1. PICK c, s : c = open[fd] /\ s = client[c].stream_id
  OBVIOUS
<1>2. /\ c \in Conns /\ s \in Streams /\ g_fd_to_info[fd] = c
      /\ client[c].role \in {"publisher", "subscriber"}
      /\ client[c].role = "publisher" <=> g_publishers[s] = fd
      /\ g_publishers' = IF client[c].role = "publisher" THEN [g_publishers EXCEPT ![s] = 0] ELSE g_publishers
      /\ g_subscribers' = IF client[c].role = "subscriber"
                          THEN [g_subscribers EXCEPT ![s] = @ \ {c}] ELSE g_subscribers
  BY <1>1, RemovedIs
<1>3. /\ RemoveClientResources(fd) /\ ForgetClosed /\ stalled' = stalled /\ writes[Epoll] = <<>>
      /\ open' = [open EXCEPT ![fd] = 0]
  BY DEF Removes, DisconnectClient, RemoveClientResources, EpollIdle, history
<1>4. c # 0
  BY <1>2 DEF Conns
<1>5. PICK q :
              /\ writes' = [writes EXCEPT ![Epoll] = q]
              /\ \A i \in 1..Len(q) :
                   /\ g_publishers'[s] # 0 /\ q[i].fd = g_publishers'[s]
                   /\ q[i].tok.kind \in {"subscriber_leave", "nl"}
                   /\ q[i].tok.kind = "subscriber_leave" => q[i].tok.id = c
              /\ g_publishers'[s] # 0 => \E i \in 1..Len(q) :
                   q[i].fd = g_publishers'[s] /\ q[i].tok.kind = "subscriber_leave" /\ q[i].tok.id = c
  <2>1. PICK q :
              /\ writes' = [writes EXCEPT ![Epoll] = q] /\ Notices(q, g_peer_seq)
              /\ \A i \in 1..Len(q) :
                   /\ c # 0 /\ s \in Streams /\ g_publishers'[s] # 0 /\ q[i].fd = g_publishers'[s]
                   /\ q[i].tok.kind \in {"subscriber_leave", "nl"}
                   /\ q[i].tok.kind = "subscriber_leave" => q[i].tok.id = c
              /\ (c # 0 /\ g_publishers'[s] # 0) => \E i \in 1..Len(q) :
                   q[i].fd = g_publishers'[s] /\ q[i].tok.kind = "subscriber_leave" /\ q[i].tok.id = c
    BY <1>1, <1>2, <1>3, LeaveWrites
  <2> QED
    BY <1>4, <2>1
<1>6. writes'[Epoll] = q /\ 1..Len(writes[Epoll]) = {}
  <2>1. Epoll \in DOMAIN writes
    BY ThreadsAre DEF TypeOK
  <2> QED
    BY <1>3, <1>5, <2>1
<1>7. open'[fd] = 0 /\ \A f \in Fds : f # fd => open'[f] = open[f]
  BY <1>3 DEF TypeOK
<1>8. \A p \in Conns : Alive(p)' => received'[p] = received[p]
  BY <1>3 DEF ForgetClosed, Alive
<1>9. Apart'
  BY PublishersApartNext
<1>10. g_publishers'[s] # 0 => open'[g_publishers'[s]] # 0 /\ Publisher(s)' = open'[g_publishers'[s]]
  BY <1>2 DEF Agree, Heads, Publisher
<1>11. Reached'
  BY <1>5, <1>6, <1>10 DEF Reached
<1>12. Sees'
  <2> SUFFICES ASSUME NEW z \in Streams, Publisher(z)' # 0, Publisher(z)' \notin stalled',
                      NEW d \in 0..MaxConns
               PROVE  (d \in g_subscribers'[z]) <=>
                        /\ Mentioned(Publisher(z), "subscriber_join", d)'
                        /\ ~Mentioned(Publisher(z), "subscriber_leave", d)'
    BY DEF Sees
  <2>1. PICK p : p = Publisher(z)' /\ p # 0 /\ p \notin stalled
    BY <1>3
  <2>2. p \in Conns /\ received'[p] = received[p]
    BY <1>8, <1>9, <2>1 DEF Apart
  <2>3. PICK f \in Fds : f = g_publishers'[z] /\ f # 0 /\ open'[f] = p
    BY <1>9, <2>1 DEF Apart, Publisher
  <2>4. f # fd /\ open[f] = p
    BY <1>7, <2>1, <2>3
  <2>5. g_publishers[z] = f
    BY <1>2, <2>3 DEF TypeOK
  <2>6. p = Publisher(z)
    BY <2>3, <2>4, <2>5 DEF Publisher
  <2>7. z = s => client[c].role = "subscriber"
    BY <1>2, <2>4, <2>5
  <2>8. (d \in g_subscribers[z]) <=> Mentioned(p, "subscriber_join", d) /\ ~Mentioned(p, "subscriber_leave", d)
    BY <2>1, <2>6 DEF Sees
  <2>9. ASSUME NEW kind PROVE Heard(p, kind, d)' <=> Heard(p, kind, d)
    BY <2>2 DEF Heard
  <2>10. ASSUME NEW kind PROVE ~Coming(p, kind, d)
    BY <1>6 DEF Coming
  <2>11. ~Coming(p, "subscriber_join", d)'
    BY <1>5, <1>6 DEF Coming
  <2>12. Coming(p, "subscriber_leave", d)' <=> z = s /\ d = c
    <3>1. ASSUME Coming(p, "subscriber_leave", d)' PROVE z = s /\ d = c
      <4>1. PICK i \in 1..Len(q) :
                  open'[q[i].fd] = p /\ q[i].tok.kind = "subscriber_leave" /\ q[i].tok.id = d
        BY <1>6, <3>1 DEF Coming
      <4>2. g_publishers'[s] # 0 /\ q[i].fd = g_publishers'[s] /\ d = c
        BY <1>5, <4>1
      <4>3. p = Publisher(s)'
        BY <1>10, <4>1, <4>2
      <4> QED
        BY <1>2, <1>9, <2>1, <4>2, <4>3 DEF Apart
    <3>2. ASSUME z = s, d = c PROVE Coming(p, "subscriber_leave", d)'
      <4>1. PICK i \in 1..Len(q) :
                  q[i].fd = g_publishers'[s] /\ q[i].tok.kind = "subscriber_leave" /\ q[i].tok.id = c
        BY <1>5, <2>3, <3>2
      <4> QED
        BY <1>6, <2>3, <3>2, <4>1 DEF Coming
    <3> QED
      BY <3>1, <3>2
  <2>13. d \in g_subscribers'[z] <=> d \in g_subscribers[z] /\ ~(z = s /\ d = c)
    <3>1. z = s => g_subscribers'[z] = g_subscribers[z] \ {c}
      BY <1>2, <2>7 DEF TypeOK
    <3>2. z # s => g_subscribers'[z] = g_subscribers[z]
      BY <1>2 DEF TypeOK
    <3> QED
      BY <3>1, <3>2
  <2>14. /\ Mentioned(p, "subscriber_join", d)' <=> Mentioned(p, "subscriber_join", d)
         /\ Mentioned(p, "subscriber_leave", d)' <=> Mentioned(p, "subscriber_leave", d) \/ (z = s /\ d = c)
    BY <2>9, <2>10, <2>11, <2>12, Zenon DEF Mentioned
  <2>15. (d \in g_subscribers'[z]) <=> Mentioned(p, "subscriber_join", d)' /\ ~Mentioned(p, "subscriber_leave", d)'
    BY <2>8, <2>13, <2>14
  <2> QED
    BY <2>1, <2>15 DEF Mentioned, Heard, Coming
<1> QED
  BY <1>11, <1>12

\* Where the tables stay, it is enough that the publishers that are not
\* stalled are mentioned the same.
LEMMA SameMentions ==
  ASSUME Sees, Apart, UNCHANGED tables, stalled \subseteq stalled',
         \A p \in Conns, kind \in {"subscriber_join", "subscriber_leave"}, d \in 0..MaxConns :
           p \notin stalled' => (Mentioned(p, kind, d)' <=> Mentioned(p, kind, d))
  PROVE  Sees'
<1> SUFFICES ASSUME NEW z \in Streams, Publisher(z)' # 0, Publisher(z)' \notin stalled',
                    NEW d \in 0..MaxConns
             PROVE  (d \in g_subscribers'[z]) <=>
                      /\ Mentioned(Publisher(z), "subscriber_join", d)'
                      /\ ~Mentioned(Publisher(z), "subscriber_leave", d)'
  BY DEF Sees
<1>1. PICK p : p = Publisher(z)' /\ p = Publisher(z) /\ p # 0 /\ p \notin stalled /\ p \notin stalled'
  BY DEF tables, Publisher
<1>2. p \in Conns
  BY <1>1 DEF Apart
<1>3. (d \in g_subscribers[z]) <=> Mentioned(p, "subscriber_join", d) /\ ~Mentioned(p, "subscriber_leave", d)
  BY <1>1 DEF Sees
<1>4. (d \in g_subscribers'[z]) <=> Mentioned(p, "subscriber_join", d)' /\ ~Mentioned(p, "subscriber_leave", d)'
  BY <1>1, <1>2, <1>3 DEF tables
<1> QED
  BY <1>1, <1>4 DEF Mentioned, Heard, Coming

\* What the epoll thread is about to tell, after its first piece.
LEMMA ComingLeft ==
  ASSUME TypeOK, Framed, writes[Epoll] # <<>>, UNCHANGED tables, Reached,
         NEW r \in Left(writes[Epoll]), writes' = [writes EXCEPT ![Epoll] = r]
  PROVE  /\ Reached'
         /\ \A p \in Conns, kind \in {"subscriber_join", "subscriber_leave"}, d \in 0..MaxConns :
              Coming(p, kind, d) <=>
                \/ Coming(p, kind, d)'
                \/ /\ open[writes[Epoll][1].fd] = p
                   /\ writes[Epoll][1].tok.kind = kind /\ writes[Epoll][1].tok.id = d
<1>1. PICK q : q = writes[Epoll]
  OBVIOUS
<1>2. q \in Seq(Pieces) /\ InLines(q) /\ writes'[Epoll] = r /\ q # <<>> /\ r \in Left(q)
  BY <1>1, ThreadsAre DEF TypeOK, Framed, Pieces
<1>3. /\ 1 \in 1..Len(q)
      /\ \A i \in 1..Len(r) : \E j \in 1..Len(q) : r[i] = q[j]
      /\ \A j \in 1..Len(q) :
           j = 1 \/ (j = 2 /\ q[j].tok = NL) \/ \E i \in 1..Len(r) : r[i] = q[j]
  <2>1. /\ 1 \in 1..Len(q)
        /\ \A i \in 1..Len(r) : \E j \in 1..Len(q) : j > i /\ r[i] = q[j]
        /\ \A j \in 1..Len(q) :
             j = 1 \/ (j = 2 /\ q[j].tok = NL) \/ \E i \in 1..Len(r) : r[i] = q[j]
    BY <1>2, LeftAreLines, Zenon
  <2> QED
    BY <2>1, Zenon
<1>4. open' = open
  BY DEF tables
<1>5. Reached'
  <2> SUFFICES ASSUME NEW i \in 1..Len(r) PROVE open[r[i].fd] # 0
    BY <1>2, <1>4 DEF Reached
  <2>1. PICK j \in 1..Len(q) : r[i] = q[j]
    BY <1>3
  <2> QED
    BY <1>1, <2>1 DEF Reached
<1>6. ASSUME NEW p \in Conns, NEW kind \in {"subscriber_join", "subscriber_leave"}, NEW d \in 0..MaxConns
      PROVE  Coming(p, kind, d) <=>
                \/ Coming(p, kind, d)'
                \/ open[q[1].fd] = p /\ q[1].tok.kind = kind /\ q[1].tok.id = d
  <2>1. Coming(p, kind, d) <=>
          \E j \in 1..Len(q) : open[q[j].fd] = p /\ q[j].tok.kind = kind /\ q[j].tok.id = d
    BY <1>1 DEF Coming
  <2>2. Coming(p, kind, d)' <=>
          \E i \in 1..Len(r) : open[r[i].fd] = p /\ r[i].tok.kind = kind /\ r[i].tok.id = d
    BY <1>2, <1>4 DEF Coming
  <2>3. ASSUME Coming(p, kind, d)
        PROVE  Coming(p, kind, d)' \/ (open[q[1].fd] = p /\ q[1].tok.kind = kind /\ q[1].tok.id = d)
    <3>1. PICK j \in 1..Len(q) : open[q[j].fd] = p /\ q[j].tok.kind = kind /\ q[j].tok.id = d
      BY <2>1, <2>3
    <3>2. q[j].tok # NL
      BY <3>1, TextsTyped
    <3>3. j = 1 \/ \E i \in 1..Len(r) : r[i] = q[j]
      BY <1>3, <3>2
    <3> QED
      BY <2>2, <3>1, <3>3
  <2>4. ASSUME Coming(p, kind, d)' PROVE Coming(p, kind, d)
    <3>1. PICK i \in 1..Len(r) : open[r[i].fd] = p /\ r[i].tok.kind = kind /\ r[i].tok.id = d
      BY <2>2, <2>4
    <3>2. PICK j \in 1..Len(q) : r[i] = q[j]
      BY <1>3
    <3> QED
      BY <2>1, <3>1, <3>2
  <2>5. ASSUME open[q[1].fd] = p, q[1].tok.kind = kind, q[1].tok.id = d PROVE Coming(p, kind, d)
    BY <1>3, <2>1, <2>5
  <2> QED
    BY <2>3, <2>4, <2>5
<1> QED
  BY <1>1, <1>5, <1>6

\* A piece that is written has been told instead of coming.
LEMMA DeliverySees ==
  ASSUME TypeOK, Named, Framed, Workers, Apart, Reached, Sees,
         NEW t \in Threads, NEW c \in Conns, NEW tok \in Tokens, Delivers(t, c, tok)
  PROVE  Reached' /\ Sees'
<1>1. /\ writes[t] # <<>> /\ writes[t][1].tok = tok /\ open[writes[t][1].fd] = c
      /\ writes' = [writes EXCEPT ![t] = Tail(writes[t])]
      /\ received' = [received EXCEPT ![c] = Append(received[c], tok)]
      /\ UNCHANGED <<tables, stalled>>
  BY DEF Delivers
<1>2. open' = open
  BY <1>1 DEF tables
<1>3. ASSUME NEW p \in Conns, NEW kind, NEW d
      PROVE  Heard(p, kind, d)' <=> Heard(p, kind, d) \/ (p = c /\ tok.kind = kind /\ tok.id = d)
  <2>1. PICK u : u = received[c]
    OBVIOUS
  <2>2. u \in Seq(Tokens)
    BY <2>1 DEF TypeOK
  <2>3. CASE p = c
    <3>1. received'[p] = Append(u, tok)
      BY <1>1, <2>1, <2>3 DEF TypeOK
    <3>2. /\ Len(u) \in Nat /\ Len(Append(u, tok)) = Len(u) + 1
          /\ \A i \in 1..(Len(u) + 1) : Append(u, tok)[i] = IF i = Len(u) + 1 THEN tok ELSE u[i]
      BY <2>2, AppendedIsLast
    <3>3. Heard(p, kind, d)' <=> \E i \in 1..(Len(u) + 1) : Append(u, tok)[i].kind = kind /\ Append(u, tok)[i].id = d
      BY <3>1, <3>2 DEF Heard
    <3>4. Heard(p, kind, d) <=> \E i \in 1..Len(u) : u[i].kind = kind /\ u[i].id = d
      BY <2>1, <2>3 DEF Heard
    <3>5. 1..Len(u) \subseteq 1..(Len(u) + 1) /\ Len(u) + 1 \in 1..(Len(u) + 1) /\ Len(u) + 1 \notin 1..Len(u)
          /\ \A i \in 1..(Len(u) + 1) : i = Len(u) + 1 \/ i \in 1..Len(u)
      BY <3>2
    <3> QED
      BY <2>3, <3>2, <3>3, <3>4, <3>5
  <2>4. CASE p # c
    BY <1>1, <2>4 DEF Heard, TypeOK
  <2> QED
    BY <2>3, <2>4
<1>4. CASE t = Epoll
  <2>1. /\ Reached'
        /\ \A p \in Conns, kind \in {"subscriber_join", "subscriber_leave"}, d \in 0..MaxConns :
              Coming(p, kind, d) <=>
                \/ Coming(p, kind, d)'
                \/ /\ open[writes[Epoll][1].fd] = p
                   /\ writes[Epoll][1].tok.kind = kind /\ writes[Epoll][1].tok.id = d
    <3>1. Tail(writes[Epoll]) \in Left(writes[Epoll])
      BY DEF Left
    <3> QED
      BY <1>1, <1>4, <3>1, ComingLeft
  <2>2. ASSUME NEW p \in Conns, NEW kind \in {"subscriber_join", "subscriber_leave"}, NEW d \in 0..MaxConns
        PROVE  Mentioned(p, kind, d)' <=> Mentioned(p, kind, d)
    BY <1>1, <1>3, <1>4, <2>1 DEF Mentioned
  <2> QED
    BY <1>1, <2>1, <2>2, SameMentions
<1>5. CASE t # Epoll
  <2>1. t \in Shards /\ writes'[Epoll] = writes[Epoll]
    BY <1>1, <1>5, ThreadsAre DEF TypeOK
  <2>2. Reached'
    BY <1>2, <2>1 DEF Reached
  <2>3. tok.kind \in {"nl", "line"}
    <3>1. 1 \in 1..Len(writes[t])
      BY <1>1, FirstPiece
    <3> QED
      BY <1>1, <2>1, <3>1 DEF Workers, OneLine
  <2>4. ASSUME NEW p \in Conns, NEW kind \in {"subscriber_join", "subscriber_leave"}, NEW d \in 0..MaxConns
        PROVE  Mentioned(p, kind, d)' <=> Mentioned(p, kind, d)
    <3>1. Heard(p, kind, d)' <=> Heard(p, kind, d)
      BY <1>3, <2>3
    <3>2. Coming(p, kind, d)' <=> Coming(p, kind, d)
      BY <1>2, <2>1 DEF Coming
    <3> QED
      BY <3>1, <3>2 DEF Mentioned
  <2> QED
    BY <1>1, <2>2, <2>4, SameMentions
<1> QED
  BY <1>4, <1>5

\* A line that is given up makes its connection one that was stalled.
LEMMA GivingUpSees ==
  ASSUME TypeOK, Framed, Apart, Reached, Sees, NEW t \in Threads, GivesUp(t)
  PROVE  Reached' /\ Sees'
<1>1. /\ writes[t] # <<>> /\ open[writes[t][1].fd] \in stalled' \cup {0}
      /\ writes' = [writes EXCEPT ![t] = AfterFailure(writes[t])]
      /\ stalled \subseteq stalled' /\ UNCHANGED <<tables, received>>
  BY DEF GivesUp
<1>2. open' = open
  BY <1>1 DEF tables
<1>3. ASSUME NEW p \in Conns, NEW kind, NEW d PROVE Heard(p, kind, d)' <=> Heard(p, kind, d)
  BY <1>1 DEF Heard
<1>4. CASE t = Epoll
  <2>1. /\ Reached'
        /\ \A p \in Conns, kind \in {"subscriber_join", "subscriber_leave"}, d \in 0..MaxConns :
              Coming(p, kind, d) <=>
                \/ Coming(p, kind, d)'
                \/ /\ open[writes[Epoll][1].fd] = p
                   /\ writes[Epoll][1].tok.kind = kind /\ writes[Epoll][1].tok.id = d
    <3>1. AfterFailure(writes[Epoll]) \in Left(writes[Epoll])
      BY DEF Left
    <3> QED
      BY <1>1, <1>4, <3>1, ComingLeft
  <2>2. ASSUME NEW p \in Conns, NEW kind \in {"subscriber_join", "subscriber_leave"}, NEW d \in 0..MaxConns,
               p \notin stalled'
        PROVE  Mentioned(p, kind, d)' <=> Mentioned(p, kind, d)
    <3>1. p # 0
      BY DEF Conns
    <3>2. Coming(p, kind, d)' <=> Coming(p, kind, d)
      BY <1>1, <1>4, <2>1, <2>2, <3>1
    <3> QED
      BY <1>3, <3>2 DEF Mentioned
  <2> QED
    BY <1>1, <2>1, <2>2, SameMentions
<1>5. CASE t # Epoll
  <2>1. writes'[Epoll] = writes[Epoll]
    BY <1>1, <1>5, ThreadsAre DEF TypeOK
  <2>2. Reached'
    BY <1>2, <2>1 DEF Reached
  <2>3. ASSUME NEW p \in Conns, NEW kind, NEW d PROVE Mentioned(p, kind, d)' <=> Mentioned(p, kind, d)
    <3>1. Coming(p, kind, d)' <=> Coming(p, kind, d)
      BY <1>2, <2>1 DEF Coming
    <3> QED
      BY <1>3, <3>1 DEF Mentioned
  <2> QED
    BY <1>1, <2>2, <2>3, SameMentions
<1> QED
  BY <1>4, <1>5

\* Other steps tell nobody.
LEMMA CalmSees ==
  ASSUME TypeOK, Apart, Reached, Sees, Calm
  PROVE  Reached' /\ Sees'
<1>1. /\ UNCHANGED tables /\ stalled' = stalled /\ writes'[Epoll] = writes[Epoll] /\ open' = open
      /\ \A p \in Conns : Alive(p) => received'[p] = received[p]
  BY DEF Calm, tables
<1>2. Reached'
  BY <1>1 DEF Reached
<1>3. Sees'
  <2> SUFFICES ASSUME NEW z \in Streams, Publisher(z)' # 0, Publisher(z)' \notin stalled',
                      NEW d \in 0..MaxConns
               PROVE  (d \in g_subscribers'[z]) <=>
                        /\ Mentioned(Publisher(z), "subscriber_join", d)'
                        /\ ~Mentioned(Publisher(z), "subscriber_leave", d)'
    BY DEF Sees
  <2>1. PICK p : p = Publisher(z)' /\ p = Publisher(z) /\ p # 0 /\ p \notin stalled
    BY <1>1 DEF tables, Publisher
  <2>2. received'[p] = received[p]
    BY <1>1, <2>1 DEF Apart
  <2>3. (d \in g_subscribers[z]) <=> Mentioned(p, "subscriber_join", d) /\ ~Mentioned(p, "subscriber_leave", d)
    BY <2>1 DEF Sees
  <2>4. ASSUME NEW kind PROVE Mentioned(p, kind, d)' <=> Mentioned(p, kind, d)
    BY <1>1, <2>2 DEF Mentioned, Heard, Coming
  <2>5. (d \in g_subscribers'[z]) <=> Mentioned(p, "subscriber_join", d)' /\ ~Mentioned(p, "subscriber_leave", d)'
    BY <1>1, <2>3, <2>4 DEF tables
  <2> QED
    BY <2>1, <2>5 DEF Mentioned, Heard, Coming
<1> QED
  BY <1>2, <1>3

\* The tables and what the publishers are told, together.
LEMMA TablesInvNext ==
  ASSUME LinesInv, TablesInv, EpollAddMayFail = FALSE, [Next]_vars
  PROVE  TablesInv'
<1>1. TypeOK /\ Registered /\ Named /\ Framed /\ Workers /\ TypeOK'
  BY LinesNext DEF LinesInv
<1>2. /\ server = "up" => Agree
      /\ server = "up" => Reached /\ Sees
  BY AgreeParts DEF TablesInv, EpollOpen, View
<1>3. (server = "up" => Agree)'
  BY <1>1, <1>2, AgreeNext
<1>4. TablesAgree' /\ PublisherOpen'
  BY <1>3, AgreePartsNext
<1>5. ASSUME server' = "up" PROVE Reached' /\ Sees'
  <2>1. server = "up" /\ Agree /\ Agree' /\ Reached /\ Sees
    BY <1>1, <1>2, <1>3, <1>5, TableSteps
  <2>2. Apart
    BY <1>1, <2>1, PublishersApart
  <2>3. ASSUME NEW fd \in Fds, NEW s \in Streams, RegisterPublisher(fd, s) PROVE Reached' /\ Sees'
    BY <1>1, <2>1, <2>3, PublisherSees
  <2>4. ASSUME NEW fd \in Fds, NEW s \in Streams, RegisterSubscriber(fd, s) PROVE Reached' /\ Sees'
    BY <1>1, <2>1, <2>4, SubscriberSees
  <2>5. ASSUME NEW fd \in Fds, Removes(fd) PROVE Reached' /\ Sees'
    BY <1>1, <2>1, <2>5, RemovalSees
  <2>6. ASSUME NEW t \in Threads, NEW c \in Conns, NEW tok \in Tokens, Delivers(t, c, tok) PROVE Reached' /\ Sees'
    BY <1>1, <2>1, <2>2, <2>6, DeliverySees
  <2>7. ASSUME NEW t \in Threads, GivesUp(t) PROVE Reached' /\ Sees'
    BY <1>1, <2>1, <2>2, <2>7, GivingUpSees
  <2>8. ASSUME Calm PROVE Reached' /\ Sees'
    BY <1>1, <2>1, <2>2, <2>8, CalmSees
  <2>9. \/ \E fd \in Fds, s \in Streams : RegisterPublisher(fd, s)
        \/ \E fd \in Fds, s \in Streams : RegisterSubscriber(fd, s)
        \/ \E fd \in Fds : Removes(fd)
        \/ \E t \in Threads : \E c \in Conns, tok \in Tokens : Delivers(t, c, tok)
        \/ \E t \in Threads : GivesUp(t)
        \/ Calm
    BY <1>1, <1>5, <2>1, ViewSteps
  <2> QED
    BY <2>3, <2>4, <2>5, <2>6, <2>7, <2>8, <2>9, Zenon
<1> QED
  BY <1>4, <1>5 DEF TablesInv, EpollOpen, View

-----------------------------------------------------------------------------
(* The theorems *)

\* Nobody is connected at first and nothing is to be written.
LEMMA LinesInit == Init => LinesInv
<1> SUFFICES ASSUME Init PROVE LinesInv
  OBVIOUS
<1>1. /\ \A k \in Shards : queues[k] = <<>> /\ held[k] = <<>>
      /\ \A t \in Threads : writes[t] = <<>>
      /\ \A c \in Conns : received[c] = <<>>
  BY DEF Init
<1>2. /\ \A k \in Shards : 1..Len(queues[k]) = {} /\ 1..Len(held[k]) = {} /\ 1..Len(writes[k]) = {} /\ Len(held[k]) = 0 /\ Len(writes[k]) = 0
      /\ \A t \in Threads : 1..Len(writes[t]) = {}
      /\ \A c \in Conns : 1..Len(received[c]) = {}
  BY <1>1, ThreadsAre
<1>3. TypeOK
  <2>1. TablesTyped
    BY ServerAssumption DEF Init, TablesTyped
  <2>2. QueuesTyped
    <3>1. <<>> \in Seq(Lines) /\ Len(<<>>) = 0
      BY EmptySeq
    <3> QED
      BY <3>1, ServerAssumption DEF Init, QueuesTyped
  <2>3. WritesTyped
    <3>1. <<>> \in Seq(Pieces)
      BY EmptySeq
    <3> QED
      BY <3>1 DEF Init, WritesTyped
  <2>4. RestTyped
    <3>1. <<>> \in Seq(Tokens)
      BY EmptySeq
    <3> QED
      BY <3>1 DEF Init, RestTyped
  <2> QED
    BY <2>1, <2>2, <2>3, <2>4, TypeParts
<1>4. Registered
  BY ServerAssumption DEF Init, Registered, Conns
<1>5. Named
  BY <1>1, <1>2 DEF Init, Named
<1>6. Framed /\ Workers
  BY <1>1, <1>2, ThreadsAre DEF Framed, InLines, Workers, OneLine, NoLine
<1>7. \A k \in Shards, c \in Conns, n \in Nat : ~InHands(k, c, n) /\ ~Waits(k, c, n)
  BY <1>2 DEF InHands, Waits, Routed, Written
<1>8. Numbered
  BY <1>2, <1>7 DEF Numbered
<1>9. Behind /\ LineOrder
  BY <1>2 DEF Behind, Delivered, LineOrder
<1> QED
  BY <1>3, <1>4, <1>5, <1>6, <1>8, <1>9 DEF LinesInv

\* The tables are empty at first.
LEMMA TablesInit == Init => TablesInv
<1> SUFFICES ASSUME Init PROVE TablesInv
  OBVIOUS
<1>1. /\ \A fd \in Fds : open[fd] = 0 /\ g_clients[fd] = 0 /\ g_fd_to_info[fd] = 0
      /\ \A s \in Streams : g_publishers[s] = 0 /\ g_subscribers[s] = {}
      /\ g_peer_seq = 0 /\ writes[Epoll] = <<>>
  BY ThreadsAre DEF Init
<1>2. \A c \in Conns : ~Alive(c) /\ c # 0
  BY <1>1 DEF Alive, Conns
<1>3. \A s \in Streams : Publisher(s) = 0
  BY <1>1 DEF Publisher
<1>4. Agree
  BY <1>1, <1>2, <1>3 DEF Agree, SameIds, OwnFd, Subscribed, Published, Died, Heads
<1>5. Reached /\ Sees
  <2>1. 1..Len(writes[Epoll]) = {}
    BY <1>1
  <2> QED
    BY <1>3, <2>1 DEF Reached, Sees
<1> QED
  BY <1>4, <1>5, AgreeParts DEF TablesInv, EpollOpen, View

\* Ids, framing and the order of lines, in all behaviours.
THEOREM LinesInvariance == Spec => []LinesInv
<1>1. LinesInv /\ [Next]_vars => LinesInv'
  BY LinesNext
<1> QED
  BY <1>1, LinesInit, PTL DEF Spec

\* The state of server.cpp is well formed and no shard's queue exceeds max_queue_lines_.
THEOREM TypeCorrect == Spec => []TypeOK
<1>1. LinesInv => TypeOK
  BY DEF LinesInv
<1> QED
  BY <1>1, LinesInvariance, PTL

\* Lines of one client reach a connection in the order they were sent: RunShard of one
\* shard handles all lines of a descriptor, and a descriptor number that is given out
\* again comes with a new id.
THEOREM LinesInOrder == Spec => []LineOrder
<1>1. LinesInv => LineOrder
  BY DEF LinesInv
<1> QED
  BY <1>1, LinesInvariance, PTL

\* The whole invariant, where epoll_ctl(ADD) does not fail.
THEOREM ServerInvariance ==
  ASSUME EpollAddMayFail = FALSE
  PROVE  Spec => []ServerInv
<1>1. Init => ServerInv
  BY LinesInit, TablesInit DEF ServerInv
<1>2. ServerInv /\ [Next]_vars => ServerInv'
  BY LinesNext, TablesInvNext DEF ServerInv
<1> QED
  BY <1>1, <1>2, PTL DEF Spec

\* The five tables of server.cpp agree with each other and with the kernel while the
\* server accepts connections, if epoll_ctl(ADD) does not fail.
THEOREM TablesAlwaysAgree ==
  ASSUME EpollAddMayFail = FALSE
  PROVE  Spec => []TablesAgree
<1>1. ServerInv => TablesAgree
  BY DEF ServerInv, TablesInv
<1> QED
  BY <1>1, ServerInvariance, PTL

\* Between two handlers, the subscribers announced to a stream's publisher and not
\* withdrawn are the stream's: NotifyPublisherSubscriberEvent and the announcements of
\* HandleInitialRegister miss nobody and repeat nobody who left.
THEOREM PublisherKnowsSubscribers ==
  ASSUME EpollAddMayFail = FALSE
  PROVE  Spec => []PublisherView
<1>1. ServerInv => PublisherView
  <2> SUFFICES ASSUME ServerInv, NEW s \in Streams, NEW p, p = Publisher(s),
                      server = "up", EpollIdle, p # 0, p \notin stalled
               PROVE  Told(p, "subscriber_join") \ Told(p, "subscriber_leave") = g_subscribers[s]
    BY DEF PublisherView
  <2>1. TypeOK /\ Agree /\ Sees
    BY AgreeParts DEF ServerInv, LinesInv, TablesInv, View
  <2>2. p \in Conns
    BY <2>1, PublishersApart DEF Apart
  <2>3. received[p] \in Seq(Tokens) /\ g_subscribers[s] \subseteq 0..MaxConns
    BY <2>1, <2>2 DEF TypeOK, Conns
  <2>4. ASSUME NEW i \in 1..Len(received[p]) PROVE received[p][i].id \in 0..MaxConns
    <3>1. received[p][i] \in Tokens
      BY <2>3, ElementOfSeq
    <3> QED
      BY <3>1 DEF Tokens
  <2>5. ASSUME NEW kind, NEW d PROVE d \in Told(p, kind) <=> Heard(p, kind, d)
    BY DEF Told, Heard
  <2>6. ASSUME NEW kind, NEW d PROVE Mentioned(p, kind, d) <=> Heard(p, kind, d)
    <3>1. 1..Len(writes[Epoll]) = {}
      BY DEF EpollIdle
    <3> QED
      BY <3>1 DEF Mentioned, Coming
  <2>7. ASSUME NEW d \in 0..MaxConns
        PROVE  d \in g_subscribers[s] <=> d \in Told(p, "subscriber_join") /\ d \notin Told(p, "subscriber_leave")
    BY <2>1, <2>5, <2>6 DEF Sees
  <2>8. Told(p, "subscriber_join") \subseteq 0..MaxConns
    BY <2>4 DEF Told
  <2> QED
    BY <2>3, <2>7, <2>8
<1> QED
  BY <1>1, ServerInvariance, PTL

==============================================================================
