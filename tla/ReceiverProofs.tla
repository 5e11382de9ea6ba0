--------------------------- MODULE ReceiverProofs ---------------------------
(***************************************************************************)
(* Proofs about the two components a received stream runs on.              *)
(*                                                                         *)
(* The Android decoder (MediaCodecDecoder), for any callbacks, any bounds  *)
(* and any sizes of the queues.  DecoderInv is inductive.  Its first parts *)
(* say which thread may be where: what the caller waits for (Waiting),     *)
(* what the worker does (Working), what exists meanwhile (Lifetimes,       *)
(* Cleared).  Quiet is about the callback.  Ordered and Stamped are about  *)
(* the frames on their way: in the order of their Decode calls, and under  *)
(* time stamps that tell them apart.                                       *)
(*                                                                         *)
(* The session (RtcStreamSession), for any offers, candidates and frames:  *)
(* where its remote candidates go, whenever the observer of                *)
(* SetRemoteDescription comes.  OrderInv is inductive, and FitInv with it. *)
(***************************************************************************)
EXTENDS MediaCodecDecoder, RtcStreamSession, Integers, FiniteSetTheorems, SequenceTheorems, TLAPS

-----------------------------------------------------------------------------
(* The decoder *)

ConfigureCalls == {"configure", "configure_wait"}
ReleaseCalls == {"release", "release_wait"}
Stopping == {"output", "output_join", "worker", "worker_notify", "worker_join"}
Feeding == {"frame", "record", "queue"}

\* The task a caller waits for is alone in the queue, or the worker has it.
Alone(kind) ==
  \/ tasks_ = <<Task(kind, 0)>> /\ job.kind \in {None, "frame"}
  \/ tasks_ = <<>> /\ job.kind = kind
OnlyFrames == (\A i \in DOMAIN tasks_ : tasks_[i].kind = "frame") /\ job.kind \in {None, "frame"}
Nothing == tasks_ = <<>> /\ job.kind = None

Waiting ==
  /\ app \in ConfigureCalls => Alone("configure")
  /\ app \in ReleaseCalls => Alone("release")
  /\ app \in {"idle", "decode"} => OnlyFrames
  /\ app \in Stopping => Nothing
  /\ ~running_ => app \in Stopping \union {"idle"} /\ Nothing

\* A task has a frame where Decode queued it, and no more is counted than
\* there were calls.
Queued ==
  /\ \A i \in DOMAIN tasks_ : tasks_[i].kind = "frame" <=> tasks_[i].frame # 0
  /\ pending_decode_tasks_ <= frames

\* Where the worker is says what its task is.
Working ==
  /\ worker = "busy" <=> job.kind # None
  /\ job.kind = None <=> at = None
  /\ job.kind = "frame" <=> at \in Feeding \union {"count"}
  /\ job.kind = "release" => at \in {"destroy", "join", "delete"}
  /\ job.kind = "frame" <=> job.frame # 0

\* Codec, reader and output thread exist together but while the worker
\* destroys or creates them.
Lifetimes ==
  /\ at \notin {"join", "delete", "create", "reader", "start"} =>
       /\ codec_ <=> output_running_
       /\ image_reader_ <=> output_running_
       /\ out # "none" <=> output_running_
  /\ at \in {"join", "delete", "create", "reader", "start"} => ~output_running_
  /\ at = "join" => codec_ /\ image_reader_
  /\ at \in {"delete", "create", "reader", "start"} => out = "none"
  /\ at = "create" => ~codec_ /\ ~image_reader_
  /\ at = "reader" => codec_ /\ ~image_reader_
  /\ at = "start" => codec_ /\ image_reader_
  /\ app \in Stopping \/ ~running_ => ~output_running_

\* From the images the output thread goes back into its loop.
Returning == out \in {"images", "acquire", "reset", "take", "deliver"} => after # None

\* A codec that is being made has no frame in it.
Cleared ==
  at \in {"create", "reader", "start"} =>
    /\ metadata = <<>>
    /\ input = <<>> /\ output = <<>> /\ rendering = <<>> /\ images = <<>>

\* The callback that is set, and the one the output thread uses, have seen no
\* Release return.
Quiet ==
  /\ callback_ \notin over
  /\ app \in ReleaseCalls \union Stopping => callback_ = None
  /\ out \in {"acquire", "reset", "take", "deliver"} => cb \notin over

\* There is one image in hand, or none, and an image is taken only where one
\* more may be held.
Handy ==
  /\ out = "take" => Len(image) = 1
  /\ out = "reset" => Len(image) <= 1
  /\ out \in {"take", "deliver"} \/ (out = "reset" /\ image # <<>>) => held < MaxImages

\* The places of a frame, the last one first: passed on, the image in hand,
\* in the reader, on the way to it, decoded, in the codec, fed, queued, and
\* the next one to come.
InHand == IF out \in {"reset", "take"} THEN image ELSE <<>>
Fed == IF at \in Feeding THEN <<job>> ELSE <<>>
Line == <<<<delivered>>, InHand, images, rendering, output, input, Fed, tasks_,
          <<Task("frame", frames + 1)>>>>
Places == 1..9

\* The frames of a line are in the order of their Decode calls; 0 is no frame.
InOrder(line) ==
  \A s, t \in Places : \A i \in DOMAIN line[s], j \in DOMAIN line[t] :
    /\ s < t \/ (s = t /\ i < j)
    /\ line[t][j].frame # 0
    => line[s][i].frame < line[t][j].frame

Ordered == InOrder(Line) /\ DeliveredRight

\* The entries with a time stamp given since the codec started, whose metadata,
\* if any has the same stamp, are those of the same frame.
Own ==
  {e \in Entry :
     /\ e.pts <= next_input_pts_us_
     /\ \A k \in DOMAIN metadata : metadata[k].pts = e.pts => metadata[k].frame = e.frame}

Stamped ==
  /\ \A k \in DOMAIN metadata : metadata[k].pts <= next_input_pts_us_
  /\ InHand \in Seq(Own) /\ images \in Seq(Own) /\ rendering \in Seq(Own)
  /\ output \in Seq(Own) /\ input \in Seq(Own)
  /\ at = "queue" => [pts |-> pts, frame |-> job.frame] \in Own

DecoderInv ==
  TypeOK /\ Waiting /\ Queued /\ Working /\ Lifetimes /\ Returning /\ Cleared /\ Quiet /\ Handy
    /\ Ordered /\ Stamped

-----------------------------------------------------------------------------
(* The type invariant, in parts *)

CallerTyped ==
  /\ app \in {"idle", "decode", "configure", "configure_wait", "release", "release_wait",
              "output", "output_join", "worker", "worker_notify", "worker_join"}
  /\ frames \in 0..MaxFrames /\ configures \in 0..MaxConfigures
  /\ callback_ \in Callbacks \union {None} /\ used \subseteq Callbacks /\ over \subseteq Callbacks

QueueTyped ==
  /\ running_ \in BOOLEAN /\ pending_decode_tasks_ \in 0..MaxFrames
  /\ tasks_ \in Seq([kind : {"frame", "configure", "release"}, frame : 0..MaxFrames])

WorkerTyped ==
  /\ worker \in {"none", "asleep", "awake", "busy"}
  /\ job \in [kind : {None, "frame", "configure", "release"}, frame : 0..MaxFrames]
  /\ at \in {None, "destroy", "join", "delete", "create", "reader", "start", "frame", "record",
             "queue", "count"}

FlagsTyped ==
  /\ codec_ \in BOOLEAN /\ image_reader_ \in BOOLEAN /\ notifications \in BOOLEAN
  /\ output_running_ \in BOOLEAN /\ released \in BOOLEAN

StampsTyped ==
  /\ next_input_pts_us_ \in Nat /\ now \in Nat /\ pts \in Nat
  /\ metadata \in Seq(Entry) /\ Len(metadata) <= MaxMetadata

DeviceTyped ==
  /\ input \in Seq(Entry) /\ output \in Seq(Entry) /\ rendering \in Seq(Entry)
  /\ images \in Seq(Entry) /\ unnotified \in Nat /\ held \in 0..MaxImages

OutTyped ==
  /\ out \in {"none", "loop", "drain", "notified", "images", "acquire", "reset", "take", "deliver"}
  /\ cb \in Callbacks \union {None} /\ after \in {None, "notified", "loop"}
  /\ image \in Seq(Entry)
  /\ delivered \in [frame : 0..MaxFrames, meta : 0..MaxFrames, order : BOOLEAN]

\* TypeOK is its parts.
LEMMA TypeParts ==
  TypeOK <=> /\ CallerTyped /\ QueueTyped /\ WorkerTyped /\ FlagsTyped
             /\ StampsTyped /\ DeviceTyped /\ OutTyped
BY Zenon DEF TypeOK, CallerTyped, QueueTyped, WorkerTyped, FlagsTyped, StampsTyped, DeviceTyped,
   OutTyped

\* The same of the next state.
LEMMA TypePartsNext ==
  TypeOK' <=> /\ CallerTyped' /\ QueueTyped' /\ WorkerTyped' /\ FlagsTyped'
              /\ StampsTyped' /\ DeviceTyped' /\ OutTyped'
BY TypeParts, PTL

-----------------------------------------------------------------------------
(* Sequences of entries *)

\* Popping metadata leaves a part of them, none newly made.
LEMMA PoppedIsPart ==
  ASSUME NEW q \in Seq(Entry), NEW n \in 0..Len(q)
  PROVE  /\ SubSeq(q, n + 1, Len(q)) \in Seq(Entry)
         /\ Len(SubSeq(q, n + 1, Len(q))) <= Len(q)
         /\ \A i \in DOMAIN SubSeq(q, n + 1, Len(q)) :
              \E k \in DOMAIN q : SubSeq(q, n + 1, Len(q))[i] = q[k]
<1> DEFINE r == SubSeq(q, n + 1, Len(q))
<1>1. r \in Seq(Entry) /\ Len(r) <= Len(q)
  OBVIOUS
<1>2. \A i \in DOMAIN r : n + i \in DOMAIN q /\ r[i] = q[n + i]
  OBVIOUS
<1> QED
  BY <1>1, <1>2

\* So does removing one of them.
LEMMA RemovedIsPart ==
  ASSUME NEW q \in Seq(Entry), NEW n \in DOMAIN q
  PROVE  /\ RemoveAt(q, n) \in Seq(Entry)
         /\ Len(RemoveAt(q, n)) <= Len(q)
         /\ \A i \in DOMAIN RemoveAt(q, n) : \E k \in DOMAIN q : RemoveAt(q, n)[i] = q[k]
<1> DEFINE a == SubSeq(q, 1, n - 1)
           b == SubSeq(q, n + 1, Len(q))
<1>1. /\ a \in Seq(Entry) /\ Len(a) = n - 1
      /\ \A i \in 1..(n - 1) : a[i] = q[i]
  OBVIOUS
<1>2. /\ b \in Seq(Entry) /\ Len(b) = Len(q) - n
      /\ \A i \in 1..(Len(q) - n) : b[i] = q[n + i]
  OBVIOUS
<1>3. RemoveAt(q, n) = a \o b
  BY DEF RemoveAt
<1>4. Len(q) \in Nat /\ n \in 1..Len(q)
  OBVIOUS
<1> HIDE DEF a, b
<1>5. /\ a \o b \in Seq(Entry) /\ Len(a \o b) = Len(a) + Len(b)
      /\ \A i \in 1..(Len(a) + Len(b)) :
           (a \o b)[i] = IF i <= Len(a) THEN a[i] ELSE b[i - Len(a)]
  BY <1>1, <1>2, ConcatProperties
<1>6. ASSUME NEW i \in DOMAIN (a \o b) PROVE \E k \in DOMAIN q : (a \o b)[i] = q[k]
  <2>1. i \in 1..(Len(q) - 1)
    BY <1>1, <1>2, <1>4, <1>5, LenProperties
  <2>2. CASE i <= n - 1
    <3>1. (a \o b)[i] = q[i] /\ i \in DOMAIN q
      BY <1>1, <1>2, <1>4, <1>5, <2>1, <2>2, SMTT(30)
    <3> QED BY <3>1
  <2>3. CASE ~(i <= n - 1)
    <3>1. i - (n - 1) \in 1..(Len(q) - n) /\ n + (i - (n - 1)) = i + 1
      BY <1>4, <2>1, <2>3
    <3>2. i \in 1..(Len(a) + Len(b)) /\ ~(i <= Len(a)) /\ Len(a) = n - 1
      BY <1>1, <1>2, <1>4, <2>1, <2>3
    <3>3. (a \o b)[i] = b[i - (n - 1)]
      BY <1>5, <3>2
    <3>4. b[i - (n - 1)] = q[n + (i - (n - 1))]
      BY <1>2, <3>1
    <3>5. (a \o b)[i] = q[i + 1] /\ i + 1 \in DOMAIN q
      BY <1>4, <2>1, <3>1, <3>3, <3>4, LenProperties, SMTT(30)
    <3> QED BY <3>5
  <2> QED
    BY <2>2, <2>3
<1>7. Len(a \o b) <= Len(q)
  BY <1>1, <1>2, <1>4, <1>5
<1> QED
  BY <1>3, <1>5, <1>6, <1>7

\* No more are popped than there are.
LEMMA CountsAreSmall ==
  ASSUME NEW q \in Seq(Entry), NEW S \in SUBSET DOMAIN q
  PROVE  Cardinality(S) \in 0..Len(q)
<1>1. PICK n \in Nat : n = Len(q) /\ DOMAIN q = 1..n
  BY LenProperties
<1>2. IsFiniteSet(1..n) /\ Cardinality(1..n) = IF 1 > n THEN 0 ELSE n - 1 + 1
  BY FS_Interval
<1>3. Cardinality(1..n) = n
  BY <1>2
<1>4. IsFiniteSet(S) /\ Cardinality(S) <= Cardinality(1..n)
  BY <1>1, <1>2, FS_Subset
<1>5. Cardinality(S) \in Nat
  BY <1>4, FS_CardinalityType
<1> QED
  BY <1>1, <1>3, <1>4, <1>5

\* What TakeMetadata and DrainOne leave of the metadata is a part of them.
LEMMA LeftIsPart ==
  ASSUME metadata \in Seq(Entry), NEW p \in Nat, NEW r \in {Newer(p), Taken(p)}
  PROVE  /\ r \in Seq(Entry) /\ Len(r) <= Len(metadata)
         /\ \A i \in DOMAIN r : \E k \in DOMAIN metadata : r[i] = metadata[k]
<1> DEFINE S == {i \in DOMAIN metadata : \A j \in 1..i : metadata[j].pts <= p}
           T == {i \in DOMAIN metadata : \A j \in 1..i : metadata[j].pts < p}
<1>1. S \in SUBSET DOMAIN metadata /\ T \in SUBSET DOMAIN metadata
  OBVIOUS
<1>2. Newer(p) = Popped(Cardinality(S)) /\ Taken(p) = Popped(Cardinality(T))
  BY DEF Newer, Taken
<1> HIDE DEF S, T
<1>3. Cardinality(S) \in 0..Len(metadata) /\ Cardinality(T) \in 0..Len(metadata)
  BY <1>1, CountsAreSmall
<1>4. PICK n \in 0..Len(metadata) : r = SubSeq(metadata, n + 1, Len(metadata))
  BY <1>2, <1>3 DEF Popped
<1> QED
  BY <1>4, PoppedIsPart

-----------------------------------------------------------------------------
(* A line stays in order *)

\* The first frame of place k becomes e, the last one of the place h before.
Moved(L, M, h, k, X, Y, e) ==
  /\ h \in 1..8 /\ k \in 2..9 /\ k = h + 1 /\ e \in Y
  /\ L[k] \in Seq(X) /\ L[k] # <<>> /\ M[k] = Tail(L[k]) /\ e.frame = Head(L[k]).frame
  /\ L[h] \in Seq(Y) /\ M[h] = Append(L[h], e)
  /\ \A s \in Places : s # k /\ s # h => M[s] = L[s]

\* This keeps the order.
LEMMA MoveKeeps ==
  ASSUME NEW L, NEW M, InOrder(L), NEW h, NEW k, NEW X, NEW Y, NEW e, Moved(L, M, h, k, X, Y, e)
  PROVE  InOrder(M)
<1> USE DEF Moved
<1>1. /\ Len(L[k]) \in Nat \ {0} /\ DOMAIN L[k] = 1..Len(L[k])
      /\ DOMAIN M[k] = 1..(Len(L[k]) - 1)
      /\ \A i \in DOMAIN M[k] : i + 1 \in DOMAIN L[k] /\ M[k][i] = L[k][i + 1]
      /\ 1 \in DOMAIN L[k] /\ e.frame = L[k][1].frame
  OBVIOUS
<1>2. /\ Len(L[h]) \in Nat /\ DOMAIN L[h] = 1..Len(L[h])
      /\ DOMAIN M[h] = 1..(Len(L[h]) + 1)
      /\ \A i \in DOMAIN L[h] : M[h][i] = L[h][i]
      /\ M[h][Len(L[h]) + 1] = e
  OBVIOUS
<1>3. SUFFICES ASSUME NEW s \in Places, NEW t \in Places, NEW i \in DOMAIN M[s],
                      NEW j \in DOMAIN M[t],
                      s < t \/ (s = t /\ i < j), M[t][j].frame # 0
               PROVE  M[s][i].frame < M[t][j].frame
  BY DEF InOrder
<1> DEFINE Came(x, a, p, n) ==
      \/ x = k /\ p = k /\ n = a + 1
      \/ x = h /\ a = Len(L[h]) + 1 /\ p = k /\ n = 1
      \/ x = h /\ a \in 1..Len(L[h]) /\ p = h /\ n = a
      \/ x # k /\ x # h /\ p = x /\ n = a
<1>4. ASSUME NEW x \in Places, NEW a \in DOMAIN M[x]
      PROVE  \E p \in Places : \E n \in DOMAIN L[p] :
               M[x][a].frame = L[p][n].frame /\ Came(x, a, p, n)
  <2>1. k \in Places /\ h \in Places
    BY DEF Places
  <2>2. CASE x = k
    BY <1>1, <2>1, <2>2
  <2>3. CASE x = h /\ a = Len(L[h]) + 1
    BY <1>1, <1>2, <2>1, <2>3
  <2>4. CASE x = h /\ a # Len(L[h]) + 1
    <3>1. a \in 1..Len(L[h])
      BY <1>2, <2>4, SMTT(30)
    <3> QED
      BY <1>2, <2>1, <2>4, <3>1
  <2>5. CASE x # k /\ x # h
    BY <2>5
  <2> QED
    BY <2>2, <2>3, <2>4, <2>5
<1>5. PICK p \in Places : \E n \in DOMAIN L[p] : M[s][i].frame = L[p][n].frame /\ Came(s, i, p, n)
  BY <1>4
<1>6. PICK n \in DOMAIN L[p] : M[s][i].frame = L[p][n].frame /\ Came(s, i, p, n)
  BY <1>5
<1>7. PICK q \in Places : \E m \in DOMAIN L[q] : M[t][j].frame = L[q][m].frame /\ Came(t, j, q, m)
  BY <1>4
<1>8. PICK m \in DOMAIN L[q] : M[t][j].frame = L[q][m].frame /\ Came(t, j, q, m)
  BY <1>7
<1>9. /\ s = k => i \in Nat \ {0}
      /\ t = k => j \in Nat \ {0}
      /\ s = h => i \in 1..(Len(L[h]) + 1)
      /\ t = h => j \in 1..(Len(L[h]) + 1)
  <2>1. ASSUME NEW x, NEW a \in DOMAIN M[x], x = k PROVE a \in Nat \ {0}
    <3>1. a \in 1..(Len(L[k]) - 1)
      BY <1>1, <2>1, Zenon
    <3> QED
      BY <1>1, <3>1
  <2>2. ASSUME NEW x, NEW a \in DOMAIN M[x], x = h PROVE a \in 1..(Len(L[h]) + 1)
    BY <1>2, <2>2, Zenon
  <2> QED
    BY <2>1, <2>2, Zenon
<1>10. s \in Int /\ t \in Int /\ k \in Int /\ Len(L[h]) \in Nat
  BY <1>2 DEF Places
<1>11. p < q \/ (p = q /\ n < m)
  <2>1. CASE s = t
    BY <1>3, <1>6, <1>8, <1>9, <1>10, <2>1
  <2>2. CASE s < t
    BY <1>6, <1>8, <1>9, <1>10, <2>2
  <2> QED
    BY <1>3, <2>1, <2>2
<1> QED
  BY <1>3, <1>6, <1>8, <1>11 DEF InOrder

\* Places may be emptied.
LEMMA EmptyKeeps ==
  ASSUME NEW L, NEW M, InOrder(L),
         \A s \in Places : M[s] = L[s] \/ M[s] = <<>>
  PROVE  InOrder(M)
<1>1. \A s \in Places : \A i \in DOMAIN M[s] : M[s] = L[s]
  OBVIOUS
<1> QED
  BY <1>1 DEF InOrder

\* The first frame of a place may be dropped.
LEMMA DropKeeps ==
  ASSUME NEW L, NEW M, InOrder(L), NEW k \in Places, NEW X,
         L[k] \in Seq(X), L[k] # <<>>, M[k] = Tail(L[k]),
         \A s \in Places : s # k => M[s] = L[s]
  PROVE  InOrder(M)
<1>1. /\ DOMAIN M[k] \subseteq Nat
      /\ \A i \in DOMAIN M[k] : i + 1 \in DOMAIN L[k] /\ M[k][i] = L[k][i + 1]
  OBVIOUS
<1>2. SUFFICES ASSUME NEW s \in Places, NEW t \in Places, NEW i \in DOMAIN M[s],
                      NEW j \in DOMAIN M[t],
                      s < t \/ (s = t /\ i < j), M[t][j].frame # 0
               PROVE  M[s][i].frame < M[t][j].frame
  BY DEF InOrder
<1>3. CASE s = k /\ t = k
  <2>1. ~(s < t)
    BY <1>3 DEF Places
  <2>2. i \in DOMAIN M[k] /\ j \in DOMAIN M[k] /\ i < j
    BY <1>2, <1>3, <2>1, Zenon
  <2>3. /\ i + 1 < j + 1 /\ i + 1 \in DOMAIN L[k] /\ j + 1 \in DOMAIN L[k]
        /\ M[s][i] = L[k][i + 1] /\ M[t][j] = L[k][j + 1]
    <3>1. i \in Nat /\ j \in Nat
      BY <1>1, <2>2, Zenon
    <3>2. i + 1 < j + 1
      BY <2>2, <3>1
    <3> QED
      BY <1>1, <1>3, <2>2, <3>2, Zenon
  <2> QED
    BY <1>2, <2>3, Zenon DEF InOrder
<1>4. CASE s = k /\ t # k
  <2>1. s < t /\ i + 1 \in DOMAIN L[s] /\ M[s][i] = L[s][i + 1] /\ M[t] = L[t]
    BY <1>1, <1>2, <1>4, Zenon
  <2> QED
    BY <1>2, <2>1, Zenon DEF InOrder
<1>5. CASE s # k /\ t = k
  <2>1. s < t /\ j + 1 \in DOMAIN L[t] /\ M[t][j] = L[t][j + 1] /\ M[s] = L[s]
    BY <1>1, <1>2, <1>5, Zenon
  <2> QED
    BY <1>2, <2>1, Zenon DEF InOrder
<1>6. CASE s # k /\ t # k
  BY <1>2, <1>6 DEF InOrder
<1> QED
  BY <1>3, <1>4, <1>5, <1>6

\* The last frame of place k becomes e, and has the place h before for itself.
LastTaken(L, M, h, k, X, e) ==
  /\ h \in 1..8 /\ k \in 2..9 /\ k = h + 1
  /\ L[k] \in Seq(X) /\ L[k] # <<>> /\ e.frame = L[k][Len(L[k])].frame
  /\ M[h] = <<e>> /\ M[k] = <<>>
  /\ \A s \in Places : s # k /\ s # h => M[s] = L[s]

\* This keeps the order.
LEMMA TakeLastKeeps ==
  ASSUME NEW L, NEW M, InOrder(L), NEW h, NEW k, NEW X, NEW e, LastTaken(L, M, h, k, X, e)
  PROVE  InOrder(M)
<1> USE DEF LastTaken
<1>1. /\ Len(L[k]) \in DOMAIN L[k] /\ k \in Places /\ h \in Places /\ DOMAIN M[k] = {}
      /\ \A i \in DOMAIN M[h] : i = 1 /\ M[h][i] = e
  BY DEF Places
<1>2. SUFFICES ASSUME NEW s \in Places, NEW t \in Places, NEW i \in DOMAIN M[s],
                      NEW j \in DOMAIN M[t],
                      s < t \/ (s = t /\ i < j), M[t][j].frame # 0
               PROVE  M[s][i].frame < M[t][j].frame
  BY DEF InOrder
<1>3. s # k /\ t # k
  BY <1>1, Zenon
<1>4. CASE s = h /\ t = h
  BY <1>1, <1>2, <1>4
<1>5. CASE s = h /\ t # h
  <2>1. k < t /\ M[t] = L[t] /\ M[s][i] = e
    BY <1>1, <1>2, <1>3, <1>5 DEF Places
  <2> QED
    BY <1>1, <1>2, <2>1 DEF InOrder
<1>6. CASE s # h /\ t = h
  <2>1. s < k /\ M[s] = L[s] /\ M[t][j] = e
    BY <1>1, <1>2, <1>3, <1>6 DEF Places
  <2> QED
    BY <1>1, <1>2, <2>1 DEF InOrder
<1>7. CASE s # h /\ t # h
  BY <1>2, <1>3, <1>7 DEF InOrder
<1> QED
  BY <1>4, <1>5, <1>6, <1>7

\* A task without a frame may replace what is queued.
LEMMA ReplaceKeeps ==
  ASSUME NEW L, NEW M, InOrder(L), NEW n \in Nat, NEW kind,
         M[8] = <<Task(kind, 0)>>, L[9] = <<Task("frame", n + 1)>>,
         \A s \in Places : s # 8 => M[s] = L[s]
  PROVE  InOrder(M)
<1>1. /\ \A i \in DOMAIN M[8] : M[8][i].frame = 0
      /\ \A i \in DOMAIN M[9] : M[9][i].frame > 0
  BY DEF Task, Places
<1>2. SUFFICES ASSUME NEW s \in Places, NEW t \in Places, NEW i \in DOMAIN M[s],
                      NEW j \in DOMAIN M[t],
                      s < t \/ (s = t /\ i < j), M[t][j].frame # 0
               PROVE  M[s][i].frame < M[t][j].frame
  BY DEF InOrder
<1>3. t # 8
  BY <1>1, <1>2
<1>4. CASE s = 8
  <2>1. t = 9
    BY <1>2, <1>3, <1>4 DEF Places
  <2> QED
    BY <1>1, <1>4, <2>1
<1>5. CASE s # 8
  BY <1>2, <1>3, <1>5 DEF InOrder
<1> QED
  BY <1>4, <1>5

\* The next frame may be queued.
LEMMA NewFrameKeeps ==
  ASSUME NEW L, NEW M, InOrder(L), NEW n \in Nat, NEW X, L[8] \in Seq(X),
         Task("frame", n + 1) \in X,
         \A s \in Places : \A i \in DOMAIN L[s] : L[s][i].frame \in Nat,
         L[9] = <<Task("frame", n + 1)>>, M[9] = <<Task("frame", n + 2)>>,
         M[8] = Append(L[8], Task("frame", n + 1)),
         \A s \in Places : s # 8 /\ s # 9 => M[s] = L[s]
  PROVE  InOrder(M)
<1>1. /\ \A i \in DOMAIN M[9] : i = 1 /\ M[9][i].frame = n + 2
      /\ 1 \in DOMAIN L[9] /\ L[9][1].frame = n + 1
  BY DEF Task
<1>2. /\ Len(L[8]) \in Nat /\ DOMAIN L[8] = 1..Len(L[8])
      /\ DOMAIN M[8] = 1..(Len(L[8]) + 1)
      /\ \A i \in DOMAIN L[8] : M[8][i] = L[8][i]
      /\ M[8][Len(L[8]) + 1].frame = n + 1
  BY DEF Task
<1>3. ASSUME NEW s \in Places, NEW i \in DOMAIN L[s], s # 9 PROVE L[s][i].frame < n + 1
  <2>1. s < 9 /\ 9 \in Places
    BY <1>3 DEF Places
  <2> QED
    BY <1>1, <2>1, SMTT(30) DEF InOrder
<1>4. SUFFICES ASSUME NEW s \in Places, NEW t \in Places, NEW i \in DOMAIN M[s],
                      NEW j \in DOMAIN M[t],
                      s < t \/ (s = t /\ i < j), M[t][j].frame # 0
               PROVE  M[s][i].frame < M[t][j].frame
  BY DEF InOrder
<1>5. CASE t = 9 /\ s = 9
  BY <1>1, <1>4, <1>5
<1>6. CASE t = 9 /\ s = 8
  <2>1. CASE i = Len(L[8]) + 1
    BY <1>1, <1>2, <1>6, <2>1
  <2>2. CASE i \in DOMAIN L[8]
    <3>1. M[s][i] = L[8][i] /\ L[8][i].frame < n + 1 /\ L[8][i].frame \in Nat
      <4>1. 8 \in Places /\ 8 # 9
        BY DEF Places
      <4> QED
        BY <1>2, <1>3, <1>6, <2>2, <4>1, Zenon
    <3>2. M[t][j].frame = n + 2
      BY <1>1, <1>6
    <3> QED
      BY <3>1, <3>2
  <2> QED
    BY <1>2, <1>6, <2>1, <2>2
<1>7. CASE t = 9 /\ s # 9 /\ s # 8
  <2>1. M[s][i] = L[s][i] /\ L[s][i].frame < n + 1 /\ L[s][i].frame \in Nat
    BY <1>3, <1>7
  <2>2. M[t][j].frame = n + 2
    BY <1>1, <1>7
  <2> QED
    BY <2>1, <2>2
<1>8. CASE t # 9
  <2>1. s # 9
    BY <1>4, <1>8 DEF Places
  <2>2. CASE t = 8 /\ j = Len(L[8]) + 1
    <3>1. i \in DOMAIN L[s] /\ M[s][i] = L[s][i]
      <4>1. CASE s = 8
        <5>1. i < Len(L[8]) + 1 /\ i \in 1..(Len(L[8]) + 1)
          BY <1>2, <1>4, <2>2, <4>1
        <5>2. i \in 1..Len(L[8])
          BY <1>2, <5>1
        <5> QED
          BY <1>2, <4>1, <5>2
      <4>2. CASE s # 8
        BY <2>1, <4>2
      <4> QED
        BY <4>1, <4>2
    <3>2. L[s][i].frame < n + 1
      BY <1>3, <2>1, <3>1
    <3> QED
      BY <1>2, <2>2, <3>1, <3>2
  <2>3. CASE ~(t = 8 /\ j = Len(L[8]) + 1)
    <3>1. j \in DOMAIN L[t] /\ M[t][j] = L[t][j]
      <4>1. CASE t = 8
        <5>1. j \in 1..(Len(L[8]) + 1) /\ j # Len(L[8]) + 1
          BY <1>2, <2>3, <4>1, Zenon
        <5>2. j \in DOMAIN L[8]
          BY <1>2, <5>1
        <5> QED
          BY <1>2, <4>1, <5>2, Zenon
      <4>2. CASE t # 8
        BY <1>8, <4>2, Zenon
      <4> QED
        BY <4>1, <4>2
    <3>2. i \in DOMAIN L[s] /\ M[s][i] = L[s][i]
      <4>1. CASE s = 8
        <5>1. t = 8 /\ i < j
          BY <1>4, <1>8, <4>1 DEF Places
        <5>2. j \in 1..Len(L[8]) /\ i \in 1..(Len(L[8]) + 1)
          BY <1>2, <3>1, <4>1, <5>1, Zenon
        <5>3. i \in 1..Len(L[8])
          BY <1>2, <5>1, <5>2
        <5> QED
          BY <1>2, <4>1, <5>3, Zenon
      <4>2. CASE s # 8
        BY <2>1, <4>2
      <4> QED
        BY <4>1, <4>2
    <3> QED
      BY <1>4, <3>1, <3>2 DEF InOrder
  <2> QED
    BY <2>2, <2>3
<1> QED
  BY <1>5, <1>6, <1>7, <1>8

-----------------------------------------------------------------------------
(* The caller and its tasks *)

\* Without a change of queue and task, Waiting is about the caller only.
LEMMA QueueSame ==
  ASSUME tasks_' = tasks_, job' = job
  PROVE  /\ \A kind : Alone(kind)' <=> Alone(kind)
         /\ OnlyFrames' <=> OnlyFrames
         /\ Nothing' <=> Nothing
BY DEF Alone, OnlyFrames, Nothing

\* An empty queue suits every call that has been answered.
LEMMA NothingSuits ==
  ASSUME Nothing
  PROVE  OnlyFrames
BY DEF OnlyFrames, Nothing

\* The end of a task answers the call that waits for it.
LEMMA AnsweredIsRight ==
  ASSUME CallerTyped, WorkerTyped, QueueTyped, Waiting, job.kind # None, JobEnds,
         UNCHANGED <<tasks_, running_>>
  PROVE  Waiting'
<1>1. job'.kind = None /\ running_
  BY DEF JobEnds, Task, Waiting, Nothing
<1>2. CASE job.kind = "configure"
  <2>1. app \in ConfigureCalls /\ tasks_ = <<>>
    BY <1>2 DEF Waiting, Alone, OnlyFrames, Nothing, CallerTyped, ConfigureCalls, ReleaseCalls,
       Stopping, None
  <2>2. app' = "idle" /\ Nothing' /\ OnlyFrames'
    BY <1>1, <1>2, <2>1 DEF JobEnds, Nothing, OnlyFrames
  <2> QED
    BY <1>1, <2>2 DEF Waiting, ConfigureCalls, ReleaseCalls, Stopping
<1>3. CASE job.kind = "release"
  <2>1. app \in ReleaseCalls /\ tasks_ = <<>>
    BY <1>3 DEF Waiting, Alone, OnlyFrames, Nothing, CallerTyped, ConfigureCalls, ReleaseCalls,
       Stopping, None
  <2>2. app' = "output" /\ Nothing' /\ OnlyFrames'
    BY <1>1, <1>3, <2>1 DEF JobEnds, Nothing, OnlyFrames
  <2> QED
    BY <1>1, <2>2 DEF Waiting, ConfigureCalls, ReleaseCalls, Stopping
<1>4. CASE job.kind = "frame"
  <2>1. app' = app
    BY <1>4 DEF JobEnds
  <2>2. /\ Alone("configure") => Alone("configure")'
        /\ Alone("release") => Alone("release")'
        /\ OnlyFrames => OnlyFrames'
        /\ ~Nothing
    BY <1>1, <1>4 DEF Alone, OnlyFrames, Nothing, None
  <2> QED
    BY <1>1, <2>1, <2>2 DEF Waiting
<1> QED
  BY <1>2, <1>3, <1>4 DEF WorkerTyped

\* What the caller waits for stays where it is until the worker takes it.
LEMMA WaitingNext ==
  ASSUME TypeOK, Waiting, Working, [Next]_vars
  PROVE  Waiting'
<1> USE DEF ConfigureCalls, ReleaseCalls, Stopping
<1>0. CallerTyped /\ WorkerTyped /\ QueueTyped
  BY TypeParts
<1>1. ASSUME NEW c, Register(c) PROVE Waiting'
  BY <1>1, QueueSame DEF Register, queueVars, workerVars, Waiting
<1>2. CASE Decode
  <2>1. /\ app' = "decode" /\ running_' = running_ /\ running_ /\ job' = job /\ app = "idle"
        /\ tasks_' = Append(tasks_, Task("frame", frames + 1))
    BY <1>2 DEF Decode, workerVars
  <2>2. OnlyFrames'
    <3>1. OnlyFrames
      BY <2>1 DEF Waiting
    <3>2. \A i \in DOMAIN tasks_' : tasks_'[i].kind = "frame"
      BY <1>0, <2>1, <3>1 DEF OnlyFrames, QueueTyped, Task
    <3> QED
      BY <2>1, <3>1, <3>2 DEF OnlyFrames
  <2> QED
    BY <2>1, <2>2 DEF Waiting
<1>3. CASE Configure
  <2>1. /\ app' = "configure" /\ running_' = TRUE /\ job' = job /\ app = "idle"
        /\ tasks_' = <<Task("configure", 0)>>
    BY <1>3 DEF Configure
  <2>2. Alone("configure")'
    BY <2>1 DEF Waiting, Alone, OnlyFrames
  <2> QED
    BY <2>1, <2>2 DEF Waiting
<1>4. CASE Release
  <2>1. CASE running_
    <3>1. /\ app' = "release" /\ running_' = running_ /\ job' = job /\ app = "idle"
          /\ tasks_' = <<Task("release", 0)>>
      BY <1>4, <2>1 DEF Release, workerVars
    <3>2. Alone("release")'
      BY <3>1 DEF Waiting, Alone, OnlyFrames
    <3> QED
      BY <2>1, <3>1, <3>2 DEF Waiting
  <2>2. CASE ~running_
    <3>1. /\ app' = "output" /\ running_' = running_ /\ job' = job /\ tasks_' = tasks_
      BY <1>4, <2>2 DEF Release, workerVars
    <3> QED
      BY <2>2, <3>1, QueueSame DEF Waiting
  <2> QED
    BY <2>1, <2>2
<1>5. CASE Notifies
  <2>1. /\ app \in {"decode", "configure", "release"}
        /\ app = "decode" => app' = "idle"
        /\ app = "configure" => app' = "configure_wait"
        /\ app = "release" => app' = "release_wait"
    BY <1>5 DEF Notifies, Waits
  <2>2. tasks_' = tasks_ /\ job' = job /\ running_' = running_
    BY <1>5 DEF Notifies, queueVars
  <2> QED
    BY <2>1, <2>2, QueueSame DEF Waiting
<1>6. CASE StopWorker
  <2>1. app \in Stopping /\ app' = "worker_notify" /\ Nothing'
    BY <1>6 DEF StopWorker, Waiting, Nothing, workerVars
  <2> QED
    BY <2>1 DEF Waiting
<1>7. CASE ReleaseStopsOutput \/ StopNotifies \/ ReleaseReturns
  <2>1. /\ tasks_' = tasks_ /\ job' = job /\ running_' = running_
        /\ app \in Stopping /\ app' \in Stopping \union {"idle"}
    BY <1>7 DEF ReleaseStopsOutput, StopOutputDrainThread, StopNotifies, ReleaseReturns,
       queueVars, workerVars
  <2>2. Nothing' /\ OnlyFrames'
    BY <2>1, QueueSame, NothingSuits DEF Waiting
  <2> QED
    BY <2>1, <2>2 DEF Waiting
<1>8. CASE WorkerLoop
  <2>1. app' = app /\ running_' = running_ /\ job.kind = None
    BY <1>8 DEF WorkerLoop, appVars, Working
  <2>2. CASE tasks_ = <<>>
    <3>1. tasks_' = tasks_ /\ job' = job
      BY <1>8, <2>2 DEF WorkerLoop
    <3> QED
      BY <2>1, <3>1, QueueSame DEF Waiting
  <2>3. CASE tasks_ # <<>>
    <3>1. job' = Head(tasks_) /\ tasks_' = Tail(tasks_)
      BY <1>8, <2>3 DEF WorkerLoop
    <3>2. ASSUME NEW kind \in {"configure", "release"}, Alone(kind) PROVE Alone(kind)'
      <4>1. tasks_ = <<Task(kind, 0)>>
        BY <2>1, <3>2 DEF Alone, None
      <4>2. job'.kind = kind /\ tasks_' = <<>>
        BY <3>1, <4>1 DEF Task
      <4> QED
        BY <4>2 DEF Alone
    <3>3. ASSUME OnlyFrames PROVE OnlyFrames'
      <4>1. job' = tasks_[1] /\ 1 \in DOMAIN tasks_
        BY <1>0, <2>3, <3>1 DEF QueueTyped
      <4>2. \A i \in DOMAIN tasks_' : i + 1 \in DOMAIN tasks_ /\ tasks_'[i] = tasks_[i + 1]
        BY <1>0, <2>3, <3>1 DEF QueueTyped
      <4> QED
        BY <3>3, <4>1, <4>2 DEF OnlyFrames
    <3>4. ~Nothing
      BY <2>3 DEF Nothing
    <3> QED
      BY <2>1, <3>2, <3>3, <3>4 DEF Waiting
  <2> QED
    BY <2>2, <2>3
<1>9. ASSUME \E where : JobGoesTo(where), UNCHANGED queueVars PROVE Waiting'
  BY <1>9, QueueSame DEF JobGoesTo, appVars, queueVars, Waiting
<1>10. ASSUME JobEnds, worker = "busy", UNCHANGED <<tasks_, running_>> PROVE Waiting'
  BY <1>0, <1>10, AnsweredIsRight DEF Working
<1>11. CASE WorkerStep /\ ~WorkerLoop
  BY <1>9, <1>10, <1>11 DEF WorkerStep, DestroyStops, DestroyJoins, DestroyDeletes, CreateCodec,
     CreateReader, StartCodec, FeedBegins, Record, QueueInput, FrameEnds, queueVars
<1>12. CASE DeviceStep
  BY <1>12, QueueSame DEF DeviceStep, CodecDecodes, ImageArrives, FrameReleased, OnImageAvailable,
     appVars, queueVars, workerVars, Waiting
<1>13. CASE OutputStep
  BY <1>13, QueueSame DEF OutputStep, OutLoop, DrainOne, DrainEnds, Notified, ReadCallback, Acquire,
     AcquireFails, Reset, ImageFails, TakeMetadata, Deliver, appVars, queueVars, workerVars, Waiting
<1>14. CASE UNCHANGED vars
  BY <1>14, QueueSame DEF vars, appVars, queueVars, workerVars, Waiting
<1> QED
  BY <1>1, <1>2, <1>3, <1>4, <1>5, <1>6, <1>7, <1>8, <1>11, <1>12, <1>13, <1>14
  DEF Next, CallerStep, CallerGoesOn

\* The device and the output thread change nothing of the other threads.
LEMMA Bystanders ==
  ASSUME DeviceStep \/ OutputStep
  PROVE  /\ UNCHANGED <<app, frames, configures, callback_, used, over>>
         /\ UNCHANGED <<running_, tasks_, pending_decode_tasks_>>
         /\ UNCHANGED <<worker, job, at>>
         /\ UNCHANGED <<codec_, image_reader_>>
         /\ UNCHANGED <<next_input_pts_us_, now, pts>>
         /\ UNCHANGED output_running_
<1>1. CASE DeviceStep
  BY <1>1 DEF DeviceStep, CodecDecodes, ImageArrives, FrameReleased, OnImageAvailable,
     appVars, queueVars, workerVars, codecVars, ptsVars
<1>2. CASE OutputStep
  BY <1>2 DEF OutputStep, OutLoop, DrainOne, DrainEnds, Notified, ReadCallback, Acquire,
     AcquireFails, Reset, ImageFails, TakeMetadata, Deliver,
     appVars, queueVars, workerVars, codecVars, ptsVars
<1> QED
  BY <1>1, <1>2

\* Tasks and their count stay right.
LEMMA QueuedNext ==
  ASSUME TypeOK, Queued, [Next]_vars
  PROVE  Queued'
<1>0. CallerTyped /\ QueueTyped
  BY TypeParts
<1>1. ASSUME UNCHANGED <<tasks_, pending_decode_tasks_, frames>> PROVE Queued'
  BY <1>1 DEF Queued
<1>2. ASSUME frames' = frames, pending_decode_tasks_' = 0, NEW kind \in {"configure", "release"},
             tasks_' \in {<<Task(kind, 0)>>, <<>>}
      PROVE  Queued'
  BY <1>0, <1>2 DEF Queued, Task, CallerTyped
<1>3. CASE Decode
  <2>1. /\ tasks_' = Append(tasks_, Task("frame", frames + 1))
        /\ frames' = frames + 1 /\ pending_decode_tasks_' = pending_decode_tasks_ + 1
    BY <1>3 DEF Decode
  <2>2. pending_decode_tasks_' <= frames'
    BY <1>0, <2>1 DEF Queued, CallerTyped, QueueTyped
  <2>3. \A i \in DOMAIN tasks_' : tasks_'[i].kind = "frame" <=> tasks_'[i].frame # 0
    BY <1>0, <2>1 DEF Queued, CallerTyped, QueueTyped, Task
  <2> QED
    BY <2>2, <2>3 DEF Queued
<1>4. CASE Configure
  BY <1>2, <1>4 DEF Configure
<1>5. CASE Release
  BY <1>1, <1>2, <1>5 DEF Release
<1>6. CASE StopWorker
  BY <1>2, <1>6 DEF StopWorker
<1>7. CASE WorkerLoop
  <2>1. UNCHANGED <<pending_decode_tasks_, frames>>
    BY <1>7 DEF WorkerLoop, appVars
  <2>2. CASE tasks_ # <<>>
    <3>1. tasks_' = Tail(tasks_)
      BY <1>7, <2>2 DEF WorkerLoop
    <3>2. \A i \in DOMAIN tasks_' : i + 1 \in DOMAIN tasks_ /\ tasks_'[i] = tasks_[i + 1]
      BY <1>0, <2>2, <3>1 DEF QueueTyped
    <3> QED
      BY <2>1, <3>2 DEF Queued
  <2>3. CASE tasks_ = <<>>
    BY <1>1, <1>7, <2>1, <2>3 DEF WorkerLoop
  <2> QED
    BY <2>2, <2>3
<1>8. CASE FrameEnds
  <2>1. /\ tasks_' = tasks_ /\ frames' = frames
        /\ pending_decode_tasks_' = IF pending_decode_tasks_ > 0 THEN pending_decode_tasks_ - 1
             ELSE 0
    BY <1>8 DEF FrameEnds, JobEnds
  <2>2. pending_decode_tasks_' <= frames'
    BY <1>0, <2>1 DEF Queued, CallerTyped, QueueTyped
  <2> QED
    BY <2>1, <2>2 DEF Queued
<1>9. CASE (\E c : Register(c)) \/ Notifies \/ ReleaseStopsOutput \/ StopNotifies
              \/ ReleaseReturns
  BY <1>1, <1>9 DEF Register, Notifies, ReleaseStopsOutput, StopNotifies, ReleaseReturns, queueVars
<1>10. CASE WorkerStep /\ ~WorkerLoop /\ ~FrameEnds
  BY <1>1, <1>10 DEF WorkerStep, DestroyStops, DestroyJoins, DestroyDeletes, CreateCodec,
     CreateReader, StartCodec, FeedBegins, Record, QueueInput, JobGoesTo, JobEnds, queueVars,
     appVars
<1>11. CASE DeviceStep \/ OutputStep
  BY <1>1, <1>11, Bystanders
<1>12. CASE UNCHANGED vars
  BY <1>1, <1>12 DEF vars, appVars, queueVars
<1> QED
  BY <1>3, <1>4, <1>5, <1>6, <1>7, <1>8, <1>9, <1>10, <1>11, <1>12
  DEF Next, CallerStep, CallerGoesOn

\* The place of the worker and its task stay together.
LEMMA WorkingNext ==
  ASSUME TypeOK, Waiting, Queued, Working, [Next]_vars
  PROVE  Working'
<1> USE DEF Feeding
<1>0. QueueTyped /\ WorkerTyped
  BY TypeParts
<1>1. ASSUME UNCHANGED <<worker, job, at>> PROVE Working'
  BY <1>1 DEF Working
<1>2. CASE Configure
  <2>1. CASE running_
    BY <1>1, <1>2, <2>1 DEF Configure
  <2>2. CASE ~running_
    <3>1. job.kind = None /\ worker' = "awake" /\ job' = job /\ at' = at
      BY <1>2, <2>2 DEF Configure, Waiting, Nothing
    <3> QED
      BY <3>1 DEF Working
  <2> QED
    BY <2>1, <2>2
<1>3. CASE Notifies \/ StopNotifies
  <2>1. job' = job /\ at' = at /\ (worker' = "busy" <=> worker = "busy")
    BY <1>3 DEF Notifies, StopNotifies, Wake
  <2> QED
    BY <2>1 DEF Working
<1>4. CASE WorkerLoop
  <2>1. CASE tasks_ = <<>>
    BY <1>4, <2>1 DEF WorkerLoop, Working
  <2>2. CASE tasks_ # <<>>
    <3>1. /\ worker' = "busy" /\ job' = tasks_[1] /\ 1 \in DOMAIN tasks_
          /\ at' = IF tasks_[1].kind = "frame" THEN "frame" ELSE "destroy"
      BY <1>0, <1>4, <2>2 DEF WorkerLoop, QueueTyped
    <3>2. /\ tasks_[1].kind \in {"frame", "configure", "release"}
          /\ tasks_[1].kind = "frame" <=> tasks_[1].frame # 0
      <4>1. tasks_[1] \in [kind : {"frame", "configure", "release"}, frame : 0..MaxFrames]
        <5> DEFINE T == [kind : {"frame", "configure", "release"}, frame : 0..MaxFrames]
        <5>1. tasks_ \in Seq(T)
          BY <1>0 DEF QueueTyped
        <5> HIDE DEF T
        <5>2. tasks_[1] \in T
          BY <3>1, <5>1
        <5> QED
          BY <5>2 DEF T
      <4>2. tasks_[1].kind = "frame" <=> tasks_[1].frame # 0
        BY <3>1, Zenon DEF Queued
      <4> QED
        BY <4>1, <4>2
    <3> QED
      BY <3>1, <3>2 DEF Working, None
  <2> QED
    BY <2>1, <2>2
<1>5. ASSUME JobEnds PROVE Working'
  BY <1>5 DEF JobEnds, Working, Task, None
<1>6. ASSUME NEW where, JobGoesTo(where), job.kind # None,
             job.kind = "frame" <=> where \in Feeding \union {"count"},
             job.kind = "release" => where \in {"destroy", "join", "delete"}, where # None
      PROVE  Working'
  BY <1>6 DEF JobGoesTo, Working
<1>7. CASE DestroyStops
  BY <1>6, <1>7 DEF DestroyStops, StopOutputDrainThread, Working, None
<1>8. CASE DestroyJoins
  BY <1>6, <1>8 DEF DestroyJoins, Working, None
<1>9. CASE DestroyDeletes
  BY <1>5, <1>6, <1>9 DEF DestroyDeletes, Working, None
<1>10. CASE CreateCodec
  BY <1>5, <1>6, <1>10 DEF CreateCodec, Working, None
<1>11. CASE CreateReader
  BY <1>5, <1>6, <1>11 DEF CreateReader, Working, None
<1>12. CASE StartCodec \/ FrameEnds
  BY <1>5, <1>12 DEF StartCodec, FrameEnds
<1>13. CASE FeedBegins
  BY <1>6, <1>13 DEF FeedBegins, Working, None
<1>14. CASE Record
  BY <1>6, <1>14 DEF Record, Working, None
<1>15. CASE QueueInput
  BY <1>6, <1>15 DEF QueueInput, Working, None
<1>16. CASE (\E c : Register(c)) \/ Decode \/ Release \/ ReleaseStopsOutput \/ StopWorker
              \/ ReleaseReturns
  BY <1>1, <1>16 DEF Register, Decode, Release, ReleaseStopsOutput, StopWorker, ReleaseReturns,
     workerVars
<1>17. CASE DeviceStep \/ OutputStep
  BY <1>1, <1>17, Bystanders
<1>18. CASE UNCHANGED vars
  BY <1>1, <1>18 DEF vars, workerVars
<1> QED
  BY <1>2, <1>3, <1>4, <1>7, <1>8, <1>9, <1>10, <1>11, <1>12, <1>13, <1>14, <1>15, <1>16, <1>17,
     <1>18
  DEF Next, CallerStep, CallerGoesOn, WorkerStep

\* The output thread knows where to go back to.
LEMMA ReturningNext ==
  ASSUME Returning, [Next]_vars
  PROVE  Returning'
<1>1. CASE OutputStep
  BY <1>1 DEF OutputStep, OutLoop, DrainOne, DrainEnds, Notified, ReadCallback, Acquire,
     AcquireFails, Reset, ImageFails, TakeMetadata, Deliver, Returning, None
<1>2. CASE StartCodec
  BY <1>2 DEF StartCodec, Returning
<1>3. CASE ~OutputStep /\ ~StartCodec
  <2>1. UNCHANGED <<out, after>>
    BY <1>3 DEF Next, CallerStep, CallerGoesOn, WorkerStep, DeviceStep,
       Register, Decode, Configure, Release, Notifies, ReleaseStopsOutput, StopWorker, StopNotifies,
       ReleaseReturns,
       WorkerLoop, DestroyStops, DestroyJoins, DestroyDeletes, CreateCodec, CreateReader,
       FeedBegins, Record, QueueInput, FrameEnds,
       CodecDecodes, ImageArrives, FrameReleased, OnImageAvailable, vars, outVars
  <2> QED
    BY <2>1 DEF Returning
<1> QED
  BY <1>1, <1>2, <1>3

\* Codec, reader and output thread come and go together.
LEMMA LifetimesNext ==
  ASSUME TypeOK, Waiting, Working, Lifetimes, Returning, [Next]_vars
  PROVE  Lifetimes'
<1> USE DEF Stopping, Feeding
<1>0. FlagsTyped /\ WorkerTyped /\ OutTyped /\ CallerTyped
  BY TypeParts
<1>1. ASSUME UNCHANGED <<app, running_, at, codec_, image_reader_, output_running_>>,
             out' = "none" <=> out = "none"
      PROVE  Lifetimes'
  BY <1>1 DEF Lifetimes
<1>2. CASE (\E c : Register(c))
  BY <1>1, <1>2 DEF Register, queueVars, workerVars, codecVars, outVars
<1>3. CASE Decode
  BY <1>3 DEF Decode, workerVars, codecVars, outVars, Lifetimes
<1>4. CASE Configure
  BY <1>4 DEF Configure, codecVars, outVars, Lifetimes
<1>5. CASE Release
  BY <1>5 DEF Release, workerVars, codecVars, outVars, Lifetimes
<1>6. CASE Notifies
  <2>1. /\ app' \notin Stopping
        /\ UNCHANGED <<running_, at, codec_, image_reader_, output_running_, out>>
    BY <1>6 DEF Notifies, Waits, queueVars, codecVars, outVars
  <2> QED
    BY <2>1 DEF Lifetimes
<1>7. CASE ReleaseStopsOutput \/ StopWorker \/ StopNotifies
  BY <1>7 DEF ReleaseStopsOutput, StopOutputDrainThread, StopWorker,
     StopNotifies, workerVars, queueVars, codecVars, outVars, Lifetimes
<1>8. CASE ReleaseReturns
  BY <1>8 DEF ReleaseReturns, workerVars, queueVars, codecVars, outVars, Lifetimes
<1>9. CASE WorkerLoop
  <2>1. /\ UNCHANGED <<app, running_, codec_, image_reader_, output_running_, out>>
        /\ at' \in {at, "frame", "destroy"} /\ at = None
    BY <1>9 DEF WorkerLoop, Working, appVars, codecVars, outVars
  <2> QED
    BY <2>1 DEF Lifetimes, None
<1>10. ASSUME worker = "busy" PROVE app \notin Stopping /\ running_
  BY <1>10 DEF Working, Waiting, Nothing
<1>11. ASSUME JobEnds, worker = "busy", running_' = running_, ~codec_', ~image_reader_',
              ~output_running_', out' = "none"
       PROVE  Lifetimes'
  BY <1>10, <1>11 DEF JobEnds, Lifetimes, None
<1>12. CASE DestroyStops
  BY <1>10, <1>12 DEF DestroyStops, StopOutputDrainThread, JobGoesTo, appVars, queueVars,
     codecVars, outVars, Lifetimes
<1>13. CASE DestroyJoins
  BY <1>10, <1>13 DEF DestroyJoins, JobGoesTo, appVars, queueVars, codecVars, outVars, Lifetimes
<1>14. CASE DestroyDeletes
  <2>1. /\ ~codec_' /\ ~image_reader_' /\ ~output_running_' /\ out' = "none" /\ running_' = running_
    BY <1>14 DEF DestroyDeletes, queueVars, outVars, Lifetimes
  <2>2. CASE job.kind = "release"
    BY <1>11, <1>14, <2>1, <2>2 DEF DestroyDeletes
  <2>3. CASE job.kind # "release"
    BY <1>10, <1>14, <2>1, <2>3 DEF DestroyDeletes, JobGoesTo, appVars, Lifetimes
  <2> QED
    BY <2>2, <2>3
<1>15. CASE CreateCodec
  <2>1. /\ ~image_reader_' /\ ~output_running_' /\ out' = "none" /\ running_' = running_ /\ ~codec_
    BY <1>15 DEF CreateCodec, queueVars, outVars, Lifetimes
  <2>2. CASE codec_' = TRUE /\ JobGoesTo("reader")
    BY <1>10, <1>15, <2>1, <2>2 DEF CreateCodec, JobGoesTo, appVars, Lifetimes
  <2>3. CASE UNCHANGED codec_ /\ JobEnds
    BY <1>11, <1>15, <2>1, <2>3 DEF CreateCodec
  <2> QED
    BY <1>15, <2>2, <2>3 DEF CreateCodec
<1>16. CASE CreateReader
  <2>1. /\ ~output_running_' /\ out' = "none" /\ running_' = running_ /\ codec_ /\ ~image_reader_
    BY <1>16 DEF CreateReader, queueVars, outVars, Lifetimes
  <2>2. CASE image_reader_' = TRUE /\ UNCHANGED codec_ /\ JobGoesTo("start")
    BY <1>10, <1>16, <2>1, <2>2 DEF CreateReader, JobGoesTo, appVars, Lifetimes
  <2>3. CASE codec_' = FALSE /\ UNCHANGED image_reader_ /\ JobEnds
    BY <1>11, <1>16, <2>1, <2>3 DEF CreateReader
  <2> QED
    BY <1>16, <2>2, <2>3 DEF CreateReader
<1>17. CASE StartCodec
  <2>1. /\ ~output_running_ /\ out = "none" /\ running_' = running_ /\ codec_ /\ image_reader_
             /\ JobEnds
        /\ job.kind = "configure" /\ worker = "busy"
    BY <1>0, <1>17 DEF StartCodec, queueVars, Lifetimes, Working, WorkerTyped, None
  <2>2. CASE output_running_' = TRUE /\ out' = "loop" /\ UNCHANGED codecVars
    <3>1. app' = "idle" /\ at' = None
      BY <2>1 DEF JobEnds
    <3> QED
      BY <1>10, <2>1, <2>2, <3>1 DEF codecVars, Lifetimes, None
  <2>3. CASE codec_' = FALSE /\ image_reader_' = FALSE /\ UNCHANGED <<output_running_, out>>
    BY <1>11, <2>1, <2>3
  <2> QED
    BY <1>17, <2>2, <2>3 DEF StartCodec
<1>18. CASE FeedBegins \/ Record \/ QueueInput
  <2>1. /\ UNCHANGED <<app, running_, codec_, image_reader_, output_running_, out>>
        /\ at \in Feeding /\ at' \in Feeding \union {"count"}
    BY <1>18 DEF FeedBegins, Record, QueueInput, JobGoesTo, appVars, queueVars, codecVars, outVars
  <2> QED
    BY <2>1 DEF Lifetimes
<1>19. CASE FrameEnds
  <2>1. /\ UNCHANGED <<app, running_, codec_, image_reader_, output_running_, out>>
        /\ at = "count" /\ at' = None
    BY <1>19 DEF FrameEnds, JobEnds, codecVars, outVars, Working, Feeding
  <2> QED
    BY <2>1 DEF Lifetimes, None
<1>20. CASE DeviceStep
  <2>1. UNCHANGED out
    BY <1>20 DEF DeviceStep, CodecDecodes, ImageArrives, FrameReleased, OnImageAvailable, outVars
  <2> QED
    BY <1>1, <1>20, <2>1, Bystanders
<1>21. CASE OutLoop
  <2>1. UNCHANGED <<app, running_, at, codec_, image_reader_, output_running_>>
    BY <1>21, Bystanders DEF OutputStep
  <2>2. out = "loop" /\ out' = IF output_running_ THEN "drain" ELSE "none"
    BY <1>21 DEF OutLoop
  <2> QED
    BY <1>0, <2>1, <2>2 DEF Lifetimes, FlagsTyped, WorkerTyped
<1>22. CASE OutputStep /\ ~OutLoop
  <2>1. UNCHANGED <<app, running_, at, codec_, image_reader_, output_running_>>
    BY <1>22, Bystanders
  <2>2. out # "none" /\ out' # "none"
    BY <1>0, <1>22 DEF OutputStep, DrainOne, DrainEnds, Notified, ReadCallback, Acquire,
       AcquireFails, Reset, ImageFails, TakeMetadata, Deliver, OutTyped, Returning, None
  <2> QED
    BY <1>1, <2>1, <2>2
<1>23. CASE UNCHANGED vars
  BY <1>1, <1>23 DEF vars, appVars, queueVars, workerVars, codecVars, outVars
<1> QED
  BY <1>2, <1>3, <1>4, <1>5, <1>6, <1>7, <1>8, <1>9, <1>12, <1>13, <1>14, <1>15, <1>16, <1>17,
     <1>18,
     <1>19, <1>20, <1>21, <1>22, <1>23
  DEF Next, CallerStep, CallerGoesOn, WorkerStep

\* A codec in the making stays empty.
LEMMA ClearedNext ==
  ASSUME TypeOK, Working, Lifetimes, Cleared, [Next]_vars
  PROVE  Cleared'
<1> DEFINE Making == {"create", "reader", "start"}
<1>0. WorkerTyped
  BY TypeParts
<1>1. ASSUME at' \notin Making PROVE Cleared'
  BY <1>1 DEF Cleared
<1>2. ASSUME at \in Making, UNCHANGED <<metadata, input, output, rendering, images>> PROVE Cleared'
  BY <1>2 DEF Cleared
<1>3. ASSUME at' = at, metadata' \in {metadata, <<>>}, UNCHANGED <<input, output, rendering,
             images>>
      PROVE  Cleared'
  BY <1>3 DEF Cleared
<1>4. CASE CallerStep
  BY <1>3, <1>4 DEF CallerStep, CallerGoesOn, Register, Decode, Configure, Release, Notifies,
     ReleaseStopsOutput, StopWorker, StopNotifies, ReleaseReturns, workerVars, device
<1>5. CASE WorkerLoop
  BY <1>1, <1>5 DEF WorkerLoop, Working, None
<1>6. CASE DestroyStops \/ DestroyJoins
  BY <1>1, <1>6 DEF DestroyStops, DestroyJoins, StopOutputDrainThread, JobGoesTo
<1>7. CASE DestroyDeletes
  BY <1>7 DEF DestroyDeletes, NothingInDevice, Cleared
<1>8. CASE CreateCodec \/ CreateReader \/ StartCodec
  BY <1>2, <1>8 DEF CreateCodec, CreateReader, StartCodec, device
<1>9. CASE FeedBegins \/ Record \/ QueueInput
  BY <1>1, <1>9 DEF FeedBegins, Record, QueueInput, JobGoesTo
<1>10. CASE FrameEnds
  BY <1>1, <1>10 DEF FrameEnds, JobEnds, None
<1>11. CASE DeviceStep
  <2>1. CASE at \notin Making
    BY <1>1, <1>11, <2>1, Bystanders
  <2>2. CASE at \in Making
    BY <1>2, <1>11, <2>2 DEF Cleared, DeviceStep, CodecDecodes, ImageArrives, FrameReleased,
       OnImageAvailable
  <2> QED
    BY <2>1, <2>2
<1>12. CASE OutputStep
  <2>1. at \notin Making
    BY <1>12 DEF Lifetimes, OutputStep, OutLoop, DrainOne, DrainEnds, Notified, ReadCallback,
       Acquire,
       AcquireFails, Reset, ImageFails, TakeMetadata, Deliver
  <2> QED
    BY <1>1, <1>12, <2>1, Bystanders
<1>13. CASE UNCHANGED vars
  BY <1>3, <1>13 DEF vars, workerVars, device
<1> QED
  BY <1>4, <1>5, <1>6, <1>7, <1>8, <1>9, <1>10, <1>11, <1>12, <1>13 DEF Next, WorkerStep

\* The callback stays quiet after a Release: while it returns there is no output
\* thread that could hold one.
LEMMA QuietNext ==
  ASSUME TypeOK, Waiting, Working, Lifetimes, Quiet, [Next]_vars
  PROVE  Quiet'
<1> USE DEF ReleaseCalls, Stopping
<1>0. CallerTyped /\ OutTyped /\ FlagsTyped
  BY TypeParts
<1>1. ASSUME UNCHANGED <<app, callback_, over, out, cb>> PROVE Quiet'
  BY <1>1 DEF Quiet
<1>2. ASSUME NEW c \in Callbacks \union {None}, Register(c) PROVE Quiet'
  BY <1>2 DEF Register, outVars, Quiet
<1>3. CASE Decode \/ Configure
  BY <1>3 DEF Decode, Configure, outVars, Quiet
<1>4. CASE Release
  BY <1>0, <1>4, CallbacksAssumption DEF Release, outVars, Quiet, CallerTyped
<1>5. CASE Notifies
  <2>1. /\ app' \in ReleaseCalls => app \in ReleaseCalls
        /\ app' \notin Stopping
        /\ UNCHANGED <<callback_, over, out, cb>>
    BY <1>5 DEF Notifies, Waits, outVars
  <2> QED
    BY <2>1 DEF Quiet
<1>6. CASE ReleaseStopsOutput \/ StopWorker \/ StopNotifies
  BY <1>6 DEF ReleaseStopsOutput, StopOutputDrainThread, StopWorker,
     StopNotifies, outVars, Quiet
<1>7. CASE ReleaseReturns
  <2>1. callback_ = None /\ out = "none"
    BY <1>7 DEF ReleaseReturns, Quiet, Lifetimes, Waiting, Nothing, Working, None
  <2>2. callback_' = None /\ out' = "none" /\ over' = over \union used /\ app' = "idle"
    BY <1>7, <2>1 DEF ReleaseReturns, outVars
  <2>3. None \notin over'
    BY <1>0, <2>2, CallbacksAssumption DEF CallerTyped
  <2> QED
    BY <2>2, <2>3 DEF Quiet
<1>8. CASE WorkerStep
  <2>1. UNCHANGED <<callback_, over, cb>> /\ out' \in {out, "loop"}
    BY <1>8 DEF WorkerStep, WorkerLoop, DestroyStops, DestroyJoins, DestroyDeletes, CreateCodec,
       CreateReader, StartCodec, FeedBegins, Record, QueueInput, FrameEnds, JobGoesTo, JobEnds,
       appVars, outVars
  <2>2. app' = app \/ (JobEnds /\ worker = "busy")
    BY <1>8 DEF WorkerStep, WorkerLoop, DestroyStops, DestroyJoins, DestroyDeletes, CreateCodec,
       CreateReader, StartCodec, FeedBegins, Record, QueueInput, FrameEnds, JobGoesTo, appVars
  <2>3. app' \in ReleaseCalls \union Stopping => app \in ReleaseCalls \union Stopping
    <3>1. CASE app' = app
      BY <3>1
    <3>2. CASE JobEnds /\ job.kind = "configure"
      BY <3>2 DEF JobEnds
    <3>3. CASE JobEnds /\ job.kind = "release"
      BY <1>0, <3>3 DEF Waiting, Alone, OnlyFrames, Nothing, ConfigureCalls, CallerTyped, None
    <3>4. CASE JobEnds /\ job.kind \notin {"configure", "release"}
      BY <3>4 DEF JobEnds
    <3> QED
      BY <2>2, <3>1, <3>2, <3>3, <3>4
  <2> QED
    BY <2>1, <2>3 DEF Quiet
<1>9. CASE DeviceStep
  <2>1. UNCHANGED <<out, cb>>
    BY <1>9 DEF DeviceStep, CodecDecodes, ImageArrives, FrameReleased, OnImageAvailable, outVars
  <2> QED
    BY <1>1, <1>9, <2>1, Bystanders
<1>10. CASE ReadCallback
  BY <1>0, <1>10 DEF ReadCallback, appVars, Quiet, OutTyped, None
<1>11. CASE OutputStep /\ ~ReadCallback
  <2>1. UNCHANGED <<app, callback_, over>>
    BY <1>11, Bystanders
  <2>2. /\ cb' = cb
        /\ out' \in {"acquire", "reset", "take", "deliver"}
             => out \in {"acquire", "reset", "take", "deliver"}
    BY <1>0, <1>11 DEF OutputStep, OutLoop, DrainOne, DrainEnds, Notified, Acquire,
       AcquireFails, Reset, ImageFails, TakeMetadata, Deliver, OutTyped, None
  <2> QED
    BY <2>1, <2>2 DEF Quiet
<1>12. CASE UNCHANGED vars
  BY <1>1, <1>12 DEF vars, appVars, outVars
<1> QED
  BY <1>2, <1>3, <1>4, <1>5, <1>6, <1>7, <1>8, <1>9, <1>10, <1>11, <1>12
  DEF Next, CallerStep, CallerGoesOn

\* The image in hand stays one for which there is room.
LEMMA HandyNext ==
  ASSUME TypeOK, Handy, [Next]_vars
  PROVE  Handy'
<1>0. OutTyped /\ DeviceTyped
  BY TypeParts
<1>1. ASSUME UNCHANGED <<out, image, held>> PROVE Handy'
  BY <1>1 DEF Handy
<1>2. CASE StartCodec
  BY <1>2 DEF StartCodec, Handy, device
<1>3. CASE FrameReleased
  <2>1. UNCHANGED <<out, image>> /\ held' = held - 1
    BY <1>3 DEF FrameReleased, outVars
  <2>2. held < MaxImages => held' < MaxImages
    BY <1>0, <2>1, DecoderAssumption DEF DeviceTyped
  <2> QED
    BY <2>1, <2>2 DEF Handy
<1>4. CASE Acquire
  <2>1. out' = "reset" /\ held' = held
    BY <1>4 DEF Acquire
  <2>2. CASE images # <<>> /\ held < MaxImages
    <3>1. image' = <<Last(images)>>
      BY <1>4, <2>2 DEF Acquire
    <3> QED
      BY <2>1, <2>2, <3>1 DEF Handy
  <2>3. CASE ~(images # <<>> /\ held < MaxImages)
    <3>1. image' = <<>>
      BY <1>4, <2>3 DEF Acquire
    <3> QED
      BY <2>1, <3>1 DEF Handy
  <2> QED
    BY <2>2, <2>3
<1>5. CASE Reset
  <2>1. out = "reset" /\ image' = image /\ held' = held
          /\ out' = IF image = <<>> THEN after ELSE "take"
    BY <1>5 DEF Reset, device
  <2>2. CASE image = <<>>
    BY <1>0, <2>1, <2>2 DEF Handy, OutTyped, None
  <2>3. CASE image # <<>>
    <3>1. Len(image) = 1 /\ held < MaxImages
      <4>1. image \in Seq(Entry)
        BY <1>0 DEF OutTyped
      <4>2. PICK n \in Nat \ {0} : n = Len(image)
        BY <2>3, <4>1, EmptySeq
      <4>3. n <= 1 /\ held < MaxImages
        BY <2>1, <2>3, <4>2 DEF Handy
      <4>4. n = 1
        BY <4>3
      <4> QED
        BY <4>2, <4>3, <4>4
    <3> QED
      BY <2>1, <2>3, <3>1 DEF Handy
  <2> QED
    BY <2>2, <2>3
<1>6. CASE TakeMetadata
  <2>1. out = "take" /\ out' \in {"deliver", "images"} /\ held' = held
    BY <1>6 DEF TakeMetadata, device
  <2> QED
    BY <2>1 DEF Handy
<1>7. CASE OutputStep /\ ~Acquire /\ ~Reset /\ ~TakeMetadata
  <2>1. out' \notin {"reset", "take", "deliver"}
    BY <1>0, <1>7 DEF OutputStep, OutLoop, DrainOne, DrainEnds, Notified, ReadCallback,
       AcquireFails, ImageFails, Deliver, OutTyped, None
  <2> QED
    BY <2>1 DEF Handy
<1>8. CASE ~OutputStep /\ ~StartCodec /\ ~FrameReleased
  <2>1. UNCHANGED <<out, image, held>>
    BY <1>8 DEF Next, CallerStep, CallerGoesOn, WorkerStep, DeviceStep,
       Register, Decode, Configure, Release, Notifies, ReleaseStopsOutput, StopWorker, StopNotifies,
       ReleaseReturns,
       WorkerLoop, DestroyStops, DestroyJoins, DestroyDeletes, CreateCodec, CreateReader,
       FeedBegins, Record, QueueInput, FrameEnds, NothingInDevice,
       CodecDecodes, ImageArrives, OnImageAvailable, vars, outVars, device
  <2> QED
    BY <1>1, <2>1
<1> QED
  BY <1>2, <1>3, <1>4, <1>5, <1>6, <1>7, <1>8

-----------------------------------------------------------------------------
(* Type correctness *)

\* The worker's task has a frame where it feeds one.
LEMMA FeedsAFrame ==
  ASSUME WorkerTyped, Working, at \in Feeding
  PROVE  job.frame \in 1..MaxFrames
<1>1. job.frame \in 0..MaxFrames /\ job.frame # 0
  BY DEF WorkerTyped, Working
<1> QED
  BY <1>1, DecoderAssumption

\* Types of the caller's variables.
LEMMA CallerTypedNext ==
  ASSUME TypeOK, [Next]_vars
  PROVE  CallerTyped'
<1>0. CallerTyped /\ MaxFrames \in Nat /\ MaxConfigures \in Nat
  BY TypeParts, DecoderAssumption
<1>1. ASSUME UNCHANGED <<app, frames, configures, callback_, used, over>> PROVE CallerTyped'
  BY <1>0, <1>1 DEF CallerTyped
<1>2. ASSUME NEW c \in Callbacks \union {None}, Register(c) PROVE CallerTyped'
  BY <1>0, <1>2 DEF CallerTyped, Register, None
<1>3. CASE Decode
  BY <1>0, <1>3 DEF CallerTyped, Decode
<1>4. CASE Configure
  BY <1>0, <1>4 DEF CallerTyped, Configure
<1>5. CASE Release
  BY <1>0, <1>5 DEF CallerTyped, Release
<1>6. CASE Notifies
  <2>1. app' \in {"idle", "configure_wait", "release_wait"}
    BY <1>6 DEF Notifies, Waits
  <2> QED
    BY <1>0, <1>6, <2>1 DEF CallerTyped, Notifies
<1>7. CASE ReleaseStopsOutput \/ StopWorker \/ StopNotifies \/ ReleaseReturns
  BY <1>0, <1>7 DEF CallerTyped, ReleaseStopsOutput, StopOutputDrainThread,
     StopWorker, StopNotifies, ReleaseReturns
<1>8. ASSUME JobEnds PROVE CallerTyped'
  <2>1. app' \in {"idle", "output", app} /\ UNCHANGED <<frames, configures, callback_, used, over>>
    BY <1>8 DEF JobEnds
  <2> QED
    BY <1>0, <2>1 DEF CallerTyped
<1>9. CASE WorkerStep
  BY <1>1, <1>8, <1>9 DEF WorkerStep, WorkerLoop, DestroyStops, DestroyJoins, DestroyDeletes,
     CreateCodec,
     CreateReader, StartCodec, FeedBegins, Record, QueueInput, FrameEnds, JobGoesTo, appVars
<1>10. CASE DeviceStep \/ OutputStep
  BY <1>1, <1>10, Bystanders
<1>11. CASE UNCHANGED vars
  BY <1>1, <1>11 DEF vars, appVars
<1> QED
  BY <1>2, <1>3, <1>4, <1>5, <1>6, <1>7, <1>9, <1>10, <1>11 DEF Next, CallerStep, CallerGoesOn

\* Types of the queue.
LEMMA QueueTypedNext ==
  ASSUME TypeOK, Queued, [Next]_vars
  PROVE  QueueTyped'
<1> DEFINE Tasks == [kind : {"frame", "configure", "release"}, frame : 0..MaxFrames]
<1>0. CallerTyped /\ QueueTyped /\ MaxFrames \in Nat
  BY TypeParts, DecoderAssumption
<1>1. ASSUME UNCHANGED <<running_, tasks_, pending_decode_tasks_>> PROVE QueueTyped'
  BY <1>0, <1>1 DEF QueueTyped
<1>2. /\ Task("configure", 0) \in Tasks /\ Task("release", 0) \in Tasks
      /\ frames < MaxFrames => Task("frame", frames + 1) \in Tasks
  BY <1>0 DEF Task, CallerTyped
<1>3. tasks_ \in Seq(Tasks)
  BY <1>0 DEF QueueTyped
<1> HIDE DEF Tasks
<1>4. ASSUME running_' \in BOOLEAN, pending_decode_tasks_' \in 0..MaxFrames, tasks_' \in Seq(Tasks)
      PROVE  QueueTyped'
  BY <1>4 DEF QueueTyped, Tasks
<1>5. CASE Decode
  <2>1. pending_decode_tasks_' \in 0..MaxFrames /\ running_' \in BOOLEAN
    BY <1>0, <1>5 DEF Decode, Queued, CallerTyped, QueueTyped
  <2>2. tasks_' \in Seq(Tasks)
    BY <1>2, <1>3, <1>5 DEF Decode
  <2> QED
    BY <1>4, <2>1, <2>2
<1>6. CASE Configure
  BY <1>0, <1>2, <1>4, <1>6 DEF Configure
<1>7. CASE Release
  <2>1. CASE running_
    <3>1. tasks_' = <<Task("release", 0)>> /\ pending_decode_tasks_' = 0 /\ running_' = running_
      BY <1>7, <2>1 DEF Release
    <3>2. tasks_' \in Seq(Tasks)
      BY <1>2, <3>1
    <3> QED
      BY <1>0, <1>4, <3>1, <3>2 DEF QueueTyped
  <2>2. CASE ~running_
    BY <1>1, <1>7, <2>2 DEF Release
  <2> QED
    BY <2>1, <2>2
<1>8. CASE StopWorker
  <2>1. tasks_' \in Seq(Tasks)
    BY <1>8, EmptySeq DEF StopWorker
  <2>2. pending_decode_tasks_' = 0 /\ running_' = FALSE
    BY <1>8 DEF StopWorker
  <2>3. pending_decode_tasks_' \in 0..MaxFrames
    BY <1>0, <2>2
  <2>4. running_' \in BOOLEAN
    BY <2>2
  <2> QED
    BY <1>4, <2>1, <2>3, <2>4
<1>9. CASE WorkerLoop
  <2>1. running_' = running_ /\ pending_decode_tasks_' = pending_decode_tasks_
    BY <1>9 DEF WorkerLoop
  <2>2. CASE tasks_ # <<>>
    <3>1. tasks_' = Tail(tasks_)
      BY <1>9, <2>2 DEF WorkerLoop
    <3>2. tasks_' \in Seq(Tasks)
      BY <1>3, <2>2, <3>1
    <3> QED
      BY <1>0, <1>4, <2>1, <3>2 DEF QueueTyped
  <2>3. CASE tasks_ = <<>>
    BY <1>1, <1>9, <2>1, <2>3 DEF WorkerLoop
  <2> QED
    BY <2>2, <2>3
<1>10. CASE FrameEnds
  <2>1. running_' = running_ /\ tasks_' = tasks_
    BY <1>10 DEF FrameEnds
  <2>2. pending_decode_tasks_' \in 0..MaxFrames
    BY <1>0, <1>10 DEF FrameEnds, QueueTyped
  <2> QED
    BY <1>0, <1>3, <1>4, <2>1, <2>2 DEF QueueTyped
<1>11. CASE (\E c : Register(c)) \/ Notifies \/ ReleaseStopsOutput \/ StopNotifies
              \/ ReleaseReturns
  BY <1>1, <1>11 DEF Register, Notifies, ReleaseStopsOutput, StopNotifies, ReleaseReturns, queueVars
<1>12. CASE WorkerStep /\ ~WorkerLoop /\ ~FrameEnds
  BY <1>1, <1>12 DEF WorkerStep, DestroyStops, DestroyJoins, DestroyDeletes, CreateCodec,
     CreateReader, StartCodec, FeedBegins, Record, QueueInput, queueVars
<1>13. CASE DeviceStep \/ OutputStep
  BY <1>1, <1>13, Bystanders
<1>14. CASE UNCHANGED vars
  BY <1>1, <1>14 DEF vars, queueVars
<1> QED
  BY <1>5, <1>6, <1>7, <1>8, <1>9, <1>10, <1>11, <1>12, <1>13, <1>14 DEF Next, CallerStep,
     CallerGoesOn

\* Types of the worker.
LEMMA WorkerTypedNext ==
  ASSUME TypeOK, [Next]_vars
  PROVE  WorkerTyped'
<1>0. WorkerTyped /\ QueueTyped /\ MaxFrames \in Nat
  BY TypeParts, DecoderAssumption
<1>1. ASSUME job' = job, at' = at, worker' \in {"none", "asleep", "awake", "busy"}
             PROVE WorkerTyped'
  BY <1>0, <1>1 DEF WorkerTyped
<1>2. CASE CallerStep
  <2>1. job' = job /\ at' = at
    BY <1>2 DEF CallerStep, CallerGoesOn, Register, Decode, Configure, Release, Notifies,
       ReleaseStopsOutput, StopWorker,
       StopNotifies, ReleaseReturns, workerVars
  <2>2. worker' \in {worker, "awake"}
    BY <1>2 DEF CallerStep, CallerGoesOn, Register, Decode, Configure, Release, Notifies,
       ReleaseStopsOutput, StopWorker,
       StopNotifies, ReleaseReturns, workerVars, Wake
  <2> QED
    BY <1>0, <1>1, <2>1, <2>2 DEF WorkerTyped
<1>3. CASE WorkerLoop
  <2>1. CASE tasks_ # <<>>
    <3> DEFINE Tasks == [kind : {"frame", "configure", "release"}, frame : 0..MaxFrames]
    <3>1. tasks_ \in Seq(Tasks)
      BY <1>0 DEF QueueTyped
    <3> HIDE DEF Tasks
    <3>2. Head(tasks_) \in Tasks
      BY <2>1, <3>1
    <3>3. worker' = "busy" /\ job' = Head(tasks_) /\ at' \in {"frame", "destroy"}
      BY <1>3, <2>1 DEF WorkerLoop
    <3>4. job' \in [kind : {None, "frame", "configure", "release"}, frame : 0..MaxFrames]
      BY <3>2, <3>3 DEF Tasks
    <3> QED
      BY <3>3, <3>4 DEF WorkerTyped
  <2>2. CASE tasks_ = <<>>
    BY <1>1, <1>3, <2>2 DEF WorkerLoop
  <2> QED
    BY <2>1, <2>2
<1>4. ASSUME JobEnds PROVE WorkerTyped'
  BY <1>0, <1>4 DEF WorkerTyped, JobEnds, Task
<1>5. ASSUME NEW where \in {"join", "delete", "create", "reader", "start", "record", "queue",
                            "count"},
             JobGoesTo(where)
      PROVE  WorkerTyped'
  BY <1>0, <1>5 DEF WorkerTyped, JobGoesTo
<1>6. CASE WorkerStep /\ ~WorkerLoop
  BY <1>4, <1>5, <1>6 DEF WorkerStep, DestroyStops, StopOutputDrainThread, DestroyJoins,
     DestroyDeletes, CreateCodec, CreateReader, StartCodec, FeedBegins, Record, QueueInput,
     FrameEnds
<1>7. CASE DeviceStep \/ OutputStep
  BY <1>0, <1>1, <1>7, Bystanders DEF WorkerTyped
<1>8. CASE UNCHANGED vars
  BY <1>0, <1>1, <1>8 DEF vars, workerVars, WorkerTyped
<1> QED
  BY <1>2, <1>3, <1>6, <1>7, <1>8 DEF Next

\* Types of the flags.
LEMMA FlagsTypedNext ==
  ASSUME TypeOK, [Next]_vars
  PROVE  FlagsTyped'
<1>0. FlagsTyped
  BY TypeParts
<1>1. CASE CallerStep
  BY <1>0, <1>1 DEF FlagsTyped, CallerStep, CallerGoesOn, Register, Decode, Configure, Release,
     Notifies,
     ReleaseStopsOutput, StopWorker, StopNotifies, ReleaseReturns, codecVars, outVars
<1>2. CASE WorkerStep
  BY <1>0, <1>2 DEF FlagsTyped, WorkerStep, WorkerLoop, DestroyStops, DestroyJoins, DestroyDeletes,
     CreateCodec, CreateReader, StartCodec, FeedBegins, Record, QueueInput, FrameEnds,
     NothingInDevice,
     codecVars, outVars
<1>3. CASE DeviceStep
  BY <1>0, <1>3 DEF FlagsTyped, DeviceStep, CodecDecodes, ImageArrives, FrameReleased,
     OnImageAvailable,
     codecVars, outVars
<1>4. CASE OutputStep
  BY <1>0, <1>4 DEF FlagsTyped, OutputStep, OutLoop, DrainOne, DrainEnds, Notified, ReadCallback,
     Acquire,
     AcquireFails, Reset, ImageFails, TakeMetadata, Deliver, codecVars
<1>5. CASE UNCHANGED vars
  BY <1>0, <1>5 DEF FlagsTyped, vars, codecVars, outVars
<1> QED
  BY <1>1, <1>2, <1>3, <1>4, <1>5 DEF Next

\* An entry's fields.
LEMMA EntryFields ==
  ASSUME NEW p \in Nat, NEW f \in 1..MaxFrames
  PROVE  [pts |-> p, frame |-> f] \in Entry
BY DEF Entry

\* But for Record, a step leaves a part of the metadata.
LEMMA MetadataShrinks ==
  ASSUME TypeOK, Handy, [Next]_vars, ~Record
  PROVE  /\ metadata' \in Seq(Entry) /\ Len(metadata') <= Len(metadata)
         /\ \A i \in DOMAIN metadata' : \E k \in DOMAIN metadata : metadata'[i] = metadata[k]
<1> DEFINE Part(q) == /\ q \in Seq(Entry) /\ Len(q) <= Len(metadata)
                      /\ \A i \in DOMAIN q : \E k \in DOMAIN metadata : q[i] = metadata[k]
<1>0. StampsTyped /\ DeviceTyped /\ OutTyped
  BY TypeParts
<1>1. metadata \in Seq(Entry) /\ Len(metadata) \in Nat
  BY <1>0 DEF StampsTyped
<1>2. Part(metadata)
  BY <1>1
<1>3. Part(<<>>)
  BY <1>1, EmptySeq
<1>4. ASSUME NEW p \in Nat PROVE Part(Newer(p)) /\ Part(Taken(p))
  BY <1>1, LeftIsPart
<1>5. ASSUME NEW q, Part(q), q # <<>> PROVE Part(Tail(q))
  <2>1. Tail(q) \in Seq(Entry) /\ Len(Tail(q)) = Len(q) - 1 /\ Len(q) \in Nat
    BY <1>5
  <2>2. \A i \in DOMAIN Tail(q) : i + 1 \in DOMAIN q /\ Tail(q)[i] = q[i + 1]
    BY <1>5
  <2>3. Len(Tail(q)) <= Len(metadata)
    BY <1>1, <1>5, <2>1
  <2> QED
    BY <1>5, <2>1, <2>2, <2>3, Zenon
<1>6. ASSUME NEW i \in DOMAIN metadata PROVE Part(RemoveAt(metadata, i))
  BY <1>1, RemovedIsPart
<1> HIDE DEF Part
<1>7. SUFFICES Part(metadata')
  BY DEF Part
<1>8. CASE UNCHANGED metadata
  BY <1>2, <1>8
<1>9. CASE Release \/ DestroyDeletes
  <2>1. metadata' \in {metadata, <<>>}
    BY <1>9 DEF Release, DestroyDeletes
  <2> QED
    BY <1>2, <1>3, <2>1
<1>10. CASE QueueInput
  BY <1>6, <1>8, <1>10 DEF QueueInput, RemoveMetadata
<1>11. CASE DrainOne
  <2>1. CASE callback_ # None
    BY <1>8, <1>11, <2>1 DEF DrainOne
  <2>2. CASE callback_ = None
    <3>1. output # <<>> /\ output \in Seq(Entry)
      BY <1>0, <1>11 DEF DrainOne, DeviceTyped
    <3>2. Head(output) \in Entry
      BY <3>1
    <3>3. PICK p \in Nat : p = Head(output).pts
      BY <3>2 DEF Entry
    <3>4. metadata' = Newer(p)
      BY <1>11, <2>2, <3>3 DEF DrainOne
    <3> QED
      BY <1>4, <3>4
  <2> QED
    BY <2>1, <2>2
<1>12. CASE TakeMetadata
  <2>1. image \in Seq(Entry) /\ Len(image) = 1
    BY <1>0, <1>12 DEF TakeMetadata, OutTyped, Handy
  <2>2. image[1] \in Entry
    BY <2>1
  <2>3. PICK p \in Nat : p = image[1].pts
    BY <2>2 DEF Entry
  <2>4. metadata' = Taken(p) \/ (Taken(p) # <<>> /\ metadata' = Tail(Taken(p)))
    BY <1>12, <2>3 DEF TakeMetadata
  <2>5. Part(Taken(p))
    BY <1>4
  <2> QED
    BY <1>5, <2>4, <2>5
<1>13. CASE CallerStep /\ ~Release
  BY <1>8, <1>13 DEF CallerStep, CallerGoesOn, Register, Decode, Configure, Notifies,
     ReleaseStopsOutput, StopWorker,
     StopNotifies, ReleaseReturns
<1>14. CASE WorkerStep /\ ~DestroyDeletes /\ ~QueueInput
  BY <1>8, <1>14 DEF WorkerStep, WorkerLoop, DestroyStops, DestroyJoins, CreateCodec,
     CreateReader, StartCodec, FeedBegins, FrameEnds
<1>15. CASE DeviceStep
  BY <1>8, <1>15 DEF DeviceStep, CodecDecodes, ImageArrives, FrameReleased, OnImageAvailable
<1>16. CASE OutputStep /\ ~DrainOne /\ ~TakeMetadata
  BY <1>8, <1>16 DEF OutputStep, OutLoop, DrainEnds, Notified, ReadCallback, Acquire,
     AcquireFails, Reset, ImageFails, Deliver
<1>17. CASE UNCHANGED vars
  BY <1>8, <1>17 DEF vars
<1> QED
  BY <1>9, <1>10, <1>11, <1>12, <1>13, <1>14, <1>15, <1>16, <1>17 DEF Next

\* But for Record and StartCodec the time stamps stay.
LEMMA StampsStay ==
  ASSUME [Next]_vars, ~Record, ~StartCodec
  PROVE  UNCHANGED <<next_input_pts_us_, now, pts>>
BY DEF Next, CallerStep, CallerGoesOn, Register, Decode, Configure, Release, Notifies,
   ReleaseStopsOutput, StopWorker,
   StopNotifies, ReleaseReturns, WorkerStep, WorkerLoop, DestroyStops, DestroyJoins, DestroyDeletes,
   CreateCodec, CreateReader, FeedBegins, QueueInput, FrameEnds, DeviceStep, CodecDecodes,
   ImageArrives,
   FrameReleased, OnImageAvailable, OutputStep, OutLoop, DrainOne, DrainEnds, Notified,
   ReadCallback,
   Acquire, AcquireFails, Reset, ImageFails, TakeMetadata, Deliver, vars, ptsVars

\* What Record keeps, where e is the new entry.
LEMMA RecordedIsPart ==
  ASSUME metadata \in Seq(Entry), Len(metadata) <= MaxMetadata, NEW e \in Entry
  PROVE  /\ Recorded(e) \in Seq(Entry) /\ Len(Recorded(e)) <= MaxMetadata
         /\ \A i \in DOMAIN Recorded(e) :
              Recorded(e)[i] = e \/ \E k \in DOMAIN metadata : Recorded(e)[i] = metadata[k]
<1> DEFINE all == Append(metadata, e)
<1>0. MaxMetadata \in Nat \ {0} /\ Len(metadata) \in Nat
  BY DecoderAssumption
<1>1. /\ all \in Seq(Entry) /\ Len(all) = Len(metadata) + 1
      /\ \A i \in DOMAIN all : all[i] = e \/ (i \in DOMAIN metadata /\ all[i] = metadata[i])
  OBVIOUS
<1>2. Recorded(e) = IF Len(all) > MaxMetadata THEN Tail(all) ELSE all
  BY DEF Recorded
<1> HIDE DEF all
<1>3. CASE Len(all) > MaxMetadata
  <2>1. /\ Tail(all) \in Seq(Entry) /\ Len(Tail(all)) = Len(metadata)
        /\ \A i \in DOMAIN Tail(all) : i + 1 \in DOMAIN all /\ Tail(all)[i] = all[i + 1]
    BY <1>0, <1>1
  <2> QED
    BY <1>1, <1>2, <1>3, <2>1
<1>4. CASE ~(Len(all) > MaxMetadata)
  <2>1. Len(all) <= MaxMetadata
    BY <1>0, <1>1, <1>4
  <2> QED
    BY <1>1, <1>2, <1>4, <2>1
<1> QED
  BY <1>3, <1>4

\* What a Record step does: a stamp newer than all, on the worker's frame.
LEMMA RecordDoes ==
  ASSUME TypeOK, Working, Record
  PROVE  \E p \in Nat :
           /\ p > next_input_pts_us_ /\ next_input_pts_us_' = p /\ pts' = p /\ now' \in Nat
           /\ [pts |-> p, frame |-> job.frame] \in Entry
           /\ metadata' = Recorded([pts |-> p, frame |-> job.frame])
<1>0. StampsTyped /\ WorkerTyped
  BY TypeParts
<1>1. AllocatedPts(now') \in Nat /\ now' \in Nat /\ AllocatedPts(now') > next_input_pts_us_
  BY <1>0 DEF Record, StampsTyped, AllocatedPts
<1>2. [pts |-> AllocatedPts(now'), frame |-> job.frame] \in Entry
  BY <1>0, <1>1, FeedsAFrame, EntryFields DEF Record, Feeding
<1> QED
  BY <1>1, <1>2 DEF Record

\* Types of time stamps and metadata.
LEMMA StampsTypedNext ==
  ASSUME TypeOK, Working, Handy, [Next]_vars
  PROVE  StampsTyped'
<1>0. StampsTyped
  BY TypeParts
<1>1. CASE Record
  <2>1. PICK p \in Nat :
           /\ p > next_input_pts_us_ /\ next_input_pts_us_' = p /\ pts' = p /\ now' \in Nat
           /\ [pts |-> p, frame |-> job.frame] \in Entry
           /\ metadata' = Recorded([pts |-> p, frame |-> job.frame])
    BY <1>1, RecordDoes
  <2>2. metadata' \in Seq(Entry) /\ Len(metadata') <= MaxMetadata
    BY <1>0, <2>1, RecordedIsPart DEF StampsTyped
  <2> QED
    BY <2>1, <2>2 DEF StampsTyped
<1>2. CASE ~Record
  <2>1. metadata' \in Seq(Entry) /\ Len(metadata') <= Len(metadata)
    BY <1>2, MetadataShrinks
  <2>2. PICK m \in Nat, n \in Nat : m = Len(metadata') /\ n = Len(metadata)
    BY <1>0, <2>1, LenProperties DEF StampsTyped
  <2>3. Len(metadata') <= MaxMetadata
    BY <1>0, <2>1, <2>2, DecoderAssumption DEF StampsTyped
  <2>4. next_input_pts_us_' \in {next_input_pts_us_, 0} /\ UNCHANGED <<now, pts>>
    BY <1>2, StampsStay DEF StartCodec
  <2> QED
    BY <1>0, <2>1, <2>3, <2>4 DEF StampsTyped
<1> QED
  BY <1>1, <1>2

\* Types of what is in codec and reader.
LEMMA DeviceTypedNext ==
  ASSUME TypeOK, Working, Handy, [Next]_vars
  PROVE  DeviceTyped'
<1>0. DeviceTyped /\ WorkerTyped /\ StampsTyped /\ MaxImages \in Nat \ {0}
  BY TypeParts, DecoderAssumption
<1>1. ASSUME UNCHANGED <<input, output, rendering, images, unnotified, held>> PROVE DeviceTyped'
  BY <1>0, <1>1 DEF DeviceTyped
<1>2. CASE DestroyDeletes
  <2>1. /\ input' = <<>> /\ output' = <<>> /\ rendering' = <<>> /\ images' = <<>> /\ unnotified' = 0
        /\ held' = held
    BY <1>2 DEF DestroyDeletes, NothingInDevice
  <2> QED
    BY <1>0, <2>1, EmptySeq DEF DeviceTyped
<1>3. CASE QueueInput
  <2>1. UNCHANGED <<output, rendering, images, unnotified, held>>
    BY <1>3 DEF QueueInput
  <2>2. [pts |-> pts, frame |-> job.frame] \in Entry
    BY <1>0, <1>3, FeedsAFrame, EntryFields DEF QueueInput, Feeding, StampsTyped
  <2>3. input' \in {input, Append(input, [pts |-> pts, frame |-> job.frame])}
    BY <1>3 DEF QueueInput
  <2>4. input' \in Seq(Entry)
    <3>1. PICK e \in Entry : input' \in {input, Append(input, e)}
      BY <2>2, <2>3
    <3>2. input \in Seq(Entry)
      BY <1>0 DEF DeviceTyped
    <3>3. Append(input, e) \in Seq(Entry)
      BY <3>2, AppendProperties
    <3> QED
      BY <3>1, <3>2, <3>3
  <2> QED
    BY <1>0, <2>1, <2>4 DEF DeviceTyped
<1>4. ASSUME NEW q \in Seq(Entry), q # <<>> PROVE Head(q) \in Entry /\ Tail(q) \in Seq(Entry)
  BY <1>4
<1>5. ASSUME NEW q \in Seq(Entry), NEW e \in Entry PROVE Append(q, e) \in Seq(Entry)
  BY <1>5
<1>6. CASE CodecDecodes
  <2>1. UNCHANGED <<rendering, images, unnotified, held>>
    BY <1>6 DEF CodecDecodes
  <2>2. input' \in Seq(Entry) /\ Head(input) \in Entry
    BY <1>0, <1>4, <1>6 DEF CodecDecodes, DeviceTyped
  <2>3. output' \in {output, Append(output, Head(input))}
    BY <1>6 DEF CodecDecodes
  <2>4. output' \in Seq(Entry)
    BY <1>0, <1>5, <2>2, <2>3 DEF DeviceTyped
  <2> QED
    BY <1>0, <2>1, <2>2, <2>4 DEF DeviceTyped
<1>7. CASE ImageArrives
  <2>1. UNCHANGED <<input, output, held>> /\ unnotified' = unnotified + 1
    BY <1>7 DEF ImageArrives
  <2>2. rendering' \in Seq(Entry) /\ Head(rendering) \in Entry
    BY <1>0, <1>4, <1>7 DEF ImageArrives, DeviceTyped
  <2>3. images' \in Seq(Entry)
    BY <1>0, <1>5, <1>7, <2>2 DEF ImageArrives, DeviceTyped
  <2> QED
    BY <1>0, <2>1, <2>2, <2>3 DEF DeviceTyped
<1>8. CASE FrameReleased
  <2>1. UNCHANGED <<input, output, rendering, images, unnotified>> /\ held' = held - 1 /\ held > 0
    BY <1>8 DEF FrameReleased
  <2>2. held' \in 0..MaxImages
    BY <1>0, <2>1 DEF DeviceTyped
  <2> QED
    BY <1>0, <2>1, <2>2 DEF DeviceTyped
<1>9. CASE OnImageAvailable
  <2>1. UNCHANGED <<input, output, rendering, images, held>> /\ unnotified' = unnotified - 1
          /\ unnotified > 0
    BY <1>9 DEF OnImageAvailable
  <2>2. unnotified' \in Nat
    BY <1>0, <2>1 DEF DeviceTyped
  <2> QED
    BY <1>0, <2>1, <2>2 DEF DeviceTyped
<1>10. CASE DrainOne
  <2>1. UNCHANGED <<input, images, unnotified, held>>
    BY <1>10 DEF DrainOne
  <2>2. output' \in Seq(Entry) /\ Head(output) \in Entry
    BY <1>0, <1>4, <1>10 DEF DrainOne, DeviceTyped
  <2>3. rendering' \in {rendering, Append(rendering, Head(output))}
    BY <1>10 DEF DrainOne
  <2>4. rendering' \in Seq(Entry)
    BY <1>0, <1>5, <2>2, <2>3 DEF DeviceTyped
  <2> QED
    BY <1>0, <2>1, <2>2, <2>4 DEF DeviceTyped
<1>11. CASE Acquire
  <2>1. UNCHANGED <<input, output, rendering, unnotified, held>> /\ images' \in {images, <<>>}
    BY <1>11 DEF Acquire
  <2> QED
    BY <1>0, <2>1, EmptySeq DEF DeviceTyped
<1>12. CASE Deliver
  <2>1. UNCHANGED <<input, output, rendering, images, unnotified>> /\ held' = held + 1
          /\ held < MaxImages
    BY <1>12 DEF Deliver, Handy
  <2>2. held' \in 0..MaxImages
    BY <1>0, <2>1 DEF DeviceTyped
  <2> QED
    BY <1>0, <2>1, <2>2 DEF DeviceTyped
<1>13. CASE CallerStep
  BY <1>1, <1>13 DEF CallerStep, CallerGoesOn, Register, Decode, Configure, Release, Notifies,
     ReleaseStopsOutput, StopWorker, StopNotifies, ReleaseReturns, device
<1>14. CASE WorkerStep /\ ~DestroyDeletes /\ ~QueueInput
  BY <1>1, <1>14 DEF WorkerStep, WorkerLoop, DestroyStops, DestroyJoins, CreateCodec,
     CreateReader, StartCodec, FeedBegins, Record, FrameEnds, device
<1>15. CASE OutputStep /\ ~DrainOne /\ ~Acquire /\ ~Deliver
  BY <1>1, <1>15 DEF OutputStep, OutLoop, DrainEnds, Notified, ReadCallback,
     AcquireFails, Reset, ImageFails, TakeMetadata, device
<1>16. CASE UNCHANGED vars
  BY <1>1, <1>16 DEF vars, device
<1> QED
  BY <1>2, <1>3, <1>6, <1>7, <1>8, <1>9, <1>10, <1>11, <1>12, <1>13, <1>14, <1>15, <1>16
  DEF Next, DeviceStep

\* What a TakeMetadata step does: it gives the image in hand the metadata of its
\* own time stamp, or drops it.
LEMMA TakeDoes ==
  ASSUME TypeOK, Handy, TakeMetadata
  PROVE  /\ out = "take" /\ image \in Seq(Entry) /\ Len(image) = 1 /\ image[1] \in Entry
         /\ \/ out' = "images" /\ delivered' = delivered
            \/ /\ out' = "deliver"
               /\ \E k \in DOMAIN metadata :
                    /\ metadata[k].pts = image[1].pts
                    /\ metadata[k] \in Entry
                    /\ delivered' = [frame |-> image[1].frame, meta |-> metadata[k].frame,
                                     order |-> delivered.order /\ delivered.frame < image[1].frame]
<1>0. StampsTyped /\ OutTyped
  BY TypeParts
<1>1. out = "take" /\ image \in Seq(Entry) /\ Len(image) = 1
  BY <1>0 DEF TakeMetadata, OutTyped, Handy
<1>2. image[1] \in Entry
  <2>1. 1 \in 1..Len(image)
    BY <1>1
  <2> QED
    BY <1>1, <2>1, ElementOfSeq
<1>3. PICK p \in Nat : p = image[1].pts
  BY <1>2 DEF Entry
<1>4. PICK kept : kept = Taken(p)
  OBVIOUS
<1>5. /\ kept \in Seq(Entry)
      /\ \A i \in DOMAIN kept : \E k \in DOMAIN metadata : kept[i] = metadata[k]
  BY <1>0, <1>4, LeftIsPart DEF StampsTyped
<1>6. CASE out' = "images" /\ delivered' = delivered
  BY <1>1, <1>2, <1>6
<1>7. CASE /\ kept # <<>> /\ kept[1].pts = p /\ out' = "deliver"
           /\ delivered' = [frame |-> image[1].frame, meta |-> kept[1].frame,
                            order |-> delivered.order /\ delivered.frame < image[1].frame]
  <2>1. 1 \in DOMAIN kept /\ kept[1] \in Entry
    BY <1>5, <1>7
  <2>2. PICK k \in DOMAIN metadata : kept[1] = metadata[k]
    BY <1>5, <2>1
  <2> QED
    BY <1>1, <1>2, <1>3, <1>7, <2>1, <2>2
<1> QED
  BY <1>3, <1>4, <1>6, <1>7 DEF TakeMetadata

\* Types of the output thread.
LEMMA OutTypedNext ==
  ASSUME TypeOK, Handy, [Next]_vars
  PROVE  OutTyped'
<1>0. OutTyped /\ CallerTyped /\ DeviceTyped
  BY TypeParts
<1> DEFINE Places4 ==
        {"none", "loop", "drain", "notified", "images", "acquire", "reset", "take", "deliver"}
<1>1. ASSUME UNCHANGED <<cb, image, delivered>>, after' \in {None, "notified", "loop"},
             out' \in Places4
      PROVE  OutTyped'
  BY <1>0, <1>1 DEF OutTyped
<1>2. CASE Acquire
  <2>1. UNCHANGED <<cb, after, delivered>> /\ out' = "reset"
    BY <1>2 DEF Acquire
  <2>2. CASE images # <<>> /\ held < MaxImages
    <3>1. images[Len(images)] \in Entry
      BY <1>0, <2>2 DEF DeviceTyped
    <3>2. image' = <<images[Len(images)]>>
      BY <1>2, <2>2 DEF Acquire, Last
    <3>3. image' \in Seq(Entry)
      BY <3>1, <3>2
    <3> QED
      BY <1>0, <2>1, <3>3 DEF OutTyped
  <2>3. CASE ~(images # <<>> /\ held < MaxImages)
    <3>1. image' = <<>>
      BY <1>2, <2>3 DEF Acquire
    <3>2. image' \in Seq(Entry)
      BY <3>1, EmptySeq
    <3> QED
      BY <1>0, <2>1, <3>2 DEF OutTyped
  <2> QED
    BY <2>2, <2>3
<1>3. CASE ReadCallback
  BY <1>0, <1>3 DEF ReadCallback, OutTyped, CallerTyped, None
<1>4. CASE TakeMetadata
  <2>1. UNCHANGED <<cb, after, image>>
    BY <1>4 DEF TakeMetadata
  <2>2. CASE out' = "images" /\ delivered' = delivered
    BY <1>0, <2>1, <2>2 DEF OutTyped
  <2>3. CASE out' = "deliver" /\ delivered' # delivered
    <3>1. PICK k \in DOMAIN metadata :
             /\ metadata[k] \in Entry /\ image[1] \in Entry
             /\ delivered' = [frame |-> image[1].frame, meta |-> metadata[k].frame,
                              order |-> delivered.order /\ delivered.frame < image[1].frame]
      BY <1>4, <2>3, TakeDoes
    <3>2. image[1].frame \in 0..MaxFrames /\ metadata[k].frame \in 0..MaxFrames
      BY <3>1, DecoderAssumption DEF Entry
    <3>3. delivered' \in [frame : 0..MaxFrames, meta : 0..MaxFrames, order : BOOLEAN]
      BY <3>1, <3>2
    <3> QED
      BY <1>0, <2>1, <2>3, <3>3 DEF OutTyped
  <2>4. CASE out' = "deliver" /\ delivered' = delivered
    BY <1>0, <2>1, <2>4 DEF OutTyped
  <2> QED
    BY <1>4, <2>2, <2>3, <2>4, TakeDoes
<1>5. CASE OutputStep /\ ~Acquire /\ ~ReadCallback /\ ~TakeMetadata
  BY <1>0, <1>1, <1>5 DEF OutputStep, OutLoop, DrainOne, DrainEnds, Notified,
     AcquireFails, Reset, ImageFails, Deliver, OutTyped, None
<1>6. CASE StartCodec
  BY <1>0, <1>1, <1>6 DEF StartCodec, OutTyped
<1>7. CASE ~OutputStep /\ ~StartCodec
  <2>1. UNCHANGED <<out, cb, after, image, delivered>>
    BY <1>7 DEF Next, CallerStep, CallerGoesOn, WorkerStep, DeviceStep,
       Register, Decode, Configure, Release, Notifies, ReleaseStopsOutput, StopWorker, StopNotifies,
       ReleaseReturns,
       WorkerLoop, DestroyStops, DestroyJoins, DestroyDeletes, CreateCodec, CreateReader,
       FeedBegins, Record, QueueInput, FrameEnds,
       CodecDecodes, ImageArrives, FrameReleased, OnImageAvailable, vars, outVars
  <2> QED
    BY <1>0, <1>1, <2>1 DEF OutTyped
<1> QED
  BY <1>2, <1>3, <1>4, <1>5, <1>6, <1>7

\* All parts together.
LEMMA TypeNext ==
  ASSUME TypeOK, Queued, Working, Handy, [Next]_vars
  PROVE  TypeOK'
BY TypePartsNext, CallerTypedNext, QueueTypedNext, WorkerTypedNext, FlagsTypedNext, StampsTypedNext,
   DeviceTypedNext, OutTypedNext

-----------------------------------------------------------------------------
(* The order of the frames *)

\* The places of the line.
LEMMA LinePlaces ==
  /\ Line[1] = <<delivered>> /\ Line[2] = InHand /\ Line[3] = images /\ Line[4] = rendering
  /\ Line[5] = output /\ Line[6] = input /\ Line[7] = Fed /\ Line[8] = tasks_
  /\ Line[9] = <<Task("frame", frames + 1)>>
BY DEF Line

\* The same of the next state.
LEMMA LinePlacesNext ==
  /\ Line'[1] = <<delivered'>> /\ Line'[2] = InHand' /\ Line'[3] = images' /\ Line'[4] = rendering'
  /\ Line'[5] = output' /\ Line'[6] = input' /\ Line'[7] = Fed' /\ Line'[8] = tasks_'
  /\ Line'[9] = <<Task("frame", frames' + 1)>>
BY DEF Line

\* The line of the next state is in order when it equals one that is.
LEMMA LineNext ==
  ASSUME NEW M, M = Line', InOrder(M)
  PROVE  InOrder(Line)'
BY DEF InOrder

\* The frames stay in order.
LEMMA InOrderNext ==
  ASSUME TypeOK, Waiting, Queued, Working, Lifetimes, Handy, InOrder(Line), [Next]_vars
  PROVE  InOrder(Line)'
<1>1. PICK L : L = Line
  OBVIOUS
<1>2. PICK M : M = Line'
  OBVIOUS
<1>3. /\ L[1] = <<delivered>> /\ L[2] = InHand /\ L[3] = images /\ L[4] = rendering
      /\ L[5] = output /\ L[6] = input /\ L[7] = Fed /\ L[8] = tasks_
      /\ L[9] = <<Task("frame", frames + 1)>>
  BY <1>1, LinePlaces
<1>4. /\ M[1] = <<delivered'>> /\ M[2] = InHand' /\ M[3] = images' /\ M[4] = rendering'
      /\ M[5] = output' /\ M[6] = input' /\ M[7] = Fed' /\ M[8] = tasks_'
      /\ M[9] = <<Task("frame", frames' + 1)>>
  BY <1>2, LinePlacesNext
<1>5. InOrder(L)
  BY <1>1
<1>6. SUFFICES InOrder(M)
  BY <1>2, LineNext
<1> DEFINE Tasks == [kind : {"frame", "configure", "release"}, frame : 0..MaxFrames]
<1>7. /\ CallerTyped /\ QueueTyped /\ WorkerTyped /\ DeviceTyped /\ OutTyped /\ StampsTyped
      /\ tasks_ \in Seq(Tasks)
  BY TypeParts DEF QueueTyped
<1> HIDE DEF Tasks
<1>8. ASSUME UNCHANGED <<delivered, images, rendering, output, input, tasks_, frames>>,
             InHand' \in {InHand, <<>>}, Fed' \in {Fed, <<>>}
      PROVE  InOrder(M)
  <2>1. /\ M[1] = L[1] /\ M[3] = L[3] /\ M[4] = L[4] /\ M[5] = L[5] /\ M[6] = L[6]
        /\ M[8] = L[8] /\ M[9] = L[9] /\ M[2] \in {L[2], <<>>} /\ M[7] \in {L[7], <<>>}
    BY <1>3, <1>4, <1>8
  <2>2. \A s \in Places : M[s] = L[s] \/ M[s] = <<>>
    BY <2>1 DEF Places
  <2> QED
    BY <1>5, <2>2, EmptyKeeps
<1>9. ASSUME at' = at, job' = job PROVE Fed' = Fed
  BY <1>9 DEF Fed
<1>10. ASSUME at' \notin Feeding PROVE Fed' = <<>>
  BY <1>10 DEF Fed
<1>11. ASSUME out' = out, image' = image PROVE InHand' = InHand
  BY <1>11 DEF InHand
<1>12. ASSUME out' \notin {"reset", "take"} PROVE InHand' = <<>>
  BY <1>12 DEF InHand
<1>13. CASE Decode
  <2>1. /\ UNCHANGED <<delivered, images, rendering, output, input>> /\ InHand' = InHand
             /\ Fed' = Fed
        /\ frames' = frames + 1 /\ tasks_' = Append(tasks_, Task("frame", frames + 1))
             /\ frames < MaxFrames
    BY <1>9, <1>11, <1>13 DEF Decode, workerVars, device, outVars
  <2>2. frames \in Nat /\ frames' + 1 = frames + 2 /\ Task("frame", frames + 1) \in Tasks
    BY <1>7, <2>1, DecoderAssumption DEF CallerTyped, Task, Tasks
  <2>3. \A s \in Places : \A i \in DOMAIN L[s] : L[s][i].frame \in Nat
    <3> DEFINE Numbered(q) == \A i \in DOMAIN q : q[i].frame \in Nat
    <3>1. ASSUME NEW q \in Seq(Entry) PROVE Numbered(q)
      <4>1. \A i \in DOMAIN q : q[i] \in Entry
        OBVIOUS
      <4> QED
        BY <4>1 DEF Entry
    <3>2. Numbered(tasks_)
      <4>1. \A i \in DOMAIN tasks_ : tasks_[i] \in Tasks
        BY <1>7
      <4> QED
        BY <4>1, DecoderAssumption DEF Tasks
    <3>3. Numbered(<<delivered>>) /\ Numbered(<<job>>) /\ Numbered(<<>>)
      <4>1. delivered.frame \in Nat /\ job.frame \in Nat
        BY <1>7, DecoderAssumption DEF OutTyped, WorkerTyped
      <4> QED
        BY <4>1
    <3>4. Numbered(<<Task("frame", frames + 1)>>)
      BY <2>2 DEF Task
    <3>5. /\ Numbered(images) /\ Numbered(rendering) /\ Numbered(output) /\ Numbered(input)
          /\ Numbered(image)
      BY <1>7, <3>1 DEF DeviceTyped, OutTyped
    <3> HIDE DEF Numbered
    <3>6. Numbered(InHand) /\ Numbered(Fed)
      BY <3>3, <3>5 DEF InHand, Fed
    <3>7. /\ Numbered(L[1]) /\ Numbered(L[2]) /\ Numbered(L[3]) /\ Numbered(L[4]) /\ Numbered(L[5])
          /\ Numbered(L[6]) /\ Numbered(L[7]) /\ Numbered(L[8]) /\ Numbered(L[9])
      BY <1>3, <3>2, <3>3, <3>4, <3>5, <3>6
    <3>8. \A s \in Places : Numbered(L[s])
      BY <3>7 DEF Places
    <3> QED
      BY <3>8 DEF Numbered
  <2>4. \A s \in Places : s # 8 /\ s # 9 => M[s] = L[s]
    BY <1>3, <1>4, <2>1, SMTT(30) DEF Places
  <2>5. PICK n \in Nat : n = frames
    BY <2>2
  <2>6. /\ L[8] \in Seq(Tasks) /\ Task("frame", n + 1) \in Tasks
        /\ L[9] = <<Task("frame", n + 1)>> /\ M[9] = <<Task("frame", n + 2)>>
        /\ M[8] = Append(L[8], Task("frame", n + 1))
    BY <1>3, <1>4, <1>7, <2>1, <2>2, <2>5
  <2> QED
    BY <1>5, <2>3, <2>4, <2>6, NewFrameKeeps
<1>14. ASSUME UNCHANGED <<delivered, images, rendering, output, input, frames>>,
              InHand' = InHand, Fed' = Fed,
              NEW kind, tasks_' = <<Task(kind, 0)>>
       PROVE  InOrder(M)
  <2>1. PICK n \in Nat : n = frames
    BY <1>7, DecoderAssumption DEF CallerTyped
  <2>2. \A s \in Places : s # 8 => M[s] = L[s]
    BY <1>3, <1>4, <1>14 DEF Places
  <2>3. M[8] = <<Task(kind, 0)>> /\ L[9] = <<Task("frame", n + 1)>>
    BY <1>3, <1>4, <1>14, <2>1
  <2> QED
    BY <1>5, <2>2, <2>3, ReplaceKeeps
<1>15. CASE Configure
  BY <1>9, <1>11, <1>14, <1>15 DEF Configure, device, outVars
<1>16. CASE Release
  <2>1. /\ UNCHANGED <<delivered, images, rendering, output, input, frames>> /\ InHand' = InHand
             /\ Fed' = Fed
    BY <1>9, <1>11, <1>16 DEF Release, workerVars, device, outVars
  <2>2. tasks_' = <<Task("release", 0)>> \/ tasks_' = tasks_
    BY <1>16 DEF Release
  <2> QED
    BY <1>8, <1>14, <2>1, <2>2
<1>17. CASE StopWorker
  <2>1. /\ UNCHANGED <<delivered, images, rendering, output, input, frames>> /\ InHand' = InHand
             /\ Fed' = Fed
        /\ tasks_' = <<>>
    BY <1>9, <1>11, <1>17 DEF StopWorker, workerVars, device, outVars
  <2>2. \A s \in Places : M[s] = L[s] \/ M[s] = <<>>
    BY <1>3, <1>4, <2>1, SMTT(30) DEF Places
  <2> QED
    BY <1>5, <2>2, EmptyKeeps
<1>18. CASE (\E c : Register(c)) \/ Notifies \/ ReleaseStopsOutput \/ StopNotifies
              \/ ReleaseReturns
  <2>1. /\ UNCHANGED <<delivered, images, rendering, output, input, tasks_, frames>>
        /\ at' = at /\ job' = job /\ out' = out /\ image' = image
    BY <1>18 DEF Register, Notifies, ReleaseStopsOutput, StopNotifies, ReleaseReturns, queueVars,
       workerVars, device, outVars
  <2> QED
    BY <1>8, <1>9, <1>11, <2>1
<1>19. CASE WorkerLoop
  <2>1. /\ UNCHANGED <<delivered, images, rendering, output, input, frames>> /\ InHand' = InHand
        /\ at = None
    BY <1>11, <1>19 DEF WorkerLoop, appVars, device, outVars, Working
  <2>2. Fed = <<>>
    BY <2>1 DEF Fed, Feeding, None
  <2>3. CASE tasks_ = <<>>
    BY <1>8, <1>9, <1>19, <2>1, <2>3 DEF WorkerLoop
  <2>4. CASE tasks_ # <<>> /\ Head(tasks_).kind = "frame"
    <3>1. tasks_' = Tail(tasks_) /\ Fed' = <<Head(tasks_)>>
      BY <1>19, <2>4 DEF WorkerLoop, Fed, Feeding
    <3>2. L[8] \in Seq(Tasks) /\ L[8] # <<>> /\ M[8] = Tail(L[8]) /\ Head(L[8]) \in Tasks
      BY <1>3, <1>4, <1>7, <2>4, <3>1
    <3>3. L[7] \in Seq(Tasks) /\ M[7] = Append(L[7], Head(L[8]))
      BY <1>3, <1>4, <2>2, <3>1, EmptySeq
    <3>4. \A s \in Places : s # 8 /\ s # 7 => M[s] = L[s]
      BY <1>3, <1>4, <2>1 DEF Places
    <3>5. Moved(L, M, 7, 8, Tasks, Tasks, Head(L[8]))
      BY <3>2, <3>3, <3>4 DEF Moved
    <3> QED
      BY <1>5, <3>5, MoveKeeps
  <2>5. CASE tasks_ # <<>> /\ Head(tasks_).kind # "frame"
    <3>1. tasks_' = Tail(tasks_) /\ Fed' = <<>>
      BY <1>19, <2>5 DEF WorkerLoop, Fed, Feeding
    <3>2. L[8] \in Seq(Tasks) /\ L[8] # <<>> /\ M[8] = Tail(L[8])
      BY <1>3, <1>4, <1>7, <2>5, <3>1
    <3>3. \A s \in Places : s # 8 => M[s] = L[s]
      BY <1>3, <1>4, <2>1, <2>2, <3>1, SMTT(30) DEF Places
    <3>4. 8 \in Places
      BY DEF Places
    <3> QED
      BY <1>5, <3>2, <3>3, <3>4, DropKeeps
  <2> QED
    BY <2>3, <2>4, <2>5
<1>20. CASE DestroyDeletes
  <2>1. /\ UNCHANGED <<delivered, tasks_, frames>> /\ InHand' = InHand
        /\ images' = <<>> /\ rendering' = <<>> /\ output' = <<>> /\ input' = <<>>
        /\ at' \in {None, "create"}
    BY <1>11, <1>20 DEF DestroyDeletes, NothingInDevice, JobEnds, JobGoesTo, appVars, queueVars,
       outVars
  <2>2. Fed' = <<>>
    BY <1>10, <2>1 DEF Feeding, None
  <2>3. \A s \in Places : M[s] = L[s] \/ M[s] = <<>>
    BY <1>3, <1>4, <2>1, <2>2 DEF Places
  <2> QED
    BY <1>5, <2>3, EmptyKeeps
<1>21. CASE DestroyStops \/ DestroyJoins \/ CreateCodec \/ CreateReader \/ FrameEnds
  <2>1. /\ UNCHANGED <<delivered, images, rendering, output, input, tasks_, frames>>
        /\ at' \in {None, "join", "delete", "reader", "start"} /\ InHand' = InHand
    BY <1>11, <1>21 DEF DestroyStops, StopOutputDrainThread, DestroyJoins, CreateCodec,
       CreateReader, FrameEnds, JobEnds, JobGoesTo, appVars, queueVars, device, outVars
  <2> QED
    BY <1>8, <1>10, <2>1 DEF Feeding, None
<1>22. CASE StartCodec
  <2>1. /\ UNCHANGED <<delivered, images, rendering, output, input, tasks_, frames>>
        /\ at' = None /\ out = "none" /\ out' \in {"none", "loop"}
    BY <1>22 DEF StartCodec, JobEnds, queueVars, device, Lifetimes
  <2> QED
    BY <1>8, <1>10, <1>12, <2>1 DEF Feeding, None
<1>23. CASE FeedBegins \/ Record
  <2>1. /\ UNCHANGED <<delivered, images, rendering, output, input, tasks_, frames>>
             /\ InHand' = InHand
        /\ job' = job /\ at \in Feeding
    BY <1>11, <1>23 DEF FeedBegins, Record, JobGoesTo, appVars, queueVars, device, outVars, Feeding
  <2>2. Fed' \in {Fed, <<>>}
    BY <2>1 DEF Fed
  <2> QED
    BY <1>8, <2>1, <2>2
<1>24. CASE QueueInput
  <2>1. /\ UNCHANGED <<delivered, images, rendering, output, tasks_, frames>> /\ InHand' = InHand
        /\ at = "queue" /\ at' = "count"
    BY <1>11, <1>24 DEF QueueInput, JobGoesTo, appVars, queueVars, outVars
  <2>2. Fed = <<job>> /\ Fed' = <<>>
    BY <2>1 DEF Fed, Feeding
  <2>3. CASE input' = input
    BY <1>8, <2>1, <2>2, <2>3
  <2>4. CASE input' = Append(input, [pts |-> pts, frame |-> job.frame])
    <3>1. PICK e \in Entry : e = [pts |-> pts, frame |-> job.frame]
      BY <1>7, <2>1, FeedsAFrame, EntryFields DEF Feeding, StampsTyped
    <3>2. L[7] \in Seq({job}) /\ L[7] # <<>> /\ M[7] = Tail(L[7]) /\ e.frame = Head(L[7]).frame
      BY <1>3, <1>4, <2>2, <3>1
    <3>3. L[6] \in Seq(Entry) /\ M[6] = Append(L[6], e)
      BY <1>3, <1>4, <1>7, <2>4, <3>1 DEF DeviceTyped
    <3>4. \A s \in Places : s # 7 /\ s # 6 => M[s] = L[s]
      BY <1>3, <1>4, <2>1 DEF Places
    <3>5. Moved(L, M, 6, 7, {job}, Entry, e)
      BY <3>2, <3>3, <3>4 DEF Moved
    <3> QED
      BY <1>5, <3>5, MoveKeeps
  <2> QED
    BY <1>24, <2>3, <2>4 DEF QueueInput
<1>25. CASE CodecDecodes
  <2>1. /\ UNCHANGED <<delivered, images, rendering, tasks_, frames>> /\ InHand' = InHand
             /\ Fed' = Fed
        /\ input # <<>> /\ input' = Tail(input)
    BY <1>9, <1>11, <1>25 DEF CodecDecodes, appVars, queueVars, workerVars, outVars
  <2>2. L[6] \in Seq(Entry) /\ L[6] # <<>> /\ M[6] = Tail(L[6]) /\ Head(L[6]) \in Entry
    BY <1>3, <1>4, <1>7, <2>1 DEF DeviceTyped
  <2>3. CASE output' = Append(output, Head(input))
    <3>1. L[5] \in Seq(Entry) /\ M[5] = Append(L[5], Head(L[6]))
      BY <1>3, <1>4, <1>7, <2>3 DEF DeviceTyped
    <3>2. \A s \in Places : s # 6 /\ s # 5 => M[s] = L[s]
      <4>1. M[1] = L[1] /\ M[2] = L[2] /\ M[3] = L[3] /\ M[4] = L[4] /\ M[7] = L[7]
              /\ M[8] = L[8] /\ M[9] = L[9]
        BY <1>3, <1>4, <2>1
      <4> QED
        BY <4>1 DEF Places
    <3>3. Moved(L, M, 5, 6, Entry, Entry, Head(L[6]))
      BY <2>2, <3>1, <3>2 DEF Moved
    <3> QED
      BY <1>5, <3>3, MoveKeeps
  <2>4. CASE output' = output
    <3>1. 6 \in Places /\ \A s \in Places : s # 6 => M[s] = L[s]
      <4>1. M[1] = L[1] /\ M[2] = L[2] /\ M[3] = L[3] /\ M[4] = L[4] /\ M[5] = L[5]
              /\ M[7] = L[7] /\ M[8] = L[8] /\ M[9] = L[9]
        BY <1>3, <1>4, <2>1, <2>4
      <4> QED
        BY <4>1 DEF Places
    <3> QED
      BY <1>5, <2>2, <3>1, DropKeeps
  <2> QED
    BY <1>25, <2>3, <2>4 DEF CodecDecodes
<1>26. CASE ImageArrives
  <2>1. /\ UNCHANGED <<delivered, output, input, tasks_, frames>> /\ InHand' = InHand /\ Fed' = Fed
        /\ rendering # <<>> /\ rendering' = Tail(rendering)
             /\ images' = Append(images, Head(rendering))
    BY <1>9, <1>11, <1>26 DEF ImageArrives, appVars, queueVars, workerVars, outVars
  <2>2. L[4] \in Seq(Entry) /\ L[4] # <<>> /\ M[4] = Tail(L[4]) /\ Head(L[4]) \in Entry
    BY <1>3, <1>4, <1>7, <2>1 DEF DeviceTyped
  <2>3. L[3] \in Seq(Entry) /\ M[3] = Append(L[3], Head(L[4]))
    BY <1>3, <1>4, <1>7, <2>1 DEF DeviceTyped
  <2>4. \A s \in Places : s # 4 /\ s # 3 => M[s] = L[s]
    <3>1. M[1] = L[1] /\ M[2] = L[2] /\ M[5] = L[5] /\ M[6] = L[6] /\ M[7] = L[7] /\ M[8] = L[8]
            /\ M[9] = L[9]
      BY <1>3, <1>4, <2>1
    <3> QED
      BY <3>1 DEF Places
  <2>5. Moved(L, M, 3, 4, Entry, Entry, Head(L[4]))
    BY <2>2, <2>3, <2>4 DEF Moved
  <2> QED
    BY <1>5, <2>5, MoveKeeps
<1>27. CASE FrameReleased \/ OnImageAvailable
  <2>1. /\ UNCHANGED <<delivered, images, rendering, output, input, tasks_, frames>>
        /\ InHand' = InHand /\ Fed' = Fed
    BY <1>9, <1>11, <1>27 DEF FrameReleased, OnImageAvailable, appVars, queueVars, workerVars,
       outVars
  <2> QED
    BY <1>8, <2>1
<1>28. CASE DrainOne
  <2>1. /\ UNCHANGED <<delivered, images, input, tasks_, frames>> /\ InHand' = InHand /\ Fed' = Fed
        /\ output # <<>> /\ output' = Tail(output)
    BY <1>9, <1>11, <1>28 DEF DrainOne, appVars, queueVars, workerVars
  <2>2. L[5] \in Seq(Entry) /\ L[5] # <<>> /\ M[5] = Tail(L[5]) /\ Head(L[5]) \in Entry
    BY <1>3, <1>4, <1>7, <2>1 DEF DeviceTyped
  <2>3. CASE rendering' = Append(rendering, Head(output))
    <3>1. L[4] \in Seq(Entry) /\ M[4] = Append(L[4], Head(L[5]))
      BY <1>3, <1>4, <1>7, <2>3 DEF DeviceTyped
    <3>2. \A s \in Places : s # 5 /\ s # 4 => M[s] = L[s]
      <4>1. M[1] = L[1] /\ M[2] = L[2] /\ M[3] = L[3] /\ M[6] = L[6] /\ M[7] = L[7]
              /\ M[8] = L[8] /\ M[9] = L[9]
        BY <1>3, <1>4, <2>1
      <4> QED
        BY <4>1 DEF Places
    <3>3. Moved(L, M, 4, 5, Entry, Entry, Head(L[5]))
      BY <2>2, <3>1, <3>2 DEF Moved
    <3> QED
      BY <1>5, <3>3, MoveKeeps
  <2>4. CASE rendering' = rendering
    <3>1. 5 \in Places /\ \A s \in Places : s # 5 => M[s] = L[s]
      BY <1>3, <1>4, <2>1, <2>4, SMTT(30) DEF Places
    <3> QED
      BY <1>5, <2>2, <3>1, DropKeeps
  <2> QED
    BY <1>28, <2>3, <2>4 DEF DrainOne
<1>29. CASE Acquire
  <2>1. /\ UNCHANGED <<delivered, rendering, output, input, tasks_, frames>> /\ Fed' = Fed
        /\ InHand = <<>> /\ InHand' = image'
    BY <1>9, <1>29 DEF Acquire, appVars, queueVars, workerVars, InHand
  <2>2. CASE images # <<>> /\ held < MaxImages
    <3>1. image' = <<images[Len(images)]>> /\ images' = <<>>
      BY <1>29, <2>2 DEF Acquire, Last
    <3>2. L[3] \in Seq(Entry) /\ L[3] # <<>> /\ M[2] = <<L[3][Len(L[3])]>> /\ M[3] = <<>>
      BY <1>3, <1>4, <1>7, <2>1, <2>2, <3>1 DEF DeviceTyped
    <3>3. \A s \in Places : s # 3 /\ s # 2 => M[s] = L[s]
      <4>1. M[1] = L[1] /\ M[4] = L[4] /\ M[5] = L[5] /\ M[6] = L[6] /\ M[7] = L[7]
              /\ M[8] = L[8] /\ M[9] = L[9]
        BY <1>3, <1>4, <2>1
      <4> QED
        BY <4>1 DEF Places
    <3>4. LastTaken(L, M, 2, 3, Entry, L[3][Len(L[3])])
      BY <3>2, <3>3 DEF LastTaken
    <3> QED
      BY <1>5, <3>4, TakeLastKeeps
  <2>3. CASE ~(images # <<>> /\ held < MaxImages)
    <3>1. image' = <<>> /\ images' = images
      BY <1>29, <2>3 DEF Acquire
    <3> QED
      BY <1>8, <2>1, <3>1
  <2> QED
    BY <2>2, <2>3
<1>30. CASE TakeMetadata
  <2>1. /\ UNCHANGED <<images, rendering, output, input, tasks_, frames>> /\ Fed' = Fed
    BY <1>9, <1>30 DEF TakeMetadata, appVars, queueVars, workerVars, device
  <2>2. InHand = image /\ InHand' = <<>> /\ image \in Seq(Entry) /\ Len(image) = 1
    BY <1>12, <1>30, TakeDoes DEF InHand
  <2>3. CASE delivered' = delivered
    BY <1>8, <2>1, <2>2, <2>3
  <2>4. CASE delivered' # delivered
    <3>1. delivered'.frame = image[1].frame
      BY <1>30, <2>4, TakeDoes
    <3>2. /\ L[2] \in Seq(Entry) /\ L[2] # <<>> /\ delivered'.frame = L[2][Len(L[2])].frame
          /\ M[1] = <<delivered'>> /\ M[2] = <<>>
      <4>1. L[2] = image /\ M[1] = <<delivered'>> /\ M[2] = <<>>
        BY <1>3, <1>4, <2>2
      <4>2. image # <<>>
        <5>1. Len(<<>>) = 0 /\ 0 # 1
          OBVIOUS
        <5> QED
          BY <2>2, <5>1, Zenon
      <4>3. L[2] \in Seq(Entry) /\ L[2] # <<>> /\ Len(L[2]) = 1
        BY <2>2, <4>1, <4>2, Zenon
      <4>4. L[2][Len(L[2])].frame = image[1].frame
        BY <4>1, <4>3, Zenon
      <4> QED
        BY <3>1, <4>1, <4>3, <4>4, Zenon
    <3>3. \A s \in Places : s # 2 /\ s # 1 => M[s] = L[s]
      BY <1>3, <1>4, <2>1 DEF Places
    <3>4. LastTaken(L, M, 1, 2, Entry, delivered')
      BY <3>2, <3>3 DEF LastTaken
    <3> QED
      BY <1>5, <3>4, TakeLastKeeps
  <2> QED
    BY <2>3, <2>4
<1>31. CASE Reset
  <2>1. /\ UNCHANGED <<delivered, images, rendering, output, input, tasks_, frames>> /\ Fed' = Fed
        /\ out = "reset" /\ image' = image
    BY <1>9, <1>31 DEF Reset, appVars, queueVars, workerVars, device
  <2>2. InHand' \in {InHand, <<>>}
    BY <2>1 DEF InHand
  <2> QED
    BY <1>8, <2>1, <2>2
<1>32. CASE OutputStep /\ ~DrainOne /\ ~Acquire /\ ~TakeMetadata /\ ~Reset
  <2>1. UNCHANGED <<delivered, images, rendering, output, input>>
    BY <1>32 DEF OutputStep, OutLoop, DrainEnds, Notified, ReadCallback, AcquireFails,
       ImageFails, Deliver,
       device
  <2>2. UNCHANGED <<tasks_, frames>> /\ Fed' = Fed
    BY <1>9, <1>32, Bystanders
  <2>3. out' \notin {"reset", "take"}
    BY <1>7, <1>32 DEF OutputStep, OutLoop, DrainEnds, Notified, ReadCallback, AcquireFails,
       ImageFails, Deliver,
       OutTyped, None
  <2> QED
    BY <1>8, <1>12, <2>1, <2>2, <2>3
<1>33. CASE UNCHANGED vars
  <2>1. /\ UNCHANGED <<delivered, images, rendering, output, input, tasks_, frames>>
        /\ InHand' = InHand /\ Fed' = Fed
    BY <1>9, <1>11, <1>33 DEF vars, appVars, queueVars, workerVars, device, outVars
  <2> QED
    BY <1>8, <2>1
<1> QED
  BY <1>13, <1>15, <1>16, <1>17, <1>18, <1>19, <1>20, <1>21, <1>22, <1>23, <1>24, <1>25, <1>26,
     <1>27, <1>28,
     <1>29, <1>30, <1>31, <1>32, <1>33
  DEF Next, CallerStep, CallerGoesOn, WorkerStep, DeviceStep

-----------------------------------------------------------------------------
(* The time stamps *)

\* Nothing gets into codec and reader but what is fed.
LEMMA StaysIn ==
  ASSUME NEW G, [Next]_vars, Handy, Lifetimes, OutTyped, WorkerTyped,
         InHand \in Seq(G), images \in Seq(G), rendering \in Seq(G), output \in Seq(G),
         input \in Seq(G),
         at = "queue" => [pts |-> pts, frame |-> job.frame] \in G
  PROVE  /\ InHand' \in Seq(G) /\ images' \in Seq(G) /\ rendering' \in Seq(G)
         /\ output' \in Seq(G) /\ input' \in Seq(G)
<1> DEFINE Goal == /\ InHand' \in Seq(G) /\ images' \in Seq(G) /\ rendering' \in Seq(G)
                   /\ output' \in Seq(G) /\ input' \in Seq(G)
<1>1. <<>> \in Seq(G)
  BY EmptySeq
<1>2. ASSUME NEW q \in Seq(G), q # <<>> PROVE Head(q) \in G /\ Tail(q) \in Seq(G)
  BY <1>2
<1>3. ASSUME NEW q \in Seq(G), NEW e \in G PROVE Append(q, e) \in Seq(G)
  BY <1>3, AppendProperties
<1>4. ASSUME out' = out, image' = image PROVE InHand' = InHand
  BY <1>4 DEF InHand
<1>5. ASSUME out' \notin {"reset", "take"} PROVE InHand' = <<>>
  BY <1>5 DEF InHand
<1>6. ASSUME UNCHANGED <<images, rendering, output, input>>, InHand' \in {InHand, <<>>} PROVE Goal
  BY <1>1, <1>6
<1>7. CASE DestroyDeletes
  BY <1>1, <1>4, <1>7 DEF DestroyDeletes, NothingInDevice, outVars
<1>8. CASE QueueInput
  <2>1. UNCHANGED <<images, rendering, output>> /\ InHand' = InHand
    BY <1>4, <1>8 DEF QueueInput, outVars
  <2>2. input' \in Seq(G)
    BY <1>3, <1>8 DEF QueueInput
  <2> QED
    BY <2>1, <2>2
<1>9. CASE CodecDecodes
  <2>1. UNCHANGED <<images, rendering>> /\ InHand' = InHand /\ input' = Tail(input) /\ input # <<>>
    BY <1>4, <1>9 DEF CodecDecodes, outVars
  <2>2. output' \in {output, Append(output, Head(input))}
    BY <1>9 DEF CodecDecodes
  <2> QED
    BY <1>2, <1>3, <2>1, <2>2
<1>10. CASE ImageArrives
  <2>1. /\ UNCHANGED <<output, input>> /\ InHand' = InHand /\ rendering' = Tail(rendering)
        /\ rendering # <<>> /\ images' = Append(images, Head(rendering))
    BY <1>4, <1>10 DEF ImageArrives, outVars
  <2> QED
    BY <1>2, <1>3, <2>1
<1>11. CASE DrainOne
  <2>1. UNCHANGED <<images, input>> /\ InHand' = InHand /\ output' = Tail(output) /\ output # <<>>
    BY <1>4, <1>11 DEF DrainOne
  <2>2. rendering' \in {rendering, Append(rendering, Head(output))}
    BY <1>11 DEF DrainOne
  <2> QED
    BY <1>2, <1>3, <2>1, <2>2
<1>12. CASE Acquire
  <2>1. UNCHANGED <<rendering, output, input>> /\ InHand' = image'
    BY <1>12 DEF Acquire, InHand
  <2>2. CASE images # <<>> /\ held < MaxImages
    <3>1. image' = <<images[Len(images)]>> /\ images' = <<>>
      BY <1>12, <2>2 DEF Acquire, Last
    <3>2. images[Len(images)] \in G
      BY <2>2
    <3>3. image' \in Seq(G)
      BY <3>1, <3>2
    <3> QED
      BY <1>1, <2>1, <3>1, <3>3
  <2>3. CASE ~(images # <<>> /\ held < MaxImages)
    <3>1. image' = <<>> /\ images' = images
      BY <1>12, <2>3 DEF Acquire
    <3> QED
      BY <1>1, <2>1, <3>1
  <2> QED
    BY <2>2, <2>3
<1>13. CASE Reset
  <2>1. UNCHANGED <<images, rendering, output, input, image>> /\ out = "reset"
    BY <1>13 DEF Reset, device
  <2>2. InHand' \in {InHand, <<>>}
    BY <2>1 DEF InHand
  <2> QED
    BY <1>6, <2>1, <2>2
<1>14. CASE OutputStep /\ ~DrainOne /\ ~Acquire /\ ~Reset
  <2>1. UNCHANGED <<images, rendering, output, input>>
    BY <1>14 DEF OutputStep, OutLoop, DrainEnds, Notified, ReadCallback, AcquireFails, ImageFails,
       TakeMetadata, Deliver, device
  <2>2. out' \notin {"reset", "take"}
    BY <1>14 DEF OutputStep, OutLoop, DrainEnds, Notified, ReadCallback, AcquireFails, ImageFails,
       TakeMetadata, Deliver, OutTyped, None
  <2> QED
    BY <1>5, <1>6, <2>1, <2>2
<1>15. CASE StartCodec
  <2>1. UNCHANGED <<images, rendering, output, input>> /\ out' \in {"none", "loop"}
    BY <1>15 DEF StartCodec, device, Lifetimes
  <2> QED
    BY <1>5, <1>6, <2>1
<1>16. CASE \/ CallerStep \/ FrameReleased \/ OnImageAvailable \/ UNCHANGED vars
            \/ (WorkerStep /\ ~DestroyDeletes /\ ~QueueInput /\ ~StartCodec)
  <2>1. UNCHANGED <<images, rendering, output, input, out, image>>
    BY <1>16 DEF CallerStep, CallerGoesOn, Register, Decode, Configure, Release, Notifies,
       ReleaseStopsOutput, StopWorker,
       StopNotifies, ReleaseReturns, WorkerStep, WorkerLoop, DestroyStops, DestroyJoins,
       CreateCodec,
       CreateReader, FeedBegins, Record, FrameEnds, FrameReleased, OnImageAvailable, vars,
       device, outVars
  <2> QED
    BY <1>4, <1>6, <2>1
<1> QED
  BY <1>7, <1>8, <1>9, <1>10, <1>11, <1>12, <1>13, <1>14, <1>15, <1>16 DEF Next, DeviceStep

\* Time stamps stay right: a new one is newer than all, and they begin again
\* only when nothing is left of the old ones.
LEMMA StampedNext ==
  ASSUME TypeOK, Working, Lifetimes, Cleared, Handy, Stamped, [Next]_vars
  PROVE  Stamped'
<1>0. OutTyped /\ WorkerTyped /\ StampsTyped
  BY TypeParts
<1>1. PICK G : G = Own
  OBVIOUS
<1>2. PICK H : H = Own'
  OBVIOUS
<1>3. /\ InHand' \in Seq(G) /\ images' \in Seq(G) /\ rendering' \in Seq(G)
      /\ output' \in Seq(G) /\ input' \in Seq(G)
  BY <1>0, <1>1, StaysIn DEF Stamped
<1>4. ASSUME G \subseteq H, \A k \in DOMAIN metadata' : metadata'[k].pts <= next_input_pts_us_',
             at' = "queue" => [pts |-> pts', frame |-> job'.frame] \in H
      PROVE  Stamped'
  <2>1. Seq(G) \subseteq Seq(H)
    BY <1>4, SeqMonotonic
  <2> QED
    BY <1>2, <1>3, <1>4, <2>1 DEF Stamped
<1>5. CASE StartCodec
  <2>1. /\ images' = <<>> /\ rendering' = <<>> /\ output' = <<>> /\ input' = <<>>
             /\ metadata' = <<>>
        /\ out' \in {"none", "loop"} /\ at' = None
    BY <1>5 DEF StartCodec, JobEnds, Cleared, Lifetimes, device
  <2>2. InHand' = <<>> /\ at' # "queue" /\ DOMAIN metadata' = {}
    BY <2>1 DEF InHand, None
  <2> QED
    BY <1>2, <2>1, <2>2, EmptySeq DEF Stamped
<1>6. CASE Record
  <2>1. PICK p \in Nat :
           /\ p > next_input_pts_us_ /\ next_input_pts_us_' = p /\ pts' = p /\ now' \in Nat
           /\ [pts |-> p, frame |-> job.frame] \in Entry
           /\ metadata' = Recorded([pts |-> p, frame |-> job.frame])
    BY <1>6, RecordDoes
  <2>2. PICK e \in Entry : e = [pts |-> p, frame |-> job.frame]
    BY <2>1
  <2>3. /\ metadata' \in Seq(Entry)
        /\ \A i \in DOMAIN metadata' :
             metadata'[i] = e \/ \E k \in DOMAIN metadata : metadata'[i] = metadata[k]
    BY <1>0, <2>1, <2>2, RecordedIsPart DEF StampsTyped
  <2>4. /\ next_input_pts_us_ \in Nat /\ e.pts = p /\ e.frame = job.frame
        /\ \A k \in DOMAIN metadata : metadata[k].pts <= next_input_pts_us_
             /\ metadata[k].pts \in Nat
    <3>1. metadata \in Seq(Entry) /\ next_input_pts_us_ \in Nat
      BY <1>0 DEF StampsTyped
    <3>2. \A k \in DOMAIN metadata : metadata[k] \in Entry
      BY <3>1
    <3> QED
      BY <2>2, <3>1, <3>2 DEF Stamped, Entry
  <2>5. \A i \in DOMAIN metadata' :
          /\ metadata'[i].pts <= p
          /\ metadata'[i].pts = p => metadata'[i].frame = job.frame
    BY <2>1, <2>3, <2>4
  <2>6. G \subseteq H
    <3>1. SUFFICES ASSUME NEW g \in G PROVE g \in H
      OBVIOUS
    <3>2. /\ g \in Entry /\ g.pts <= next_input_pts_us_
          /\ \A k \in DOMAIN metadata : metadata[k].pts = g.pts => metadata[k].frame = g.frame
      BY <1>1 DEF Own
    <3>3. g.pts \in Nat
      BY <3>2 DEF Entry
    <3>4. g.pts <= p /\ g.pts # p
      BY <2>1, <2>4, <3>2, <3>3
    <3>5. \A i \in DOMAIN metadata' : metadata'[i].pts = g.pts => metadata'[i].frame = g.frame
      BY <2>3, <2>4, <3>2, <3>4
    <3> QED
      BY <1>2, <2>1, <3>2, <3>4, <3>5 DEF Own
  <2>7. e \in H
    <3>1. e.pts <= p
      BY <2>4
    <3> QED
      BY <1>2, <2>1, <2>2, <2>4, <2>5, <3>1 DEF Own
  <2>8. job' = job
    BY <1>6 DEF Record, JobGoesTo
  <2> QED
    BY <1>4, <2>1, <2>2, <2>5, <2>6, <2>7, <2>8
<1>7. CASE ~StartCodec /\ ~Record
  <2>1. UNCHANGED <<next_input_pts_us_, pts>>
    BY <1>7, StampsStay
  <2>2. \A i \in DOMAIN metadata' : \E k \in DOMAIN metadata : metadata'[i] = metadata[k]
    BY <1>7, MetadataShrinks
  <2>3. G \subseteq H
    <3>1. SUFFICES ASSUME NEW g \in G PROVE g \in H
      OBVIOUS
    <3>2. /\ g \in Entry /\ g.pts <= next_input_pts_us_
          /\ \A k \in DOMAIN metadata : metadata[k].pts = g.pts => metadata[k].frame = g.frame
      BY <1>1 DEF Own
    <3>3. \A i \in DOMAIN metadata' : metadata'[i].pts = g.pts => metadata'[i].frame = g.frame
      BY <2>2, <3>2
    <3> QED
      BY <1>2, <2>1, <3>2, <3>3 DEF Own
  <2>4. \A i \in DOMAIN metadata' : metadata'[i].pts <= next_input_pts_us_'
    BY <2>1, <2>2 DEF Stamped
  <2>5. at' = "queue" => at = "queue" /\ job' = job
    <3>1. CASE WorkerStep
      BY <1>7, <3>1 DEF WorkerStep, WorkerLoop, DestroyStops, StopOutputDrainThread, DestroyJoins,
         DestroyDeletes, CreateCodec, CreateReader, FeedBegins, QueueInput, FrameEnds, JobGoesTo,
         JobEnds, None, Working
    <3>2. CASE CallerStep
      BY <3>2 DEF CallerStep, CallerGoesOn, Register, Decode, Configure, Release, Notifies,
         ReleaseStopsOutput, StopWorker,
         StopNotifies, ReleaseReturns, workerVars
    <3>3. CASE DeviceStep \/ OutputStep
      BY <3>3, Bystanders
    <3>4. CASE UNCHANGED vars
      BY <3>4 DEF vars, workerVars
    <3> QED
      BY <3>1, <3>2, <3>3, <3>4 DEF Next
  <2>6. at' = "queue" => [pts |-> pts', frame |-> job'.frame] \in H
    BY <1>1, <2>1, <2>3, <2>5 DEF Stamped
  <2> QED
    BY <1>4, <2>3, <2>4, <2>6
<1> QED
  BY <1>5, <1>6, <1>7

\* The image in hand gets its own metadata and comes after the last one.
LEMMA DeliveredNext ==
  ASSUME TypeOK, Handy, Ordered, Stamped, [Next]_vars
  PROVE  DeliveredRight'
<1>0. StampsTyped /\ OutTyped
  BY TypeParts
<1>1. CASE delivered' = delivered
  BY <1>1 DEF Ordered, DeliveredRight
<1>2. CASE TakeMetadata /\ delivered' # delivered
  <2>1. PICK k \in DOMAIN metadata :
           /\ metadata[k].pts = image[1].pts
           /\ delivered' = [frame |-> image[1].frame, meta |-> metadata[k].frame,
                            order |-> delivered.order /\ delivered.frame < image[1].frame]
    BY <1>2, TakeDoes
  <2>2. InHand = image /\ image \in Seq(Entry) /\ Len(image) = 1 /\ image[1] \in Entry
    BY <1>2, TakeDoes DEF InHand
  <2>3. image[1] \in Own
    <3>1. PICK G : G = Own
      OBVIOUS
    <3>2. image \in Seq(G) /\ 1 \in 1..Len(image)
      BY <2>2, <3>1 DEF Stamped
    <3>3. image[1] \in G
      BY <3>2, ElementOfSeq
    <3> QED
      BY <3>1, <3>3
  <2>4. metadata[k].frame = image[1].frame
    BY <2>1, <2>3 DEF Own
  <2>5. delivered.frame < image[1].frame
    <3>1. PICK L : L = Line
      OBVIOUS
    <3>2. L[1] = <<delivered>> /\ L[2] = image /\ InOrder(L)
      BY <2>2, <3>1, LinePlaces DEF Ordered
    <3>3. 1 \in DOMAIN L[1] /\ 1 \in DOMAIN L[2] /\ L[1][1] = delivered /\ L[2][1] = image[1]
      BY <2>2, <3>2
    <3>4. image[1].frame # 0
      BY <2>2 DEF Entry
    <3>5. 1 \in Places /\ 2 \in Places /\ 1 < 2
      BY DEF Places
    <3>6. L[1][1].frame < L[2][1].frame
      BY <3>2, <3>3, <3>4, <3>5 DEF InOrder
    <3> QED
      BY <3>3, <3>6
  <2> QED
    BY <2>1, <2>4, <2>5 DEF Ordered, DeliveredRight
<1>3. CASE ~TakeMetadata
  <2>1. delivered' = delivered
    BY <1>3 DEF Next, CallerStep, CallerGoesOn, Register, Decode, Configure, Release, Notifies,
       ReleaseStopsOutput, StopWorker,
       StopNotifies, ReleaseReturns, WorkerStep, WorkerLoop, DestroyStops, DestroyJoins,
       DestroyDeletes,
       CreateCodec, CreateReader, StartCodec, FeedBegins, Record, QueueInput, FrameEnds, DeviceStep,
       CodecDecodes, ImageArrives, FrameReleased, OnImageAvailable, OutputStep, OutLoop, DrainOne,
       DrainEnds, Notified, ReadCallback, Acquire, AcquireFails, Reset, ImageFails, Deliver, vars
  <2> QED
    BY <1>1, <2>1
<1> QED
  BY <1>1, <1>2, <1>3

-----------------------------------------------------------------------------
(* The theorems *)

\* A decoder begins with nothing.
LEMMA DecoderInit == Init => DecoderInv
<1> SUFFICES ASSUME Init PROVE DecoderInv
  OBVIOUS
<1>1. TypeOK
  <2>1. <<>> \in Seq(Entry) /\ Len(<<>>) = 0
    BY EmptySeq
  <2>2. CallerTyped
    BY DecoderAssumption DEF Init, CallerTyped
  <2>3. QueueTyped
    <3>1. <<>> \in Seq([kind : {"frame", "configure", "release"}, frame : 0..MaxFrames])
      BY EmptySeq
    <3>2. running_ = FALSE /\ pending_decode_tasks_ = 0 /\ tasks_ = <<>>
      BY DEF Init
    <3>3. running_ \in BOOLEAN
      BY <3>2
    <3>4. pending_decode_tasks_ \in 0..MaxFrames
      BY <3>2, DecoderAssumption
    <3>5. tasks_ \in Seq([kind : {"frame", "configure", "release"}, frame : 0..MaxFrames])
      BY <3>1, <3>2, Zenon
    <3> QED
      BY <3>3, <3>4, <3>5, Zenon DEF QueueTyped
  <2>4. WorkerTyped
    BY DecoderAssumption DEF Init, WorkerTyped, Task
  <2>5. FlagsTyped
    BY DEF Init, FlagsTyped
  <2>6. StampsTyped
    BY <2>1, DecoderAssumption DEF Init, StampsTyped
  <2>7. DeviceTyped
    BY <2>1, DecoderAssumption DEF Init, DeviceTyped
  <2>8. OutTyped
    <3>1. delivered \in [frame : 0..MaxFrames, meta : 0..MaxFrames, order : BOOLEAN]
      BY DecoderAssumption DEF Init
    <3> QED
      BY <2>1, <3>1 DEF Init, OutTyped
  <2> QED
    BY <2>2, <2>3, <2>4, <2>5, <2>6, <2>7, <2>8, TypeParts
<1>2. Waiting /\ Queued
  BY DEF Init, Waiting, Queued, OnlyFrames, Nothing, Task, ConfigureCalls, ReleaseCalls, Stopping
<1>3. Working
  BY DEF Init, Working, Task, None, Feeding
<1>4. Lifetimes /\ Returning /\ Cleared /\ Handy
  BY DEF Init, Lifetimes, Returning, Cleared, Handy, None, Stopping
<1>5. Quiet
  BY DEF Init, Quiet, ReleaseCalls, Stopping
<1>6. InHand = <<>> /\ Fed = <<>>
  BY DEF Init, InHand, Fed, Feeding, None
<1>7. Ordered
  <2>1. PICK L : L = Line
    OBVIOUS
  <2>2. /\ L[1] = <<[frame |-> 0, meta |-> 0, order |-> TRUE]>> /\ L[2] = <<>> /\ L[3] = <<>>
             /\ L[4] = <<>>
        /\ L[5] = <<>> /\ L[6] = <<>> /\ L[7] = <<>> /\ L[8] = <<>> /\ L[9] = <<Task("frame", 1)>>
    BY <1>6, <2>1, LinePlaces DEF Init
  <2>3. /\ \A s \in Places : \A i \in DOMAIN L[s] : s \in {1, 9} /\ i = 1
        /\ L[1][1].frame = 0 /\ L[9][1].frame = 1
    BY <2>2 DEF Places, Task
  <2>4. InOrder(L)
    BY <2>3 DEF InOrder
  <2>5. DeliveredRight
    BY DEF Init, DeliveredRight
  <2> QED
    BY <2>1, <2>4, <2>5 DEF Ordered
<1>8. Stamped
  <2>1. <<>> \in Seq(Own)
    BY EmptySeq
  <2> QED
    BY <1>6, <2>1 DEF Init, Stamped, None
<1> QED
  BY <1>1, <1>2, <1>3, <1>4, <1>5, <1>7, <1>8 DEF DecoderInv

\* Every step keeps the invariant.
LEMMA DecoderNext == DecoderInv /\ [Next]_vars => DecoderInv'
<1> SUFFICES ASSUME DecoderInv, [Next]_vars PROVE DecoderInv'
  OBVIOUS
<1>1. /\ TypeOK /\ Waiting /\ Queued /\ Working /\ Lifetimes /\ Returning /\ Cleared /\ Quiet
           /\ Handy
      /\ Ordered /\ Stamped /\ InOrder(Line)
  BY DEF DecoderInv, Ordered
<1>2. TypeOK' /\ Waiting' /\ Queued' /\ Working'
  BY <1>1, TypeNext, WaitingNext, QueuedNext, WorkingNext
<1>3. Lifetimes' /\ Returning' /\ Cleared' /\ Quiet' /\ Handy'
  BY <1>1, LifetimesNext, ReturningNext, ClearedNext, QuietNext, HandyNext
<1>4. InOrder(Line)' /\ DeliveredRight' /\ Stamped'
  BY <1>1, InOrderNext, DeliveredNext, StampedNext
<1> QED
  BY <1>2, <1>3, <1>4 DEF DecoderInv, Ordered

\* DecoderInv holds in every state of the decoder, for every choice of the
\* constants: callbacks, bounds, buffers, queue sizes and failures.
THEOREM DecoderInvariance == Spec => []DecoderInv
BY DecoderInit, DecoderNext, PTL DEF Spec

\* The variables have their types; at most MaxMetadata records wait for their
\* image and at most MaxImages images are held downstream.
THEOREM TypeCorrect == Spec => []TypeOK
<1>1. DecoderInv => TypeOK
  BY DEF DecoderInv
<1> QED
  BY <1>1, DecoderInvariance, PTL

\* Codec and reader exist as long as the output thread runs (DestroyCodec joins
\* it before it deletes them).
THEOREM OutputHasItsCodec == Spec => []CodecOutlivesOutput
<1>1. DecoderInv => CodecOutlivesOutput
  BY TypeParts DEF DecoderInv, Lifetimes, CodecOutlivesOutput, FlagsTyped, WorkerTyped
<1> QED
  BY <1>1, DecoderInvariance, PTL

\* No callback is called once a Release that followed its registration has
\* returned.
THEOREM SilentAfterRelease == Spec => []NoCallbackAfterRelease
<1>1. DecoderInv => NoCallbackAfterRelease
  BY DEF DecoderInv, Quiet, NoCallbackAfterRelease
<1> QED
  BY <1>1, DecoderInvariance, PTL

\* Frames are passed on in the order of their Decode calls, each with the
\* metadata of its own call.
THEOREM DeliversRight == Spec => []DeliveredRight
<1>1. DecoderInv => DeliveredRight
  BY DEF DecoderInv, Ordered
<1> QED
  BY <1>1, DecoderInvariance, PTL

\* Outside of Configure and Release there is codec, reader and output thread, or
\* none of them.
THEOREM ConfigureIsWhole == Spec => []AllOrNothing
<1>1. DecoderInv => AllOrNothing
  <2> SUFFICES ASSUME DecoderInv, job.kind \in {None, "frame"}
               PROVE  codec_ = image_reader_ /\ codec_ = output_running_
    BY DEF AllOrNothing
  <2>1. FlagsTyped /\ Working /\ Lifetimes
    BY TypeParts DEF DecoderInv
  <2>2. at \notin {"join", "delete", "create", "reader", "start"}
    BY <2>1 DEF Working, Feeding, None
  <2>3. (codec_ <=> output_running_) /\ (image_reader_ <=> output_running_)
    BY <2>1, <2>2 DEF Lifetimes
  <2>4. codec_ \in BOOLEAN /\ image_reader_ \in BOOLEAN /\ output_running_ \in BOOLEAN
    BY <2>1 DEF FlagsTyped
  <2> QED
    BY <2>3, <2>4, Zenon
<1> QED
  BY <1>1, DecoderInvariance, PTL

-----------------------------------------------------------------------------
(* The session.  The observer of SetRemoteDescription may come after the call  *)
(* returned: then candidates arrive while the flush is still to come, and one  *)
(* that is put into the queue behind it stays there; and a flush may come for  *)
(* the offer before while the next one is at its beginning.                    *)

\* A candidate in the buffer and one that was added.
Buffers == [cand : Nat, of : Nat]
Adds == [cand : Nat, of : Nat, pc : Nat, early : BOOLEAN]

\* The types of what the invariant is about.
SessionTyped ==
  /\ offers \in Nat /\ candidates \in Nat /\ peer_connection_ \in Nat
  /\ pending_ \in Seq(Buffers) /\ added \in Seq(Adds)

\* SetRemoteDescription calls whose observer is still to come.
SetRemotes == {op \in ops : op.kind = "setRemote"}

\* HandleOffer between ResetUnapplied and SetRemoteDescription: with the PeerConnection of the
\* offer before, and after that.
WithOld == {"clear", "create", "null"}
Making == {"null", "new", "transceiver", "created", "parsed"}

\* The PeerConnection is that of the offer before until it is replaced.
CurrentPc ==
  /\ io \in WithOld => peer_connection_ = 0 \/ peer_connection_ + 1 = offers
  /\ io \notin WithOld => peer_connection_ \in {0, offers}

\* What the invariants are about.
candidateVars ==
  <<offers, candidates, peer_connection_, pending_, added, applied_, overtaken, ops, io, rtc,
    remoteSet, start, closeStep, signaling_>>


\* A list with one more element.
LEMMA OneMore ==
  ASSUME NEW A, NEW s \in Seq(A), NEW e \in A
  PROVE  /\ Append(s, e) \in Seq(A) /\ Len(Append(s, e)) = Len(s) + 1
         /\ \A i \in 1..Len(s) : Append(s, e)[i] = s[i]
         /\ Append(s, e)[Len(s) + 1] = e
PROOF
  BY AppendProperties

\* A list followed by one that is given by a function.
LEMMA Followed ==
  ASSUME NEW A, NEW s \in Seq(A), NEW n \in Nat, NEW f \in [1..n -> A]
  PROVE  /\ f \in Seq(A) /\ Len(f) = n
         /\ s \o f \in Seq(A) /\ Len(s \o f) = Len(s) + n
         /\ \A i \in 1..(Len(s) + n) : (s \o f)[i] = IF i <= Len(s) THEN s[i] ELSE f[i - Len(s)]
PROOF
  <1>1. f \in Seq(A)
    BY SeqDef
  <1>2. Len(f) = n
    BY <1>1, LenProperties
  <1> QED BY <1>1, <1>2, ConcatProperties, LenProperties

\* CreateAnswer and SetLocalDescription are no SetRemoteDescription.
LEMMA AnswerLeaves ==
  ASSUME NEW op \in ops, CreateAnswerSucceeds(op) \/ AnswerFails(op) \/ SetLocalSucceeds(op)
  PROVE  SetRemotes' = SetRemotes
PROOF
  <1>1. op.kind # "setRemote"
    BY DEF CreateAnswerSucceeds, AnswerFails, SetLocalSucceeds, Outstanding
  <1>2. \/ ops' = ops \ {op}
        \/ ops' = (ops \ {op}) \union [kind : {"setLocal"}, pc : {peer_connection_} \ {0}]
    BY DEF CreateAnswerSucceeds, AnswerFails, SetLocalSucceeds
  <1>3. \A o \in [kind : {"setLocal"}, pc : {peer_connection_} \ {0}] : o.kind # "setRemote"
    OBVIOUS
  <1> QED BY <1>1, <1>2, <1>3, Zenon DEF SetRemotes

\* The flush calls CreateAnswer, which is none either.
LEMMA FlushLeaves ==
  ASSUME FlushAndAnswer
  PROVE  SetRemotes' = SetRemotes
PROOF
  <1>1. ops' = ops \union [kind : {"createAnswer"}, pc : {peer_connection_} \ {0}]
    BY DEF FlushAndAnswer, DoCreateAnswerAfterSetRemote
  <1>2. \A op \in [kind : {"createAnswer"}, pc : {peer_connection_} \ {0}] : op.kind # "setRemote"
    OBVIOUS
  <1> QED BY <1>1, <1>2, Zenon DEF SetRemotes

\* What the flush adds.
LEMMA FlushAdds ==
  ASSUME SessionTyped, FlushAndAnswer, peer_connection_ # 0
  PROVE  /\ added' \in Seq(Adds) /\ Len(added) \in Nat /\ Len(pending_) \in Nat
         /\ Len(added') = Len(added) + Len(pending_)
         /\ \A i \in 1..Len(pending_) : pending_[i] \in Buffers /\ ToAdd(pending_[i]) \in Adds
         /\ \A i \in 1..Len(added') :
              \/ i \in 1..Len(added) /\ added'[i] = added[i]
              \/ /\ i > Len(added) /\ i - Len(added) \in 1..Len(pending_)
                 /\ added'[i] = ToAdd(pending_[i - Len(added)])
PROOF
  <1> DEFINE n == Len(pending_)
             f == [i \in 1..n |-> ToAdd(pending_[i])]
  <1>1. pending_ \in Seq(Buffers) /\ n \in Nat /\ added \in Seq(Adds) /\ Len(added) \in Nat
    BY LenProperties DEF SessionTyped
  <1>2. added' = added \o f
    BY <1>1, LenProperties DEF FlushAndAnswer
  <1>3. ASSUME NEW i \in 1..n PROVE pending_[i] \in Buffers /\ ToAdd(pending_[i]) \in Adds
    <2>1. pending_[i] \in Buffers
      BY <1>1, ElementOfSeq
    <2> QED BY <2>1 DEF SessionTyped, Buffers, Adds, ToAdd
  <1>4. f \in [1..n -> Adds] /\ \A i \in 1..n : f[i] = ToAdd(pending_[i])
    BY <1>3
  <1> HIDE DEF n, f
  <1>5. /\ added \o f \in Seq(Adds) /\ Len(added \o f) = Len(added) + n
        /\ \A i \in 1..(Len(added) + n) :
             (added \o f)[i] = IF i <= Len(added) THEN added[i] ELSE f[i - Len(added)]
    <2>1. added \in Seq(Adds) /\ n \in Nat /\ f \in [1..n -> Adds]
      BY <1>1, <1>4
    <2> QED BY ONLY <2>1, Followed
  <1>6. /\ added' \in Seq(Adds) /\ Len(added') = Len(added) + n
        /\ \A i \in 1..(Len(added) + n) :
             added'[i] = IF i <= Len(added) THEN added[i] ELSE f[i - Len(added)]
    BY ONLY <1>2, <1>5
  <1>7. ASSUME NEW i \in 1..Len(added')
        PROVE  \/ i \in 1..Len(added) /\ added'[i] = added[i]
               \/ /\ i > Len(added) /\ i - Len(added) \in 1..n
                  /\ added'[i] = ToAdd(pending_[i - Len(added)])
    <2>1. CASE i <= Len(added)
      BY <1>1, <1>6, <2>1
    <2>2. CASE ~(i <= Len(added))
      <3>1. i > Len(added) /\ i - Len(added) \in 1..n /\ added'[i] = f[i - Len(added)]
        BY <1>1, <1>6, <2>2
      <3> QED BY <1>4, <3>1
    <2> QED BY <2>1, <2>2
  <1> QED BY <1>1, <1>3, <1>6, <1>7 DEF n

\* The calls that can still succeed, and the PeerConnection they are for.
LiveSets == {op \in SetRemotes : op.pc \notin pcClosed}
CalledOn == IF io \in {"clear", "create"} THEN peer_connection_ ELSE offers

\* The types that are needed besides.
SetsTyped ==
  /\ SessionTyped /\ rtc \in {"idle", "flush"}
  /\ \A op \in SetRemotes : op = [kind |-> "setRemote", pc |-> op.pc] /\ op.pc # 0

\* How far Start and Close are.  A PeerConnection that Close is about to forget while an offer
\* is at its beginning is closed.
ClosingInv ==
  /\ start \in {"none", "opening"} =>
       signaling_ = "none" /\ io = "idle" /\ closeStep = "none" /\ SetRemotes = {}
  /\ closeStep \in {"pc", "null", "emit", "done"} => signaling_ = "none"
  /\ closeStep = "null" /\ io \in {"clear", "create"} /\ peer_connection_ # 0 =>
       peer_connection_ \in pcClosed

\* One call at most can still succeed, that of the last offer that came so far.
OneLive ==
  /\ \A op \in LiveSets : op.pc = CalledOn
  /\ io \in Making => LiveSets = {}
  /\ LiveSets # {} /\ peer_connection_ = 0 => signaling_ # "up"

\* The last candidate that was put somewhere: the newest, or the one before while the IO
\* thread has the newest in its hands.
LastPlaced == IF io \in {"push", "add"} THEN candidates - 1 ELSE candidates

\* Is a flush under way or to come?
MayFlush == rtc = "flush" \/ LiveSets # {}

\* What was added comes before what a flush would add, each in the order of arrival.
Rising ==
  /\ \A i, j \in 1..Len(added) : i < j => added[i].cand < added[j].cand
  /\ \A i, j \in 1..Len(pending_) : i < j => pending_[i].cand < pending_[j].cand
  /\ MayFlush => \A i \in 1..Len(added), j \in 1..Len(pending_) : added[i].cand < pending_[j].cand
  /\ \A i \in 1..Len(added) : added[i].cand <= LastPlaced
  /\ \A j \in 1..Len(pending_) : pending_[j].cand <= LastPlaced

\* Nothing waits from an earlier offer when a call is made, and nothing for a flush that is to
\* come where candidates are added at once.
NoneWaits ==
  /\ io \in {"create"} \cup Making => pending_ = <<>>
  /\ LiveSets # {} /\ applied_ => pending_ = <<>> /\ io # "push"
  /\ LiveSets # {} /\ io = "add" => pending_ = <<>>

\* What every step keeps of the order.
OrderInv ==
  SetsTyped /\ CurrentPc /\ ClosingInv /\ OneLive /\ Rising /\ NoneWaits

\* What OrderInv is about.
orderVars == <<candidateVars, pcClosed>>

\* Before the first candidate.
LEMMA OrderInit ==
  ASSUME InitSession
  PROVE  OrderInv
PROOF
  <1>1. SessionTyped /\ CurrentPc /\ ops = {}
    <2>1. \A X : <<>> \in Seq(X)
      BY EmptySeq, Zenon
    <2> QED BY <2>1 DEF InitSession, SessionTyped, CurrentPc, WithOld
  <1>2. SetRemotes = {} /\ LiveSets = {}
    BY <1>1 DEF SetRemotes, LiveSets
  <1>3. SetsTyped /\ ClosingInv /\ OneLive
    BY <1>1, <1>2 DEF InitSession, SetsTyped, ClosingInv, OneLive
  <1>4. Rising /\ NoneWaits
    BY <1>2 DEF InitSession, Rising, NoneWaits
  <1> QED BY <1>1, <1>3, <1>4 DEF OrderInv

\* The order stays when candidates are only taken out of the queue, if anything, and no new
\* flush is to come.
LEMMA RisingStays ==
  ASSUME Rising, candidates' = candidates, added' = added,
         pending_' = pending_ \/ pending_' = <<>>,
         io' = io \/ (io \notin {"push", "add"} /\ io' \notin {"push", "add"}),
         MayFlush' => MayFlush \/ pending_' = <<>>
  PROVE  Rising'
PROOF
  <1>1. LastPlaced' = LastPlaced
    BY DEF LastPlaced
  <1>2. CASE pending_' = <<>>
    <2>1. \A j \in 1..Len(pending_') : FALSE
      BY <1>2
    <2> QED BY <1>1, <2>1 DEF Rising
  <1>3. CASE pending_' = pending_ /\ pending_' # <<>>
    BY <1>1, <1>3 DEF Rising
  <1> QED BY <1>2, <1>3

\* The same for the calls: none is new, none comes back.
LEMMA SetsStay ==
  ASSUME SetsTyped, SetRemotes' \subseteq SetRemotes, pcClosed \subseteq pcClosed',
         UNCHANGED <<offers, candidates, added>>, peer_connection_' \in Nat,
         pending_' = pending_ \/ pending_' = <<>>, rtc' \in {"idle", "flush"}
  PROVE  SetsTyped' /\ LiveSets' \subseteq LiveSets
PROOF
  <1>1. \A X : <<>> \in Seq(X)
    BY EmptySeq, Zenon
  <1>2. SessionTyped'
    BY <1>1 DEF SetsTyped, SessionTyped
  <1>3. LiveSets' \subseteq LiveSets
    BY DEF LiveSets
  <1> QED BY <1>2, <1>3 DEF SetsTyped

\* The steps that change nothing the invariant is about.
LEMMA OrderStays ==
  ASSUME OrderInv, UNCHANGED orderVars
  PROVE  OrderInv'
PROOF
  <1>1. UNCHANGED candidateVars /\ pcClosed' = pcClosed
    BY DEF orderVars
  <1>2. SetRemotes' = SetRemotes /\ LiveSets' = LiveSets
    BY <1>1 DEF SetRemotes, LiveSets, candidateVars
  <1>3. SetsTyped' /\ CurrentPc' /\ ClosingInv' /\ OneLive'
    BY <1>1, <1>2 DEF OrderInv, candidateVars, SetsTyped, SessionTyped, CurrentPc, ClosingInv,
                      OneLive, CalledOn
  <1>4. Rising' /\ NoneWaits'
    BY <1>1, <1>2 DEF OrderInv, candidateVars, Rising, NoneWaits, LastPlaced, MayFlush
  <1> QED BY <1>3, <1>4 DEF OrderInv

\* Start, and the steps of Close.
LEMMA OrderLife ==
  ASSUME OrderInv,
         \/ StartBegins \/ StartSucceeds \/ StartFails
         \/ CloseSteps
         \/ \E t \in Threads : CloseBegins(t)
  PROVE  OrderInv'
PROOF
  <1>1. /\ UNCHANGED <<offers, candidates, added, ops, io, rtc>>
        /\ pcClosed \subseteq pcClosed' /\ (pending_' = pending_ \/ pending_' = <<>>)
        /\ peer_connection_' = peer_connection_ \/ (CloseNulls /\ peer_connection_' = 0)
        /\ applied_' = applied_ \/ ~applied_'
    BY DEF StartBegins, StartSucceeds, StartFails, CloseSteps, StopWatchdogThread,
           CloseRemovesSink, CloseSignaling, ClosePeerConnection, CloseNulls, CloseEmits,
           CloseBegins, buffer, webrtc, inputs
  <1>2. SetsTyped /\ CurrentPc /\ ClosingInv /\ OneLive /\ Rising /\ NoneWaits
    BY DEF OrderInv
  <1>3. SetRemotes' = SetRemotes /\ peer_connection_' \in Nat
    BY <1>1, <1>2 DEF SetRemotes, SetsTyped, SessionTyped
  <1>4. SetsTyped' /\ LiveSets' \subseteq LiveSets
    BY <1>1, <1>2, <1>3, SetsStay DEF SetsTyped
  <1>5. CurrentPc'
    BY <1>1, <1>2 DEF CurrentPc
  <1>6. Rising'
    BY <1>1, <1>2, <1>4, RisingStays DEF MayFlush
  <1>7. NoneWaits'
    BY <1>1, <1>2, <1>4 DEF NoneWaits, Making
  <1>8. CASE StartBegins \/ StartSucceeds \/ StartFails
    <2>1. /\ closeStep' = closeStep /\ start \in {"none", "opening"}
          /\ UNCHANGED <<peer_connection_, pcClosed>>
      BY <1>8 DEF StartBegins, StartSucceeds, StartFails, closing, webrtc
    <2>2. \/ start' = "opening" /\ signaling_' = signaling_
          \/ start' \in {"ok", "failed"}
      BY <1>8 DEF StartBegins, StartSucceeds, StartFails
    <2>3. SetRemotes' = {} /\ LiveSets' = {}
      BY <1>2, <1>3, <1>4, <2>1 DEF ClosingInv, LiveSets
    <2>4. ClosingInv' /\ OneLive'
      BY <1>1, <1>2, <2>1, <2>2, <2>3 DEF ClosingInv, OneLive
    <2> QED BY <1>4, <1>5, <1>6, <1>7, <2>4 DEF OrderInv
  <1>9. CASE CloseSteps /\ ~CloseNulls
    <2>1. /\ closeStep # "none" /\ start' = start /\ peer_connection_' = peer_connection_
          /\ \/ closeStep' \in {"remove", "signaling"} /\ signaling_' = signaling_
             \/ closeStep' \in {"pc", "emit", "done"} /\ signaling_' = "none"
             \/ /\ closeStep' = "null" /\ signaling_' = "none"
                /\ peer_connection_ \in pcClosed'
      BY <1>2, <1>9 DEF CloseSteps, StopWatchdogThread, CloseRemovesSink, CloseSignaling,
                        ClosePeerConnection, CloseEmits, ClosingInv
    <2>2. ClosingInv'
      BY <1>1, <1>2, <2>1 DEF ClosingInv
    <2>3. OneLive'
      <3>1. signaling_' \in {"none", signaling_}
        BY <2>1
      <3> QED BY <1>1, <1>2, <1>4, <2>1, <3>1 DEF OneLive, CalledOn
    <2> QED BY <1>4, <1>5, <1>6, <1>7, <2>2, <2>3 DEF OrderInv
  <1>10. CASE CloseNulls
    <2>1. /\ closeStep = "null" /\ closeStep' = "emit" /\ UNCHANGED <<start, signaling_, pcClosed>>
      BY <1>10 DEF CloseNulls, webrtc
    <2>2. signaling_ = "none" /\ start \notin {"none", "opening"}
      BY <1>2, <2>1 DEF ClosingInv
    <2>3. ClosingInv'
      BY <1>1, <2>1, <2>2 DEF ClosingInv
    <2>4. io \in {"clear", "create"} => LiveSets = {}
      BY <1>2, <2>1 DEF ClosingInv, OneLive, CalledOn, LiveSets, SetsTyped
    <2>5. OneLive'
      BY <1>1, <1>2, <1>4, <2>1, <2>2, <2>4 DEF OneLive, CalledOn
    <2> QED BY <1>4, <1>5, <1>6, <1>7, <2>3, <2>5 DEF OrderInv
  <1>11. CASE \E t \in Threads : CloseBegins(t)
    <2>1. /\ closeStep' = "join" /\ start \in {"ok", "failed"}
          /\ UNCHANGED <<start, signaling_, peer_connection_>>
      BY <1>11 DEF CloseBegins, MayClose
    <2>2. ClosingInv' /\ OneLive'
      BY <1>1, <1>2, <1>4, <2>1 DEF ClosingInv, OneLive, CalledOn
    <2> QED BY <1>4, <1>5, <1>6, <1>7, <2>2 DEF OrderInv
  <1> QED BY <1>8, <1>9, <1>10, <1>11

\* HandleOffer, and the end of the connection.
LEMMA OrderOffer ==
  ASSUME OrderInv,
         \/ OfferBegins \/ OfferClears \/ CreateClosesOld \/ CreateNullsOld
         \/ CreatePeerConnectionLocked \/ AddVideoTransceiver \/ OfferParsed
         \/ OfferReturns \/ OnSignalError
  PROVE  OrderInv'
PROOF
  <1> USE DEF WithOld, Making
  <1>1. /\ UNCHANGED <<candidates, added, ops, rtc, remoteSet, start, closeStep>>
        /\ pcClosed \subseteq pcClosed' /\ (pending_' = pending_ \/ pending_' = <<>>)
        /\ applied_' = applied_ \/ ~applied_'
        /\ io \notin {"push", "add"} /\ io' \notin {"push", "add"}
        /\ signaling_' \in {signaling_, "broken"}
    BY DEF OfferBegins, OfferClears, CreateClosesOld, CreateNullsOld, CreatePeerConnectionLocked,
           AddVideoTransceiver, OfferParsed, OfferReturns, OnSignalError, IoReady, buffer, webrtc,
           inputs, closing
  <1>2. SetsTyped /\ CurrentPc /\ ClosingInv /\ OneLive /\ Rising /\ NoneWaits
    BY DEF OrderInv
  <1>3. /\ start \notin {"none", "opening"} /\ SetRemotes' = SetRemotes
        /\ LiveSets' \subseteq LiveSets /\ offers \in Nat /\ peer_connection_ \in Nat
    <2>1. start \notin {"none", "opening"}
      BY <1>2 DEF OfferBegins, OfferClears, CreateClosesOld, CreateNullsOld,
                  CreatePeerConnectionLocked, AddVideoTransceiver, OfferParsed, OfferReturns,
                  OnSignalError, IoReady, ClosingInv
    <2> QED BY <1>1, <1>2, <2>1 DEF SetRemotes, LiveSets, SetsTyped, SessionTyped
  <1>4. Rising'
    BY <1>1, <1>2, <1>3, RisingStays DEF MayFlush
  <1>5. SetsTyped'
    <2>1. offers' \in Nat /\ peer_connection_' \in Nat
      <3>1. offers' \in {offers, offers + 1}
            /\ peer_connection_' \in {0, offers, peer_connection_}
        BY DEF OfferBegins, OfferClears, CreateClosesOld, CreateNullsOld,
               CreatePeerConnectionLocked, AddVideoTransceiver, OfferParsed, OfferReturns,
               OnSignalError, inputs
      <3> QED BY <1>3, <3>1
    <2>2. \A X : <<>> \in Seq(X)
      BY EmptySeq, Zenon
    <2>3. SessionTyped'
      BY <1>1, <1>2, <2>1, <2>2 DEF SetsTyped, SessionTyped
    <2> QED BY <1>1, <1>2, <1>3, <2>3 DEF SetsTyped
  <1>6. CASE OfferBegins
    <2>1. /\ io = "idle" /\ io' = "clear" /\ signaling_ = "up" /\ ~applied_'
          /\ offers' = offers + 1 /\ UNCHANGED <<peer_connection_, pcClosed, signaling_>>
      BY <1>6 DEF OfferBegins, IoReady, webrtc
    <2>2. CurrentPc' /\ NoneWaits'
      BY <1>2, <1>3, <2>1 DEF CurrentPc, NoneWaits
    <2>3. ClosingInv'
      BY <1>1, <1>2, <1>3, <2>1 DEF ClosingInv
    <2>4. OneLive'
      BY <1>2, <1>3, <2>1 DEF OneLive, CalledOn, CurrentPc
    <2> QED BY <1>4, <1>5, <2>2, <2>3, <2>4 DEF OrderInv
  <1>7. CASE OfferClears
    <2>1. /\ io = "clear" /\ io' = "create" /\ pending_' = <<>>
          /\ UNCHANGED <<offers, peer_connection_, pcClosed, signaling_>>
      BY <1>7 DEF OfferClears, webrtc, inputs
    <2>2. CurrentPc' /\ NoneWaits'
      BY <1>2, <2>1 DEF CurrentPc, NoneWaits
    <2>3. ClosingInv' /\ OneLive'
      BY <1>1, <1>2, <1>3, <2>1 DEF ClosingInv, OneLive, CalledOn
    <2> QED BY <1>4, <1>5, <2>2, <2>3 DEF OrderInv
  <1>8. CASE CreateClosesOld
    <2>1. /\ io = "create" /\ io' = IF peer_connection_ = 0 THEN "new" ELSE "null"
          /\ {peer_connection_} \ {0} \subseteq pcClosed'
          /\ UNCHANGED <<offers, pending_, signaling_, peer_connection_>>
      BY <1>8 DEF CreateClosesOld, inputs, buffer
    <2>2. LiveSets' = {}
      <3>1. \A op \in LiveSets : op.pc = peer_connection_ /\ op.pc # 0
        BY <1>2, <2>1 DEF OneLive, CalledOn, LiveSets, SetsTyped
      <3> QED BY <1>3, <2>1, <3>1 DEF LiveSets
    <2>3. CurrentPc' /\ NoneWaits' /\ ClosingInv' /\ OneLive'
      BY <1>1, <1>2, <1>3, <2>1, <2>2 DEF CurrentPc, NoneWaits, ClosingInv, OneLive
    <2> QED BY <1>4, <1>5, <2>3 DEF OrderInv
  <1>9. CASE CreateNullsOld \/ CreatePeerConnectionLocked \/ AddVideoTransceiver
    <2>1. /\ io \in {"null", "new", "transceiver"} /\ io' \in {"new", "transceiver", "created"}
          /\ peer_connection_' \in {0, offers, peer_connection_}
          /\ io = "null" => peer_connection_' = 0
          /\ UNCHANGED <<offers, pending_, signaling_>>
      BY <1>9 DEF CreateNullsOld, CreatePeerConnectionLocked, AddVideoTransceiver, inputs, buffer
    <2>2. LiveSets' = {}
      BY <1>2, <1>3, <2>1 DEF OneLive
    <2>3. CurrentPc' /\ NoneWaits' /\ ClosingInv' /\ OneLive'
      BY <1>1, <1>2, <1>3, <2>1, <2>2 DEF CurrentPc, NoneWaits, ClosingInv, OneLive
    <2> QED BY <1>4, <1>5, <2>3 DEF OrderInv
  <1>10. CASE OfferParsed \/ OfferReturns \/ OnSignalError
    <2>1. /\ UNCHANGED <<offers, pending_, peer_connection_, pcClosed, applied_>>
          /\ \/ io = "created" /\ io' \in {"idle", "parsed"}
             \/ io = "applying" /\ io' = "idle"
             \/ io = "idle" /\ io' = "idle"
          /\ signaling_' = signaling_ \/ signaling_ = "up"
      BY <1>10 DEF OfferParsed, OfferReturns, OnSignalError, IoReady, inputs, buffer, webrtc
    <2>2. CurrentPc' /\ NoneWaits' /\ ClosingInv' /\ OneLive'
      BY <1>1, <1>2, <1>3, <2>1 DEF CurrentPc, NoneWaits, ClosingInv, OneLive, CalledOn
    <2> QED BY <1>4, <1>5, <2>2 DEF OrderInv
  <1> QED BY <1>6, <1>7, <1>8, <1>9, <1>10

\* The call of SetRemoteDescription: nothing waits yet.
LEMMA OrderApplies ==
  ASSUME OrderInv, OfferApplies
  PROVE  OrderInv'
PROOF
  <1>1. /\ UNCHANGED <<offers, candidates, peer_connection_, pending_, added, applied_, rtc,
                       remoteSet, pcClosed, start, closeStep, signaling_>>
        /\ io = "parsed" /\ io' = "applying"
        /\ ops' = ops \union [kind : {"setRemote"}, pc : {peer_connection_} \ {0}]
    BY DEF OfferApplies, buffer, inputs, closing
  <1>2. SetsTyped /\ CurrentPc /\ ClosingInv /\ OneLive /\ Rising /\ NoneWaits
    BY DEF OrderInv
  <1>3. pending_ = <<>> /\ start \notin {"none", "opening"}
    BY <1>1, <1>2 DEF NoneWaits, ClosingInv, Making
  <1>4. \A op \in SetRemotes' :
          op \in SetRemotes \/ (op = [kind |-> "setRemote", pc |-> offers] /\ peer_connection_ # 0)
    <2>1. \A op \in [kind : {"setRemote"}, pc : {peer_connection_} \ {0}] :
            op = [kind |-> "setRemote", pc |-> peer_connection_] /\ peer_connection_ # 0
      OBVIOUS
    <2>2. peer_connection_ # 0 => peer_connection_ = offers
      BY <1>1, <1>2 DEF CurrentPc, WithOld
    <2> QED BY <1>1, <2>1, <2>2 DEF SetRemotes
  <1>5. SetsTyped'
    <2>1. \A op \in SetRemotes' : op = [kind |-> "setRemote", pc |-> op.pc] /\ op.pc # 0
      <3> SUFFICES ASSUME NEW op \in SetRemotes'
                   PROVE  op = [kind |-> "setRemote", pc |-> op.pc] /\ op.pc # 0
        OBVIOUS
      <3>1. CASE op \in SetRemotes
        BY <1>2, <3>1 DEF SetsTyped
      <3>2. CASE op = [kind |-> "setRemote", pc |-> offers] /\ peer_connection_ # 0
        BY <1>1, <1>2, <3>2 DEF CurrentPc, WithOld
      <3> QED BY <1>4, <3>1, <3>2
    <2> QED BY <1>1, <1>2, <2>1 DEF SetsTyped, SessionTyped
  <1>6. CurrentPc' /\ ClosingInv' /\ NoneWaits'
    BY <1>1, <1>2, <1>3 DEF CurrentPc, ClosingInv, NoneWaits, WithOld, Making
  <1>7. OneLive'
    <2>1. \A op \in LiveSets' : op.pc = offers
      BY <1>1, <1>2, <1>4 DEF LiveSets, OneLive, CalledOn
    <2>2. peer_connection_ = 0 => LiveSets' \subseteq LiveSets
      BY <1>1, <1>4 DEF LiveSets
    <2> QED BY <1>1, <1>2, <2>1, <2>2 DEF OneLive, CalledOn, Making
  <1>8. Rising'
    BY <1>1, <1>2, <1>3, RisingStays
  <1> QED BY <1>5, <1>6, <1>7, <1>8 DEF OrderInv

\* The observer of SetRemoteDescription, up to the flush: no other call can still succeed.
LEMMA OrderObserver ==
  ASSUME OrderInv, NEW op \in ops, SetRemoteSucceeds(op) \/ SetRemoteFails(op)
  PROVE  OrderInv'
PROOF
  <1>1. /\ UNCHANGED <<offers, candidates, peer_connection_, added, io, start, closeStep,
                       signaling_, pcClosed>>
        /\ ops' = ops \ {op} /\ op \in SetRemotes
        /\ pending_' = pending_ \/ pending_' = <<>>
    BY DEF SetRemoteSucceeds, SetRemoteFails, inputs, closing, Outstanding, SetRemotes
  <1>2. SetsTyped /\ CurrentPc /\ ClosingInv /\ OneLive /\ Rising /\ NoneWaits
    BY DEF OrderInv
  <1>3. SetRemotes' = SetRemotes \ {op} /\ LiveSets' = LiveSets \ {op}
    BY <1>1 DEF SetRemotes, LiveSets
  <1>4. rtc' \in {"idle", "flush"} /\ peer_connection_' \in Nat
    BY <1>1, <1>2 DEF SetRemoteSucceeds, SetRemoteFails, SetsTyped, SessionTyped
  <1>5. SetsTyped'
    BY <1>1, <1>2, <1>3, <1>4, SetsStay
  <1>6. CurrentPc' /\ OneLive'
    BY <1>1, <1>2, <1>3 DEF CurrentPc, OneLive, CalledOn
  <1>7. ClosingInv'
    BY <1>1, <1>2, <1>3 DEF ClosingInv
  <1>8. CASE SetRemoteSucceeds(op)
    <2>1. op \in LiveSets /\ pending_' = pending_
      BY <1>1, <1>8 DEF SetRemoteSucceeds, LiveSets
    <2>2. LiveSets' = {}
      <3>1. \A o \in LiveSets : o.pc = op.pc /\ o \in SetRemotes
        BY <1>2, <2>1 DEF OneLive, LiveSets
      <3>2. \A o \in LiveSets : o = op
        BY <1>1, <1>2, <3>1 DEF SetsTyped
      <3> QED BY <1>3, <3>2
    <2>3. NoneWaits'
      BY <1>1, <1>2, <2>1, <2>2 DEF NoneWaits, Making
    <2>4. Rising'
      BY <1>1, <1>2, <2>1, RisingStays DEF MayFlush
    <2> QED BY <1>5, <1>6, <1>7, <2>3, <2>4 DEF OrderInv
  <1>9. CASE SetRemoteFails(op)
    <2>1. ~applied_' /\ pending_' = <<>> /\ rtc' = rtc
      BY <1>9 DEF SetRemoteFails
    <2>2. NoneWaits' /\ Rising'
      BY <1>1, <1>2, <2>1, RisingStays DEF NoneWaits, Making
    <2> QED BY <1>5, <1>6, <1>7, <2>2 DEF OrderInv
  <1> QED BY <1>8, <1>9

\* The answer, which is nothing to the buffer.
LEMMA OrderAnswer ==
  ASSUME OrderInv, NEW op \in ops,
         CreateAnswerSucceeds(op) \/ AnswerFails(op) \/ SetLocalSucceeds(op)
  PROVE  OrderInv'
PROOF
  <1>1. UNCHANGED <<offers, candidates, peer_connection_, pending_, added, applied_, io, rtc,
                    remoteSet, pcClosed, start, closeStep, signaling_>>
    BY DEF CreateAnswerSucceeds, AnswerFails, SetLocalSucceeds, inputs, closing, buffer
  <1>2. SetRemotes' = SetRemotes
    BY AnswerLeaves
  <1>3. LiveSets' = LiveSets
    BY <1>1, <1>2 DEF LiveSets
  <1>4. SetsTyped' /\ CurrentPc' /\ ClosingInv' /\ OneLive'
    BY <1>1, <1>2, <1>3 DEF OrderInv, SetsTyped, SessionTyped, CurrentPc, ClosingInv, OneLive,
                            CalledOn
  <1>5. Rising' /\ NoneWaits'
    BY <1>1, <1>3 DEF OrderInv, Rising, NoneWaits, LastPlaced, MayFlush
  <1> QED BY <1>4, <1>5 DEF OrderInv

\* The flush appends what waits to what was added.
LEMMA OrderFlush ==
  ASSUME OrderInv, FlushAndAnswer
  PROVE  OrderInv'
PROOF
  <1>1. /\ UNCHANGED <<offers, candidates, peer_connection_, applied_, io, start, closeStep,
                       signaling_, pcClosed>>
        /\ rtc = "flush" /\ rtc' = "idle" /\ pending_' = <<>>
    BY DEF FlushAndAnswer, inputs, closing
  <1>2. SetsTyped /\ CurrentPc /\ ClosingInv /\ OneLive /\ Rising /\ NoneWaits
    BY DEF OrderInv
  <1>3. SetRemotes' = SetRemotes /\ LiveSets' = LiveSets
    BY <1>1, FlushLeaves DEF LiveSets
  <1>4. CurrentPc' /\ ClosingInv' /\ OneLive' /\ NoneWaits'
    BY <1>1, <1>2, <1>3 DEF CurrentPc, ClosingInv, OneLive, CalledOn, NoneWaits
  <1>5. CASE added' = added
    <2>1. SetsTyped'
      BY <1>1, <1>2, <1>3, <1>5, SetsStay DEF SetsTyped, SessionTyped
    <2>2. Rising'
      BY <1>1, <1>2, <1>5, RisingStays
    <2> QED BY <1>4, <2>1, <2>2 DEF OrderInv
  <1>6. CASE peer_connection_ # 0
    <2>1. SessionTyped /\ Len(added) \in Nat /\ Len(pending_) \in Nat
      BY <1>2, <1>6, FlushAdds DEF SetsTyped
    <2>2. SetsTyped'
      <3>1. added' \in Seq(Adds)
        BY <1>6, <2>1, FlushAdds
      <3>2. \A X : <<>> \in Seq(X)
        BY EmptySeq, Zenon
      <3>3. SessionTyped'
        BY <1>1, <2>1, <3>1, <3>2 DEF SessionTyped
      <3> QED BY <1>1, <1>2, <1>3, <3>3 DEF SetsTyped
    <2>3. ASSUME NEW i \in 1..Len(added')
          PROVE  \/ i \in 1..Len(added) /\ added'[i].cand = added[i].cand
                 \/ /\ i > Len(added) /\ i - Len(added) \in 1..Len(pending_)
                    /\ added'[i].cand = pending_[i - Len(added)].cand
      <3>1. \A j \in 1..Len(pending_) : ToAdd(pending_[j]).cand = pending_[j].cand
        BY DEF ToAdd
      <3>2. \/ i \in 1..Len(added) /\ added'[i] = added[i]
            \/ /\ i > Len(added) /\ i - Len(added) \in 1..Len(pending_)
               /\ added'[i] = ToAdd(pending_[i - Len(added)])
        BY <1>6, <2>1, FlushAdds
      <3> QED BY <3>1, <3>2
    <2>4. \A i, j \in 1..Len(added') : i < j => added'[i].cand < added'[j].cand
      <3> SUFFICES ASSUME NEW i \in 1..Len(added'), NEW j \in 1..Len(added'), i < j
                   PROVE  added'[i].cand < added'[j].cand
        OBVIOUS
      <3>1. CASE j \in 1..Len(added) /\ added'[j].cand = added[j].cand
        <4>1. i \in 1..Len(added) /\ added'[i].cand = added[i].cand
          BY <2>1, <2>3, <3>1
        <4> QED BY <1>2, <3>1, <4>1 DEF Rising
      <3>2. CASE /\ j > Len(added) /\ j - Len(added) \in 1..Len(pending_)
                 /\ added'[j].cand = pending_[j - Len(added)].cand
        <4>1. CASE i \in 1..Len(added) /\ added'[i].cand = added[i].cand
          BY <1>1, <1>2, <3>2, <4>1 DEF Rising, MayFlush
        <4>2. CASE /\ i - Len(added) \in 1..Len(pending_)
                   /\ added'[i].cand = pending_[i - Len(added)].cand
          <5>1. i - Len(added) < j - Len(added)
            BY <2>1
          <5> QED BY <1>2, <3>2, <4>2, <5>1 DEF Rising
        <4> QED BY <2>3, <4>1, <4>2
      <3> QED BY <2>3, <3>1, <3>2
    <2>5. LastPlaced' = LastPlaced
      BY <1>1 DEF LastPlaced
    <2>6. \A i \in 1..Len(added') : added'[i].cand <= LastPlaced
      BY <1>2, <2>3 DEF Rising
    <2>7. \A j \in 1..Len(pending_') : FALSE
      BY <1>1
    <2>8. Rising'
      BY <2>4, <2>5, <2>6, <2>7 DEF Rising
    <2> QED BY <1>4, <2>2, <2>8 DEF OrderInv
  <1>7. peer_connection_ = 0 => added' = added
    BY DEF FlushAndAnswer
  <1> QED BY <1>5, <1>6, <1>7

\* A candidate arrives and is put into the queue or added.
LEMMA OrderIce ==
  ASSUME OrderInv, IceArrives \/ Push \/ AddRemoteIceCandidateNow
  PROVE  OrderInv'
PROOF
  <1>1. UNCHANGED <<offers, peer_connection_, applied_, ops, rtc, remoteSet, pcClosed, start,
                    closeStep, signaling_>>
    BY DEF IceArrives, Push, AddRemoteIceCandidateNow, buffer, inputs, closing, webrtc
  <1>2. SetsTyped /\ CurrentPc /\ ClosingInv /\ OneLive /\ Rising /\ NoneWaits /\ SessionTyped
    BY DEF OrderInv, SetsTyped
  <1>3. /\ candidates \in Nat /\ offers \in Nat /\ peer_connection_ \in Nat
        /\ pending_ \in Seq(Buffers) /\ added \in Seq(Adds)
        /\ Len(pending_) \in Nat /\ Len(added) \in Nat
    BY <1>2, LenProperties DEF SessionTyped
  <1>4. /\ \A j \in 1..Len(pending_) : pending_[j].cand \in Nat
        /\ \A i \in 1..Len(added) : added[i].cand \in Nat
    <2>1. /\ \A j \in 1..Len(pending_) : pending_[j] \in Buffers
          /\ \A i \in 1..Len(added) : added[i] \in Adds
      BY <1>3, ElementOfSeq
    <2> QED BY <2>1 DEF Buffers, Adds
  <1>5. SetRemotes' = SetRemotes /\ LiveSets' = LiveSets
    BY <1>1 DEF SetRemotes, LiveSets
  <1>6. io \in {"idle", "push", "add"} /\ io' \in {"idle", "push", "add"}
    BY DEF IceArrives, Push, AddRemoteIceCandidateNow, IoReady
  <1>7. CurrentPc' /\ ClosingInv' /\ OneLive'
    <2>1. start \notin {"none", "opening"}
      BY <1>2 DEF IceArrives, Push, AddRemoteIceCandidateNow, IoReady, ClosingInv
    <2> QED BY <1>1, <1>2, <1>5, <1>6, <2>1 DEF CurrentPc, ClosingInv, OneLive, CalledOn, WithOld,
                                                Making
  <1>8. SessionTyped' => SetsTyped'
    BY <1>1, <1>2, <1>5 DEF SetsTyped
  <1>9. MayFlush' = MayFlush
    BY <1>1, <1>5 DEF MayFlush
  <1>10. CASE IceArrives
    <2>1. /\ candidates' = candidates + 1 /\ UNCHANGED <<pending_, added>>
          /\ io = "idle" /\ signaling_ = "up"
          /\ io' = IF peer_connection_ = 0 \/ ~applied_ THEN "push" ELSE "add"
      BY <1>10 DEF IceArrives, IoReady, buffer
    <2>2. LastPlaced' = candidates /\ LastPlaced = candidates
      BY <1>3, <2>1 DEF LastPlaced
    <2>3. SessionTyped'
      BY <1>1, <1>2, <2>1 DEF SessionTyped
    <2>4. Rising'
      BY <1>2, <1>9, <2>1, <2>2 DEF Rising
    <2>5. NoneWaits'
      BY <1>1, <1>2, <1>5, <2>1 DEF NoneWaits, OneLive, Making
    <2> QED BY <1>7, <1>8, <2>3, <2>4, <2>5 DEF OrderInv
  <1>11. CASE Push
    <2> DEFINE e == [cand |-> candidates, of |-> offers]
    <2>1. /\ io = "push" /\ io' = "idle" /\ pending_' = Append(pending_, e)
          /\ UNCHANGED <<candidates, added>>
      BY <1>11 DEF Push, inputs
    <2>2. e \in Buffers /\ e.cand = candidates
      BY <1>3 DEF Buffers
    <2>3. LastPlaced' = candidates /\ LastPlaced = candidates - 1
      BY <2>1 DEF LastPlaced
    <2> HIDE DEF e
    <2>4. /\ pending_' \in Seq(Buffers) /\ Len(pending_') = Len(pending_) + 1
          /\ \A i \in 1..Len(pending_) : pending_'[i] = pending_[i]
          /\ pending_'[Len(pending_) + 1] = e
      BY <1>3, <2>1, <2>2, OneMore
    <2>5. /\ \A j \in 1..Len(pending_) : pending_[j].cand < candidates
          /\ \A i \in 1..Len(added) : added[i].cand < candidates
      BY <1>2, <1>3, <1>4, <2>3 DEF Rising
    <2>6. ASSUME NEW j \in 1..Len(pending_')
          PROVE  \/ j \in 1..Len(pending_) /\ pending_'[j] = pending_[j]
                 \/ j = Len(pending_) + 1 /\ pending_'[j].cand = candidates
      BY <1>3, <2>2, <2>4
    <2>7. /\ \A j \in 1..Len(pending_') : pending_'[j].cand <= candidates
          /\ MayFlush =>
               \A i \in 1..Len(added), j \in 1..Len(pending_') : added[i].cand < pending_'[j].cand
      <3> SUFFICES ASSUME NEW j \in 1..Len(pending_')
                   PROVE  /\ pending_'[j].cand <= candidates
                          /\ MayFlush => \A i \in 1..Len(added) : added[i].cand < pending_'[j].cand
        OBVIOUS
      <3>1. CASE j \in 1..Len(pending_) /\ pending_'[j] = pending_[j]
        <4>1. pending_[j].cand \in Nat /\ pending_[j].cand < candidates
          BY <1>4, <2>5, <3>1
        <4>2. MayFlush => \A i \in 1..Len(added) : added[i].cand < pending_[j].cand
          BY <1>2, <3>1 DEF Rising
        <4> QED BY <1>3, <3>1, <4>1, <4>2
      <3>2. CASE pending_'[j].cand = candidates
        BY <1>3, <2>5, <3>2
      <3> QED BY <2>6, <3>1, <3>2
    <2>8. \A i, j \in 1..Len(pending_') : i < j => pending_'[i].cand < pending_'[j].cand
      <3> SUFFICES ASSUME NEW i \in 1..Len(pending_'), NEW j \in 1..Len(pending_'), i < j
                   PROVE  pending_'[i].cand < pending_'[j].cand
        OBVIOUS
      <3>1. i \in 1..Len(pending_) /\ pending_'[i] = pending_[i]
        BY <1>3, <2>4
      <3>2. CASE j \in 1..Len(pending_)
        BY <1>2, <2>4, <3>1, <3>2 DEF Rising
      <3>3. CASE j \notin 1..Len(pending_)
        <4>1. pending_'[j].cand = candidates
          BY <2>6, <3>3
        <4> QED BY <2>5, <3>1, <4>1
      <3> QED BY <3>2, <3>3
    <2>9. /\ \A i, j \in 1..Len(added) : i < j => added[i].cand < added[j].cand
          /\ \A i \in 1..Len(added) : added[i].cand <= candidates
      BY <1>2, <1>3, <1>4, <2>5 DEF Rising
    <2>10. Rising'
      BY <1>9, <2>1, <2>3, <2>7, <2>8, <2>9 DEF Rising
    <2>11. SessionTyped'
      BY <1>1, <1>2, <2>1, <2>4 DEF SessionTyped
    <2>12. NoneWaits'
      BY <1>1, <1>2, <1>5, <2>1 DEF NoneWaits, Making
    <2> QED BY <1>7, <1>8, <2>10, <2>11, <2>12 DEF OrderInv
  <1>12. CASE AddRemoteIceCandidateNow
    <2>1. io = "add" /\ io' = "idle" /\ UNCHANGED <<candidates, pending_>>
      BY <1>12 DEF AddRemoteIceCandidateNow, inputs
    <2>2. LastPlaced' = candidates /\ LastPlaced = candidates - 1
      BY <2>1 DEF LastPlaced
    <2>3. /\ \A i \in 1..Len(added) : added[i].cand < candidates
          /\ \A j \in 1..Len(pending_) : pending_[j].cand <= candidates
      BY <1>2, <1>3, <1>4, <2>2 DEF Rising
    <2>4. NoneWaits'
      BY <1>1, <1>2, <1>5, <2>1 DEF NoneWaits, Making
    <2>5. CASE added' = added
      <3>1. \A i \in 1..Len(added) : added[i].cand <= candidates
        BY <1>3, <1>4, <2>3
      <3>2. Rising'
        BY <1>2, <1>9, <2>1, <2>2, <2>3, <2>5, <3>1 DEF Rising
      <3>3. SessionTyped'
        BY <1>1, <1>2, <2>1, <2>5 DEF SessionTyped
      <3> QED BY <1>7, <1>8, <2>4, <3>2, <3>3 DEF OrderInv
    <2>6. CASE added' # added
      <3> DEFINE e == ToAdd([cand |-> candidates, of |-> offers])
      <3>1. added' = Append(added, e) /\ rtc = "idle"
        BY <1>12, <2>6 DEF AddRemoteIceCandidateNow, RtcFree
      <3>2. e \in Adds /\ e.cand = candidates
        BY <1>3 DEF Adds, ToAdd
      <3> HIDE DEF e
      <3>3. /\ added' \in Seq(Adds) /\ Len(added') = Len(added) + 1
            /\ \A i \in 1..Len(added) : added'[i] = added[i]
            /\ added'[Len(added) + 1] = e
        BY <1>3, <3>1, <3>2, OneMore
      <3>4. \A i, j \in 1..Len(added') : i < j => added'[i].cand < added'[j].cand
        <4> SUFFICES ASSUME NEW i \in 1..Len(added'), NEW j \in 1..Len(added'), i < j
                     PROVE  added'[i].cand < added'[j].cand
          OBVIOUS
        <4>1. i \in 1..Len(added) /\ added'[i] = added[i]
          BY <1>3, <3>3
        <4>2. CASE j \in 1..Len(added)
          BY <1>2, <3>3, <4>1, <4>2 DEF Rising
        <4>3. CASE j \notin 1..Len(added)
          <5>1. j = Len(added) + 1
            BY <1>3, <3>3, <4>3
          <5>2. added'[j].cand = candidates
            BY <3>2, <3>3, <5>1
          <5> QED BY <2>3, <4>1, <5>2
        <4> QED BY <4>2, <4>3
      <3>5. \A i \in 1..Len(added') : added'[i].cand <= candidates
        BY <1>3, <1>4, <2>3, <3>2, <3>3
      <3>6. MayFlush => \A j \in 1..Len(pending_) : FALSE
        BY <1>2, <2>1, <3>1 DEF MayFlush, NoneWaits
      <3>7. Rising'
        BY <1>2, <1>9, <2>1, <2>2, <2>3, <3>4, <3>5, <3>6 DEF Rising
      <3>8. SessionTyped'
        BY <1>1, <1>2, <2>1, <3>3 DEF SessionTyped
      <3> QED BY <1>7, <1>8, <2>4, <3>7, <3>8 DEF OrderInv
    <2> QED BY <2>5, <2>6
  <1> QED BY <1>10, <1>11, <1>12

\* Every step of every thread.
LEMMA OrderNext ==
  ASSUME OrderInv, [NextSession]_sessionVars
  PROVE  OrderInv'
PROOF
  <1>1. CASE \/ \E st \in {"OPENED", "FAILED", "CLOSED"} : OnConnectionChange(st)
             \/ OnIceCandidateFails \/ OnFrame
             \/ \E pc \in Pcs : OnTrack(pc)
             \/ WatchdogSteps \/ OnVideo \/ UNCHANGED sessionVars
             \/ \E t \in Threads : EmitState(t) \/ CallbackReturns(t)
    <2>1. UNCHANGED orderVars
      BY <1>1 DEF orderVars, candidateVars, OnConnectionChange, OnIceCandidateFails, OnTrack,
         OnFrame,
                  WatchdogSteps, RunWatchdogLoop, TickWatchdog, OnVideo,
                  EmitState, CallbackReturns, sessionVars, buffer, inputs, closing, webrtc
    <2> QED BY <2>1, OrderStays
  <1>2. CASE Environment
    BY <1>1, <1>2, OrderLife, OrderOffer, OrderIce DEF Environment
  <1>3. CASE IoSteps
    BY <1>3, OrderOffer, OrderApplies, OrderIce DEF IoSteps
  <1>4. CASE RtcSteps
    BY <1>4, OrderFlush, OrderObserver, OrderAnswer DEF RtcSteps
  <1>5. CASE CloseSteps
    BY <1>5, OrderLife
  <1> QED BY <1>1, <1>2, <1>3, <1>4, <1>5 DEF NextSession, Rests
\* Candidates reach AddIceCandidate in the order they arrived and none twice, although both
\* the flush on the signaling thread and the IO thread add them.
THEOREM CandidatesKeepTheirOrder == SessionSpec => []CandidatesInOrder
PROOF
  <1>1. InitSession => OrderInv
    BY OrderInit
  <1>2. OrderInv /\ [NextSession]_sessionVars => OrderInv'
    BY OrderNext
  <1>3. OrderInv => CandidatesInOrder
    BY LenProperties DEF OrderInv, SetsTyped, SessionTyped, Rising, CandidatesInOrder
  <1> QED BY <1>1, <1>2, <1>3, PTL DEF SessionSpec

-----------------------------------------------------------------------------
(* Where the candidates go. *)

\* The offer the candidates in the queue came after.
Came == IF io = "clear" THEN offers - 1 ELSE offers
Buffered == \A i \in 1..Len(pending_) : pending_[i].of = Came

\* PeerConnections a candidate may be added to.
Ready == remoteSet \cup overtaken

\* The flag, a candidate about to be added and a flush say that there is a remote description,
\* or that of the offer before came too late.
Announced ==
  /\ applied_ \/ io = "add" => offers \in Ready
  /\ rtc = "flush" /\ peer_connection_ # 0 => peer_connection_ \in Ready

\* Behind a flush there is room for one candidate: the one the IO thread holds, or has put.
Room ==
  applied_ /\ peer_connection_ # 0 /\ rtc = "idle" =>
    Len(pending_) <= 1 /\ (io = "push" => pending_ = <<>>)

\* What every step keeps of where the candidates are.
FitInv == Buffered /\ Announced /\ Room /\ CandidateFitsOffer

\* Before the first candidate.
LEMMA FitInit ==
  ASSUME InitSession
  PROVE  FitInv
PROOF
  BY DEF InitSession, FitInv, Buffered, Announced, Room, CandidateFitsOffer

\* Nothing is added, the queue at most emptied, and no description forgotten.
LEMMA FitStays ==
  ASSUME OrderInv, FitInv, added' = added, pending_' = pending_ \/ pending_' = <<>>,
         remoteSet \subseteq remoteSet', overtaken \subseteq overtaken'
  PROVE  /\ CandidateFitsOffer' /\ Ready \subseteq Ready' /\ Len(pending_) \in Nat
         /\ pending_' = pending_ \/ Len(pending_') = 0
         /\ Came' = Came \/ pending_' = <<>> => Buffered'
PROOF
  <1>1. Len(pending_) \in Nat /\ (pending_' = pending_ \/ Len(pending_') = 0)
    BY LenProperties DEF OrderInv, SetsTyped, SessionTyped
  <1>2. CandidateFitsOffer' /\ Ready \subseteq Ready'
    BY DEF FitInv, CandidateFitsOffer, Ready
  <1>3. Came' = Came \/ pending_' = <<>> => Buffered'
    <2>1. CASE pending_' = <<>>
      BY <2>1 DEF Buffered
    <2>2. CASE pending_' = pending_ /\ Came' = Came
      BY <2>2 DEF FitInv, Buffered
    <2> QED BY <2>1, <2>2
  <1> QED BY <1>1, <1>2, <1>3

\* Steps of Start, of Close and of threads that have nothing to do with the buffer.
LEMMA FitLife ==
  ASSUME OrderInv, FitInv, UNCHANGED <<offers, added, io, rtc, remoteSet, overtaken>>,
         UNCHANGED <<pending_, applied_>> \/ (pending_' = <<>> /\ ~applied_'),
         peer_connection_' \in {0, peer_connection_}
  PROVE  FitInv'
PROOF
  <1>1. /\ CandidateFitsOffer' /\ Ready \subseteq Ready' /\ Buffered'
        /\ pending_' = pending_ \/ Len(pending_') = 0
    BY FitStays DEF Came
  <1>2. Announced'
    BY <1>1 DEF FitInv, Announced
  <1>3. Room'
    BY <1>1 DEF FitInv, Room
  <1> QED BY <1>1, <1>2, <1>3 DEF FitInv

\* HandleOffer.
LEMMA FitOffer ==
  ASSUME OrderInv, FitInv,
         \/ OfferBegins \/ OfferClears \/ CreateClosesOld \/ CreateNullsOld
         \/ CreatePeerConnectionLocked \/ AddVideoTransceiver \/ OfferParsed \/ OfferApplies
         \/ OfferReturns \/ OnSignalError
  PROVE  FitInv'
PROOF
  <1>1. UNCHANGED <<added, remoteSet, overtaken, rtc>>
    BY DEF OfferBegins, OfferClears, CreateClosesOld, CreateNullsOld, CreatePeerConnectionLocked,
           AddVideoTransceiver, OfferParsed, OfferApplies, OfferReturns, OnSignalError, buffer,
           webrtc
  <1>2. CurrentPc /\ NoneWaits /\ offers \in Nat /\ Buffered /\ Announced /\ Room
    BY DEF OrderInv, FitInv, SetsTyped, SessionTyped
  <1>3. CASE OfferBegins
    <2>1. /\ io = "idle" /\ io' = "clear" /\ offers' = offers + 1 /\ ~applied_'
          /\ UNCHANGED <<pending_, peer_connection_>>
      BY <1>3 DEF OfferBegins, IoReady
    <2>2. Came' = Came
      BY <1>2, <2>1 DEF Came
    <2>3. CandidateFitsOffer' /\ Ready \subseteq Ready' /\ Buffered'
      BY <1>1, <2>1, <2>2, FitStays
    <2>4. Announced' /\ Room'
      BY <1>1, <1>2, <2>1, <2>3 DEF Announced, Room
    <2> QED BY <2>3, <2>4 DEF FitInv
  <1>4. CASE OfferClears
    <2>1. /\ io = "clear" /\ io' = "create" /\ pending_' = <<>> /\ Len(pending_') = 0
          /\ UNCHANGED <<offers, applied_, peer_connection_>>
      BY <1>4 DEF OfferClears, inputs
    <2>2. CandidateFitsOffer' /\ Ready \subseteq Ready' /\ Buffered'
      BY <1>1, <2>1, FitStays
    <2>3. Announced' /\ Room'
      BY <1>1, <1>2, <2>1, <2>2 DEF Announced, Room
    <2> QED BY <2>2, <2>3 DEF FitInv
  <1>5. CASE /\ ~OfferBegins /\ ~OfferClears
    <2>1. /\ io \notin {"clear", "push", "add"} /\ io' \notin {"clear", "push", "add"}
          /\ UNCHANGED <<offers, pending_, applied_>>
      BY <1>5 DEF CreateClosesOld, CreateNullsOld, CreatePeerConnectionLocked,
                  AddVideoTransceiver, OfferParsed, OfferApplies, OfferReturns, OnSignalError,
                  IoReady, buffer, inputs
    <2>2. \/ peer_connection_' \in {0, peer_connection_}
          \/ io = "new" /\ rtc = "idle"
      BY <1>5 DEF CreateClosesOld, CreateNullsOld, CreatePeerConnectionLocked,
                  AddVideoTransceiver, OfferParsed, OfferApplies, OfferReturns, OnSignalError,
                  RtcFree
    <2>3. CandidateFitsOffer' /\ Ready \subseteq Ready' /\ Buffered'
      BY <1>1, <2>1, FitStays DEF Came
    <2>4. Announced'
      BY <1>1, <1>2, <2>1, <2>2, <2>3 DEF Announced
    <2>5. Room'
      BY <1>1, <1>2, <2>1, <2>2 DEF Room, NoneWaits, Making
    <2> QED BY <2>3, <2>4, <2>5 DEF FitInv
  <1> QED BY <1>3, <1>4, <1>5

\* The observer of SetRemoteDescription, and the answer.
LEMMA FitObserver ==
  ASSUME OrderInv, FitInv, NEW op \in ops,
         \/ SetRemoteSucceeds(op) \/ SetRemoteFails(op) \/ CreateAnswerSucceeds(op)
         \/ AnswerFails(op) \/ SetLocalSucceeds(op)
  PROVE  FitInv'
PROOF
  <1>1. CASE ~SetRemoteSucceeds(op)
    <2>1. /\ UNCHANGED <<offers, added, io, rtc, remoteSet, overtaken, peer_connection_>>
          /\ UNCHANGED <<pending_, applied_>> \/ (pending_' = <<>> /\ ~applied_')
      BY <1>1 DEF SetRemoteFails, CreateAnswerSucceeds, AnswerFails, SetLocalSucceeds, inputs,
                  buffer
    <2> QED BY <2>1, FitLife
  <1>2. CASE SetRemoteSucceeds(op)
    <2>1. /\ UNCHANGED <<offers, added, pending_, io, peer_connection_>> /\ rtc' = "flush"
          /\ remoteSet' = remoteSet \cup {op.pc}
          /\ overtaken' = overtaken \cup ({offers} \ {op.pc})
          /\ op \in LiveSets
      BY <1>2 DEF SetRemoteSucceeds, Outstanding, LiveSets, SetRemotes, inputs
    <2>2. CandidateFitsOffer' /\ Ready \subseteq Ready' /\ Buffered'
      BY <2>1, FitStays DEF Came
    <2>3. op.pc \in Ready' /\ offers \in Ready'
      BY <2>1 DEF Ready
    <2>4. peer_connection_ # 0 => peer_connection_ \in Ready'
      <3>1. op.pc = CalledOn /\ io \notin Making
        BY <2>1 DEF OrderInv, OneLive
      <3> QED BY <2>3, <3>1 DEF OrderInv, CurrentPc, CalledOn, WithOld, Making
    <2>5. Announced' /\ Room'
      BY <2>1, <2>3, <2>4 DEF Announced, Room
    <2> QED BY <2>2, <2>5 DEF FitInv
  <1> QED BY <1>1, <1>2

\* The flush: what waited came after the offer whose PeerConnection there is.
LEMMA FitFlush ==
  ASSUME OrderInv, FitInv, FlushAndAnswer
  PROVE  FitInv'
PROOF
  <1>1. /\ UNCHANGED <<offers, peer_connection_, applied_, io, remoteSet, overtaken>>
        /\ rtc = "flush" /\ rtc' = "idle" /\ pending_' = <<>>
    BY DEF FlushAndAnswer, inputs
  <1>2. SessionTyped /\ CurrentPc /\ NoneWaits /\ Buffered /\ Announced
    BY DEF OrderInv, FitInv, SetsTyped
  <1>3. Buffered' /\ Room' /\ Announced'
    BY <1>1, <1>2 DEF Buffered, Room, Announced, Ready
  <1>4. CandidateFitsOffer'
    <2>1. CASE peer_connection_ = 0
      BY <1>1, <2>1 DEF FlushAndAnswer, FitInv, CandidateFitsOffer
    <2>2. CASE peer_connection_ # 0
      <3>1. /\ added' \in Seq(Adds)
            /\ \A i \in 1..Len(added') :
                 \/ i \in 1..Len(added) /\ added'[i] = added[i]
                 \/ /\ i - Len(added) \in 1..Len(pending_)
                    /\ added'[i] = ToAdd(pending_[i - Len(added)])
        BY <1>2, <2>2, FlushAdds
      <3>2. \A j \in 1..Len(pending_) : pending_[j].of = peer_connection_
        <4>1. CASE io \in {"create"} \cup Making
          BY <1>2, <4>1 DEF NoneWaits
        <4>2. CASE io \notin {"create"} \cup Making
          <5>1. peer_connection_ = Came
            BY <1>2, <2>2, <4>2 DEF CurrentPc, Came, WithOld, Making, SessionTyped
          <5> QED BY <1>2, <5>1 DEF Buffered
        <4> QED BY <4>1, <4>2
      <3>3. peer_connection_ \in Ready
        BY <1>1, <1>2, <2>2 DEF Announced
      <3>4. \A j \in 1..Len(pending_) :
              /\ ToAdd(pending_[j]).of = ToAdd(pending_[j]).pc
              /\ ToAdd(pending_[j]).early => ToAdd(pending_[j]).pc \in overtaken
        BY <3>2, <3>3 DEF ToAdd, Ready
      <3>5. \A i \in 1..Len(added) :
              added[i].of = added[i].pc /\ (added[i].early => added[i].pc \in overtaken)
        BY <1>2, LenProperties DEF SessionTyped, FitInv, CandidateFitsOffer
      <3>6. \A i \in 1..Len(added') :
              added'[i].of = added'[i].pc /\ (added'[i].early => added'[i].pc \in overtaken')
        BY <1>1, <3>1, <3>4, <3>5
      <3> QED BY <3>1, <3>6, LenProperties DEF CandidateFitsOffer
    <2> QED BY <2>1, <2>2
  <1> QED BY <1>3, <1>4 DEF FitInv

\* A candidate arrives and is put into the queue or added.
LEMMA FitIce ==
  ASSUME OrderInv, FitInv, IceArrives \/ Push \/ AddRemoteIceCandidateNow
  PROVE  FitInv'
PROOF
  <1>1. UNCHANGED <<offers, peer_connection_, applied_, rtc, remoteSet, overtaken>>
    BY DEF IceArrives, Push, AddRemoteIceCandidateNow, buffer, inputs, webrtc
  <1>2. SessionTyped /\ CurrentPc /\ NoneWaits /\ Buffered /\ Announced /\ Room
    BY DEF OrderInv, FitInv, SetsTyped
  <1>3. /\ pending_ \in Seq(Buffers) /\ Len(pending_) \in Nat
        /\ added \in Seq(Adds) /\ Len(added) \in Nat
        /\ offers \in Nat /\ candidates \in Nat /\ peer_connection_ \in Nat
    BY <1>2, LenProperties DEF SessionTyped
  <1>4. CASE IceArrives
    <2>1. /\ UNCHANGED <<pending_, added>> /\ io = "idle"
          /\ io' = IF peer_connection_ = 0 \/ ~applied_ THEN "push" ELSE "add"
      BY <1>4 DEF IceArrives, IoReady, buffer
    <2>2. CandidateFitsOffer' /\ Ready' = Ready /\ Buffered'
      BY <1>1, <2>1, FitStays DEF Came, Ready
    <2>3. Announced' /\ Room'
      BY <1>1, <1>2, <2>1, <2>2 DEF Announced, Room
    <2> QED BY <2>2, <2>3 DEF FitInv
  <1>5. CASE Push
    <2> DEFINE e == [cand |-> candidates, of |-> offers]
    <2>1. io = "push" /\ io' = "idle" /\ pending_' = Append(pending_, e) /\ added' = added
      BY <1>5 DEF Push
    <2>2. e \in Buffers /\ e.of = offers
      BY <1>3 DEF Buffers
    <2> HIDE DEF e
    <2>3. /\ Len(pending_') = Len(pending_) + 1
          /\ \A i \in 1..Len(pending_) : pending_'[i] = pending_[i]
          /\ pending_'[Len(pending_) + 1] = e
      BY <1>3, <2>1, <2>2, OneMore
    <2>4. Came = offers /\ Came' = offers
      BY <1>1, <2>1 DEF Came
    <2>5. Buffered'
      <3> SUFFICES ASSUME NEW i \in 1..Len(pending_')
                   PROVE  pending_'[i].of = offers
        BY <2>4 DEF Buffered
      <3>1. CASE i \in 1..Len(pending_)
        BY <1>2, <2>3, <2>4, <3>1 DEF Buffered
      <3>2. CASE i \notin 1..Len(pending_)
        <4>1. i = Len(pending_) + 1
          BY <1>3, <2>3, <3>2
        <4> QED BY <2>2, <2>3, <4>1
      <3> QED BY <3>1, <3>2
    <2>6. Announced'
      BY <1>1, <1>2, <2>1 DEF Announced, Ready
    <2>7. Room'
      <3>1. pending_ = <<>> => Len(pending_) = 0
        OBVIOUS
      <3> QED BY <1>1, <1>2, <2>1, <2>3, <3>1 DEF Room
    <2>8. CandidateFitsOffer'
      BY <1>1, <2>1 DEF FitInv, CandidateFitsOffer
    <2> QED BY <2>5, <2>6, <2>7, <2>8 DEF FitInv
  <1>6. CASE AddRemoteIceCandidateNow
    <2>1. io = "add" /\ io' = "idle" /\ pending_' = pending_
      BY <1>6 DEF AddRemoteIceCandidateNow
    <2>2. Buffered' /\ Announced' /\ Room'
      BY <1>1, <1>2, <2>1 DEF Buffered, Came, Announced, Ready, Room
    <2>3. CASE added' = added
      BY <1>1, <2>2, <2>3 DEF FitInv, CandidateFitsOffer
    <2>4. CASE added' # added
      <3> DEFINE e == ToAdd([cand |-> candidates, of |-> offers])
      <3>1. added' = Append(added, e) /\ peer_connection_ # 0
        BY <1>6, <2>4 DEF AddRemoteIceCandidateNow
      <3>2. peer_connection_ = offers /\ offers \in Ready
        BY <1>2, <2>1, <3>1 DEF CurrentPc, WithOld, Announced
      <3>3. e \in Adds /\ e.of = e.pc /\ (e.early => e.pc \in overtaken)
        BY <1>3, <3>2 DEF Adds, ToAdd, Ready
      <3> HIDE DEF e
      <3>4. /\ added' \in Seq(Adds) /\ Len(added') = Len(added) + 1
            /\ \A i \in 1..Len(added) : added'[i] = added[i]
            /\ added'[Len(added) + 1] = e
        BY <1>3, <3>1, <3>3, OneMore
      <3>5. \A i \in 1..Len(added) :
              added[i].of = added[i].pc /\ (added[i].early => added[i].pc \in overtaken)
        BY <1>3, LenProperties DEF FitInv, CandidateFitsOffer
      <3>6. ASSUME NEW i \in 1..Len(added')
            PROVE  added'[i].of = added'[i].pc /\ (added'[i].early => added'[i].pc \in overtaken)
        <4>1. CASE i \in 1..Len(added)
          BY <3>4, <3>5, <4>1
        <4>2. CASE i \notin 1..Len(added)
          <5>1. i = Len(added) + 1
            BY <1>3, <3>4, <4>2
          <5> QED BY <3>3, <3>4, <5>1
        <4> QED BY <4>1, <4>2
      <3>7. CandidateFitsOffer'
        BY <1>1, <3>4, <3>6, LenProperties DEF CandidateFitsOffer
      <3> QED BY <2>2, <3>7 DEF FitInv
    <2> QED BY <2>3, <2>4
  <1> QED BY <1>4, <1>5, <1>6

\* Every step of every thread.
LEMMA FitNext ==
  ASSUME OrderInv, FitInv, [NextSession]_sessionVars
  PROVE  FitInv'
PROOF
  <1>1. CASE \/ \E st \in {"OPENED", "FAILED", "CLOSED"} : OnConnectionChange(st)
             \/ OnIceCandidateFails \/ OnFrame
             \/ \E pc \in Pcs : OnTrack(pc)
             \/ WatchdogSteps \/ OnVideo \/ UNCHANGED sessionVars
             \/ \E t \in Threads : EmitState(t) \/ CallbackReturns(t)
    <2>1. UNCHANGED <<offers, added, io, rtc, remoteSet, overtaken, pending_, applied_,
                      peer_connection_>>
      BY <1>1 DEF OnConnectionChange, OnIceCandidateFails, OnTrack, OnFrame, WatchdogSteps,
                  RunWatchdogLoop, TickWatchdog, OnVideo, EmitState, CallbackReturns, sessionVars,
                  buffer, inputs, webrtc
    <2> QED BY <2>1, FitLife
  <1>2. CASE \/ StartBegins \/ StartSucceeds \/ StartFails \/ CloseSteps
             \/ \E t \in Threads : CloseBegins(t)
    <2>1. /\ UNCHANGED <<offers, added, io, rtc, remoteSet, overtaken>>
          /\ UNCHANGED <<pending_, applied_>> \/ (pending_' = <<>> /\ ~applied_')
          /\ peer_connection_' \in {0, peer_connection_}
      BY <1>2 DEF StartBegins, StartSucceeds, StartFails, CloseSteps, StopWatchdogThread,
                  CloseRemovesSink, CloseSignaling, ClosePeerConnection, CloseNulls, CloseEmits,
                  CloseBegins, buffer, webrtc, inputs
    <2> QED BY <2>1, FitLife
  <1>3. CASE Environment
    BY <1>1, <1>2, <1>3, FitOffer, FitIce DEF Environment
  <1>4. CASE IoSteps
    BY <1>4, FitOffer, FitIce DEF IoSteps
  <1>5. CASE RtcSteps
    BY <1>5, FitFlush, FitObserver DEF RtcSteps
  <1> QED BY <1>1, <1>2, <1>3, <1>4, <1>5 DEF NextSession, Rests

\* The inductive invariant of the session: the calls of SetRemoteDescription that can still
\* succeed, the order of the candidates and where they wait and go.
THEOREM SessionInvariant == SessionSpec => [](OrderInv /\ FitInv)
PROOF
  <1>1. InitSession => OrderInv /\ FitInv
    BY OrderInit, FitInit
  <1>2. OrderInv /\ FitInv /\ [NextSession]_sessionVars => (OrderInv /\ FitInv)'
    BY OrderNext, FitNext
  <1> QED BY <1>1, <1>2, PTL DEF SessionSpec

\* A candidate is added to the PeerConnection of the offer it came after, and before its remote
\* description only if the SetRemoteDescription of the offer before it succeeded after
\* HandleOffer's ResetUnapplied: whenever the observers come.
THEOREM CandidatesFitTheirOffer == SessionSpec => []CandidateFitsOffer
PROOF
  <1>1. FitInv => CandidateFitsOffer
    BY DEF FitInv
  <1> QED BY <1>1, SessionInvariant, PTL

\* Whenever MarkAppliedAndDrain comes between IsApplied and Push, no more than that one candidate
\* is left in the buffer.
THEOREM OneCandidateStranded == SessionSpec => []OneStranded
PROOF
  <1>1. FitInv => OneStranded
    BY DEF FitInv, Room, OneStranded
  <1> QED BY <1>1, SessionInvariant, PTL

=============================================================================
