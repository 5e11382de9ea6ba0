--------------------------- MODULE CapturePipeline ---------------------------
(***************************************************************************)
(* The camera of a published stream: CameraVideoTrackSource                *)
(* (service/impl/media/camera_video_track_source.cpp), captured directly   *)
(* from V4L2.                                                              *)
(*                                                                         *)
(* The driver fills the buffers it was given (QBUF) and hands them out     *)
(* (DQBUF) to the capture thread.  For MJPEG the capture thread puts the   *)
(* index of the buffer into jpeg_queue_, and the decode thread gives the   *)
(* buffer back once it has decoded it: the payload is never copied.  With  *)
(* mjpeg_decode_inline, and for YUYV, the capture thread converts itself.  *)
(* Decoded pictures go to the encoder, some of them in slots of a pool     *)
(* that are free again when the encoder has released the picture.          *)
(*                                                                         *)
(* The threads are the owner's (Start and Stop), the capture thread, the   *)
(* decode thread and the encoder.  A block under jpeg_queue_mu_ is one     *)
(* step.  A source is started once: PushStreamer makes one per stream.     *)
(***************************************************************************)
EXTENDS Naturals, Sequences, FiniteSets

CONSTANTS
  BufferCount,  \* v4l2_buffer_count_
  QueueMax,     \* mjpeg_queue_max of the options, before it is clamped
  PoolSlots,    \* nv12_pool_slots_
  Modes,        \* what the camera and the options may select, out of AllModes
  Dmabuf,       \* may buffers of the hardware decoder be given to the camera?
  Mpp,          \* is the hardware decoder used?  FALSE: libyuv only
  QBufMayFail,  \* may the driver refuse to take a buffer back?
  MaxFrames     \* bound on the frames the camera delivers

\* "queue": MJPEG, frames wait for the decode thread; "latest": the same with
\* mjpeg_queue_latest_only; "inline": MJPEG, no decode thread; "yuyv".
AllModes == {"queue", "latest", "inline", "yuyv"}

ASSUME CaptureAssumption ==
  /\ BufferCount \in Nat /\ BufferCount >= 2
  /\ QueueMax \in Nat /\ QueueMax >= 1
  /\ PoolSlots \in Nat /\ PoolSlots >= 1
  /\ Modes \subseteq AllModes
  /\ {Dmabuf, Mpp, QBufMayFail} \subseteq BOOLEAN
  /\ MaxFrames \in Nat

VARIABLES
  mode,          \* what was selected
  owner,         \* where Start or Stop is
  fd,            \* direct_fd_ >= 0
  memory,        \* "none", or how the buffers are set up: "dmabuf", "mmap"
  mapped,        \* buffers with an address in direct_mmap_
  driver,        \* buffers the driver has
  lost,          \* buffers the driver did not take back
  direct_run_,
  decode_worker_exit_,
  cap,           \* the capture thread: [at, buf, frame]
  dropped,       \* its local list of entries to give back
  jpeg_queue_,   \* entries [buf, frame]
  dec,           \* where the decode thread is
  job,           \* the frame being converted: [at, buf, frame, slot]
  slots_in_use,  \* nv12_slot_in_use_
  ring,          \* nv12_ring_next_
  pictures,      \* pool slots the encoder holds a picture in
  frames,        \* frames delivered so far: frame n is the n-th
  aged,          \* the newest frame found older than the stale budget
  shown,         \* history: the last frame dispatched
  count          \* the counters of PipelineHealthSnapshot

device == <<fd, memory, mapped>>
pool == <<slots_in_use, ring, pictures>>
flags == <<direct_run_, decode_worker_exit_>>
captureVars ==
  <<mode, owner, device, driver, lost, flags, cap, dropped, jpeg_queue_, dec,
    job, pool, frames, aged, shown, count>>

Buffers == 0..(BufferCount - 1)
Slots == 0..(PoolSlots - 1)
NoBuf == BufferCount
NoSlot == PoolSlots
Mjpeg == mode # "yuyv"
Async == mode \in {"queue", "latest"}

\* The buffers of a list of entries.
BufsOf(q) == {q[i].buf : i \in 1..Len(q)}

NoJob == [at |-> "none", buf |-> NoBuf, frame |-> 0, slot |-> NoSlot]
Counters == {"captured", "dispatched", "stale", "full", "latest", "empty", "convert", "busy"}

InitCapture ==
  /\ mode \in Modes
  /\ owner = "idle"
  /\ fd = FALSE /\ memory = "none" /\ mapped = {}
  /\ driver = {} /\ lost = {}
  /\ direct_run_ = FALSE /\ decode_worker_exit_ = FALSE
  /\ cap = [at |-> "none", buf |-> NoBuf, frame |-> 0]
  /\ dropped = <<>> /\ jpeg_queue_ = <<>>
  /\ dec = "none" /\ job = NoJob
  /\ slots_in_use = {} /\ ring = 0 /\ pictures = {}
  /\ frames = 0 /\ aged = 0 /\ shown = 0
  /\ count = [c \in Counters |-> 0]

\* ApplyMjpegPipelineOptions: with the QBUF delayed every entry of the queue
\* keeps a buffer from the driver.
mjpeg_queue_max_ == IF QueueMax > BufferCount - 1 THEN BufferCount - 1 ELSE QueueMax

\* QBufV4l2Index, for several buffers: the driver takes the buffers bs, or
\* refuses them and nobody will ask again.
QBufV4l2Index(bs) ==
  \/ driver' = driver \union bs /\ UNCHANGED lost
  \/ QBufMayFail /\ bs # {} /\ lost' = lost \union bs /\ UNCHANGED driver

-----------------------------------------------------------------------------
(* Start                                                                   *)

\* StartDirectV4l2 opens the device, trying again while it is busy.
StartOpens ==
  /\ owner = "idle"
  /\ \/ owner' = "format" /\ fd' = TRUE
     \/ owner' = "stopped" /\ fd' = FALSE
  /\ UNCHANGED <<mode, memory, mapped, driver, lost, flags, cap, dropped, jpeg_queue_, dec,
                 job, pool, frames, aged, shown, count>>

\* A format of the wanted size is agreed on, or the device is closed.  For
\* MJPEG the buffers come from the hardware decoder if it has some.
StartNegotiates ==
  /\ owner = "format"
  /\ \/ /\ owner' = "buffers"
        /\ memory' \in {"mmap"} \union IF Dmabuf /\ Mpp /\ Mjpeg THEN {"dmabuf"} ELSE {}
        /\ UNCHANGED fd
     \/ owner' = "stopped" /\ fd' = FALSE /\ UNCHANGED memory
  /\ UNCHANGED <<mode, mapped, driver, lost, flags, cap, dropped, jpeg_queue_, dec,
                 job, pool, frames, aged, shown, count>>

\* One buffer is allocated or mapped, and queued.
StartAddsBuffer ==
  /\ owner = "buffers"
  /\ mapped # Buffers
  /\ LET b == Cardinality(mapped)
     IN mapped' = mapped \union {b} /\ driver' = driver \union {b}
  /\ UNCHANGED <<mode, owner, fd, memory, lost, flags, cap, dropped, jpeg_queue_, dec,
                 job, pool, frames, aged, shown, count>>

\* REQBUFS, an allocation or a QBUF fails: DMABUF falls back to MMAP, which
\* starts anew; MMAP gives up.
StartBufferFails ==
  /\ owner = "buffers"
  /\ mapped # Buffers
  /\ IF memory = "dmabuf"
       THEN memory' = "mmap" /\ mapped' = {} /\ driver' = {} /\ UNCHANGED owner
       ELSE owner' = "stop" /\ UNCHANGED <<memory, mapped, driver>>
  /\ UNCHANGED <<mode, fd, lost, flags, cap, dropped, jpeg_queue_, dec, job, pool,
                 frames, aged, shown, count>>

\* STREAMON, and the threads are created.
StartThreads ==
  /\ owner = "buffers"
  /\ mapped = Buffers
  /\ owner' = "running"
  /\ direct_run_' = TRUE /\ decode_worker_exit_' = FALSE
  /\ dec' = IF Async THEN "lock" ELSE "none"
  /\ cap' = [cap EXCEPT !.at = "loop"]
  /\ UNCHANGED <<mode, device, driver, lost, dropped, jpeg_queue_, job, pool, frames,
                 aged, shown, count>>

StartStreamOnFails ==
  /\ owner = "buffers"
  /\ mapped = Buffers
  /\ owner' = "stop"
  /\ UNCHANGED <<mode, device, driver, lost, flags, cap, dropped, jpeg_queue_, dec,
                 job, pool, frames, aged, shown, count>>

CaptureStartStep == StartOpens \/ StartNegotiates \/ StartAddsBuffer \/ StartBufferFails
             \/ StartThreads \/ StartStreamOnFails

-----------------------------------------------------------------------------
(* ProcessV4l2CapturedFrame, on the thread that converts                   *)

\* Conversion of frame f in buffer b begins.
Converting(b, f) == [at |-> "decode", buf |-> b, frame |-> f, slot |-> NoSlot]

\* OnFrame, which counts the frame before the sinks' adaptation can drop it.
OnFrame ==
  /\ count' = [count EXCEPT !["dispatched"] = @ + 1]
  /\ shown' = job.frame

\* Straight into a picture of the hardware decoder (zero copy).
ConvertNative ==
  /\ job.at = "decode" /\ Mpp /\ Mjpeg
  /\ OnFrame
  /\ job' = [job EXCEPT !.at = "done"]
  /\ UNCHANGED pool

\* The first free slot from nv12_ring_next_ on.
FreeSlot ==
  LET At(k) == (ring + k) % PoolSlots
      tried == CHOOSE k \in Slots : /\ At(k) \notin slots_in_use
                                    /\ \A j \in 0..(k - 1) : At(j) \in slots_in_use
  IN At(tried)

\* Mutant of AcquireNv12PoolBuffer: the slot after the last one, in use or not.
AcquireNextSlot ==
  /\ job.at = "decode" /\ Mpp /\ Mjpeg
  /\ slots_in_use' = slots_in_use \union {ring % PoolSlots}
  /\ ring' = (ring % PoolSlots) + 1
  /\ job' = [job EXCEPT !.at = "fill", !.slot = ring % PoolSlots]
  /\ UNCHANGED <<pictures, count, shown>>

\* AcquireNv12PoolBuffer.  The pool was made by EnsureNv12Pool.
AcquireNv12PoolBuffer ==
  /\ job.at = "decode" /\ Mpp /\ Mjpeg
  /\ IF slots_in_use = Slots
       THEN /\ job' = [job EXCEPT !.at = "fallback"]
            /\ count' = [count EXCEPT !["busy"] = @ + 1]
            /\ UNCHANGED <<slots_in_use, ring>>
       ELSE /\ job' = [job EXCEPT !.at = "fill", !.slot = FreeSlot]
            /\ slots_in_use' = slots_in_use \union {FreeSlot}
            /\ ring' = FreeSlot + 1
            /\ UNCHANGED count
  /\ UNCHANGED <<pictures, shown>>

\* The decoder has written the slot.  The encoder may keep the picture; if
\* the frame is dropped or scaled, or was not decoded, its lease ends here.
PoolFilled ==
  /\ job.at = "fill"
  /\ \/ /\ OnFrame
        /\ job' = [job EXCEPT !.at = "done", !.slot = NoSlot]
        /\ \/ pictures' = pictures \union {job.slot} /\ UNCHANGED slots_in_use
           \/ slots_in_use' = slots_in_use \ {job.slot} /\ UNCHANGED pictures
     \/ /\ job' = [job EXCEPT !.at = "fallback", !.slot = NoSlot]
        /\ slots_in_use' = slots_in_use \ {job.slot}
        /\ UNCHANGED <<pictures, count, shown>>
  /\ UNCHANGED ring

\* A picture of its own, from the hardware decoder or from libyuv.
ConvertAlone ==
  /\ \/ job.at = "fallback"
     \/ job.at = "decode" /\ ~(Mpp /\ Mjpeg)
  /\ \/ OnFrame
     \/ count' = [count EXCEPT !["convert"] = @ + 1] /\ UNCHANGED shown
  /\ job' = [job EXCEPT !.at = "done"]
  /\ UNCHANGED pool

ProcessV4l2CapturedFrame ==
  /\ ConvertNative \/ AcquireNv12PoolBuffer \/ PoolFilled \/ ConvertAlone
  /\ UNCHANGED <<mode, owner, device, driver, lost, flags, cap, dropped, jpeg_queue_, dec,
                 frames, aged>>

\* ReleaseNv12PoolSlot: the encoder is done with a picture.  After Stop the
\* array of slots is gone and the call does nothing.
EncoderReleases ==
  /\ \E s \in pictures :
       /\ pictures' = pictures \ {s}
       /\ slots_in_use' = slots_in_use \ {s}
  /\ UNCHANGED <<mode, owner, device, driver, lost, flags, cap, dropped, jpeg_queue_, dec,
                 job, ring, frames, aged, shown, count>>

-----------------------------------------------------------------------------
(* DirectCaptureThreadMain                                                 *)

CapLoops ==
  /\ cap.at = "loop"
  /\ cap' = [cap EXCEPT !.at = IF direct_run_ THEN "poll" ELSE "done"]
  /\ UNCHANGED <<driver, lost, dropped, jpeg_queue_, job, frames, aged, count>>

\* poll timed out, or DQBUF failed.
CapGetsNothing ==
  /\ cap.at = "poll"
  /\ cap' = [cap EXCEPT !.at = "loop"]
  /\ UNCHANGED <<driver, lost, dropped, jpeg_queue_, job, frames, aged, count>>

CapDequeues ==
  /\ cap.at = "poll"
  /\ frames < MaxFrames
  /\ frames' = frames + 1
  /\ \E b \in driver :
       /\ driver' = driver \ {b}
       /\ cap' = [at |-> "got", buf |-> b, frame |-> frames + 1]
  /\ UNCHANGED <<lost, dropped, jpeg_queue_, job, aged, count>>

CapReleased == [at |-> "loop", buf |-> NoBuf, frame |-> 0]

\* A frame without payload.  For YUYV only the conversion looks at the size,
\* and it does not count the frame as dropped.
CapEmpty ==
  /\ cap.at = "got"
  /\ count' = [c \in Counters |-> IF c = "captured" \/ (c = "empty" /\ Mjpeg)
                                    THEN count[c] + 1 ELSE count[c]]
  /\ QBufV4l2Index({cap.buf})
  /\ cap' = CapReleased
  /\ UNCHANGED <<dropped, jpeg_queue_, job, frames, aged>>

CapConverts ==
  /\ cap.at = "got"
  /\ ~Async
  /\ count' = [count EXCEPT !["captured"] = @ + 1]
  /\ job' = Converting(cap.buf, cap.frame)
  /\ cap' = [cap EXCEPT !.at = "converting"]
  /\ UNCHANGED <<driver, lost, dropped, jpeg_queue_, frames, aged>>

CapConverted ==
  /\ cap.at = "converting"
  /\ job.at = "done"
  /\ job' = NoJob
  /\ QBufV4l2Index({cap.buf})
  /\ cap' = CapReleased
  /\ UNCHANGED <<dropped, jpeg_queue_, frames, aged, count>>

Entry == [buf |-> cap.buf, frame |-> cap.frame]

\* The loop that takes entries out at the front while they have waited longer
\* than the stale budget ends after n of them; the frames up to f have.
TakesStale(f, n) ==
  /\ \A i \in 1..n : jpeg_queue_[i].frame <= f
  /\ n < Len(jpeg_queue_) => jpeg_queue_[n + 1].frame > f

\* The entry joins the queue.  Stale entries are taken out first; then
\* mjpeg_queue_latest_only_ swaps the queue with the list of what was taken
\* out, while a plain queue drops its oldest entries until one more fits.
Enqueue(f, n) ==
  LET stale == SubSeq(jpeg_queue_, 1, n)
      fresh == SubSeq(jpeg_queue_, n + 1, Len(jpeg_queue_))
      over == IF Len(fresh) >= mjpeg_queue_max_ THEN Len(fresh) + 1 - mjpeg_queue_max_ ELSE 0
  IN /\ aged' = f
     /\ IF mode = "latest"
          THEN dropped' = fresh /\ jpeg_queue_' = Append(stale, Entry)
          ELSE /\ dropped' = stale \o SubSeq(fresh, 1, over)
               /\ jpeg_queue_' = Append(SubSeq(fresh, over + 1, Len(fresh)), Entry)
     /\ count' = [count EXCEPT
          !["captured"] = @ + 1,
          !["stale"] = @ + Len(stale),
          !["latest"] = @ + IF mode = "latest" THEN Len(fresh) ELSE 0,
          !["full"] = @ + IF mode = "latest" THEN 0 ELSE over]

\* Time has passed: what was stale stays stale, and more may have become so.
CapEnqueues ==
  /\ cap.at = "got"
  /\ Async
  /\ \E f \in aged..(cap.frame - 1), n \in 0..Len(jpeg_queue_) : TakesStale(f, n) /\ Enqueue(f, n)
  /\ cap' = [at |-> "requeue", buf |-> NoBuf, frame |-> 0]
  /\ UNCHANGED <<driver, lost, job, frames>>

\* What was dropped goes back to the driver, one QBUF at a time.
CapRequeues ==
  /\ cap.at = "requeue"
  /\ dropped # <<>>
  /\ QBufV4l2Index({Head(dropped).buf})
  /\ dropped' = Tail(dropped)
  /\ UNCHANGED <<cap, jpeg_queue_, job, frames, aged, count>>

\* Mutant of CapNotifies: the decode thread is not told.
CapForgetsNotify ==
  /\ cap.at = "requeue"
  /\ dropped = <<>>
  /\ cap' = CapReleased
  /\ UNCHANGED <<driver, lost, dropped, jpeg_queue_, dec, job, frames, aged, count>>

\* jpeg_queue_cv_.notify_one(): the decode thread is the only one that waits.
CapNotifies ==
  /\ cap.at = "requeue"
  /\ dropped = <<>>
  /\ cap' = CapReleased
  /\ dec' = IF dec = "asleep" THEN "lock" ELSE dec
  /\ UNCHANGED <<driver, lost, dropped, jpeg_queue_, job, frames, aged, count>>

CaptureStep ==
  /\ \/ CapNotifies
     \/ /\ \/ CapLoops \/ CapGetsNothing \/ CapDequeues \/ CapEmpty \/ CapConverts
           \/ CapConverted \/ CapEnqueues \/ CapRequeues
        /\ UNCHANGED dec
  /\ UNCHANGED <<mode, owner, device, flags, pool, shown>>

-----------------------------------------------------------------------------
(* DecodeWorkerThreadMain                                                  *)

\* Mutant of DecTakes: the buffer is given back before it is decoded.
DecTakesAndRequeues ==
  /\ dec = "lock"
  /\ jpeg_queue_ # <<>>
  /\ LET e == Head(jpeg_queue_)
     IN /\ job' = [Converting(e.buf, e.frame) EXCEPT
                     !.at = IF decode_worker_exit_ THEN "done" ELSE "decode"]
        /\ driver' = driver \union {e.buf}
  /\ jpeg_queue_' = Tail(jpeg_queue_)
  /\ dec' = "decoding"
  /\ UNCHANGED lost

\* The oldest entry, to be decoded unless the source is being stopped.
DecTakes ==
  /\ dec = "lock"
  /\ jpeg_queue_ # <<>>
  /\ LET e == Head(jpeg_queue_)
     IN job' = [Converting(e.buf, e.frame) EXCEPT
                  !.at = IF decode_worker_exit_ THEN "done" ELSE "decode"]
  /\ jpeg_queue_' = Tail(jpeg_queue_)
  /\ dec' = "decoding"
  /\ UNCHANGED <<driver, lost>>

\* jpeg_queue_cv_.wait: nothing to decode.
DecWaits ==
  /\ dec = "lock"
  /\ jpeg_queue_ = <<>>
  /\ dec' = IF decode_worker_exit_ THEN "done" ELSE "asleep"
  /\ UNCHANGED <<driver, lost, jpeg_queue_, job>>

DecRequeues ==
  /\ dec = "decoding"
  /\ job.at = "done"
  /\ QBufV4l2Index({job.buf})
  /\ job' = NoJob
  /\ dec' = "lock"
  /\ UNCHANGED jpeg_queue_

DecodeStep ==
  /\ DecTakes \/ DecWaits \/ DecRequeues
  /\ UNCHANGED <<mode, owner, device, flags, cap, dropped, pool, frames, aged, shown, count>>

-----------------------------------------------------------------------------
(* Stop: StopDirectV4l2                                                    *)

\* The owner stops a source that runs; a Start that failed is in "stop".
StopCalled ==
  /\ owner = "running"
  /\ owner' = "stop"
  /\ UNCHANGED <<mode, device, driver, lost, flags, cap, dropped, jpeg_queue_, dec, job,
                 pool, frames, aged, shown, count>>

StopClearsRun ==
  /\ owner = "stop"
  /\ owner' = "join capture"
  /\ direct_run_' = FALSE
  /\ UNCHANGED <<device, driver, lost, decode_worker_exit_, jpeg_queue_, dec, pool>>

StopJoinsCapture ==
  /\ owner = "join capture"
  /\ cap.at \in {"none", "done"}
  /\ owner' = "notify"
  /\ decode_worker_exit_' = TRUE
  /\ UNCHANGED <<device, driver, lost, direct_run_, jpeg_queue_, dec, pool>>

StopNotifies ==
  /\ owner = "notify"
  /\ owner' = "join decoder"
  /\ dec' = IF dec = "asleep" THEN "lock" ELSE dec
  /\ UNCHANGED <<device, driver, lost, flags, jpeg_queue_, pool>>

\* What is left in the queue goes back, and the pool is taken apart.
StopJoinsDecoder ==
  /\ owner = "join decoder"
  /\ dec \in {"none", "done"}
  /\ owner' = "release"
  /\ QBufV4l2Index(BufsOf(jpeg_queue_))
  /\ jpeg_queue_' = <<>>
  /\ decode_worker_exit_' = FALSE
  /\ slots_in_use' = {} /\ ring' = 0
  /\ UNCHANGED <<device, direct_run_, dec, pictures>>

\* STREAMOFF takes the buffers from the driver; they are unmapped or given
\* back to the hardware decoder, and the device is closed.
StopReleases ==
  /\ owner = "release"
  /\ owner' = "stopped"
  /\ driver' = {} /\ lost' = {} /\ mapped' = {} /\ memory' = "none" /\ fd' = FALSE
  /\ UNCHANGED <<flags, jpeg_queue_, dec, pool>>

CaptureStopStep ==
  /\ StopClearsRun \/ StopJoinsCapture \/ StopNotifies \/ StopJoinsDecoder \/ StopReleases
  /\ UNCHANGED <<mode, cap, dropped, job, frames, aged, shown, count>>

-----------------------------------------------------------------------------
NextCapture == CaptureStartStep \/ StopCalled \/ CaptureStopStep \/ CaptureStep \/ DecodeStep
        \/ ProcessV4l2CapturedFrame \/ EncoderReleases

\* The threads run; nobody has to start or to stop the source, the camera may
\* deliver nothing, and the encoder may keep its pictures.
CaptureFairness ==
  /\ WF_captureVars(CaptureStopStep)
  /\ WF_captureVars(CaptureStep)
  /\ WF_captureVars(DecodeStep)
  /\ WF_captureVars(ProcessV4l2CapturedFrame)

CaptureSpec == InitCapture /\ [][NextCapture]_captureVars
FairCaptureSpec == CaptureSpec /\ CaptureFairness

-----------------------------------------------------------------------------
(* Properties                                                              *)

\* Type invariant: the state of a CameraVideoTrackSource and its threads.
CaptureTypeOK ==
  /\ mode \in AllModes
  /\ owner \in {"idle", "format", "buffers", "running", "stop", "join capture", "notify",
                "join decoder", "release", "stopped"}
  /\ fd \in BOOLEAN /\ memory \in {"none", "dmabuf", "mmap"}
  /\ {mapped, driver, lost} \subseteq SUBSET Buffers
  /\ direct_run_ \in BOOLEAN /\ decode_worker_exit_ \in BOOLEAN
  /\ cap \in [at : {"none", "loop", "poll", "got", "converting", "requeue", "done"},
              buf : Buffers \union {NoBuf}, frame : 0..MaxFrames]
  /\ \A q \in {dropped, jpeg_queue_} : q \in Seq([buf : Buffers, frame : 1..MaxFrames])
  /\ dec \in {"none", "lock", "asleep", "decoding", "done"}
  /\ job \in [at : {"none", "decode", "fill", "fallback", "done"},
              buf : Buffers \union {NoBuf}, frame : 0..MaxFrames, slot : Slots \union {NoSlot}]
  /\ slots_in_use \subseteq Slots /\ pictures \subseteq Slots /\ ring \in 0..PoolSlots
  /\ frames \in 0..MaxFrames /\ aged \in 0..MaxFrames /\ shown \in 0..MaxFrames
  /\ count \in [Counters -> Nat]

\* The buffers each place holds; a buffer converted by the capture thread
\* itself is counted with the conversion.
InHand == (IF cap.at = "got" THEN {cap.buf} ELSE {}) \union
          (IF job.at # "none" THEN {job.buf} ELSE {})
Hands == (IF cap.at = "got" THEN 1 ELSE 0) + (IF job.at # "none" THEN 1 ELSE 0)

\* Every mapped V4L2 buffer is in exactly one place: with the driver, in
\* jpeg_queue_, in the list of dropped entries, in the hands of a thread, or
\* refused by the driver.  So the driver never writes into a frame that waits
\* or is being decoded (the QBUF delayed until after the decoding,
\* camera_video_track_source.cpp:1213), no buffer is queued twice, none is
\* forgotten, and no thread reads a buffer that was unmapped.
OneOwner ==
  /\ driver \union lost \union BufsOf(jpeg_queue_) \union BufsOf(dropped) \union InHand = mapped
  /\ Cardinality(driver) + Cardinality(lost) + Len(jpeg_queue_) + Len(dropped) + Hands
       = Cardinality(mapped)

\* The decoder never writes into a slot of the NV12 pool that holds a picture
\* the encoder still reads (AcquireNv12PoolBuffer takes a slot with a
\* compare-and-swap that only the release of the picture undoes).
SlotExclusive ==
  owner \notin {"release", "stopped"} =>
    /\ pictures \subseteq slots_in_use
    /\ job.slot # NoSlot => job.slot \in slots_in_use \ pictures

\* When Stop has returned, or Start has failed, no thread is left, no buffer
\* is mapped or queued and the device is closed (StopDirectV4l2 and the error
\* paths of StartDirectV4l2).
StoppedClean ==
  owner = "stopped" =>
    /\ ~fd /\ memory = "none" /\ mapped = {}
    /\ cap.at \in {"none", "done"} /\ dec \in {"none", "done"}
    /\ jpeg_queue_ = <<>> /\ dropped = <<>>

InFlight == Len(jpeg_queue_) + IF job.at \in {"decode", "fill", "fallback"} THEN 1 ELSE 0

\* While the source runs, the counters of GetPipelineHealthSnapshot account
\* for every MJPEG frame: captured = dispatched + dropped, by cause, + in flight
\* (without mjpeg_queue_latest_only, which keeps entries it counts as stale).
AccountsBalance ==
  mode \in {"queue", "inline"} /\ ~decode_worker_exit_ /\ owner \notin {"release", "stopped"} =>
    count["captured"] = count["dispatched"] + count["stale"] + count["full"] + count["latest"]
                        + count["empty"] + count["convert"] + InFlight

\* jpeg_queue_ is no longer than the options say: mjpeg_queue_max_ entries, or
\* the newest only (mjpeg_queue_latest_only_).
QueueWithinPolicy ==
  Len(jpeg_queue_) <= IF mode = "latest" THEN 1 ELSE mjpeg_queue_max_

\* The clamp of mjpeg_queue_max_ leaves the driver a buffer to capture into
\* whenever the capture thread waits for a frame.
DriverKeepsOne == cap.at = "poll" => driver # {}

\* Frames reach the sinks in the order in which they were captured, whatever
\* was dropped in between.
DispatchInOrder == [][shown' >= shown]_captureVars

\* Stop returns: both threads notice and are joined.
CaptureStopReturns == owner = "stop" ~> owner = "stopped"

\* A buffer that is not with the driver is offered to it again, or the source
\* is stopped: capture never runs dry because a wake-up was lost.
EveryBufferReturns ==
  \A b \in Buffers : b \in mapped \ driver ~> b \in driver \union lost \/ owner = "stopped"

=============================================================================
