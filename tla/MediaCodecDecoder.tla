-------------------------- MODULE MediaCodecDecoder --------------------------
(***************************************************************************)
(* The Android H.264 decoder, core/platform/android/                       *)
(* mediacodec_video_decoder.cpp: libwebrtc's decoder thread (the caller of *)
(* Configure, Decode, Release and RegisterDecodeCompleteCallback, one call *)
(* after the other), the worker that owns codec_ and image_reader_, and    *)
(* the output drain thread.  MediaCodec and AImageReader are external.     *)
(*                                                                         *)
(* A block under mu_ is one step; what the worker and the output thread do *)
(* without it is split where another thread can come in between.  A frame  *)
(* is the number of its Decode call.  An image carries a pts and, as a     *)
(* ghost, the frame it shows.                                              *)
(***************************************************************************)
EXTENDS Naturals, Sequences, FiniteSets, SequencesExt

CONSTANTS
  Callbacks,         \* DecodedImageCallbacks
  MaxFrames,         \* bound on Decode calls
  MaxConfigures,     \* bound on Configure calls
  InputBuffers,      \* input buffers of the codec
  MaxMetadata,       \* kMaxPendingOutputMetadata
  MaxImages,         \* kImageReaderMaxImages
  MayFail            \* may the codec's and the reader's functions fail?

ASSUME DecoderAssumption ==
  /\ {MaxFrames, MaxConfigures} \subseteq Nat
  /\ {InputBuffers, MaxMetadata, MaxImages} \subseteq Nat \ {0}
  /\ MayFail \in BOOLEAN

None == "none"
Task(kind, frame) == [kind |-> kind, frame |-> frame]
ASSUME CallbacksAssumption == None \notin Callbacks

VARIABLES
  app,                        \* the caller: idle or inside one of the functions
  frames, configures,         \* calls so far
  callback_, used, over,      \* history: used, registered; over, a Release has returned since
  running_, tasks_, pending_decode_tasks_,
  worker, job, at,            \* the worker: none, asleep, awake, busy; its task and where it is
  codec_, image_reader_,
  next_input_pts_us_, now, pts,   \* pts: of the frame the worker feeds
  metadata,                   \* pending_output_metadata_
  input, output, rendering,   \* external: frames in the codec, decoded, on the way to the reader
  images, unnotified, held,   \* external: in the reader, not yet announced, held downstream
  notifications,              \* pending_image_notifications_, above 0 or not
  output_running_,
  out, cb, released, after, image,  \* the output thread and its locals
  delivered                   \* history: the frames of the last image passed on, and its metadata's

appVars == <<app, frames, configures, callback_, used, over>>
queueVars == <<running_, tasks_, pending_decode_tasks_>>
workerVars == <<worker, job, at>>
codecVars == <<codec_, image_reader_>>
ptsVars == <<next_input_pts_us_, now, pts>>
device == <<input, output, rendering, images, unnotified, held>>
outVars == <<out, cb, released, after, image>>
vars == <<appVars, queueVars, workerVars, codecVars, ptsVars, metadata, device, notifications,
          output_running_, outVars, delivered>>

Init ==
  /\ app = "idle" /\ frames = 0 /\ configures = 0
  /\ callback_ = None /\ used = {} /\ over = {}
  /\ running_ = FALSE /\ tasks_ = <<>> /\ pending_decode_tasks_ = 0
  /\ worker = "none" /\ job = Task(None, 0) /\ at = None
  /\ codec_ = FALSE /\ image_reader_ = FALSE
  /\ next_input_pts_us_ = 0 /\ now = 1 /\ pts = 0 /\ metadata = <<>>
  /\ input = <<>> /\ output = <<>> /\ rendering = <<>>
  /\ images = <<>> /\ unnotified = 0 /\ held = 0 /\ notifications = FALSE
  /\ output_running_ = FALSE
  /\ out = "none" /\ cb = None /\ released = FALSE /\ after = None /\ image = <<>>
  /\ delivered = [frame |-> 0, meta |-> 0, order |-> TRUE]

-----------------------------------------------------------------------------
(* The caller *)

Register(c) ==
  /\ app = "idle" /\ c \notin over
  /\ callback_' = c /\ used' = used \union ({c} \ {None})
  /\ UNCHANGED <<app, frames, configures, over, queueVars, workerVars, codecVars, ptsVars,
                 metadata, device, notifications, output_running_, outVars, delivered>>

\* Decode: the frame is queued ...
Decode ==
  /\ app = "idle" /\ running_ /\ frames < MaxFrames
  /\ frames' = frames + 1
  /\ pending_decode_tasks_' = pending_decode_tasks_ + 1
  /\ tasks_' = Append(tasks_, Task("frame", frames + 1))
  /\ app' = "decode"
  /\ UNCHANGED <<configures, callback_, used, over, running_, workerVars, codecVars, ptsVars,
                 metadata, device, notifications, output_running_, outVars, delivered>>

\* Configure: the worker is started if it does not run, and what is queued is
\* replaced by the task.
Configure ==
  /\ app = "idle" /\ configures < MaxConfigures
  /\ configures' = configures + 1
  /\ running_' = TRUE
  /\ worker' = IF running_ THEN worker ELSE "awake"
  /\ tasks_' = <<Task("configure", 0)>> /\ pending_decode_tasks_' = 0
  /\ app' = "configure"
  /\ UNCHANGED <<frames, callback_, used, over, job, at, codecVars, ptsVars, metadata, device,
                 notifications, output_running_, outVars, delivered>>

\* Release: no callback from now on, and the codec is destroyed by the worker,
\* or by the caller where there is no worker.
Release ==
  /\ app = "idle"
  /\ callback_' = None
  /\ IF running_
     THEN tasks_' = <<Task("release", 0)>> /\ pending_decode_tasks_' = 0 /\ UNCHANGED metadata
     ELSE metadata' = <<>> /\ UNCHANGED <<tasks_, pending_decode_tasks_>>
  /\ app' = IF running_ THEN "release" ELSE "output"
  /\ UNCHANGED <<frames, configures, used, over, running_, workerVars, codecVars, ptsVars, device,
                 notifications, output_running_, outVars, delivered>>

Wake == worker' = IF worker = "asleep" THEN "awake" ELSE worker

\* ... and the worker notified.
Waits == [decode |-> "idle", configure |-> "configure_wait", release |-> "release_wait"]

\* Mutant of Notifies: Release queues its task and does not notify.
ReleaseForgetsNotify ==
  /\ app \in DOMAIN Waits
  /\ app' = Waits[app]
  /\ IF app = "release" THEN UNCHANGED worker ELSE Wake
  /\ UNCHANGED <<frames, configures, callback_, used, over, queueVars, job, at, codecVars, ptsVars,
                 metadata, device, notifications, output_running_, outVars, delivered>>

Notifies ==
  /\ app \in DOMAIN Waits
  /\ app' = Waits[app]
  /\ Wake
  /\ UNCHANGED <<frames, configures, callback_, used, over, queueVars, job, at, codecVars, ptsVars,
                 metadata, device, notifications, output_running_, outVars, delivered>>

\* Mutant of StopOutputDrainThread: the thread is told to stop and not waited for.
StopsWithoutJoin(join, next) == next

\* StopOutputDrainThread, with output_running_ set to false: who finds it true
\* joins the thread.
StopOutputDrainThread(join, next) == IF output_running_ THEN join ELSE next

\* Release stops the output thread too ...
ReleaseStopsOutput ==
  /\ app = "output"
  /\ output_running_' = FALSE
  /\ app' = StopOutputDrainThread("output_join", "worker")
  /\ UNCHANGED <<frames, configures, callback_, used, over, queueVars, workerVars, codecVars,
                 ptsVars, metadata, device, notifications, outVars, delivered>>

\* ... and then the worker: StopWorker ...
StopWorker ==
  /\ app \in {"output_join", "worker"} /\ (app = "output_join" => out = "none")
  /\ running_' = FALSE /\ tasks_' = <<>> /\ pending_decode_tasks_' = 0
  /\ app' = "worker_notify"
  /\ UNCHANGED <<frames, configures, callback_, used, over, workerVars, codecVars, ptsVars,
                 metadata, device, notifications, output_running_, outVars, delivered>>

StopNotifies ==
  /\ app = "worker_notify"
  /\ Wake
  /\ app' = "worker_join"
  /\ UNCHANGED <<frames, configures, callback_, used, over, queueVars, job, at, codecVars, ptsVars,
                 metadata, device, notifications, output_running_, outVars, delivered>>

\* ... joins the worker.
ReleaseReturns ==
  /\ app = "worker_join" /\ worker = "none"
  /\ app' = "idle" /\ over' = over \union used
  /\ UNCHANGED <<frames, configures, callback_, used, queueVars, workerVars, codecVars, ptsVars,
                 metadata, device, notifications, output_running_, outVars, delivered>>

-----------------------------------------------------------------------------
(* The worker *)

\* The task is over; for Configure and Release the caller's future is set.
JobEnds ==
  /\ worker' = "awake" /\ job' = Task(None, 0) /\ at' = None
  /\ app' = CASE job.kind = "configure" -> "idle"
              [] job.kind = "release" -> "output"
              [] OTHER -> app
  /\ UNCHANGED <<frames, configures, callback_, used, over>>

JobGoesTo(where) == at' = where /\ UNCHANGED <<worker, job, appVars>>

\* WorkerLoop under mu_.
WorkerLoop ==
  /\ worker = "awake"
  /\ IF tasks_ # <<>>
     THEN /\ worker' = "busy" /\ job' = Head(tasks_) /\ tasks_' = Tail(tasks_)
          /\ at' = IF Head(tasks_).kind = "frame" THEN "frame" ELSE "destroy"
     ELSE /\ worker' = IF running_ THEN "asleep" ELSE "none"
          /\ UNCHANGED <<job, at, tasks_>>
  /\ UNCHANGED <<appVars, running_, pending_decode_tasks_, codecVars, ptsVars, metadata, device,
                 notifications, output_running_, outVars, delivered>>

\* DestroyCodec: StopOutputDrainThread ...
DestroyStops ==
  /\ worker = "busy" /\ at = "destroy"
  /\ output_running_' = FALSE
  /\ JobGoesTo(StopOutputDrainThread("join", "delete"))
  /\ UNCHANGED <<queueVars, codecVars, ptsVars, metadata, device, notifications, outVars,
                 delivered>>

DestroyJoins ==
  /\ worker = "busy" /\ at = "join" /\ out = "none"
  /\ JobGoesTo("delete")
  /\ UNCHANGED <<queueVars, codecVars, ptsVars, metadata, device, notifications, output_running_,
                 outVars, delivered>>

\* What the deletion of the codec and of the reader takes with it.
NothingInDevice ==
  /\ input' = <<>> /\ output' = <<>> /\ rendering' = <<>> /\ images' = <<>> /\ unnotified' = 0
  /\ notifications' = FALSE
  /\ UNCHANGED held

\* ... then codec and reader go, and ClearOutputMetadata.
DestroyDeletes ==
  /\ worker = "busy" /\ at = "delete"
  /\ codec_' = FALSE /\ image_reader_' = FALSE
  /\ NothingInDevice
  /\ metadata' = <<>>
  /\ IF job.kind = "release" THEN JobEnds ELSE JobGoesTo("create")
  /\ UNCHANGED <<queueVars, ptsVars, output_running_, outVars, delivered>>

\* ConfigureOnWorker after DestroyCodec: the codec ...
CreateCodec ==
  /\ worker = "busy" /\ at = "create"
  /\ \/ codec_' = TRUE /\ JobGoesTo("reader")
     \/ MayFail /\ UNCHANGED codec_ /\ JobEnds
  /\ UNCHANGED <<queueVars, image_reader_, ptsVars, metadata, device, notifications,
                 output_running_, outVars, delivered>>

\* Mutant of CreateReader: a reader that fails leaves the codec.
ReaderFailureLeaks ==
  /\ worker = "busy" /\ at = "reader"
  /\ \/ image_reader_' = TRUE /\ JobGoesTo("start")
     \/ MayFail /\ UNCHANGED image_reader_ /\ JobEnds
  /\ UNCHANGED <<queueVars, codec_, ptsVars, metadata, device, notifications, output_running_,
                 outVars, delivered>>

\* ... the image reader ...
CreateReader ==
  /\ worker = "busy" /\ at = "reader"
  /\ \/ image_reader_' = TRUE /\ UNCHANGED codec_ /\ JobGoesTo("start")
     \/ MayFail /\ codec_' = FALSE /\ UNCHANGED image_reader_ /\ JobEnds
  /\ notifications' = FALSE
  /\ UNCHANGED <<queueVars, ptsVars, metadata, device, output_running_, outVars, delivered>>

\* ... and window, configure and start, any of which may fail: DestroyCodec.
StartCodec ==
  /\ worker = "busy" /\ at = "start"
  /\ \/ /\ output_running_' = TRUE /\ out' = "loop" /\ next_input_pts_us_' = 0
        /\ UNCHANGED codecVars
     \/ /\ MayFail
        /\ codec_' = FALSE /\ image_reader_' = FALSE
        /\ UNCHANGED <<output_running_, out, next_input_pts_us_>>
  /\ JobEnds
  /\ UNCHANGED <<queueVars, now, pts, metadata, device, notifications, cb, released, after, image,
                 delivered>>

\* ProcessOneFrame: without a codec, or an input buffer, the frame is dropped.
FeedBegins ==
  /\ worker = "busy" /\ at = "frame"
  /\ \/ codec_ /\ Len(input) < InputBuffers /\ JobGoesTo("record")
     \/ (~codec_ \/ MayFail \/ Len(input) = InputBuffers) /\ JobGoesTo("count")
  /\ UNCHANGED <<queueVars, codecVars, ptsVars, metadata, device, notifications, output_running_,
                 outVars, delivered>>

\* Mutant of AllocatedPts: the clock alone gives the pts.
AllocatedPtsRepeats(clock) == IF clock <= next_input_pts_us_ THEN next_input_pts_us_ ELSE clock

\* AllocateInputPtsUs; the clock may stand still between two frames.
AllocatedPts(clock) == IF clock <= next_input_pts_us_ THEN next_input_pts_us_ + 1 ELSE clock

Recorded(entry) ==
  LET all == Append(metadata, entry) IN IF Len(all) > MaxMetadata THEN Tail(all) ELSE all

\* RecordOutputMetadata.
Record ==
  /\ worker = "busy" /\ at = "record"
  /\ now' \in {now, now + 1}
  /\ next_input_pts_us_' = AllocatedPts(now') /\ pts' = AllocatedPts(now')
  /\ metadata' = Recorded([pts |-> AllocatedPts(now'), frame |-> job.frame])
  /\ JobGoesTo("queue")
  /\ UNCHANGED <<queueVars, codecVars, device, notifications, output_running_, outVars, delivered>>

\* RemoveOutputMetadata.
RemoveMetadata ==
  \/ \E i \in DOMAIN metadata : metadata[i].pts = pts /\ metadata' = RemoveAt(metadata, i)
  \/ (\A i \in DOMAIN metadata : metadata[i].pts # pts) /\ UNCHANGED metadata

\* queueInputBuffer; where it fails RemoveOutputMetadata.
QueueInput ==
  /\ worker = "busy" /\ at = "queue"
  /\ \/ input' = Append(input, [pts |-> pts, frame |-> job.frame]) /\ UNCHANGED metadata
     \/ MayFail /\ RemoveMetadata /\ UNCHANGED input
  /\ JobGoesTo("count")
  /\ UNCHANGED <<queueVars, codecVars, ptsVars, output, rendering, images, unnotified, held,
                 notifications, output_running_, outVars, delivered>>

\* The end of the task that Decode queued.
FrameEnds ==
  /\ worker = "busy" /\ at = "count"
  /\ pending_decode_tasks_' = IF pending_decode_tasks_ > 0 THEN pending_decode_tasks_ - 1 ELSE 0
  /\ JobEnds
  /\ UNCHANGED <<running_, tasks_, codecVars, ptsVars, metadata, device, notifications,
                 output_running_, outVars, delivered>>

-----------------------------------------------------------------------------
(* External: MediaCodec, in decoding order, and the image reader *)

CodecDecodes ==
  /\ input # <<>>
  /\ input' = Tail(input)
  /\ output' \in {Append(output, Head(input))} \union (IF MayFail THEN {output} ELSE {})
  /\ UNCHANGED <<appVars, queueVars, workerVars, codecVars, ptsVars, metadata, rendering, images,
                 unnotified, held, notifications, output_running_, outVars, delivered>>

ImageArrives ==
  /\ rendering # <<>>
  /\ rendering' = Tail(rendering)
  /\ images' = Append(images, Head(rendering)) /\ unnotified' = unnotified + 1
  /\ UNCHANGED <<appVars, queueVars, workerVars, codecVars, ptsVars, metadata, input, output, held,
                 notifications, output_running_, outVars, delivered>>

\* Downstream lets go of a frame.
FrameReleased ==
  /\ held > 0
  /\ held' = held - 1
  /\ UNCHANGED <<appVars, queueVars, workerVars, codecVars, ptsVars, metadata, input, output,
                 rendering, images, unnotified, notifications, output_running_, outVars, delivered>>

\* The listener, on a thread of the reader.
OnImageAvailable ==
  /\ unnotified > 0
  /\ unnotified' = unnotified - 1 /\ notifications' = TRUE
  /\ UNCHANGED <<appVars, queueVars, workerVars, codecVars, ptsVars, metadata, input, output,
                 rendering, images, held, output_running_, outVars, delivered>>

-----------------------------------------------------------------------------
(* The output drain thread *)

OutLoop ==
  /\ out = "loop"
  /\ out' = IF output_running_ THEN "drain" ELSE "none"
  /\ released' = FALSE
  /\ UNCHANGED <<appVars, queueVars, workerVars, codecVars, ptsVars, metadata, device,
                 notifications, output_running_, cb, after, image, delivered>>

\* The first n metadata are popped.
Popped(n) == SubSeq(metadata, n + 1, Len(metadata))

\* DiscardOutputMetadataUpToPtsUs: the front goes as long as it is not newer.
Newer(p) == Popped(Cardinality({i \in DOMAIN metadata : \A j \in 1..i : metadata[j].pts <= p}))

\* DrainOutputs takes one buffer: rendered into the reader, or, without a
\* callback, given back.
DrainOne ==
  /\ out = "drain" /\ output # <<>>
  /\ output' = Tail(output)
  /\ IF callback_ # None
     THEN rendering' = Append(rendering, Head(output)) /\ released' = TRUE /\ UNCHANGED metadata
     ELSE metadata' = Newer(Head(output).pts) /\ UNCHANGED <<rendering, released>>
  /\ UNCHANGED <<appVars, queueVars, workerVars, codecVars, ptsVars, input, images, unnotified,
                 held, notifications, output_running_, out, cb, after, image, delivered>>

DrainEnds ==
  /\ out = "drain" /\ output = <<>>
  /\ out' = IF released THEN "images" ELSE "notified"
  /\ after' = "notified"
  /\ UNCHANGED <<appVars, queueVars, workerVars, codecVars, ptsVars, metadata, device,
                 notifications, output_running_, cb, released, image, delivered>>

Notified ==
  /\ out = "notified"
  /\ out' = IF notifications THEN "images" ELSE "loop"
  /\ after' = "loop"
  /\ UNCHANGED <<appVars, queueVars, workerVars, codecVars, ptsVars, metadata, device,
                 notifications, output_running_, cb, released, image, delivered>>

\* DrainReadyImages: the callback is read under mu_ ...
ReadCallback ==
  /\ out = "images"
  /\ cb' = callback_
  /\ out' = IF callback_ = None THEN after ELSE "acquire"
  /\ UNCHANGED <<appVars, queueVars, workerVars, codecVars, ptsVars, metadata, device,
                 notifications, output_running_, released, after, image, delivered>>

\* ... AcquireLatestOutputImage takes the newest image and drops the others,
\* finds none, or as many are held as there may be ...
Acquire ==
  /\ out = "acquire"
  /\ IF images # <<>> /\ held < MaxImages
     THEN image' = <<Last(images)>> /\ images' = <<>>
     ELSE image' = <<>> /\ UNCHANGED images
  /\ out' = "reset"
  /\ UNCHANGED <<appVars, queueVars, workerVars, codecVars, ptsVars, metadata, input, output,
                 rendering, unnotified, held, notifications, output_running_, cb, released, after,
                 delivered>>

\* Any other error of the reader.
AcquireFails ==
  /\ out = "acquire" /\ MayFail
  /\ out' = after
  /\ UNCHANGED <<appVars, queueVars, workerVars, codecVars, ptsVars, metadata, device,
                 notifications, output_running_, cb, released, after, image, delivered>>

\* ... and forgets the notifications.
Reset ==
  /\ out = "reset"
  /\ notifications' = FALSE
  /\ out' = IF image = <<>> THEN after ELSE "take"
  /\ UNCHANGED <<appVars, queueVars, workerVars, codecVars, ptsVars, metadata, device,
                 output_running_, cb, released, after, image, delivered>>

\* TakeOutputMetadataForPtsUs: the front goes as long as it is older.
Taken(p) == Popped(Cardinality({i \in DOMAIN metadata : \A j \in 1..i : metadata[j].pts < p}))

\* The image has no hardware buffer, no size or no timestamp.
ImageFails ==
  /\ out = "take" /\ MayFail
  /\ out' = "images"
  /\ UNCHANGED <<appVars, queueVars, workerVars, codecVars, ptsVars, metadata, device,
                 notifications, output_running_, cb, released, after, image, delivered>>

\* The image gets its metadata, or it is dropped: there is none, or it is too
\* late by now.
TakeMetadata ==
  /\ out = "take"
  /\ LET p == image[1].pts  kept == Taken(p)  found == kept # <<>> /\ kept[1].pts = p IN
     /\ metadata' = IF found THEN Tail(kept) ELSE kept
     /\ \/ /\ found
           /\ out' = "deliver"
           /\ delivered' = [frame |-> image[1].frame, meta |-> kept[1].frame,
                            order |-> delivered.order /\ delivered.frame < image[1].frame]
        \/ (~found \/ MayFail) /\ out' = "images" /\ UNCHANGED delivered
  /\ UNCHANGED <<appVars, queueVars, workerVars, codecVars, ptsVars, device, notifications,
                 output_running_, cb, released, after, image>>

\* cb->Decoded.
Deliver ==
  /\ out = "deliver"
  /\ out' = "images" /\ held' = held + 1
  /\ UNCHANGED <<appVars, queueVars, workerVars, codecVars, ptsVars, metadata, input, output,
                 rendering, images, unnotified, notifications, output_running_, cb, released, after,
                 image, delivered>>

-----------------------------------------------------------------------------
CallerGoesOn == Notifies \/ ReleaseStopsOutput \/ StopWorker \/ StopNotifies \/ ReleaseReturns

CallerStep ==
  \/ (\E c \in Callbacks \union {None} : Register(c)) \/ Decode \/ Configure \/ Release
  \/ CallerGoesOn

WorkerStep ==
  \/ WorkerLoop \/ DestroyStops \/ DestroyJoins \/ DestroyDeletes
  \/ CreateCodec \/ CreateReader \/ StartCodec
  \/ FeedBegins \/ Record \/ QueueInput \/ FrameEnds

DeviceStep == CodecDecodes \/ ImageArrives \/ FrameReleased \/ OnImageAvailable

OutputStep ==
  \/ OutLoop \/ DrainOne \/ DrainEnds \/ Notified
  \/ ReadCallback \/ Acquire \/ AcquireFails \/ Reset \/ ImageFails \/ TakeMetadata \/ Deliver

Next == CallerStep \/ WorkerStep \/ DeviceStep \/ OutputStep

Spec == Init /\ [][Next]_vars

\* The threads run, and a call that has begun goes on.
FairSpec ==
  /\ Spec
  /\ WF_vars(CallerGoesOn) /\ WF_vars(WorkerStep) /\ WF_vars(OutputStep)

\* The device works too: what is fed comes out and is announced.
DeviceFairSpec ==
  /\ FairSpec
  /\ WF_vars(CodecDecodes) /\ WF_vars(ImageArrives) /\ WF_vars(OnImageAvailable)
  /\ WF_vars(FrameReleased)

-----------------------------------------------------------------------------
\* What goes through codec and reader, and what is kept of a frame meanwhile.
Entry == [pts : Nat, frame : 1..MaxFrames]

\* The types of the variables; no more images are held downstream than the
\* reader has.
TypeOK ==
  /\ app \in {"idle", "decode", "configure", "configure_wait", "release", "release_wait",
              "output", "output_join", "worker", "worker_notify", "worker_join"}
  /\ frames \in 0..MaxFrames /\ configures \in 0..MaxConfigures
  /\ callback_ \in Callbacks \union {None} /\ used \subseteq Callbacks /\ over \subseteq Callbacks
  /\ running_ \in BOOLEAN /\ pending_decode_tasks_ \in 0..MaxFrames
  /\ tasks_ \in Seq([kind : {"frame", "configure", "release"}, frame : 0..MaxFrames])
  /\ worker \in {"none", "asleep", "awake", "busy"}
  /\ job \in [kind : {None, "frame", "configure", "release"}, frame : 0..MaxFrames]
  /\ at \in {None, "destroy", "join", "delete", "create", "reader", "start", "frame", "record",
             "queue", "count"}
  /\ codec_ \in BOOLEAN /\ image_reader_ \in BOOLEAN /\ notifications \in BOOLEAN
  /\ output_running_ \in BOOLEAN /\ released \in BOOLEAN
  /\ next_input_pts_us_ \in Nat /\ now \in Nat /\ pts \in Nat
  /\ metadata \in Seq(Entry) /\ Len(metadata) <= MaxMetadata
  /\ input \in Seq(Entry) /\ output \in Seq(Entry) /\ rendering \in Seq(Entry)
  /\ images \in Seq(Entry) /\ unnotified \in Nat /\ held \in 0..MaxImages
  /\ out \in {"none", "loop", "drain", "notified", "images", "acquire", "reset", "take", "deliver"}
  /\ cb \in Callbacks \union {None} /\ after \in {None, "notified", "loop"}
  /\ image \in Seq(Entry)
  /\ delivered \in [frame : 0..MaxFrames, meta : 0..MaxFrames, order : BOOLEAN]

\* While the output thread runs, codec and reader exist: Configure and Release
\* delete them on the worker only after the thread has left its loop.
CodecOutlivesOutput == out # "none" => codec_ /\ image_reader_

\* No frame is passed to a callback after a Release that followed its
\* registration has returned, although the output thread uses the callback it
\* read before.
NoCallbackAfterRelease == out = "deliver" => cb \notin over

\* A frame is passed on with the timestamps of its own Decode call, once, and
\* in the order of the calls, although images and metadata go different ways
\* and either may be dropped.
DeliveredRight == delivered.frame = delivered.meta /\ delivered.order

\* A Configure that fails, at whatever step, leaves neither codec nor reader
\* nor output thread behind; one that succeeds has all three.
AllOrNothing ==
  job.kind \in {None, "frame"} => codec_ = image_reader_ /\ codec_ = output_running_

\* The count of pending frames agrees with the queue, also where Configure or
\* Release emptied the queue while a frame was fed.
PendingAgrees ==
  LET queued == Cardinality({i \in DOMAIN tasks_ : tasks_[i].kind = "frame"})
  IN pending_decode_tasks_ \in {queued} \union (IF job.kind = "frame" THEN {queued + 1} ELSE {})

\* Every Configure, Decode and Release returns.
CallsReturn == app # "idle" ~> app = "idle"

\* Known deviations, checked by configurations of their own.

\* "Output is pulled by the independent drain thread" (ProcessOneFrame): an
\* image in the reader is taken, or superseded by one that is.
ImageTaken == images # <<>> ~> images = <<>> \/ ~output_running_ \/ callback_ = None

\* A callback that was replaced or removed is not called any more.
RegisterIsImmediate == out = "deliver" /\ app = "idle" => cb = callback_

=============================================================================
