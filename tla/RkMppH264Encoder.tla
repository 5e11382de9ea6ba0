-------------------------- MODULE RkMppH264Encoder --------------------------
(***************************************************************************)
(* The Rockchip H.264 encoder, core/platform/rockchip/h264_encoder.cpp.    *)
(* Its functions hold mpp_mu_, so only two parties run beside a call: MPP, *)
(* which encodes the frames it was given and is external, and libwebrtc,   *)
(* which gives back the output buffers it was passed.                      *)
(*                                                                         *)
(* Encode is split where MPP can come in between.  A frame is the number   *)
(* of its Encode call (its RTP timestamp); a packet of MPP carries the     *)
(* frame it was encoded from.  The conditions that compare clocks or bit   *)
(* rates are choices.                                                      *)
(***************************************************************************)
EXTENDS Naturals, Integers, Sequences, FiniteSets

CONSTANTS
  Sizes,             \* picture sizes
  Rates,             \* bit rates
  Kinds,             \* what is encoded: "nv12" and "nv21" in buffers of MPP, "planar"
  Environments,      \* what a process's environment variables may be
  SoftFails,         \* recover_soft_fail_threshold_
  HardFails,         \* recover_hard_fail_threshold_
  RecoverMax,        \* RFLOW_MPP_ENC_RECOVER_MAX
  ZeroCopyFails,     \* native_zero_copy_fail_disable_threshold_
  ImportResetFails,  \* import_grp_reset_threshold_
  ImportPauseFails,  \* import_pause_threshold_
  ProbeInterval,     \* import_pause_probe_interval_
  ResetLoopPause,    \* import_reset_loop_pause_threshold_
  EmptyPktRetries,   \* empty_pkt_retry_max_
  MaxPackets,        \* max_pkt_iterations of a split session
  PartCounts,        \* how many parts MPP may split a frame into
  DrainMax,          \* put_frame_drain_max_
  MaxOutstanding,    \* direct_max_outstanding_
  MaxEncodes,        \* bound on Encode calls
  MaxInits           \* bound on InitEncode calls

\* RFLOW_MPP_ENC_ZERO_COPY_BIND, _SPLIT_BYTES (set or not), _NATIVE_ZERO_COPY_STRICT, and
\* _INPUT_TIMEOUT_MS and _OUTPUT_TIMEOUT_MS: with -1 a wait for MPP has no limit.
EnvValues ==
  [bind : {"direct", "null", "external"}, split : BOOLEAN, strict : BOOLEAN, limited : BOOLEAN]

ASSUME EncoderAssumption ==
  /\ Kinds \subseteq {"nv12", "nv21", "planar"} /\ Environments \subseteq EnvValues
  /\ 0 \notin Rates
  /\ {SoftFails, HardFails, RecoverMax, ZeroCopyFails, ImportResetFails, ImportPauseFails,
      ProbeInterval, ResetLoopPause, MaxPackets, DrainMax, MaxOutstanding} \subseteq Nat \ {0}
  /\ {EmptyPktRetries, MaxEncodes, MaxInits} \subseteq Nat /\ PartCounts \subseteq Nat \ {0}

None == "none"
ASSUME SizesAssumption == None \notin Sizes

VARIABLES
  env,                \* the process's environment variables
  callback_, cached_codec_inst_, width_, initialized_,
  split_by_byte_enabled_, has_encoded_output_,
  target_bps_, applied_target_bps_,
  consecutive_output_failures_, mpp_recover_attempts_,
  native_zero_copy_enabled_, native_zero_copy_failures_,
  imports,            \* import_*: failures, paused, probes, resets, group
  enc,                \* the Encode call: where it is, and its locals
  assembly,           \* split_assembly_buf_ or direct_output_buffer: the packets in it
  refs,               \* references the encoder took on each frame's buffer and did not put
  dev, input, output, \* external: the MPP context, the frames in it, the packets in it
  outstanding,        \* g_mpp_output_outstanding
  encodes, inits,
  flaws               \* history: what the last call on the encoder did at a bad moment

config == <<env, callback_, cached_codec_inst_, width_>>
session == <<initialized_, split_by_byte_enabled_, has_encoded_output_>>
rc == <<target_bps_, applied_target_bps_>>
recovery == <<consecutive_output_failures_, mpp_recover_attempts_>>
zeroCopy == <<native_zero_copy_enabled_, native_zero_copy_failures_, imports>>
mpp == <<dev, input, output>>
calls == <<encodes, inits>>
encoderVars ==
  <<config, session, rc, recovery, zeroCopy, enc, assembly, refs, mpp, outstanding, calls, flaws>>

IdleCall == [at |-> "idle", frame |-> 0, kind |-> None, zc |-> FALSE, orphan |-> FALSE,
         held |-> FALSE, retries |-> 0, turn |-> FALSE]
NoDevice == [up |-> FALSE, size |-> None, split |-> FALSE, started |-> FALSE]
NoImports == [failures |-> 0, paused |-> FALSE, probes |-> 0, resets |-> 0, group |-> FALSE]

InitEncoder ==
  /\ env \in Environments
  /\ callback_ = FALSE /\ cached_codec_inst_ = None /\ width_ = None
  /\ initialized_ = FALSE /\ split_by_byte_enabled_ = FALSE /\ has_encoded_output_ = FALSE
  /\ target_bps_ = 0 /\ applied_target_bps_ = 0
  /\ consecutive_output_failures_ = 0 /\ mpp_recover_attempts_ = 0
  /\ native_zero_copy_enabled_ = TRUE /\ native_zero_copy_failures_ = 0 /\ imports = NoImports
  /\ enc = IdleCall /\ assembly = {} /\ refs = [f \in 1..MaxEncodes |-> 0]
  /\ dev = NoDevice /\ input = <<>> /\ output = <<>> /\ outstanding = 0
  /\ encodes = 0 /\ inits = 0
  /\ flaws = {}

-----------------------------------------------------------------------------
(* DestroyMpp and InitMppHardwareLocked: the session is made anew, or is gone *)

DestroyMpp ==
  /\ initialized_' = FALSE /\ has_encoded_output_' = FALSE
  /\ consecutive_output_failures_' = 0 /\ applied_target_bps_' = 0
  /\ dev' = NoDevice /\ input' = <<>> /\ output' = <<>>
  /\ assembly' = {}

\* Mutant of Initialized: has_encoded_output_ keeps the value it had before.
InitializedKeepsOutput(size, split, rate) ==
  /\ initialized_' = TRUE /\ has_encoded_output_' = has_encoded_output_
  /\ consecutive_output_failures_' = 0 /\ applied_target_bps_' = rate
  /\ \E s \in {split, FALSE} :
       /\ split_by_byte_enabled_' = s
       /\ dev' = [up |-> TRUE, size |-> size, split |-> s, started |-> FALSE]
  /\ input' = <<>> /\ output' = <<>> /\ assembly' = {}
  /\ \E g \in BOOLEAN : imports' = [NoImports EXCEPT !.group = g /\ env.bind = "external"]

\* The split setting may be refused, and the import group not be had.
Initialized(size, split, rate) ==
  /\ initialized_' = TRUE /\ has_encoded_output_' = FALSE
  /\ consecutive_output_failures_' = 0 /\ applied_target_bps_' = rate
  /\ \E s \in {split, FALSE} :
       /\ split_by_byte_enabled_' = s
       /\ dev' = [up |-> TRUE, size |-> size, split |-> s, started |-> FALSE]
  /\ input' = <<>> /\ output' = <<>> /\ assembly' = {}
  /\ \E g \in BOOLEAN : imports' = [NoImports EXCEPT !.group = g /\ env.bind = "external"]

InitMppHardwareLocked(ok, size, split, rate) ==
  /\ native_zero_copy_failures_' = 0
  /\ IF ok THEN Initialized(size, split, rate)
     ELSE DestroyMpp /\ imports' = NoImports /\ split_by_byte_enabled_' = split

-----------------------------------------------------------------------------
(* InitEncode, Release, SetRates, RegisterEncodeCompleteCallback *)

InitEncode(size, rate) ==
  /\ enc.at = "idle" /\ inits < MaxInits
  /\ inits' = inits + 1
  /\ width_' = size /\ cached_codec_inst_' = size
  /\ target_bps_' = rate /\ native_zero_copy_enabled_' = TRUE
  /\ mpp_recover_attempts_' = 0 /\ flaws' = {}
  /\ \E ok \in BOOLEAN : InitMppHardwareLocked(ok, size, env.split, rate)
  /\ UNCHANGED <<env, callback_, enc, refs, outstanding, encodes>>

Release ==
  /\ enc.at = "idle" /\ cached_codec_inst_ # None
  /\ cached_codec_inst_' = None /\ mpp_recover_attempts_' = 0
  /\ DestroyMpp /\ imports' = [imports EXCEPT !.group = FALSE]
  /\ UNCHANGED <<env, callback_, width_, split_by_byte_enabled_, target_bps_,
                 native_zero_copy_enabled_, native_zero_copy_failures_, enc, refs, outstanding,
                 calls, flaws>>

RegisterEncodeCompleteCallback ==
  /\ enc.at = "idle" /\ ~callback_
  /\ callback_' = TRUE
  /\ UNCHANGED <<env, cached_codec_inst_, width_, session, rc, recovery, zeroCopy, enc, assembly,
                 refs, mpp, outstanding, calls, flaws>>

\* What MPP is doing: nothing was encoded yet, a frame is in it, or neither.
Doing == IF ~dev.started THEN {"configured before first"}
         ELSE IF input # <<>> THEN {"configured while encoding"} ELSE {}

\* MPP_ENC_SET_CFG, unless the rate is the one applied, too close to it or too soon; it may fail.
ApplyRcToCfg(target, earlier) ==
  \/ /\ target # applied_target_bps_
     /\ flaws' = earlier \union Doing
     /\ applied_target_bps_' \in {target, applied_target_bps_}
  \/ flaws' = earlier /\ UNCHANGED applied_target_bps_

SetRates(rate) ==
  /\ enc.at = "idle" /\ initialized_
  /\ target_bps_' = rate
  /\ IF has_encoded_output_ THEN ApplyRcToCfg(rate, {})
     ELSE flaws' = {} /\ UNCHANGED applied_target_bps_
  /\ UNCHANGED <<config, session, recovery, zeroCopy, enc, assembly, refs, mpp, outstanding, calls>>

-----------------------------------------------------------------------------
(* The buffers of a frame: the guards of Encode put what it took *)

Taken(b) == IF b THEN 1 ELSE 0

RefsReleased == [refs EXCEPT ![enc.frame] = @ - Taken(enc.orphan) - Taken(enc.held)]

\* Every return of Encode runs the destructors of its guards.
Returns ==
  /\ refs' = RefsReleased
  /\ enc' = IdleCall

\* The copy writes frm_buf_, whether or not a frame that MPP has is in it.
WritesFrmBuf ==
  flaws' = IF \E i \in DOMAIN input : input[i].buf = "frm" THEN flaws \union {"frm_buf_ torn"}
           ELSE flaws

\* Packets without data count among the DrainMax that are thrown away.
DrainPendingEncoderOutput == {SubSeq(output, k + 1, Len(output)) : k \in 0..DrainMax}

-----------------------------------------------------------------------------
(* BindDecBufferForEncodeLocked: a reference on the decoder's buffer, or none *)

Streak(n) == [imports EXCEPT !.failures = n, !.paused = FALSE, !.probes = 0]

\* Paused, and no probe yet.
BindWaits ==
  /\ imports.paused /\ imports.probes + 1 < ProbeInterval
  /\ imports' = [imports EXCEPT !.probes = @ + 1]
  /\ UNCHANGED output

BindDirect(got) ==
  /\ got /\ imports' = Streak(0)
  /\ UNCHANGED output

\* Paused imports stay paused until a probe succeeds.
BindNull(got) ==
  /\ ~(imports.paused /\ imports.probes + 1 < ProbeInterval)
  /\ LET failures == IF imports.paused THEN 1 ELSE imports.failures + 1
         paused == imports.paused \/ failures >= ImportPauseFails
     IN imports' = IF got THEN Streak(0)
                   ELSE [imports EXCEPT !.failures = failures, !.paused = paused, !.probes = 0]
  /\ UNCHANGED output

\* ResetImportBufferGroupLocked: pending packets are thrown away, the group is made anew.
ResetGroup(ok, i) ==
  IF ok THEN [i EXCEPT !.failures = 0, !.paused = FALSE, !.probes = 0, !.resets = @ + 1,
                       !.group = TRUE]
  ELSE [i EXCEPT !.group = FALSE]

\* ExternalGroupImportDecBufferForEncodeLocked: a probe resets the group first, and so does
\* a streak of failures before a last try.
BindExternal(got) ==
  /\ ~(imports.paused /\ imports.probes + 1 < ProbeInterval)
  /\ \E probeOk, first, resetOk \in BOOLEAN :
       LET probed == IF imports.paused
                     THEN ResetGroup(probeOk, [imports EXCEPT !.probes = 0]) ELSE imports
           tries == (imports.paused => probeOk) /\ probed.group
           failures == probed.failures + 1
           resets == tries /\ ~first /\ failures >= ImportResetFails
           reset == ResetGroup(resetOk, [probed EXCEPT !.failures = failures])
           after == IF resets THEN reset ELSE [probed EXCEPT !.failures = failures]
           loops == resets /\ resetOk /\ after.resets >= ResetLoopPause
           streak == after.failures >= ImportPauseFails
       IN /\ output' \in IF imports.paused \/ resets THEN DrainPendingEncoderOutput ELSE {output}
          /\ IF tries /\ first THEN got /\ imports' = [probed EXCEPT !.failures = 0]
             ELSE \/ resets /\ resetOk /\ got /\ imports' = reset
                  \/ /\ ~got
                     /\ imports' = IF ~tries THEN probed
                                   ELSE [after EXCEPT !.paused = loops \/ streak \/ @,
                                                      !.failures = IF loops THEN 0 ELSE @]

BindDecBufferForEncodeLocked(got) ==
  \/ env.bind = "direct" /\ BindDirect(got)
  \/ env.bind # "direct" /\ ~got /\ BindWaits
  \/ env.bind = "null" /\ BindNull(got)
  \/ env.bind = "external" /\ BindExternal(got)

-----------------------------------------------------------------------------
(* Encode *)

\* A call that finds no session, and one whose frame does not fit and for which no session
\* can be made, return an error.
EncodeRefused ==
  /\ enc.at = "idle" /\ encodes < MaxEncodes /\ ~(initialized_ /\ callback_)
  /\ cached_codec_inst_ # None
  /\ encodes' = encodes + 1
  /\ UNCHANGED <<config, session, rc, recovery, zeroCopy, enc, assembly, refs, mpp, outstanding,
                 inits, flaws>>

EncodeBegins(kind) ==
  /\ enc.at = "idle" /\ encodes < MaxEncodes /\ initialized_ /\ callback_
  /\ encodes' = encodes + 1 /\ flaws' = {}
  /\ enc' = [IdleCall EXCEPT !.at = "input", !.frame = encodes + 1, !.kind = kind]
  /\ UNCHANGED <<config, session, rc, recovery, zeroCopy, assembly, refs, mpp, outstanding, inits>>

\* A frame of another size: the session is made anew for it, or the call fails.
ReconfigureForFrameSizeLocked(size) ==
  /\ enc.at = "input" /\ size # width_
  /\ width_' = size /\ cached_codec_inst_' = size
  /\ \E ok \in BOOLEAN :
       /\ InitMppHardwareLocked(ok, size, split_by_byte_enabled_, target_bps_)
       /\ enc' = IF ok THEN [enc EXCEPT !.at = "adapted"] ELSE IdleCall
  /\ UNCHANGED <<env, callback_, mpp_recover_attempts_, native_zero_copy_enabled_, target_bps_,
                 refs, outstanding, calls, flaws>>

\* The frame's picture is where MPP will read it: bound (and held as an orphan), or copied to
\* frm_buf_.  Conversions may fail; with STRICT a buffer of MPP is never copied.
Bound ==
  /\ enc' = [enc EXCEPT !.at = "frame", !.zc = TRUE, !.orphan = TRUE]
  /\ refs' = [refs EXCEPT ![enc.frame] = @ + 1]
  /\ UNCHANGED flaws

Copied ==
  /\ WritesFrmBuf
  /\ IF env.strict /\ enc.kind # "planar" THEN Returns
     ELSE enc' = [enc EXCEPT !.at = "frame"] /\ UNCHANGED refs

EncodeInput ==
  /\ enc.at \in {"input", "adapted"}
  /\ IF enc.kind = "nv12" /\ native_zero_copy_enabled_
     THEN \/ BindDecBufferForEncodeLocked(TRUE) /\ Bound
          \/ /\ BindDecBufferForEncodeLocked(FALSE)
             /\ IF env.strict THEN Returns /\ UNCHANGED flaws ELSE Copied
     ELSE /\ \/ Copied
             \/ enc.kind # "nv12" /\ Returns /\ UNCHANGED flaws
          /\ UNCHANGED <<imports, output>>
  /\ UNCHANGED <<config, session, rc, recovery, native_zero_copy_enabled_,
                 native_zero_copy_failures_, assembly, dev, input, outstanding, calls>>

\* Mutant of HoldInput: orphan_import_buf keeps the buffer as well.
HoldInputTwice ==
  /\ enc.at = "frame"
  /\ \/ Returns
     \/ enc' = [enc EXCEPT !.at = "put", !.held = enc.zc] /\ UNCHANGED refs
  /\ UNCHANGED <<config, session, rc, recovery, zeroCopy, assembly, mpp, outstanding, calls, flaws>>

\* mpp_frame_init, which may fail; then the second guard takes the reference over from the first.
HoldInput ==
  /\ enc.at = "frame"
  /\ \/ Returns
     \/ enc' = [enc EXCEPT !.at = "put", !.held = enc.zc, !.orphan = FALSE] /\ UNCHANGED refs
  /\ UNCHANGED <<config, session, rc, recovery, zeroCopy, assembly, mpp, outstanding, calls, flaws>>

-----------------------------------------------------------------------------
(* recover_or_error: the frame is given up, and after enough failures the session *)

Streaking(failures, split) ==
  /\ consecutive_output_failures_' = failures /\ split_by_byte_enabled_' = split /\ assembly' = {}
  /\ UNCHANGED <<initialized_, has_encoded_output_, applied_target_bps_, mpp_recover_attempts_,
                 native_zero_copy_failures_, imports, dev, input>>

RecoverMppSessionLocked(split) ==
  /\ mpp_recover_attempts_ < RecoverMax
  /\ mpp_recover_attempts_' = mpp_recover_attempts_ + 1
  /\ \E ok \in BOOLEAN : InitMppHardwareLocked(ok, cached_codec_inst_, split, target_bps_)

\* Within the cooldown, which follows an attempt, or after RecoverMax of them nothing is tried.
HandleOutputFailureAndMaybeRecover(pending) ==
  LET failures == consecutive_output_failures_ + 1
      split == split_by_byte_enabled_ /\ failures < SoftFails
  IN \/ /\ failures < HardFails \/ mpp_recover_attempts_ > 0
        /\ Streaking(failures, split) /\ output' = pending
     \/ /\ failures >= HardFails
        /\ RecoverMppSessionLocked(split)

RecoverOrError(pending) ==
  /\ Returns
  /\ HandleOutputFailureAndMaybeRecover(pending)
  /\ UNCHANGED <<config, target_bps_, native_zero_copy_enabled_, calls>>

-----------------------------------------------------------------------------
(* encode_put_frame: up to three tries, with the packets pending before the later ones lost *)

\* MPP has the frame, in frm_buf_ or in the decoder's buffer, on which it has its own reference.
Put ==
  /\ input' = Append(input, [frame |-> enc.frame, buf |-> IF enc.zc THEN "dec" ELSE "frm"])
  /\ enc' = [enc EXCEPT !.at = "get"]
  /\ assembly' = {}
  /\ UNCHANGED <<dev, output, refs, native_zero_copy_enabled_, flaws>>

PutFrame ==
  /\ enc.at \in {"put", "copied", "again"}
  /\ Put
  /\ native_zero_copy_failures_' = IF enc.at = "copied" THEN 0 ELSE native_zero_copy_failures_
  /\ UNCHANGED <<config, session, rc, recovery, imports, outstanding, calls>>

\* Refused with the decoder's buffer: the picture is copied to frm_buf_, unless STRICT.  (It is
\* mapped: Encode has returned before, at line 1918, where it is not, so that the copy by way of
\* I420, at 2260, is never made.)
PutZeroCopyFails ==
  /\ enc.at = "put" /\ enc.zc
  /\ output' \in DrainPendingEncoderOutput
  /\ IF env.strict THEN Returns /\ UNCHANGED flaws
     ELSE /\ refs' = RefsReleased
          /\ enc' = [enc EXCEPT !.at = "copied", !.held = FALSE, !.orphan = FALSE, !.zc = FALSE]
          /\ WritesFrmBuf
  /\ UNCHANGED <<config, session, rc, recovery, zeroCopy, assembly, dev, input, outstanding, calls>>

\* Refused with frm_buf_; a refusal of the copy counts against zero copy.
PutFails ==
  /\ enc.at \in {"put", "copied"} /\ ~enc.zc
  /\ output' \in DrainPendingEncoderOutput
  /\ enc' = [enc EXCEPT !.at = "again"]
  /\ LET failures == native_zero_copy_failures_ + 1
     IN IF enc.at = "put" THEN UNCHANGED <<native_zero_copy_enabled_, native_zero_copy_failures_>>
        ELSE /\ native_zero_copy_failures_' = failures
             /\ native_zero_copy_enabled_' = (native_zero_copy_enabled_ /\ failures < ZeroCopyFails)
  /\ UNCHANGED <<config, session, rc, recovery, imports, assembly, refs, dev, input, outstanding,
                 calls, flaws>>

PutFailsAgain ==
  /\ enc.at = "again"
  /\ RecoverOrError(output)
  /\ UNCHANGED <<outstanding, flaws>>

-----------------------------------------------------------------------------
(* encode_get_packet, until the frame is complete, and EmitAssembledFrame *)

\* MPP returns a packet without data, such as the one bound in advance before it is filled.  It
\* is dropped, and the loop goes on also when the retries are used up (turn tells these rounds
\* from one another and from those without a packet).
GetEmptyPacket ==
  /\ enc.at = "get"
  /\ enc' = [enc EXCEPT !.retries = IF @ < EmptyPktRetries THEN @ + 1 ELSE @, !.turn = ~@]
  /\ UNCHANGED <<config, session, rc, recovery, zeroCopy, assembly, refs, mpp, outstanding, calls,
                 flaws>>

\* Without split-by-byte every packet ends a frame.
EndsFrame(p) == split_by_byte_enabled_ => p.last

\* One packet more is one too many: safety counts the packets of the call, which are those in
\* assembly.
Exceeds == Cardinality(assembly) + 1 > MaxPackets

GetPart ==
  /\ enc.at = "get" /\ output # <<>> /\ ~EndsFrame(Head(output)) /\ ~Exceeds
  /\ output' = Tail(output)
  /\ assembly' = assembly \union {Head(output)}
  /\ enc' = [enc EXCEPT !.retries = 0, !.turn = FALSE]
  /\ UNCHANGED <<config, session, rc, recovery, zeroCopy, refs, dev, input, outstanding, calls,
                 flaws>>

PartExceeds ==
  /\ enc.at = "get" /\ output # <<>> /\ ~EndsFrame(Head(output)) /\ Exceeds
  /\ RecoverOrError(Tail(output))
  /\ UNCHANGED <<outstanding, flaws>>

\* The image goes out in MPP's own buffer while few of them are outstanding, or in a copy.
EmitAssembledFrame ==
  outstanding' \in {outstanding} \union
       (IF ~split_by_byte_enabled_ /\ outstanding < MaxOutstanding THEN {outstanding + 1} ELSE {})

\* The image passed on is not of this call's frame, or not the whole of one.
ImageFlaws(parts) ==
  (IF \E p \in parts : p.of # enc.frame THEN {"late packet"} ELSE {})
    \union (IF \E p \in parts : p.last /\ p.part = Cardinality(parts) THEN {}
            ELSE {"part of a frame"})

EncodeEnds ==
  /\ enc.at = "get" /\ output # <<>> /\ EndsFrame(Head(output)) /\ ~Exceeds
  /\ output' = Tail(output) /\ assembly' = {}
  /\ EmitAssembledFrame
  /\ Returns
  /\ consecutive_output_failures_' = 0 /\ has_encoded_output_' = TRUE
  /\ ApplyRcToCfg(target_bps_, flaws \union ImageFlaws(assembly \union {Head(output)}))
  /\ UNCHANGED <<config, initialized_, split_by_byte_enabled_, target_bps_, mpp_recover_attempts_,
                 zeroCopy, dev, input, calls>>

\* The image is passed on, and then the call fails: its packet was one too many.
EndExceeds ==
  /\ enc.at = "get" /\ output # <<>> /\ EndsFrame(Head(output)) /\ Exceeds
  /\ EmitAssembledFrame
  /\ flaws' = flaws \union ImageFlaws(assembly \union {Head(output)})
  /\ RecoverOrError(Tail(output))

\* The bytes are no H.264, or OnEncodedImage returns an error.
EmitFails ==
  /\ enc.at = "get" /\ output # <<>> /\ EndsFrame(Head(output))
  /\ output' = Tail(output)
  /\ assembly' \in {{}, assembly \union {Head(output)}}
  /\ Returns
  /\ UNCHANGED <<config, session, rc, recovery, zeroCopy, dev, input, outstanding, calls, flaws>>

\* Mutant of GetNothing: the count starts again when it reaches its limit.
GetNothingForEver ==
  /\ enc.at = "get" /\ output = <<>>
  /\ enc' = [enc EXCEPT !.retries = IF @ < EmptyPktRetries THEN @ + 1 ELSE 0]
  /\ UNCHANGED <<config, session, rc, recovery, zeroCopy, assembly, refs, mpp, outstanding, calls,
                 flaws>>

GetNothing ==
  /\ enc.at = "get" /\ output = <<>> /\ enc.retries < EmptyPktRetries
  /\ enc' = [enc EXCEPT !.retries = @ + 1]
  /\ UNCHANGED <<config, session, rc, recovery, zeroCopy, assembly, refs, mpp, outstanding, calls,
                 flaws>>

\* The wait times out, fails, or ends without a packet once too often.
GetFails ==
  /\ enc.at = "get"
  /\ RecoverOrError(output)
  /\ UNCHANGED <<outstanding, flaws>>

-----------------------------------------------------------------------------
(* External: MPP encodes the frames it has in order; libwebrtc sends an image *)

\* A frame becomes a packet, the parts of one, or is skipped.
MppEncodes ==
  /\ input # <<>>
  /\ \/ \E n \in (IF dev.split THEN PartCounts ELSE {}) \union {1} :
          output' = output \o
            [k \in 1..n |-> [of |-> Head(input).frame, part |-> k, last |-> k = n]]
     \/ UNCHANGED output
  /\ input' = Tail(input)
  /\ dev' = [dev EXCEPT !.started = TRUE]
  /\ UNCHANGED <<config, session, rc, recovery, zeroCopy, enc, assembly, refs, outstanding, calls,
                 flaws>>

OutputReleased ==
  /\ outstanding > 0
  /\ outstanding' = outstanding - 1
  /\ UNCHANGED <<config, session, rc, recovery, zeroCopy, enc, assembly, refs, mpp, calls, flaws>>

-----------------------------------------------------------------------------
EncodeStep ==
  \/ EncodeInput \/ HoldInput
  \/ PutFrame \/ PutZeroCopyFails \/ PutFails \/ PutFailsAgain
  \/ GetEmptyPacket \/ GetPart \/ PartExceeds \/ EncodeEnds \/ EndExceeds \/ EmitFails
  \/ GetNothing \/ GetFails

NextEncoder ==
  \/ \E size \in Sizes, rate \in Rates : InitEncode(size, rate)
  \/ Release \/ RegisterEncodeCompleteCallback
  \/ \E rate \in Rates : SetRates(rate)
  \/ EncodeRefused
  \/ \E kind \in Kinds : EncodeBegins(kind)
  \/ \E size \in Sizes : ReconfigureForFrameSizeLocked(size)
  \/ EncodeStep
  \/ MppEncodes \/ OutputReleased

EncoderSpec == InitEncoder /\ [][NextEncoder]_encoderVars

\* Encode waits for MPP to take a frame or to give a packet.
AwaitsMpp == enc.at \in {"put", "copied", "again"} \/ (enc.at = "get" /\ output = <<>>)

\* The thread in Encode goes on, unless it waits for MPP without a limit.
FairEncoderSpec == EncoderSpec /\ WF_encoderVars(EncodeStep /\ (env.limited \/ ~AwaitsMpp))

-----------------------------------------------------------------------------
(* Properties *)

Packets == [of : 1..MaxEncodes, part : Nat, last : BOOLEAN]

\* Every variable has its type.
EncoderTypeOK ==
  /\ width_ \in Sizes \union {None} /\ cached_codec_inst_ \in Sizes \union {None}
  /\ {callback_, initialized_, split_by_byte_enabled_, has_encoded_output_,
      native_zero_copy_enabled_} \subseteq BOOLEAN
  /\ {target_bps_, applied_target_bps_} \subseteq Rates \union {0}
  /\ enc.at \in {"idle", "input", "adapted", "frame", "put", "copied", "again", "get"}
  /\ refs \in [1..MaxEncodes -> 0..1] /\ outstanding \in 0..MaxOutstanding
  /\ assembly \subseteq Packets
  /\ \A i \in DOMAIN output : output[i] \in Packets

\* Whatever way Encode returns, what it took of the frame's buffer it has put, once: the
\* promise of HeldMppInputGuard (h264_encoder.cpp:369), over the two guards that pass the
\* reference on, the copy after a refused frame and the recovery inside the call.
InputReleased == enc.at = "idle" => \A f \in DOMAIN refs : refs[f] = 0

\* MPP's configuration is not changed before a session has encoded its first frame, where it
\* would crash (the comment at h264_encoder.cpp:1470): also not in the session that a recovery
\* or a change of size made after the earlier one had encoded.
CfgAfterFirst == "configured before first" \notin flaws

\* The session MPP has is for the size the next frame is compared with, and for the codec a
\* recovery would use, through failed changes of size and failed recoveries.
SessionFits == initialized_ => dev.up /\ dev.size = width_ /\ cached_codec_inst_ = width_

\* An Encode call returns, and with it mpp_mu_ is free, however MPP refuses frames, keeps or
\* splits them, and whatever recoveries come of it; save that MPP returns packets without data
\* for ever, or leaves waiting for ever a call that waits without a limit.
EncodeReturns ==
  \/ []<><<GetEmptyPacket>>_encoderVars
  \/ <>[](~env.limited /\ AwaitsMpp)
  \/ (enc.at # "idle") ~> (enc.at = "idle")

\* An Encode call whose waits have limits returns, whatever MPP does.  Does not hold: nothing
\* limits the number of packets without data, which max_pkt_iterations does not count.
EncodeAlwaysReturns == (enc.at # "idle" /\ env.limited) ~> (enc.at = "idle")

\* The image passed on for a frame is made of that frame's packets.  Does not hold: the packet
\* of a frame whose wait timed out is taken for the next frame.
PacketOfFrame == "late packet" \notin flaws

\* An image is a whole frame.  Does not hold: after a failure streak split_by_byte_enabled_ is
\* cleared but the session goes on splitting, and each part is passed on as a frame.
WholeFrames == "part of a frame" \notin flaws

\* frm_buf_ is not written while MPP has a frame in it.  Does not hold: after a timeout the next
\* picture is copied over the one MPP may still be reading.
FrmBufStable == "frm_buf_ torn" \notin flaws

\* The configuration changes only between frames (h264_encoder.cpp:1472).  Does not hold: with
\* a late packet of an earlier frame the call ends while its own frame is in MPP.
CfgBetweenFrames == "configured while encoding" \notin flaws
=============================================================================
