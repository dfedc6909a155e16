--------------------------- MODULE BridgeMessages ---------------------------
(***************************************************************************)
(* What the mediation task does with each message of the Bridge, with a    *)
(* button and with a clock tick (boards/rorolee-basic/rorolee_basic.cc).   *)
(*                                                                         *)
(* A message is a record with a field t:                                   *)
(*   caseAck   [case]              the ACK of case.start                   *)
(*   playedAck [case, req]         the ACK of audio.played                 *)
(*   durable   [case, seg, bytes]  the durable ACK of a recording          *)
(*   saved     [case, seg, speaker]  transcript.saved                      *)
(*   state     [case, state]       "waiting" or "mediating"                *)
(*   astart, aend [case, req]      audio.start and audio.end               *)
(*   error     [case, seg, code, retry]  0 for a case or segment left out; *)
(*             the code is one of four families: "audio" (audio, speech,   *)
(*             segment, frame, stream), "transcription", "mediation",      *)
(*             "not_ready" (mediation_not_ready).                          *)
(***************************************************************************)
EXTENDS MediationTask

Waiting(d) == d.m.state = "Waiting"
InError(d) == d.m.state = "RecoverableError"

RecoverIfInError(d) == IF InError(d) THEN FeedRecovered(d) ELSE d

(* ApplyAck for a case.start. *)
ApplyCaseAck(d) ==
  Dispatch(StartReplay(FeedRecovered([d EXCEPT !.registered = TRUE])), TRUE)

(* ApplyAck for an audio.played. *)
ApplyPlayedAck(d, msg) ==
  IF CanResend(d.receipt, msg.req)
  THEN FeedRecovered([d EXCEPT !.receipt = NoReceipt, !.ackDue = FALSE]) ELSE d

(* ApplyAck for a recording: the slot it names is released.  An ACK that   *)
(* overtakes the end of the upload restarts the link.                      *)
ApplyDurable(d, msg) ==
  LET ack   == [durable |-> TRUE, case |-> msg.case, seg |-> msg.seg, bytes |-> msg.bytes]
      s     == CHOOSE x \in AckedSlots(d.store, ack) : TRUE
      x     == Slot(d, s)
      early == d.replay.active /\ d.replay.slot = s /\ d.replay.ordinal = x.ordinal
      freed == [d EXCEPT !.store = Release(@, s),
                         !.texts = NoteDurable(@, msg.seg, x.meta.speaker)]
      moved == IF early THEN RestartLink(freed) ELSE freed
      told  == Perform(moved, SegmentDurable(moved.m, x.meta.speaker, x.meta.gen))
  IN CASE AckedSlots(d.store, ack) = {} -> d
       [] AckedSlots(d.store, ack) # {} /\ ~CanNoteDurable(d.texts, msg.seg, x.meta.speaker) ->
            FeedError([d EXCEPT !.store = Release(@, s)], FALSE)
       [] OTHER -> StartReplay(Dispatch(RecoverIfInError(told), early))

ApplySaved(d, msg) ==
  IF CanNoteSaved(d.texts, msg.seg, msg.speaker)
  THEN Dispatch([d EXCEPT !.texts = NoteSaved(@, msg.seg, msg.speaker)], FALSE)
  ELSE FeedError(d, FALSE)

ApplyState(d, msg) ==
  IF msg.state = "waiting" THEN Dispatch(RecoverIfInError(d), TRUE)
  ELSE [d EXCEPT !.inflight = TRUE, !.probeDue = FALSE]

----------------------------------------------------------------------------
(* ApplyBridgeError *)

ErrorTarget(d, seg) ==
  CASE seg = 0 -> "case"
    [] seg # 0 /\ d.active # NoSlot /\ Slot(d, d.active).meta.seg = seg -> "active"
    [] seg # 0 /\ d.replay.active /\ Slot(d, d.replay.slot).meta.seg = seg
         /\ Slot(d, d.replay.slot).ordinal = d.replay.ordinal -> "replay"
    [] OTHER -> "stale"

\* The complete recordings an error names.
Named(d, seg) == {s \in CompleteSlots(d.store) : seg # 0 /\ Slot(d, s).meta.seg = seg}

CompleteError(d, msg) ==
  LET s == CHOOSE s \in Named(d, msg.seg) : \A t \in Named(d, msg.seg) : s <= t
      ordinal == Slot(d, s).ordinal
  IN IF d.active # NoSlot /\ CanDefer(d.defer, s, ordinal)
     THEN [d EXCEPT !.defer = Deferred(@, s, ordinal, msg.retry)]
     ELSE ApplyCompleteFault(d, [slot |-> s, ordinal |-> ordinal,
                                 retryable |-> msg.retry])

GiveUpMediation(d) == [d EXCEPT !.wanted = FALSE, !.inflight = FALSE, !.probeDue = FALSE]

OtherError(d, msg) ==
  LET target == ErrorTarget(d, msg.seg)
      stopped == CASE target \in {"active", "case"} -> AbortActiveRecording(d)
                   [] target = "replay" -> RestartLink(d)
                   [] OTHER -> d
      quiet == IF target = "case" THEN CancelPlaybackIngress(stopped) ELSE stopped
      given == IF msg.code \in {"mediation", "not_ready"} THEN GiveUpMediation(quiet) ELSE quiet
  IN IF target = "stale" /\ (d.active # NoSlot \/ d.replay.active) THEN d
     ELSE FeedError(given, msg.retry)

ApplyError(d, msg) ==
  LET noted == [d EXCEPT !.texts = NoteFailed(@, msg.seg)]
  IN IF msg.code = "not_ready" /\ d.wanted
     THEN [d EXCEPT !.inflight = FALSE, !.probeDue = TRUE]
     ELSE IF Named(d, msg.seg) # {} THEN CompleteError(d, msg)
     ELSE IF msg.seg = 0 /\ msg.code = "audio"
             /\ (d.replay.active \/ HasCompleteUnacked(d.store))
     THEN FeedError(RestartLink(d), TRUE)
     ELSE IF msg.code # "transcription" \/ msg.seg = 0 THEN OtherError(d, msg)
     ELSE IF d.wanted /\ ReadyToMediate(noted.texts)
     THEN Dispatch([noted EXCEPT !.inflight = FALSE], FALSE)
     ELSE OtherError(GiveUpMediation(noted), msg)

(* ApplyBridgeMessage; a message about another case is ignored, but for an *)
(* audio.start, which is not expected at all.                              *)
ApplyBridgeMessage(d, msg) ==
  CASE msg.t = "astart" -> ApplyAudioStart(d, msg)
    [] msg.t # "astart" /\ (~HasCase(d) \/ msg.case # d.gen)
         /\ ~(msg.t = "error" /\ msg.case = 0) -> d
    [] OTHER ->
         CASE msg.t = "caseAck"   -> ApplyCaseAck(d)
           [] msg.t = "playedAck" -> ApplyPlayedAck(d, msg)
           [] msg.t = "durable"   -> ApplyDurable(d, msg)
           [] msg.t = "saved"     -> ApplySaved(d, msg)
           [] msg.t = "state"     -> ApplyState(d, msg)
           [] msg.t = "aend"      -> ApplyAudioEnd(d, msg)
           [] msg.t = "error"     -> ApplyError(d, msg)

----------------------------------------------------------------------------
(* Buttons, clock ticks and the microphone.                                *)

NewCaseAllowed(d) == ~HasCompleteUnacked(d.store) /\ d.receipt = NoReceipt

PressCase(d)         == Perform(d, CasePressed(d.m))
ReleaseCase(d, long) == Perform(d, CaseReleased(d.m, long, NewCaseAllowed(d)))
PressSpeaker(d, s)   == Perform(d, StartOrStopSpeaker(d.m, s))

FireLongPress(d) == Perform(d, LongPressTick(d.m))

(* MaybeRecoverRetryableError once its deadline has passed.                *)
RecoverByTimer(d) == IF InError(d) THEN FeedRecovered(d) ELSE d

(* CaptureOneFrame: a full slot or a failing microphone drops the recording. *)
CaptureOneFrame(d) ==
  IF d.active = NoSlot THEN d
  ELSE IF d.micOk /\ CanAppend(d.store, d.active)
       THEN [d EXCEPT !.store = AppendFrame(@, d.active)]
       ELSE FeedError(AbortActiveRecording(d), TRUE)

(* The upload side of a pass of MediationLoop.                             *)
Upload(d) == PumpReplay(StartReplay(d))
=============================================================================
