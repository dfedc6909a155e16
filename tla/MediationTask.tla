---------------------------- MODULE MediationTask ----------------------------
(***************************************************************************)
(* The mediation task of the device (boards/rorolee-basic/                 *)
(* rorolee_basic.cc): what each of its handlers does to the board.  A      *)
(* handler runs to its end in this task, so it is an operator on the       *)
(* board's state d; the interleavings with the other tasks are in Board.   *)
(*                                                                         *)
(* A case is the generation of the state machine that started it, and a    *)
(* recording is its number: both name their ids, which are never used      *)
(* twice.  The recording is uploaded after it is complete                  *)
(* (kDeferCaptureUploadUntilStop).  Deadlines are flags that say whether   *)
(* they are armed.  Id generation, JSON building and the restart of the    *)
(* transport do not fail; PlaybackIo shows how a playback is reset.        *)
(***************************************************************************)
EXTENDS MediationState, MediationRuntime, AgentLink

NoSlot == 99

ASSUME NoSlotAssumption == NoSlot \notin SlotIds

NoNotice == [session |-> 0, drained |-> FALSE]

BootBoard ==
  [m |-> BootMachine, store |-> EmptyStore, gen |-> 0, registered |-> FALSE,
   ready |-> FALSE, last |-> "unknown", open |-> FALSE, fault |-> FALSE,
   inbox |-> <<>>, replay |-> NoReplay, ledger |-> EmptyLedger,
   defer |-> NoFault, texts |-> NoTexts, receipt |-> NoReceipt,
   active |-> NoSlot, wanted |-> FALSE, inflight |-> FALSE, reqId |-> 0,
   wantGen |-> 0, probeDue |-> FALSE, probes |-> 0, errorDue |-> FALSE,
   ackDue |-> FALSE, suppress |-> 0, session |-> 0, playing |-> 0,
   sessions |-> 0, notice |-> NoNotice, micOk |-> TRUE, begun |-> 0, asked |-> 0,
   link |-> DownLink]

HasCase(d) == d.gen # 0
Slot(d, s) == d.store.slots[s]

\* The captured frame at an offset of a recording.
Pcm(slot, offset) == [seg |-> slot.meta.seg, at |-> offset]

Done(d)   == [ok |-> TRUE,  d |-> d]
Failed(d) == [ok |-> FALSE, d |-> d]

----------------------------------------------------------------------------
(* The playback and the callbacks of the old connection.                   *)

(* RequestPlaybackReset: the play task drops its session, and a fault that *)
(* was signalled before no longer counts.                                  *)
ResetPlayback(d) ==
  [d EXCEPT !.receipt = AbortPlayback(@), !.playing = 0, !.fault = FALSE]

CancelPlaybackIngress(d) == ResetPlayback(d)

SignalFault(d) == [d EXCEPT !.fault = TRUE]

AdvanceBridgeCallbackEpoch(d) == [ResetPlayback(d) EXCEPT !.open = FALSE, !.inbox = <<>>]

DiscardActiveRecording(d) ==
  IF d.active = NoSlot THEN d
  ELSE [d EXCEPT !.store = AbortIncomplete(@, d.active), !.active = NoSlot]

(* Mutant: what the old connection sent counts as sent.                     *)
ResetReplayKeepingLedger(d) == [d EXCEPT !.replay = NoReplay]

ResetReplayConnectionMarks(d) ==
  [d EXCEPT !.ledger = EmptyLedger, !.replay = NoReplay]

RestartLink(d) ==
  LET offline == [d EXCEPT !.receipt = ReceiptOffline(@), !.suppress = 0]
      closed  == DiscardActiveRecording(AdvanceBridgeCallbackEpoch(offline))
      marked  == ResetReplayConnectionMarks(
                   [closed EXCEPT !.ready = FALSE, !.registered = FALSE,
                                  !.inflight = FALSE])
  IN [marked EXCEPT !.link = StopLink(@), !.ackDue = ReceiptPending(marked.receipt)]

(* Mutant: the end of a recording is not sent.                             *)
LeaveAsrStream(d, complete) == Done(d)

(* CloseAsrStreamFailClosed *)
CloseAsrStream(d, complete) ==
  LET end(x, c) == [x EXCEPT !.link = AsrEnd(@, c)]
  IN CASE CanAsrEnd(d.link, complete) -> Done(end(d, complete))
       [] ~CanAsrEnd(d.link, complete) /\ (complete \/ ~CanAsrEnd(d.link, FALSE)) ->
            Failed(RestartLink(d))
       [] OTHER -> Failed(end(d, FALSE))

----------------------------------------------------------------------------
(* Errors.                                                                 *)

AbortActiveRecording(d) ==
  IF d.active = NoSlot THEN d
  ELSE DiscardActiveRecording(CloseAsrStream(d, FALSE).d)

(* StopRecordingNormally up to its error report: a recording with at least *)
(* one frame is complete, any other is dropped.                            *)
FinishRecording(d) ==
  IF CanComplete(d.store, d.active)
  THEN Done([d EXCEPT !.store = MarkLocallyComplete(@, d.active), !.active = NoSlot])
  ELSE Failed(DiscardActiveRecording(CloseAsrStream(d, FALSE).d))

(* FeedError: the state machine stops a live recording, which may itself   *)
(* report an error, to no further effect.  auto: recover by a timer.       *)
FeedError(d, auto) ==
  LET r == Faulted(d.m, d.gen)
      moved == [d EXCEPT !.m = r.machine]
      stops == Act("StopRecording") \in {r.acts[i] : i \in DOMAIN r.acts}
      after == IF stops /\ moved.active # NoSlot
               THEN FinishRecording(moved).d ELSE moved
  IN [after EXCEPT !.errorDue = auto]

FeedRecovered(d) == [d EXCEPT !.errorDue = FALSE, !.m = Recovered(@).machine]

StopRecordingNormally(d) ==
  IF d.active = NoSlot THEN Done(d)
  ELSE LET r == FinishRecording(d)
       IN IF r.ok THEN r ELSE Failed(FeedError(r.d, FALSE))

----------------------------------------------------------------------------
(* Cases, recordings and mediation requests.                               *)

(* SendCaseStart; the caller sees whether it could be queued.              *)
SendCaseStart(d) ==
  LET unregistered == [d EXCEPT !.registered = FALSE]
  IN IF ~HasCase(d) \/ ~d.ready THEN Failed(d)
     ELSE IF CanPushEvent(d.link)
          THEN Done([unregistered EXCEPT
                       !.link = PushEvent(@, [t |-> "case", case |-> d.gen])])
          ELSE Failed(unregistered)

StartCase(d, gen) ==
  IF HasCompleteUnacked(d.store) \/ d.receipt # NoReceipt
  THEN Failed(FeedError(d, FALSE))
  ELSE LET next == ResetReplayConnectionMarks(
                     [d EXCEPT !.gen = gen, !.registered = FALSE,
                               !.texts = NoTexts, !.wanted = FALSE,
                               !.inflight = FALSE, !.wantGen = 0,
                               !.probeDue = FALSE, !.probes = 0,
                               !.defer = NoFault])
           sent == SendCaseStart(next)
       IN IF sent.ok THEN sent ELSE Failed(FeedError(sent.d, FALSE))

StartRecording(d, speaker) ==
  LET meta  == [case |-> d.gen, seg |-> d.begun + 1, speaker |-> speaker, gen |-> d.gen]
      slot  == FirstFree(d.store)
      begun == [d EXCEPT !.begun = @ + 1]
      kept  == [begun EXCEPT !.store = BeginSlot(@, meta)]
  IN CASE ~HasCase(d) \/ ~d.registered \/ ~d.ready \/ d.replay.active
            \/ d.active # NoSlot \/ d.receipt # NoReceipt ->
            Failed(FeedError(d, FALSE))
       [] HasCase(d) /\ d.registered /\ d.ready /\ ~d.replay.active
            /\ d.active = NoSlot /\ d.receipt = NoReceipt /\ ~HasFreeSlot(d.store) ->
            Failed(FeedError(begun, FALSE))
       [] OTHER ->
            IF d.micOk THEN Done([kept EXCEPT !.active = slot])
            ELSE Failed(FeedError([kept EXCEPT !.store = AbortIncomplete(@, slot)], TRUE))

(* SendMediationRequestNow; an id that could not be sent is never used.    *)
SendMediationRequest(d) ==
  LET req == d.asked + 1
  IN IF CanPushEvent(d.link)
     THEN [d EXCEPT !.asked = req, !.reqId = req, !.inflight = TRUE, !.probeDue = TRUE,
                    !.link = PushEvent(@, [t |-> "mediate", case |-> d.gen, req |-> req])]
     ELSE RestartLink(d)

(* Everything said in this case has been delivered and this connection     *)
(* knows the case.                                                         *)
Settled(d) == /\ d.ready /\ d.registered /\ ~d.replay.active
              /\ d.active = NoSlot /\ ~HasCompleteUnacked(d.store)

(* Mutant: recordings the Bridge has not confirmed do not count.           *)
MayDispatchUnsettled(d, probe) ==
  /\ d.wanted /\ ~d.inflight /\ HasCase(d) /\ d.wantGen = d.gen
  /\ d.m.state = "Mediating" /\ d.ready /\ d.registered
  /\ ReadyToMediate(d.texts) \/ probe

MayDispatch(d, probe) ==
  /\ d.wanted /\ ~d.inflight /\ HasCase(d) /\ d.wantGen = d.gen
  /\ d.m.state = "Mediating" /\ Settled(d)
  /\ ReadyToMediate(d.texts) \/ probe

(* MaybeDispatchPendingMediation *)
Dispatch(d, probe) == IF MayDispatch(d, probe) THEN SendMediationRequest(d) ELSE d

RequestMediation(d, gen) ==
  LET asking == [d EXCEPT !.wanted = TRUE, !.inflight = FALSE, !.wantGen = gen,
                          !.probes = 0, !.probeDue = TRUE]
      hopeless == /\ d.active = NoSlot /\ ~d.replay.active
                  /\ ~HasCompleteUnacked(d.store)
                  /\ ~ReadyToMediate(d.texts) /\ ~HasPending(d.texts)
  IN CASE ~HasCase(d) \/ gen # d.gen \/ d.receipt # NoReceipt ->
            Failed(FeedError(d, FALSE))
       [] HasCase(d) /\ gen = d.gen /\ d.receipt = NoReceipt /\ hopeless ->
            Failed(FeedError([asking EXCEPT !.wanted = FALSE], TRUE))
       [] OTHER -> Done(Dispatch(asking, FALSE))

(* ApplyActions: the actions in order, up to the first that fails; there   *)
(* are three of them at most.                                              *)
PerformOne(r, act) ==
  IF ~r.ok THEN r
  ELSE CASE act.type = "NewCase"           -> StartCase(r.d, act.gen)
         [] act.type = "StartRecording"    -> StartRecording(r.d, act.speaker)
         [] act.type = "StopRecording"     -> StopRecordingNormally(r.d)
         [] act.type = "RequestMediation"  -> RequestMediation(r.d, act.gen)
         [] OTHER                          -> r

PerformNth(i, acts, r) == IF i \in DOMAIN acts THEN PerformOne(r, acts[i]) ELSE r

Perform(d, result) ==
  LET begin == Done([d EXCEPT !.m = result.machine])
  IN PerformNth(3, result.acts, PerformNth(2, result.acts, PerformNth(1, result.acts, begin))).d

----------------------------------------------------------------------------
(* The upload of complete recordings.                                      *)

ReplayCandidates(d) ==
  {s \in CompleteSlots(d.store) :
     /\ ~Slot(d, s).quarantined
     /\ ~WasSent(d.ledger, s, Slot(d, s).ordinal)}

(* FindReplayCandidate: the oldest.                                        *)
ReplayCandidate(d) ==
  CHOOSE s \in ReplayCandidates(d) :
    \A t \in ReplayCandidates(d) : Slot(d, s).ordinal <= Slot(d, t).ordinal

(* StartReplayIfPossible *)
StartReplay(d) ==
  IF d.replay.active \/ d.active # NoSlot \/ ~d.ready \/ ~d.registered
       \/ ReplayCandidates(d) = {}
  THEN d
  ELSE LET s == ReplayCandidate(d)
           x == Slot(d, s)
       IN IF x.meta.case # d.gen \/ ~CanAsrStart(d.link) THEN d
          ELSE [d EXCEPT !.link = AsrStart(@, x.meta.seg, x.meta.speaker),
                         !.replay = Replay(s, x.ordinal, x.bytes)]

(* Mutant: what was sent to the end is released at once.                   *)
EndReplayReleasing(d) ==
  LET r == CloseAsrStream(d, TRUE)
      over == [r.d EXCEPT !.replay = NoReplay]
  IN IF r.ok
     THEN StartReplay(FeedRecovered([over EXCEPT !.store = Release(@, d.replay.slot)]))
     ELSE FeedError(over, FALSE)

EndReplay(d) ==
  LET r == CloseAsrStream(d, TRUE)
      over == [r.d EXCEPT !.replay = NoReplay]
  IN IF r.ok
     THEN StartReplay(FeedRecovered(
            [over EXCEPT !.ledger = MarkSent(@, d.replay.slot, d.replay.ordinal)]))
     ELSE FeedError(over, FALSE)

PumpReplay(d) ==
  LET x == Slot(d, d.replay.slot)
      pushed == PushResult(d.link)
  IN CASE ~d.replay.active -> d
       [] d.replay.active /\ (~d.ready \/ d.link.core # "ready") ->
            [d EXCEPT !.replay = NoReplay]
       [] d.replay.active /\ d.ready /\ d.link.core = "ready"
            /\ (x.state # "complete" \/ x.ordinal # d.replay.ordinal) ->
            StartReplay([RestartLink(d) EXCEPT !.replay = NoReplay])
       [] OTHER ->
            IF CursorDone(d.replay) THEN EndReplay(d)
            ELSE CASE pushed = "ok" ->
                        [d EXCEPT !.link = AsrPush(@, Pcm(x, d.replay.offset)),
                                  !.replay.offset = @ + 1]
                   [] pushed = "timeout" -> d
                   [] pushed = "fail" -> FeedError(RestartLink(d), FALSE)

(* ApplyCompleteFault: what the Bridge says of a complete recording.       *)
ApplyCompleteFault(d, fault) ==
  LET x == Slot(d, fault.slot)
      replayed == /\ d.replay.active /\ d.replay.slot = fault.slot
                  /\ d.replay.ordinal = fault.ordinal
      shelved == [d EXCEPT !.store = QuarantineComplete(@, fault.slot),
                           !.texts = NoteFailed(@, x.meta.seg)]
  IN CASE ~CanQuarantine(d.store, fault.slot, fault.ordinal) -> d
       [] CanQuarantine(d.store, fault.slot, fault.ordinal) /\ fault.retryable ->
            FeedError(RestartLink(
              [d EXCEPT !.ledger = Forget(@, fault.slot, fault.ordinal)]), FALSE)
       [] OTHER -> FeedError(IF replayed THEN RestartLink(shelved) ELSE shelved, FALSE)

(* ApplyDeferredCompleteFaultIfIdle *)
ApplyDeferredFault(d) ==
  IF d.defer = NoFault \/ d.active # NoSlot THEN d
  ELSE ApplyCompleteFault([d EXCEPT !.defer = NoFault], d.defer)

----------------------------------------------------------------------------
(* Playback receipts and the playback of an answer.                        *)

(* SendPendingPlaybackAck *)
SendPlayed(d) ==
  IF d.ready /\ NeedsSend(d.receipt) /\ CanPushEvent(d.link)
  THEN Done([d EXCEPT !.link = PushEvent(@, [t |-> "played", case |-> d.gen, req |-> d.receipt.req]),
                      !.receipt.sent = TRUE, !.ackDue = TRUE])
  ELSE Failed(d)

\* Several callers restart the link when the receipt cannot be queued.
SendPlayedOrRestart(d) ==
  LET r == SendPlayed(d) IN IF r.ok THEN r.d ELSE RestartLink(r.d)

(* MaybeRetryPlaybackAck once its deadline has passed.                     *)
RetryPlayed(d) == RestartLink(d)

CancelAndFault(d) == SignalFault(CancelPlaybackIngress(d))

\* ResendPlayedForSuppressedReplay, for a receipt that is still pending.
ResendPlayed(d, req) ==
  IF CanResend(d.receipt, req)
  THEN SendPlayedOrRestart([d EXCEPT !.receipt = Unsent(@)]) ELSE d

(* ApplyAudioStart *)
BeginPlayback(d, req) ==
  [d EXCEPT !.sessions = @ + 1, !.session = d.sessions + 1,
            !.playing = d.sessions + 1, !.receipt = BeginReceipt(req),
            !.wanted = FALSE, !.inflight = FALSE, !.reqId = 0,
            !.probeDue = FALSE, !.m = AudioStarted(@, d.gen).machine]

ApplyAudioStart(d, msg) ==
  CASE msg.case # d.gen -> CancelAndFault(d)
    [] msg.case = d.gen /\ d.suppress # 0 /\ d.suppress = msg.req ->
         ResendPlayed(CancelPlaybackIngress(d), msg.req)
    [] msg.case = d.gen /\ d.suppress # 0 /\ d.suppress # msg.req ->
         CancelAndFault([d EXCEPT !.suppress = 0])
    [] OTHER ->
         IF CanResend(d.receipt, msg.req)
         THEN ResendPlayed(CancelPlaybackIngress([d EXCEPT !.suppress = msg.req]),
                           msg.req)
         ELSE IF ~d.inflight \/ msg.req # d.reqId
         THEN FeedError(CancelAndFault(d), TRUE)
         ELSE IF d.m.state # "Mediating" THEN CancelAndFault(d)
         ELSE IF d.playing # 0 THEN FeedError(CancelAndFault(d), TRUE)
         ELSE IF ~CanBeginReceipt(d.receipt) THEN FeedError(CancelAndFault(d), TRUE)
         ELSE BeginPlayback(d, msg.req)

(* ApplyAudioEnd: the play task drains what has been accepted.             *)
ApplyAudioEnd(d, msg) ==
  CASE msg.case # d.gen -> d
    [] msg.case = d.gen /\ d.suppress # 0 /\ d.suppress = msg.req ->
         ResendPlayed([CancelPlaybackIngress(d) EXCEPT !.suppress = 0], msg.req)
    [] msg.case = d.gen /\ d.suppress # 0 /\ d.suppress # msg.req ->
         CancelAndFault([d EXCEPT !.suppress = 0])
    [] OTHER ->
         IF CanResend(d.receipt, msg.req)
         THEN ResendPlayed(CancelPlaybackIngress(d), msg.req)
         ELSE IF CanAcceptEnd(d.receipt, msg.req) /\ d.playing # 0
         THEN [d EXCEPT !.receipt.ended = TRUE]
         ELSE FeedError(CancelAndFault(d), TRUE)

(* DrainPlaybackNotices *)
DrainNotice(d) ==
  LET n == d.notice
      taken == [d EXCEPT !.notice = NoNotice]
      over == [taken EXCEPT !.session = 0]
      drained == [over EXCEPT !.receipt = Drained(@),
                              !.m = AudioEnded(@, d.gen).machine]
  IN CASE n.session = 0 \/ n.session # d.session -> taken
       [] n.session # 0 /\ n.session = d.session /\ n.drained /\ CanDrain(d.receipt) ->
            SendPlayedOrRestart(drained)
       [] OTHER -> FeedError([over EXCEPT !.receipt = AbortPlayback(@)], TRUE)

----------------------------------------------------------------------------
(* The state of the link.                                                  *)

CleanupDisconnect(d) ==
  LET offline == [d EXCEPT !.receipt = ReceiptOffline(@), !.suppress = 0]
      closed  == [AdvanceBridgeCallbackEpoch(offline) EXCEPT
                    !.ready = FALSE, !.registered = FALSE, !.inflight = FALSE]
      idle    == CancelPlaybackIngress(
                   [DiscardActiveRecording(closed) EXCEPT !.replay = NoReplay])
      armed   == [idle EXCEPT !.ackDue = ReceiptPending(idle.receipt)]
  IN IF d.wanted THEN armed ELSE FeedError(armed, FALSE)

(* ReconcileAgentState on READY.                                           *)
LinkReady(d) ==
  LET opened == ResetReplayConnectionMarks(
                  [d EXCEPT !.open = TRUE, !.ready = TRUE, !.inflight = FALSE])
      case   == IF HasCase(opened) THEN SendCaseStart(opened)
                ELSE Done(FeedRecovered(opened))
      played == IF case.ok /\ NeedsSend(case.d.receipt)
                THEN SendPlayed(case.d) ELSE case
  IN IF played.ok THEN played.d ELSE RestartLink(played.d)

(* edge is what LinkEdgeTracker::Take returned; the state is read after it. *)
Reconcile(d, edge) ==
  LET level == d.link.core
      d1 == [(IF edge.seen THEN CleanupDisconnect(d) ELSE d) EXCEPT !.last = level]
  IN IF ~edge.seen /\ ~edge.fresh /\ level = d.last THEN d
     ELSE IF level = "ready" THEN LinkReady(d1)
     ELSE IF edge.seen THEN d1 ELSE CleanupDisconnect(d1)

(* DrainBridgeIngressFault *)
DrainFault(d) ==
  IF d.fault THEN RestartLink([d EXCEPT !.fault = FALSE, !.inbox = <<>>]) ELSE d

\* MediationProbeBudget::Take
CanProbe(d) == d.probes < MaxProbes

(* MaybeProbePendingMediation once its deadline has passed.                *)
Probe(d) ==
  LET asking == [d EXCEPT !.inflight = FALSE, !.probeDue = FALSE, !.probes = @ + 1]
      sent   == Dispatch(asking, TRUE)
  IN CASE ~d.wanted -> d
       [] d.wanted /\ ~Settled(d) -> d
       [] d.wanted /\ Settled(d) /\ ~CanProbe(d) ->
            FeedError([d EXCEPT !.inflight = FALSE, !.probeDue = FALSE,
                                !.wanted = FALSE, !.wantGen = 0], TRUE)
       [] OTHER -> IF sent.wanted /\ ~sent.inflight
                   THEN [sent EXCEPT !.probeDue = TRUE] ELSE sent
=============================================================================
