-------------------------------- MODULE Board --------------------------------
(***************************************************************************)
(* The device at work: the mediation task of BridgeMessages, the callback  *)
(* worker that hands it the state of the link and the Bridge's messages,   *)
(* the play task, the user, the network, and the Bridge at the other end.  *)
(*                                                                         *)
(* A pass of MediationLoop is Look (ReconcileAgentState), a Message for    *)
(* each queued message, and Turn (the rest of the pass, and the beginning  *)
(* of the next).  Any other task may run between two of these steps.       *)
(*                                                                         *)
(* The link is looked at twice, by LinkEdgeTracker::Take and then by       *)
(* agent_link_state, and it changes twice, in s_state and then through     *)
(* LinkEdgeTracker::Notify.  Nothing in the code keeps the two pairs       *)
(* apart.  With Prompt they are: Take is part of Look, Look waits for a    *)
(* Notify that is due, and the disconnection of a link has been seen       *)
(* before the next connection is ready, at least kReconnectBaseMs (2 s)    *)
(* later.  Without it Take is the end of the Turn before and they overlap. *)
(***************************************************************************)
EXTENDS BridgeMessages, BridgePeer

CONSTANTS
  Prompt,       \* the mediation task keeps up with the link
  MaxCases,     \* cases the user starts
  MaxAsks,      \* long presses
  MaxFaults     \* lost connections, failures of the Bridge, the microphone and
                \* the play task, full message queues, timeouts that fire early

ASSUME BoundsAssumption ==
  /\ Prompt \in BOOLEAN
  /\ {MaxCases, MaxAsks, MaxFaults} \subseteq Nat
  /\ Segments = Recordings

VARIABLES
  dev,    \* the state of the mediation task and of what it owns
  pc,     \* "look" or "work": where its pass is
  edge,   \* what LinkEdgeTracker::Take returned for this pass
  bridge, \* the Bridge
  used,   \* how much of each bound is used
  made    \* history: the frames of each completed recording of the case

vars == <<dev, pc, edge, bridge, used, made>>

NoEdge == [seen |-> FALSE, fresh |-> FALSE]

Init ==
  /\ dev = BootBoard
  /\ pc = "look"
  /\ edge = NoEdge
  /\ bridge = FreshBridge
  /\ used = [asks |-> 0, faults |-> 0]
  /\ made = [s \in Segments |-> 0]

----------------------------------------------------------------------------
(* The mediation task.                                                     *)

\* The recordings of the case that are complete after a step of the task.
Completed(d) ==
  [s \in Segments |->
     IF \E x \in CompleteSlots(d.store) : Slot(d, x).meta.seg = s
     THEN Slot(d, CHOOSE x \in CompleteSlots(d.store) : Slot(d, x).meta.seg = s).bytes
     ELSE IF d.gen = dev.gen THEN made[s] ELSE 0]

Do(d) == dev' = d /\ made' = Completed(d)

EdgeOf(l) == [seen |-> l.seen, fresh |-> l.fresh]

Look ==
  /\ pc = "look"
  /\ IF Prompt
     THEN /\ dev.link.told = "none"
          /\ Do(Reconcile([dev EXCEPT !.link = Taken(@)], EdgeOf(dev.link)))
     ELSE Do(Reconcile(dev, edge))
  /\ pc' = "work" /\ edge' = NoEdge
  /\ UNCHANGED <<bridge, used>>

\* DrainBridgeMessages: the rest is dropped when the gate is closed.
Message ==
  /\ pc = "work" /\ dev.inbox # <<>>
  /\ LET d == ApplyBridgeMessage([dev EXCEPT !.inbox = Tail(@)], Head(dev.inbox))
     IN IF dev.open THEN Do(IF d.open THEN d ELSE [d EXCEPT !.inbox = <<>>])
                    ELSE Do([dev EXCEPT !.inbox = <<>>])
  /\ UNCHANGED <<pc, edge, bridge, used>>

\* Nothing that the task waits for is still on its way.
Quiet == /\ dev.inbox = <<>> /\ dev.link.callbacks = <<>> /\ dev.link.tx = <<>>
         /\ dev.link.usable /\ dev.link.told = "none" /\ ~dev.link.fresh
         /\ bridge.pend.phase \notin {"working", "thinking", "resume"}
         /\ Committing(bridge) = {} /\ Queued(bridge) = {}

\* The rest of a pass once its event is handled: capture or upload, then the
\* notices, the fault latch and the link's edge for the next pass.
FinishPass(d) ==
  LET d1 == IF d.active # NoSlot THEN CaptureOneFrame(d) ELSE Upload(d)
      d2 == DrainFault(DrainNotice(d1))
      d3 == [d2 EXCEPT !.micOk = TRUE]
  IN /\ pc = "work" /\ dev.inbox = <<>>
     /\ IF Prompt THEN edge' = NoEdge /\ Do(d3)
        ELSE edge' = EdgeOf(d3.link) /\ Do([d3 EXCEPT !.link = Taken(@)])
     /\ pc' = "look"
     /\ UNCHANGED bridge

\* The two speakers are alike: the first to speak is A.
\* At most one thing happens in a pass: the user does something, or one
\* deadline has passed.  Buttons are sampled before the deferred fault is
\* applied, the clock is read after it.
Button(d) == FinishPass(ApplyDeferredFault(d))

AtTick == ApplyDeferredFault(dev)

Idle == FinishPass(AtTick) /\ UNCHANGED used

Ask   == used.asks < MaxAsks /\ used' = [used EXCEPT !.asks = @ + 1]
Fault == used.faults < MaxFaults /\ used' = [used EXCEPT !.faults = @ + 1]

CaseDown ==
  /\ ~dev.m.down
  /\ dev.m.gen < MaxCases \/ used.asks < MaxAsks
  /\ Button(PressCase(dev)) /\ UNCHANGED used

ShortPress ==
  /\ dev.m.down
  /\ dev.m.longFired \/ dev.m.gen < MaxCases
  /\ Button(ReleaseCase(dev, FALSE)) /\ UNCHANGED used

LongPress ==
  /\ dev.m.down /\ ~dev.m.longFired /\ Ask
  /\ Button(ReleaseCase(dev, TRUE)) \/ FinishPass(FireLongPress(AtTick))

SpeakerDown(s) ==
  /\ dev.m.state = "Waiting" => dev.begun + 1 \in Segments
  /\ dev.begun = 0 => s = "A"
  /\ Button(PressSpeaker(dev, s)) /\ UNCHANGED used

\* The microphone fails in this pass, in which it may also be started.
MicFails ==
  /\ Fault
  /\ LET deaf == [dev EXCEPT !.micOk = FALSE]
     IN \/ dev.active # NoSlot /\ Button(deaf)
        \/ dev.m.state = "Waiting" /\ dev.begun + 1 \in Segments
             /\ Button(PressSpeaker(deaf, "A"))

ErrorPasses == dev.errorDue /\ FinishPass(RecoverByTimer(AtTick)) /\ UNCHANGED used

ProbeFires == dev.wanted /\ dev.probeDue /\ FinishPass(Probe(AtTick)) /\ UNCHANGED used

\* kPlaybackAckTimeoutMs and kPlaybackReconnectTimeoutMs are far longer than
\* the work they wait for; a fault when one fires early all the same.
AckTimeout ==
  /\ dev.ackDue /\ ReceiptPending(dev.receipt)
  /\ Button(RetryPlayed(dev))
  /\ IF Quiet THEN UNCHANGED used ELSE Fault

Turn ==
  \/ Idle \/ CaseDown \/ ShortPress \/ LongPress
  \/ \E s \in Speakers : SpeakerDown(s)
  \/ MicFails
  \/ ErrorPasses \/ ProbeFires \/ AckTimeout

----------------------------------------------------------------------------
(* The other tasks of the device.                                          *)

Link(l) == dev' = [dev EXCEPT !.link = l]

NextCallback == Head(dev.link.callbacks)
MayCall == dev.link.told = "none" /\ dev.link.callbacks # <<>>

\* OnConn of the core, up to the board's handler,
LinkCallback ==
  /\ MayCall /\ NextCallback.t = "link"
  /\ Link(CoreConn([dev.link EXCEPT !.callbacks = Tail(@)], NextCallback.level))
  /\ UNCHANGED <<pc, edge, bridge, used, made>>

\* and HandleAgentState.
NotifyCallback ==
  /\ dev.link.told # "none"
  /\ Link(Notify(dev.link, dev.link.told))
  /\ UNCHANGED <<pc, edge, bridge, used, made>>

\* HandleCustom: a closed gate drops the message, a full queue is a fault.
MessageCallback ==
  /\ MayCall /\ NextCallback.t # "link"
  /\ LET taken == [dev EXCEPT !.link.callbacks = Tail(@)]
     IN \/ /\ ~dev.open /\ dev' = taken /\ UNCHANGED used
        \/ /\ dev.open
           /\ dev' = [taken EXCEPT !.inbox = Append(@, NextCallback)]
           /\ UNCHANGED used
        \/ dev.open /\ dev.inbox # <<>> /\ dev' = SignalFault(taken) /\ Fault
  /\ UNCHANGED <<pc, edge, bridge, made>>

\* The play task has written everything, or cannot go on.
PlayEnds(drained) ==
  /\ dev.playing # 0
  /\ dev' = [dev EXCEPT !.playing = 0,
                        !.notice = [session |-> dev.playing, drained |-> drained]]
  /\ UNCHANGED <<pc, edge, bridge, made>>

PlayDrains == dev.receipt.ended /\ PlayEnds(TRUE) /\ UNCHANGED used
PlayFails  == Fault /\ PlayEnds(FALSE)

----------------------------------------------------------------------------
(* The network.                                                            *)

LinkItem(level) == [t |-> "link", level |-> level]

LossHandled ==
  /\ \A i \in DOMAIN dev.link.callbacks : dev.link.callbacks[i].t # "link"
  /\ dev.link.told = "none" /\ ~dev.link.seen

\* The hello is acknowledged and the callback worker told of it.  What the
\* Bridge sends next is queued behind that: were it before, the closed gate
\* would drop it, as it does anyway until Look has opened it.
Connect ==
  /\ ~dev.link.usable /\ ~dev.link.announced
  /\ Prompt => LossHandled
  /\ LET hello == Hello(bridge)
     IN /\ bridge' = hello.b
        /\ Link([dev.link EXCEPT !.usable = TRUE, !.announced = TRUE,
                                 !.callbacks = @ \o <<LinkItem("ready")>> \o hello.out])
  /\ UNCHANGED <<pc, edge, used, made>>

\* What the Bridge had sent may be lost from some message on.
Lose ==
  /\ dev.link.usable /\ Fault
  /\ \E n \in 0..Len(dev.link.callbacks) :
       /\ \A i \in (n+1)..Len(dev.link.callbacks) : dev.link.callbacks[i].t # "link"
       /\ Link([LostLink(dev.link) EXCEPT !.callbacks = SubSeq(@, 1, n)])
  /\ bridge' = Closed(bridge)
  /\ UNCHANGED <<pc, edge, made>>

\* PublishDisconnected
LossSeen ==
  /\ ~dev.link.usable /\ dev.link.announced
  /\ Link([dev.link EXCEPT !.announced = FALSE,
                           !.callbacks = Append(@, LinkItem("disconnected"))])
  /\ UNCHANGED <<pc, edge, bridge, used, made>>

----------------------------------------------------------------------------
(* The Bridge.                                                             *)

\* A message sent while the connection is down is lost.
Sent(l, out) == IF l.usable THEN [l EXCEPT !.callbacks = @ \o out] ELSE l

Answers(r, l) ==
  /\ bridge' = r.b
  /\ Link(Sent(l, r.out))
  /\ UNCHANGED <<pc, edge, made>>

Incoming == Head(dev.link.tx)

Arrives(r) ==
  /\ dev.link.tx # <<>> /\ ~Busy(bridge, Incoming)
  /\ Answers(r, [dev.link EXCEPT !.tx = Tail(@)])

BridgeReceives == Arrives(OnMessage(bridge, Incoming)) /\ UNCHANGED used

BridgeRefuses ==
  /\ Fault
  /\ dev.link.tx # <<>> /\ CanRefuse(bridge, Incoming)
  /\ Arrives(OnStartRefused(bridge, Incoming))

BridgeWorks ==
  /\ \/ \E s \in Committing(bridge) : Answers(Commit(bridge, s), dev.link)
     \/ \E s \in Queued(bridge) : Answers(Transcribe(bridge, s, "saved"), dev.link)
     \/ bridge.pend.phase = "working" /\ Answers(Mediating(bridge), dev.link)
     \/ bridge.pend.phase = "thinking" /\ Answers(Answer(bridge), dev.link)
     \/ bridge.pend.phase = "resume" /\ dev.link.usable
          /\ Answers(Resume(bridge), dev.link)
  /\ UNCHANGED used

BridgeFails ==
  /\ Fault
  /\ \/ \E s \in Committing(bridge) : Answers(CommitFails(bridge, s), dev.link)
     \/ \E s \in Queued(bridge) : Answers(Transcribe(bridge, s, "failed"), dev.link)
     \/ bridge.pend.phase = "thinking" /\ Answers(AnswerFails(bridge), dev.link)

----------------------------------------------------------------------------
CallbackWorker  == LinkCallback \/ NotifyCallback \/ MessageCallback
WebSocketWorker == Connect \/ LossSeen
Bridge          == BridgeReceives \/ BridgeWorks

Next ==
  \/ Look \/ Message \/ Turn
  \/ CallbackWorker \/ WebSocketWorker \/ Lose
  \/ PlayDrains \/ PlayFails
  \/ Bridge \/ BridgeRefuses \/ BridgeFails

\* Every task of the device is scheduled, and a pass of MediationLoop waits
\* for nothing that another task may withhold; the network comes back, and
\* the Bridge ends the work it began.  Neither the user nor a fault need act.
Fairness ==
  /\ []<>(pc = "look") /\ []<>(pc = "work")
  /\ WF_vars(CallbackWorker) /\ WF_vars(WebSocketWorker)
  /\ WF_vars(PlayDrains) /\ WF_vars(Bridge)

Spec == Init /\ [][Next]_vars /\ Fairness

----------------------------------------------------------------------------
(* Properties.                                                             *)

Whole(s, n) == [i \in 1..n |-> [seg |-> s, at |-> i - 1]]

\* The device frees a completed recording only when the Bridge has stored
\* all its frames, in order, and nothing else with them (ApplyDurableAck:
\* the two sides agree on more than the byte count the ACK carries).
KeptUntilStored ==
  \A s \in Segments :
    made[s] # 0 =>
      \/ \E x \in CompleteSlots(dev.store) : Slot(dev, x).meta.seg = s
      \/ bridge.rows[s].st = "stored" /\ bridge.rows[s].pcm = Whole(s, made[s])

\* Whatever the Bridge has received of a recording is the beginning of that
\* recording (ApplyCompleteFault: a recording restarts from its first byte).
StreamIsOneRecording ==
  \A s \in Segments :
    bridge.rows[s].pcm = Whole(s, Len(bridge.rows[s].pcm))

\* A request for mediation leaves the device only when the Bridge has stored
\* every recording completed before it (MaybeDispatchPendingMediation).
RequestCoversEverything ==
  [][dev'.asked # dev.asked =>
       \A s \in Segments :
         made[s] # 0 => bridge.case = dev.gen /\ bridge.rows[s].st = "stored"]_vars

\* Whatever the device owes the Bridge is delivered in the end: a completed
\* recording is released or set aside, and the receipt of a playback is
\* confirmed (ReconcileAgentState, StartReplayIfPossible, PumpReplay, ApplyAck,
\* MaybeRetryPlaybackAck).
Held(s) ==
  \E x \in CompleteSlots(dev.store) :
    Slot(dev, x).meta.seg = s /\ ~Slot(dev, x).quarantined

EverythingDelivered ==
  []<>(~ReceiptPending(dev.receipt) /\ \A s \in Segments : ~Held(s))
=============================================================================
