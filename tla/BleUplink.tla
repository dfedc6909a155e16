----------------------------- MODULE BleUplink -----------------------------
(***************************************************************************)
(* The uplink streams of the BLE transport                                 *)
(* (components/agent_link/src/transport_ble.cpp): a recording (0x52, SDUs  *)
(* on a channel, 0x53), an image (0x54, 0x55) or voice (0x40), with the    *)
(* session of the core (agent_link.cpp) above.                             *)
(*                                                                         *)
(* Three tasks touch a stream without a common lock: the application that  *)
(* starts, feeds and ends it, the worker that drains its queue, and the    *)
(* NimBLE host task that is told of the link.  A step is what a task does  *)
(* between two reads or writes of a field that another task writes.        *)
(*                                                                         *)
(* A stream is its own queue, flags, worker and channel; streams of two    *)
(* kinds share only the connection, so a behaviour shows one kind.  Data   *)
(* is counted in pieces, what one SDU or one notification carries.         *)
(***************************************************************************)
EXTENDS Naturals, Sequences

CONSTANTS
  StreamKinds,  \* the kinds shown: among "recording", "image" and "voice"
  Pieces,       \* the pieces that a chunk is cut into
  MaxAccepted,  \* bound on the chunks that a stream accepts
  QueueCap,     \* chunks that fit the queue (kRecQueueHardCap)
  MaxStreams,   \* bound on the streams
  MaxLinks,     \* bound on the connections
  MaxChannels,  \* bound on the channels that are opened
  MaxFaults     \* bound on calls that fail while the link is up

ASSUME BleAssumption ==
  /\ StreamKinds \subseteq {"recording", "image", "voice"}
  /\ {Pieces, QueueCap} \subseteq Nat \ {0}
  /\ {MaxAccepted, MaxStreams, MaxLinks, MaxChannels, MaxFaults} \subseteq Nat

VARIABLES
  kind,      \* the kind that is used
  link,      \* the connection, what the host task has stored of it, and NimBLE
  host,      \* what the host task's handler has still to do
  st,        \* RecordingState, ImageState or VoiceState
  core,      \* s_asr_started, s_voice_started; for an image, its call runs
  caller,    \* the application's task
  worker,    \* RecordingTask, ImageTask or VoiceTask
  accepted,  \* history: pieces accepted for the stream
  carried,   \* history: pieces that NimBLE took during the stream, in order
  said,      \* history: what the end of the stream asked for
  report,    \* history: the 0x53 or 0x55 that NimBLE took, and whether a channel
             \* was closing while the start of the stream cleared its flags
  spent      \* how much of each bound is used

streamVars == <<st, worker>>
history    == <<accepted, carried, said, report>>
bleVars == <<kind, link, host, st, core, caller, worker, history, spent>>

Framed == kind # "voice"

NoLink ==
  [peer |-> FALSE, up |-> FALSE, open |-> FALSE, stalled |-> FALSE,
   blocked |-> FALSE, adv |-> TRUE]
IdleStream ==
  [active |-> FALSE, endReq |-> FALSE, truncated |-> FALSE, complete |-> TRUE,
   id |-> 0, sent |-> 0, q |-> <<>>]
IdleCaller == [pc |-> "idle", tries |-> 0, complete |-> FALSE, last |-> "none"]
NoWorker   == [pc |-> "none", end |-> FALSE, chunk |-> <<>>]
NoReport   == [status |-> 1, valid |-> 0, made |-> FALSE, crossed |-> FALSE]

MayFault == spent.faults < MaxFaults
Fault    == spent' = [spent EXCEPT !.faults = @ + 1]

(* Notify: it is refused when the link is down or gone; NimBLE may also be *)
(* out of buffers.                                                         *)
Notifies == link.up /\ link.peer
NotifyFails == IF Notifies THEN MayFault /\ Fault ELSE UNCHANGED spent

----------------------------------------------------------------------------
(* The host task: GapEvent and L2capEvent.                                 *)

Quiet == host = <<>>

(* BLE_GAP_EVENT_CONNECT, failed or not.                                   *)
Connect ==
  /\ Quiet /\ link.adv /\ ~link.peer /\ spent.links < MaxLinks
  /\ link' = [link EXCEPT !.peer = TRUE, !.up = TRUE, !.adv = FALSE]
  /\ spent' = [spent EXCEPT !.links = @ + 1]
  /\ UNCHANGED <<kind, host, core, caller, streamVars, history>>

(* BLE_L2CAP_EVENT_COC_ACCEPT and COC_CONNECTED                            *)
OpenChannel ==
  /\ Quiet /\ Framed /\ link.peer /\ ~link.open /\ spent.chans < MaxChannels
  /\ link' = [link EXCEPT !.open = TRUE]
  /\ spent' = [spent EXCEPT !.chans = @ + 1]
  /\ UNCHANGED <<kind, host, core, caller, streamVars, history>>

(* BLE_L2CAP_EVENT_COC_TX_UNSTALLED                                        *)
Unstall ==
  /\ Quiet /\ link.blocked
  /\ link' = [link EXCEPT !.blocked = FALSE, !.stalled = FALSE]
  /\ UNCHANGED <<kind, host, core, caller, streamVars, history, spent>>

(* Mutant: a closed channel ends the stream and does not truncate it.      *)
ChannelClosedQuietly == <<"unopen", "end">>

(* BLE_L2CAP_EVENT_COC_DISCONNECTED                                        *)
ChannelClosed == <<"unopen", "truncate", "end">>

(* BLE_GAP_EVENT_DISCONNECT leaves the flags of an image alone.            *)
LinkClosed ==
  CASE kind = "recording" ->
         <<"down", "unopen", "truncate", "end", "tell", "advertise">>
    [] kind = "voice" -> <<"down", "end", "tell", "advertise">>
    [] kind = "image" -> <<"down", "tell", "advertise">>

(* The App closes the channel.                                             *)
CloseChannel ==
  /\ Quiet /\ link.open
  /\ host' = ChannelClosed
  /\ UNCHANGED <<kind, link, core, caller, streamVars, history, spent>>

(* The link is lost: NimBLE reports its channels first.                    *)
LoseLink ==
  /\ Quiet /\ link.peer
  /\ link' = [link EXCEPT !.peer = FALSE]
  /\ host' = (IF link.open THEN ChannelClosed ELSE <<>>) \o LinkClosed
  /\ UNCHANGED <<kind, core, caller, streamVars, history, spent>>

Does(step) == /\ host # <<>> /\ Head(host) = step
              /\ host' = Tail(host)

StoreLink ==
  /\ \/ Does("down") /\ link' = [link EXCEPT !.up = FALSE]
     \/ /\ Does("unopen")
        /\ link' = [link EXCEPT !.open = FALSE, !.blocked = FALSE, !.stalled = FALSE]
  /\ UNCHANGED <<kind, core, caller, streamVars, history, spent>>

StoreFlags ==
  /\ \/ Does("truncate") /\ st' = [st EXCEPT !.truncated = TRUE]
     \/ Does("end") /\ st' = [st EXCEPT !.endReq = TRUE]
  /\ UNCHANGED <<kind, link, core, caller, worker, history, spent>>

(* OnConn(false) ends the sessions of the core.                            *)
TellCore ==
  /\ Does("tell")
  /\ core' = (core /\ kind = "image")
  /\ UNCHANGED <<kind, link, caller, streamVars, history, spent>>

(* StartAdvertising                                                        *)
Advertise ==
  /\ Does("advertise")
  /\ link' = [link EXCEPT !.adv = TRUE]
  /\ UNCHANGED <<kind, core, caller, streamVars, history, spent>>

(* agent_link_stop and ble_stop: the link itself is not closed.            *)
StopTransport ==
  /\ caller.pc = "idle" /\ link.up
  /\ link' = [link EXCEPT !.up = FALSE, !.adv = FALSE]
  /\ core' = FALSE
  /\ caller' = IdleCaller
  /\ UNCHANGED <<kind, host, streamVars, history, spent>>

HostStep == StoreLink \/ StoreFlags \/ TellCore \/ Advertise

HostEvent ==
  \/ Connect \/ OpenChannel \/ Unstall \/ CloseChannel \/ LoseLink \/ HostStep

----------------------------------------------------------------------------
(* The application: agent_link_asr_*, agent_link_push_voice and voice_end, *)
(* agent_link_send_image, and the calls of the transport they make.        *)

CallerAt(pc) == caller.pc = pc
CallerGoes(pc) == caller' = [caller EXCEPT !.pc = pc]

(* A push returns; the call that sends an image goes on with its result.   *)
Pushed(result) ==
  caller' = [IdleCaller EXCEPT !.last = IF kind = "image" THEN result ELSE "none"]

(* RecordingStart, ImageStart, VoiceStart: what they check first           *)
StartStream ==
  /\ CallerAt("idle") /\ ~core /\ spent.streams < MaxStreams
  /\ link.up /\ ~st.active /\ (Framed => link.open)
  /\ CallerGoes("reset")
  /\ spent' = [spent EXCEPT !.streams = @ + 1]
  /\ UNCHANGED <<kind, link, host, core, streamVars, history>>

(* VoiceStart of a session whose worker still drains returns ESP_OK.       *)
JoinVoice ==
  /\ CallerAt("idle") /\ ~core /\ kind = "voice" /\ link.up /\ st.active
  /\ core' = TRUE
  /\ UNCHANGED <<kind, link, host, caller, streamVars, history, spent>>

(* Mutant: what an earlier stream left in the queue is not cleared.        *)
ResetKeepingQueue(s) == [s EXCEPT !.sent = 0, !.endReq = FALSE]

Reset(s) == [s EXCEPT !.q = <<>>, !.sent = 0, !.endReq = FALSE]

ResetStream ==
  /\ CallerAt("reset")
  /\ st' = Reset(st)
  /\ CallerGoes("clear")
  /\ UNCHANGED <<kind, link, host, core, worker, history, spent>>

\* The host task has truncated the stream that is cleared now, and ends it.
Crossed == Framed /\ (st.endReq \/ (host # <<>> /\ Head(host) = "end"))

ClearFlags ==
  /\ CallerAt("clear")
  /\ st' = [st EXCEPT !.truncated = FALSE, !.complete = TRUE, !.id = spent.streams]
  /\ caller' = [caller EXCEPT !.pc = IF Framed THEN "announce" ELSE "create",
                              !.last = "none"]
  /\ accepted' = 0 /\ carried' = <<>> /\ said' = "none"
  /\ report' = [NoReport EXCEPT !.crossed = Crossed]
  /\ UNCHANGED <<kind, link, host, core, worker, spent>>

(* RecSendStreamStart, ImgSendStreamStart: 0x52 or 0x54, in three attempts *)
Announce ==
  /\ CallerAt("announce") /\ Notifies
  /\ caller' = [caller EXCEPT !.pc = "create", !.tries = 0]
  /\ UNCHANGED <<kind, link, host, core, streamVars, history, spent>>

AnnounceFails ==
  /\ CallerAt("announce")
  /\ NotifyFails
  /\ caller' = IF caller.tries < 2 THEN [caller EXCEPT !.tries = @ + 1] ELSE IdleCaller
  /\ UNCHANGED <<kind, link, host, core, streamVars, history>>

(* active is stored and the task made; it waits kRecStartDelayMs first.    *)
CreateWorker ==
  /\ CallerAt("create")
  /\ st' = [st EXCEPT !.active = TRUE]
  /\ worker' = [NoWorker EXCEPT !.pc = "look"]
  /\ CallerGoes("opened")
  /\ UNCHANGED <<kind, link, host, core, history, spent>>

CreateFails ==
  /\ CallerAt("create") /\ MayFault /\ Fault
  /\ caller' = IdleCaller
  /\ UNCHANGED <<kind, link, host, core, streamVars, history>>

(* The core learns that the stream is open.                                *)
CoreOpens ==
  /\ CallerAt("opened")
  /\ core' = TRUE
  /\ CallerGoes("idle")
  /\ UNCHANGED <<kind, link, host, streamVars, history, spent>>

(* An image is pushed once.                                                *)
MayPush ==
  /\ CallerAt("idle") /\ core
  /\ accepted < MaxAccepted * Pieces
  /\ kind = "image" => caller.last = "none"
  /\ kind = "voice" => link.up

(* RecordingEnqueue, ImageEnqueue, VoiceEnqueue: before the lock           *)
CheckPush ==
  /\ MayPush /\ st.active /\ (Framed => ~st.truncated)
  /\ CallerGoes("push")
  /\ UNCHANGED <<kind, link, host, core, streamVars, history, spent>>

RefusePush ==
  /\ MayPush /\ (~st.active \/ (Framed /\ st.truncated))
  /\ Pushed("refused")
  /\ UNCHANGED <<kind, link, host, core, streamVars, history, spent>>

Chunk == [i \in 1..Pieces |-> [id |-> st.id, n |-> accepted + i]]

(* The same with the lock: the data is queued.                             *)
Push ==
  /\ CallerAt("push") /\ Len(st.q) < QueueCap
  /\ st' = [st EXCEPT !.q = Append(@, Chunk)]
  /\ accepted' = accepted + Pieces
  /\ Pushed("ok")
  /\ UNCHANGED <<kind, link, host, core, worker, carried, said, report, spent>>

\* RecordingEnqueue over its hard cap: what is queued is still sent.
Overflowed(s) == [s EXCEPT !.truncated = TRUE, !.endReq = TRUE]

(* The queue is full: the stream is cut here; voice drops what is new.     *)
PushOverflows ==
  /\ CallerAt("push") /\ Len(st.q) >= QueueCap
  /\ st' = IF Framed THEN Overflowed(st) ELSE st
  /\ Pushed("refused")
  /\ UNCHANGED <<kind, link, host, core, worker, history, spent>>

\* An end of a stream that is no longer active does nothing.
EndCall(complete) ==
  IF st.active THEN [IdleCaller EXCEPT !.pc = "end", !.complete = complete]
  ELSE IdleCaller

(* agent_link_asr_end, agent_link_voice_end, the end of send_image         *)
EndStream(complete) ==
  /\ CallerAt("idle") /\ core
  /\ kind = "voice" => complete
  /\ kind = "image" => caller.last # "none" /\ complete = (caller.last = "ok")
  /\ core' = FALSE
  /\ caller' = EndCall(complete)
  /\ UNCHANGED <<kind, link, host, streamVars, history, spent>>

Ended(s, complete) == [s EXCEPT !.complete = complete, !.endReq = TRUE]

(* RecordingEnd, ImageEnd, VoiceEnd                                        *)
RequestEnd ==
  /\ CallerAt("end")
  /\ st' = Ended(st, caller.complete)
  /\ said' = IF caller.complete THEN "complete" ELSE "partial"
  /\ caller' = IdleCaller
  /\ UNCHANGED <<kind, link, host, core, worker, accepted, carried, report, spent>>

CallGoesOn ==
  \/ ResetStream \/ ClearFlags \/ Announce \/ AnnounceFails
  \/ CreateWorker \/ CreateFails \/ CoreOpens \/ Push \/ PushOverflows \/ RequestEnd

Call ==
  \/ StartStream \/ JoinVoice \/ CheckPush \/ RefusePush
  \/ \E complete \in BOOLEAN : EndStream(complete)
  \/ StopTransport

----------------------------------------------------------------------------
(* The worker.                                                             *)

On(pc) == worker.pc = pc
Turns(pc) == worker' = [worker EXCEPT !.pc = pc]
WorkerOnly == UNCHANGED <<kind, host, core, caller, accepted, said>>

(* The end is sampled before the queue is.                                 *)
Look ==
  /\ On("look") /\ link.up
  /\ worker' = [worker EXCEPT !.pc = "pop", !.end = st.endReq]
  /\ WorkerOnly /\ UNCHANGED <<link, st, carried, report, spent>>

Leaves == IF Framed THEN "close" ELSE "stop"

Abort ==
  /\ st' = [st EXCEPT !.truncated = @ \/ Framed]
  /\ worker' = [NoWorker EXCEPT !.pc = Leaves]

SeeLinkDown ==
  /\ On("look") /\ ~link.up
  /\ Abort
  /\ WorkerOnly /\ UNCHANGED <<link, carried, report, spent>>

Popped(s) == [s EXCEPT !.q = Tail(@)]

Pop ==
  /\ On("pop") /\ st.q # <<>>
  /\ worker' = [NoWorker EXCEPT !.pc = "slice", !.chunk = Head(st.q)]
  /\ st' = Popped(st)
  /\ WorkerOnly /\ UNCHANGED <<link, carried, report, spent>>

\* The end that counts is the one seen before the queue was empty.
AfterEmpty == IF worker.end THEN Leaves ELSE "look"

FindEmpty ==
  /\ On("pop") /\ st.q = <<>>
  /\ worker' = [NoWorker EXCEPT !.pc = AfterEmpty]
  /\ WorkerOnly /\ UNCHANGED <<link, st, carried, report, spent>>

InSlice == On("slice") /\ Framed

(* Mutant: the wait for credits has no limit.                              *)
WaitEndsWithLink == InSlice /\ link.stalled /\ (~link.up \/ ~link.open)

(* While the flag says stalled the worker waits; it gives up when the      *)
(* connection or the channel is gone, or after kRecStallWaitMs.            *)
WaitEnds == InSlice /\ link.stalled

GiveUp ==
  /\ WaitEnds
  /\ Abort
  /\ WorkerOnly /\ UNCHANGED <<link, carried, report, spent>>

(* RecL2capSend, ImgL2capSend up to the call: is there a channel?          *)
CheckChannel ==
  /\ InSlice /\ ~link.stalled
  /\ Turns(IF link.open THEN "submit" ELSE "failed")
  /\ WorkerOnly /\ UNCHANGED <<link, st, carried, report, spent>>

NoBuffer ==
  /\ On("submit") /\ MayFault /\ Fault
  /\ Turns("failed")
  /\ WorkerOnly /\ UNCHANGED <<link, st, carried, report>>

TakePiece == carried' = Append(carried, Head(worker.chunk))
AfterPiece == IF Tail(worker.chunk) = <<>> THEN "look" ELSE "slice"

(* ble_l2cap_send: taken, or taken and the channel is stalled.             *)
Submit ==
  /\ On("submit") /\ link.open
  /\ TakePiece
  /\ st' = [st EXCEPT !.sent = @ + 1]
  /\ \E blocked \in BOOLEAN :
       /\ link' = [link EXCEPT !.blocked = blocked]
       /\ worker' = [worker EXCEPT !.pc = IF blocked THEN "mark" ELSE AfterPiece,
                                   !.chunk = Tail(@)]
  /\ WorkerOnly /\ UNCHANGED <<report, spent>>

(* The flag is stored after NimBLE has answered.                           *)
MarkStalled ==
  /\ On("mark")
  /\ link' = [link EXCEPT !.stalled = TRUE]
  /\ Turns(IF worker.chunk = <<>> THEN "look" ELSE "slice")
  /\ WorkerOnly /\ UNCHANGED <<st, carried, report, spent>>

(* The channel went between the check and the call, which reads a null     *)
(* pointer: the device restarts.                                           *)
SubmitNothing ==
  /\ On("submit") /\ ~link.open
  /\ link' = NoLink /\ host' = <<>> /\ st' = IdleStream /\ core' = FALSE
  /\ caller' = IdleCaller /\ worker' = NoWorker
  /\ accepted' = 0 /\ carried' = <<>> /\ said' = "none" /\ report' = NoReport
  /\ UNCHANGED <<kind, spent>>

RetrySend ==
  /\ On("failed") /\ link.up /\ link.open
  /\ Turns("slice")
  /\ WorkerOnly /\ UNCHANGED <<link, st, carried, report, spent>>

AbortSend ==
  /\ On("failed") /\ (~link.up \/ ~link.open)
  /\ Abort
  /\ WorkerOnly /\ UNCHANGED <<link, carried, report, spent>>

(* VoiceSendChunk; a congested one is tried again up to 300 times.         *)
SendVoice ==
  /\ On("slice") /\ ~Framed /\ Notifies
  /\ TakePiece
  /\ worker' = [worker EXCEPT !.pc = AfterPiece, !.chunk = Tail(@)]
  /\ WorkerOnly /\ UNCHANGED <<link, st, report, spent>>

VoiceFails ==
  /\ On("slice") /\ ~Framed
  /\ NotifyFails
  /\ st' = [st EXCEPT !.endReq = TRUE]
  /\ worker' = [worker EXCEPT !.pc = "look", !.chunk = <<>>]
  /\ WorkerOnly /\ UNCHANGED <<link, carried, report>>

Status == IF ~st.truncated /\ st.complete THEN 0 ELSE 1

(* The status, and RecSendStreamEnd or ImgSendStreamEnd: one attempt       *)
Report ==
  /\ On("close") /\ Notifies
  /\ report' = [report EXCEPT !.status = Status, !.valid = st.sent, !.made = TRUE]
  /\ Turns("stop")
  /\ WorkerOnly /\ UNCHANGED <<link, st, carried, spent>>

ReportFails ==
  /\ On("close") /\ NotifyFails
  /\ Turns("stop")
  /\ WorkerOnly /\ UNCHANGED <<link, st, carried, report>>

StopWorker ==
  /\ On("stop")
  /\ st' = [st EXCEPT !.active = FALSE]
  /\ worker' = NoWorker
  /\ WorkerOnly /\ UNCHANGED <<link, carried, report, spent>>

StreamWorker ==
  \/ Look \/ SeeLinkDown \/ Pop \/ FindEmpty \/ GiveUp
  \/ CheckChannel \/ NoBuffer \/ Submit \/ MarkStalled \/ SubmitNothing
  \/ RetrySend \/ AbortSend \/ SendVoice \/ VoiceFails
  \/ Report \/ ReportFails \/ StopWorker

----------------------------------------------------------------------------
BleInit ==
  /\ kind \in StreamKinds
  /\ link = NoLink /\ host = <<>> /\ st = IdleStream /\ core = FALSE
  /\ caller = IdleCaller /\ worker = NoWorker
  /\ accepted = 0 /\ carried = <<>> /\ said = "none" /\ report = NoReport
  /\ spent = [streams |-> 0, links |-> 0, chans |-> 0, faults |-> 0]

BleNext == HostEvent \/ Call \/ CallGoesOn \/ StreamWorker

(* FreeRTOS runs each task that can run; the peer owes nothing.            *)
BleFairness == WF_bleVars(HostStep) /\ WF_bleVars(CallGoesOn) /\ WF_bleVars(StreamWorker)

BleSpec == BleInit /\ [][BleNext]_bleVars /\ BleFairness

----------------------------------------------------------------------------
(* Properties.                                                             *)

(* A stream carries its own data, in the order in which it was accepted:   *)
(* nothing an earlier one left, nothing twice; and a recording or an image *)
(* has no gap, whatever fails (RecordingEnqueue: "we must not resume after *)
(* a gap").                                                                *)
OwnDataInOrder ==
  \A i \in DOMAIN carried :
    /\ carried[i].id = st.id
    /\ Framed => carried[i].n = i
    /\ i > 1 => carried[i].n > carried[i - 1].n

\* Status 0: all of it was sent, and the application said it was complete.
StatusIsTrue ==
  report.status = 0 => said = "complete" /\ Len(carried) = accepted

(* 0x53 and 0x55 are honest: valid_bytes is what was sent, and status 0 is *)
(* true (RecordingTask, L565-590), whatever fails and whenever; unless a   *)
(* channel was closing while the start of the stream cleared its flags.    *)
UncrossedEndIsHonest ==
  report.made =>
    /\ report.valid = Len(carried)
    /\ ~report.crossed => StatusIsTrue

(* A channel that goes truncates the stream: 0x53 and 0x55 have status 1   *)
(* then (the comments of L2capEvent, L443 and L449).                       *)
EndIsHonest == report.made => StatusIsTrue

(* A stream that is to end does end, so that another can start: with its   *)
(* queue drained, or cut where the link, the channel or its credits failed *)
(* (RecordingTask, ImageTask, VoiceTask).                                  *)
EndedStreamEnds == (st.active /\ st.endReq) ~> ~st.active
=============================================================================
