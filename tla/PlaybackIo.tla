------------------------------ MODULE PlaybackIo ------------------------------
(***************************************************************************)
(* How an answer is played (boards/rorolee-basic/rorolee_basic.cc).  Three *)
(* tasks of the device share the playback:                                 *)
(*   the callback worker   HandleCustom and PlayAudio, one per item of the *)
(*                         link: audio.start, the chunks, audio.end;       *)
(*   the mediation task    adopts the chunks that came before audio.start  *)
(*                         was handled, ends the input, cancels a playback *)
(*                         and waits until that has been acknowledged;     *)
(*   the play task         PlayLoop, the only one that reads the buffer,   *)
(*                         writes to the codec and resets.                 *)
(* Every step between two accesses to shared state is an action: the two   *)
(* mutexes, the playback_mux_ sections and the atomics are as in the code. *)
(*                                                                         *)
(* A chunk is sent, buffered and written whole.  The buffer only fills up  *)
(* in a fault.  How the device comes to ask for an answer again is left to *)
(* Board, as are replayed answers that it has heard already.               *)
(***************************************************************************)
EXTENDS Naturals, Sequences

CONSTANTS
  Chunks,       \* chunks of an answer
  Room,         \* chunks the stream buffer holds
  MaxFaults,    \* lost connections, full buffers, failed writes
  MaxSlips,     \* resets that fail or are not waited for to the end
  Prompt        \* what was cancelled has been cleared before the next answer

ASSUME PlaybackAssumption ==
  /\ {Chunks, Room, MaxFaults, MaxSlips} \subseteq Nat \ {0}
  /\ Prompt \in BOOLEAN

VARIABLES
  gate,     \* CallbackAdmissionGate: open and epoch
  io,       \* PlaybackIoEpoch: resets requested and acknowledged, session
  lock,     \* the owners of playback_io_mutex_ and playback_buffer_mutex_
  session,  \* PlaybackSession
  ingress,  \* PlaybackIngressGate and playback_ingress_epoch_
  buffer,   \* the stream buffer
  abort,    \* play_abort_session_epoch_ when play_abort_report_error_, else 0
  notices,  \* playback_notice_queue_
  fault,    \* bridge_fault_epoch_ and the EpochFaultLatch
  med,      \* the mediation task
  cb,       \* the callback worker
  pl,       \* the play task
  net,      \* the connection and what it is sending
  faults,   \* faults and slips so far
  heard     \* history: the chunks written in the last session

shared == <<gate, io, lock, session, ingress, buffer, abort, notices, fault>>
vars == <<shared, med, cb, pl, net, faults, heard>>

NoChunk == [conn |-> 0, at |-> 0]

\* Abort leaves incomplete set and Finish leaves it clear.
Inactive == [active |-> FALSE, incomplete |-> FALSE, ended |-> FALSE,
             got |-> 0, wrote |-> 0]
Disarmed == [armed |-> FALSE, bound |-> FALSE, incomplete |-> FALSE, got |-> 0, epoch |-> 0]

CallbackIdle == [pc |-> "idle", chunk |-> NoChunk, epoch |-> 0, reset |-> 0, fault |-> 0]
PlayAsleep == [pc |-> "wait", awake |-> FALSE, session |-> 0, epoch |-> 0, reset |-> 0,
               report |-> 0, chunk |-> NoChunk]

Init ==
  /\ gate = [open |-> FALSE, epoch |-> 1]
  /\ io = [requested |-> 1, acknowledged |-> 1, session |-> 0, epoch |-> 0]
  /\ lock = [io |-> "none", buffer |-> "none"]
  /\ session = Inactive /\ ingress = Disarmed /\ buffer = <<>>
  /\ abort = 0 /\ notices = <<>>
  /\ fault = [epoch |-> 1, latch |-> 0]
  /\ med = [pc |-> "idle", then |-> "none", advance |-> FALSE, locked |-> FALSE,
            msgs |-> <<>>, phase |-> "wanted", ended |-> FALSE, session |-> 0]
  /\ cb = CallbackIdle
  /\ pl = PlayAsleep
  /\ net = [link |-> "down", lost |-> FALSE, conn |-> 0, at |-> 0]
  /\ faults = [all |-> 0, slips |-> 0]
  /\ heard = <<>>

----------------------------------------------------------------------------
(* The shared objects.                                                     *)

Fault == faults.all < MaxFaults /\ faults' = [faults EXCEPT !.all = @ + 1]
Slip == faults.slips < MaxSlips /\ faults' = [faults EXCEPT !.slips = @ + 1]
NoFault == UNCHANGED faults

Accepts(epoch) == gate.open /\ gate.epoch = epoch

ResetConfirmed == io.acknowledged = io.requested

RequestReset == io' = [io EXCEPT !.requested = @ + 1]

AcknowledgeReset(reset) == [io EXCEPT !.acknowledged = reset]

InvalidateSession == [io EXCEPT !.session = @ + 1, !.epoch = 0]

AcceptCallback(reset, current) ==
  current /\ ResetConfirmed /\ reset = io.requested

\* The lease is the session and the callback epoch the play task has read.
AcceptWrite == 
  /\ Accepts(pl.epoch) /\ ResetConfirmed
  /\ pl.session # 0 /\ pl.epoch # 0
  /\ pl.session = io.session /\ pl.epoch = io.epoch

\* EpochFaultLatch::Signal keeps the latest epoch.
Signal(epoch) ==
  IF fault.latch < epoch THEN [fault EXCEPT !.latch = epoch]
  ELSE fault

\* EpochFaultLatch::TakeIfCurrent empties the latch, current or not.
TakenFault == [fault EXCEPT !.latch = 0]
TakenIsCurrent == fault.latch = fault.epoch

(* PlaybackSession                                                         *)

BeginSession(got) == [Inactive EXCEPT !.active = TRUE, !.got = got]

FailIngress(p, on) == [p EXCEPT !.incomplete = @ \/ on]

ReserveChunk(p) ==
  IF p.active /\ ~p.ended /\ ~p.incomplete /\ p.got < Chunks
  THEN [p EXCEPT !.got = @ + 1] ELSE FailIngress(p, p.active)

CanAcceptEnd == session.active /\ ~session.incomplete /\ session.got = Chunks

AcceptEnd == [session EXCEPT !.ended = TRUE]

CanMarkWritten ==
  session.active /\ ~session.incomplete /\ session.wrote < session.got

MarkWritten == [session EXCEPT !.wrote = @ + 1]

Finish == [session EXCEPT !.active = FALSE, !.incomplete = FALSE, !.ended = TRUE]

Abort == [session EXCEPT !.active = FALSE, !.incomplete = TRUE, !.ended = FALSE]

(* Mutant: everything received is enough, written or not.                  *)
ReadyOnceReceived(empty) ==
  session.active /\ ~session.incomplete /\ session.ended /\ session.got = Chunks

ReadyToFinish(empty) ==
  /\ session.active /\ ~session.incomplete /\ session.ended /\ empty
  /\ session.got = Chunks /\ session.wrote = Chunks

----------------------------------------------------------------------------
(* The callback worker.                                                    *)

\* Item 1 is audio.start, the last is audio.end.
LastItem == Chunks + 2

(* HandleCustom for an audio.start or an audio.end.                        *)
HandleCustom ==
  /\ cb.pc = "idle" /\ net.at \in {1, LastItem}
  /\ net' = [net EXCEPT !.at = IF @ = LastItem THEN 0 ELSE @ + 1]
  /\ med' = IF gate.open
            THEN [med EXCEPT !.msgs = Append(@, [t |-> IF net.at = 1 THEN "start" ELSE "end",
                                                 epoch |-> gate.epoch])]
            ELSE med
  /\ UNCHANGED <<shared, cb, pl, heard>> /\ NoFault

Callback(pc) == cb' = IF pc = "idle" THEN CallbackIdle ELSE [cb EXCEPT !.pc = pc]

(* PlayAudio: the gate,                                                    *)
PlayAudio ==
  /\ cb.pc = "idle" /\ net.at \in 2..(Chunks + 1)
  /\ net' = [net EXCEPT !.at = @ + 1]
  /\ cb' = IF gate.open
           THEN [cb EXCEPT !.pc = "reset", !.epoch = gate.epoch,
                           !.chunk = [conn |-> net.conn, at |-> net.at - 1]]
           ELSE cb
  /\ UNCHANGED <<shared, med, pl, heard>> /\ NoFault

(* the two epochs,                                                         *)
PlayAudioReadsReset ==
  /\ cb.pc = "reset"
  /\ cb' = [cb EXCEPT !.pc = "fault", !.reset = io.requested]
  /\ UNCHANGED <<shared, med, pl, net, heard>> /\ NoFault

PlayAudioReadsFault ==
  /\ cb.pc = "fault"
  /\ cb' = [cb EXCEPT !.pc = "lock", !.fault = fault.epoch]
  /\ UNCHANGED <<shared, med, pl, net, heard>> /\ NoFault

(* the buffer's mutex, which it does not wait for,                         *)
BufferFree == lock.buffer = "none"

PlayAudioLocks ==
  /\ cb.pc = "lock"
  /\ IF BufferFree
     THEN lock' = [lock EXCEPT !.buffer = "callback"] /\ Callback("reserve")
     ELSE UNCHANGED lock /\ Callback("idle")
  /\ UNCHANGED <<gate, io, session, ingress, buffer, abort, notices, fault, med, pl, net, heard>>
  /\ NoFault

Current == AcceptCallback(cb.reset, Accepts(cb.epoch))

\* PlaybackIngressGate::ArmPending resets a gate that is not armed.
Arm(epoch) ==
  IF ingress.armed THEN ingress
  ELSE [Disarmed EXCEPT !.armed = TRUE, !.epoch = epoch]

ReserveIngress ==
  LET g == Arm(cb.epoch)
  IN CASE g.epoch # cb.epoch -> [g |-> g, ok |-> FALSE]
       [] g.epoch = cb.epoch /\ (g.incomplete \/ g.got = Chunks) ->
            [g |-> [g EXCEPT !.incomplete = TRUE], ok |-> FALSE]
       [] OTHER -> [g |-> [g EXCEPT !.got = @ + 1], ok |-> TRUE]

(* the reservation, for the session or for the one to come,                *)
PlayAudioReserves ==
  /\ cb.pc = "reserve"
  /\ IF ~Current THEN Callback("refused") /\ UNCHANGED <<session, ingress>>
     ELSE IF session.active
     THEN /\ session' = ReserveChunk(session) /\ UNCHANGED ingress
          /\ Callback(IF session'.incomplete THEN "refused" ELSE "send")
     ELSE /\ ingress' = ReserveIngress.g /\ UNCHANGED session
          /\ Callback(IF ReserveIngress.ok THEN "send" ELSE "refused")
  /\ UNCHANGED <<gate, io, lock, buffer, abort, notices, fault, med, pl, net, heard>>
  /\ NoFault

PlayAudioLeaves(f) ==
  /\ fault' = f
  /\ lock' = [lock EXCEPT !.buffer = "none"]
  /\ Callback("idle")
  /\ UNCHANGED <<gate, io, abort, notices, med, net, heard>>

(* a refusal, which is a fault unless the callback is stale,               *)
PlayAudioRefused ==
  /\ cb.pc = "refused"
  /\ PlayAudioLeaves(IF Current THEN Signal(cb.fault) ELSE fault)
  /\ UNCHANGED <<session, ingress, buffer, pl>> /\ NoFault

(* and the buffer, which may be full.                                      *)
PlayAudioSends ==
  /\ cb.pc = "send" /\ Len(buffer) < Room
  /\ buffer' = Append(buffer, cb.chunk)
  /\ PlayAudioLeaves(fault)
  /\ UNCHANGED <<session, ingress, pl>> /\ NoFault

PlayAudioOverflows ==
  /\ cb.pc = "send" /\ Fault
  /\ IF Current
     THEN /\ IF ingress.armed
             THEN ingress' = FailIngress(ingress, TRUE) /\ UNCHANGED session
             ELSE session' = FailIngress(session, session.active) /\ UNCHANGED ingress
          /\ pl' = [pl EXCEPT !.awake = TRUE]
          /\ PlayAudioLeaves(Signal(cb.fault))
     ELSE UNCHANGED <<session, ingress, pl>> /\ PlayAudioLeaves(fault)
  /\ UNCHANGED buffer

CallbackWorker ==
  \/ HandleCustom
  \/ PlayAudio \/ PlayAudioReadsReset \/ PlayAudioReadsFault \/ PlayAudioLocks
  \/ PlayAudioReserves \/ PlayAudioRefused \/ PlayAudioSends

----------------------------------------------------------------------------
(* The mediation task: RequestPlaybackReset.                               *)

\* A reset begins; "then" is what the handler does after it.
StartReset(m, advance, then) ==
  [m EXCEPT !.pc = "lock", !.advance = advance, !.then = then,
            !.phase = IF @ = "playing" THEN "aborted" ELSE @]

ResetLocks ==
  /\ med.pc = "lock" /\ lock.io = "none"
  /\ lock' = [lock EXCEPT !.io = "mediation"]
  /\ med' = [med EXCEPT !.pc = "gate", !.locked = TRUE]
  /\ UNCHANGED <<gate, io, session, ingress, buffer, abort, notices, fault, cb, pl, net, heard>>
  /\ NoFault

ResetDoesNotLock ==
  /\ med.pc = "lock" /\ lock.io # "none" /\ Slip
  /\ med' = [med EXCEPT !.pc = "gate", !.locked = FALSE]
  /\ UNCHANGED <<shared, cb, pl, net, heard>>

ResetGate ==
  /\ med.pc = "gate"
  /\ gate' = [open  |-> gate.open /\ ~med.advance /\ med.locked,
              epoch |-> IF med.advance THEN gate.epoch + 1 ELSE gate.epoch]
  /\ med' = [med EXCEPT !.pc = "request"]
  /\ UNCHANGED <<io, lock, session, ingress, buffer, abort, notices, fault, cb, pl, net, heard>>
  /\ NoFault

ResetRequest ==
  /\ med.pc = "request"
  /\ RequestReset
  /\ med' = [med EXCEPT !.pc = "release"]
  /\ UNCHANGED <<gate, lock, session, ingress, buffer, abort, notices, fault, cb, pl, net, heard>>
  /\ NoFault

(* Mutant: the io mutex is kept until the reset is acknowledged.           *)
IoKept == lock

\* The io mutex is given back if it was taken.
IoReleased == IF med.locked THEN [lock EXCEPT !.io = "none"] ELSE lock

ResetReleases ==
  /\ med.pc = "release"
  /\ fault' = [fault EXCEPT !.epoch = @ + 1]
  /\ lock' = IoReleased
  /\ pl' = [pl EXCEPT !.awake = TRUE]
  /\ med' = [med EXCEPT !.pc = "confirm"]
  /\ UNCHANGED <<gate, io, session, ingress, buffer, abort, notices, cb, net, heard>>
  /\ NoFault

----------------------------------------------------------------------------
(* The mediation task: its handlers.                                       *)

MedIdle == med.pc = "idle"

\* FeedError: an answer that has not been heard is asked for again once the
\* error has passed.
FeedError(m) ==
  [m EXCEPT !.phase = IF @ = "heard" THEN @ ELSE "wanted", !.ended = FALSE]

ResetOver(m) == [m EXCEPT !.pc = "idle", !.then = "none", !.advance = FALSE, !.locked = FALSE]

\* agent_link_stop waits for the callback worker; what the link had queued
\* is gone.
Stopped == [net EXCEPT !.link = "down", !.lost = FALSE, !.at = 0]

(* What a handler does once its reset has returned: the disconnect         *)
(* boundary cancels once more, a cancelled playback is an error and most   *)
(* often a fault of this connection, a restart stops the link.             *)
ResetReturns ==
  /\ med.pc = "confirm"
  /\ \/ med.locked /\ ResetConfirmed /\ NoFault
     \/ ~med.locked /\ NoFault
     \/ med.locked /\ ~ResetConfirmed /\ Slip
  /\ LET ok == med.locked /\ ResetConfirmed
         failed == med.then = "error" \/ ~ok
     IN /\ fault' = IF failed THEN Signal(fault.epoch) ELSE fault
        /\ CASE med.then = "boundary" ->
                  /\ med' = StartReset([med EXCEPT !.msgs = <<>>], FALSE, "lost")
                  /\ UNCHANGED net
             [] med.then \in {"lost", "error"} ->
                  /\ med' = FeedError(ResetOver(med))
                  /\ UNCHANGED net
             [] med.then = "restart" ->
                  /\ cb.pc = "idle"
                  /\ med' = FeedError([ResetOver(med) EXCEPT !.msgs = <<>>])
                  /\ net' = Stopped
  /\ UNCHANGED <<gate, io, lock, session, ingress, buffer, abort, notices, cb, pl, heard>>

(* DrainBridgeIngressFault: TakeIfCurrent.                                 *)
DrainBridgeIngressFault ==
  /\ MedIdle /\ fault.latch # 0
  /\ fault' = TakenFault
  /\ med' = IF TakenIsCurrent
            THEN StartReset([med EXCEPT !.msgs = <<>>], TRUE, "restart") ELSE med
  /\ UNCHANGED <<gate, io, lock, session, ingress, buffer, abort, notices, cb, pl, net, heard>>
  /\ NoFault

(* ReconcileAgentState: a disconnection,                                   *)
CleanupObservedDisconnect ==
  /\ MedIdle /\ net.lost
  /\ net' = [net EXCEPT !.lost = FALSE]
  /\ med' = StartReset(med, TRUE, "boundary")
  /\ UNCHANGED <<shared, cb, pl, heard>> /\ NoFault

(* and a connection.                                                       *)
LinkReady ==
  /\ MedIdle /\ cb.pc = "idle"
  /\ net.link = "up" /\ ~net.lost /\ ~gate.open
  /\ IF ResetConfirmed
     THEN gate' = [gate EXCEPT !.open = TRUE] /\ UNCHANGED fault
     ELSE fault' = Signal(fault.epoch) /\ fault' # fault /\ UNCHANGED gate
  /\ UNCHANGED <<io, lock, session, ingress, buffer, abort, notices, med, cb, pl, net, heard>>
  /\ NoFault

\* A connection takes kReconnectBaseMs (2 s) to come back and an error 1.5 s
\* to pass: many passes of MediationLoop, and far longer than a reset takes.
Settled ==
  /\ pl.pc = "wait" /\ ~pl.awake
  /\ med.msgs = <<>> /\ notices = <<>> /\ fault.latch = 0

(* The request for the answer; the Bridge sends it from the beginning.     *)
Request ==
  /\ Prompt => Settled
  /\ MedIdle /\ med.phase = "wanted" /\ gate.open /\ net.link = "up" /\ net.at = 0
  /\ med' = [med EXCEPT !.phase = "inflight"]
  /\ net' = [net EXCEPT !.at = 1]
  /\ UNCHANGED <<shared, cb, pl, heard>> /\ NoFault

\* DrainBridgeMessages takes a message of this connection.
Takes(t) ==
  /\ MedIdle /\ med.msgs # <<>> /\ Head(med.msgs).t = t
  /\ Accepts(Head(med.msgs).epoch)
Taken == [med EXCEPT !.msgs = Tail(@)]

DropMessages ==
  /\ MedIdle /\ med.msgs # <<>> /\ ~Accepts(Head(med.msgs).epoch)
  /\ med' = IF gate.open THEN Taken ELSE [med EXCEPT !.msgs = <<>>]
  /\ UNCHANGED <<shared, cb, pl, net, heard>> /\ NoFault

\* BindPlaybackIngress: of this connection, and not of more than expected.
CanBind ==
  /\ ResetConfirmed /\ ~session.active
  /\ ingress.armed => /\ ingress.epoch = gate.epoch
                      /\ ~ingress.incomplete /\ ~ingress.bound

BindPlaybackIngress ==
  IF CanBind THEN [Arm(gate.epoch) EXCEPT !.bound = TRUE]
  ELSE FailIngress(ingress, ingress.armed)

(* ApplyAudioStart: the chunks to come are bound to the answer,            *)
ApplyAudioStart ==
  /\ Takes("start")
  /\ IF med.phase = "inflight" /\ Accepts(gate.epoch)
     THEN /\ ingress' = BindPlaybackIngress
          /\ med' = IF CanBind THEN [Taken EXCEPT !.pc = "adopt"]
                    ELSE StartReset(Taken, FALSE, "error")
     ELSE UNCHANGED ingress /\ med' = StartReset(Taken, FALSE, "error")
  /\ UNCHANGED <<gate, io, lock, session, buffer, abort, notices, fault, cb, pl, net, heard>>
  /\ NoFault

\* PlaybackIoEpoch::BeginSession
MayBeginSession == ingress.epoch # 0 /\ ResetConfirmed

\* PlaybackIngressGate::AdoptInto
CanAdopt == ingress.armed /\ ingress.bound /\ ~ingress.incomplete

(* and those that have come are adopted.                                   *)
AdoptPlayback ==
  /\ med.pc = "adopt"
  /\ LET begun == CanAdopt /\ MayBeginSession
     IN /\ ingress' = IF ingress.bound THEN Disarmed ELSE ingress
        /\ IF begun
           THEN /\ session' = BeginSession(ingress.got)
                /\ io' = [io EXCEPT !.session = @ + 1, !.epoch = ingress.epoch]
                /\ med' = [med EXCEPT !.pc = "idle", !.phase = "playing",
                                      !.session = io.session + 1]
                /\ pl' = [pl EXCEPT !.awake = TRUE]
                /\ heard' = <<>>
           ELSE /\ session' = IF ingress.bound THEN [Inactive EXCEPT !.incomplete = TRUE]
                              ELSE session
                /\ med' = StartReset(med, FALSE, "error")
                /\ UNCHANGED <<io, pl, heard>>
  /\ UNCHANGED <<gate, lock, buffer, abort, notices, fault, cb, net>> /\ NoFault

(* ApplyAudioEnd: everything has been received.                            *)
ApplyAudioEnd ==
  /\ Takes("end")
  /\ IF med.phase = "playing" /\ ~med.ended /\ CanAcceptEnd
     THEN /\ session' = AcceptEnd
          /\ med' = [Taken EXCEPT !.ended = TRUE]
          /\ pl' = [pl EXCEPT !.awake = TRUE]
     ELSE med' = StartReset(Taken, FALSE, "error") /\ UNCHANGED <<session, pl>>
  /\ UNCHANGED <<gate, io, lock, ingress, buffer, abort, notices, fault, cb, net, heard>>
  /\ NoFault

IsCurrentPlaybackNotice(n) == med.session # 0 /\ n.session = med.session

(* DrainPlaybackNotices: the answer has been heard, or not.                *)
DrainPlaybackNotices ==
  /\ MedIdle /\ notices # <<>>
  /\ notices' = Tail(notices)
  /\ LET n == Head(notices)
         over == [med EXCEPT !.session = 0]
     IN med' = CASE ~IsCurrentPlaybackNotice(n) -> med
                 [] IsCurrentPlaybackNotice(n) /\ n.drained /\ med.phase = "playing" /\ med.ended ->
                      [over EXCEPT !.phase = "heard", !.ended = FALSE]
                 [] OTHER -> FeedError(over)
  /\ UNCHANGED <<gate, io, lock, session, ingress, buffer, abort, fault, cb, pl, net, heard>>
  /\ NoFault

MediationTask ==
  \/ ResetLocks \/ ResetGate \/ ResetRequest \/ ResetReleases \/ ResetReturns
  \/ DrainBridgeIngressFault \/ CleanupObservedDisconnect \/ LinkReady
  \/ Request \/ DropMessages \/ ApplyAudioStart \/ AdoptPlayback \/ ApplyAudioEnd
  \/ DrainPlaybackNotices

----------------------------------------------------------------------------
(* The play task: PlayLoop.                                                *)

\* What the task has read is of no use once it starts over.
Play(pc) ==
  pl' = IF pc \in {"top", "wait"} THEN [PlayAsleep EXCEPT !.pc = pc, !.awake = pl.awake]
        ELSE [pl EXCEPT !.pc = pc]

(* Mutant: the session that is lost is not reported.                       *)
GiveUpSilently == RequestReset /\ UNCHANGED abort

\* RequestReset with a report of the session that is lost.
GiveUpSession == abort' = pl.session /\ RequestReset

PlayWakes ==
  /\ pl.pc = "wait" /\ pl.awake
  /\ pl' = [pl EXCEPT !.pc = "top", !.awake = FALSE]
  /\ UNCHANGED <<shared, med, cb, net, heard>> /\ NoFault

(* The reset: both mutexes,                                                *)
PlayStartsReset ==
  /\ pl.pc = "top" /\ ~ResetConfirmed
  /\ Play("lock")
  /\ UNCHANGED <<shared, med, cb, net, heard>> /\ NoFault

PlayResetLocks ==
  /\ pl.pc = "lock" /\ lock.io = "none"
  /\ lock' = [lock EXCEPT !.io = "play"]
  /\ pl' = [pl EXCEPT !.pc = "lockBuffer", !.reset = io.requested]
  /\ UNCHANGED <<gate, io, session, ingress, buffer, abort, notices, fault, med, cb, net, heard>>
  /\ NoFault

PlayResetLocksBuffer ==
  /\ pl.pc = "lockBuffer" /\ lock.buffer = "none"
  /\ lock' = [lock EXCEPT !.buffer = "play"]
  /\ Play("abort")
  /\ UNCHANGED <<gate, io, session, ingress, buffer, abort, notices, fault, med, cb, net, heard>>
  /\ NoFault

(* the session and what has come in,                                       *)
PlayAborts ==
  /\ pl.pc = "abort"
  /\ session' = Abort
  /\ ingress' = Disarmed
  /\ io' = InvalidateSession
  /\ pl' = [pl EXCEPT !.pc = "clear", !.report = abort]
  /\ abort' = 0
  /\ UNCHANGED <<gate, lock, buffer, notices, fault, med, cb, net, heard>> /\ NoFault

Unlocked == [io |-> "none", buffer |-> "none"]

(* Mutant: what is in the buffer is left there.                            *)
BufferLeft(b) == b

\* xStreamBufferReset
BufferReset(b) == <<>>

(* the buffer, and the acknowledgement.                                    *)
PlayAcknowledges ==
  /\ pl.pc = "clear"
  /\ buffer' = BufferReset(buffer)
  /\ io' = AcknowledgeReset(pl.reset)
  /\ lock' = Unlocked
  /\ notices' = IF pl.report = 0 THEN notices
                ELSE Append(notices, [session |-> pl.report, drained |-> FALSE])
  /\ Play("wait")
  /\ UNCHANGED <<gate, session, ingress, abort, fault, med, cb, net, heard>> /\ NoFault

PlayResetFails ==
  /\ pl.pc = "clear" /\ Slip
  /\ abort' = IF pl.report = 0 THEN abort ELSE pl.report
  /\ lock' = Unlocked
  /\ Play("top")
  /\ UNCHANGED <<gate, io, session, ingress, buffer, notices, fault, med, cb, net, heard>>

(* The session and its lease are read together.                            *)
PlayReads ==
  /\ pl.pc = "top" /\ ResetConfirmed
  /\ \/ ~session.incomplete /\ ~session.active /\ Play("wait")
     \/ /\ session.incomplete \/ session.active
        /\ pl' = [pl EXCEPT !.session = io.session, !.epoch = io.epoch,
                            !.pc = IF session.incomplete THEN "incomplete" ELSE "receive"]
  /\ UNCHANGED <<shared, med, cb, net, heard>> /\ NoFault

PlayIncomplete ==
  /\ pl.pc = "incomplete" /\ lock.io = "none"
  /\ GiveUpSession
  /\ Play("top")
  /\ UNCHANGED <<gate, lock, session, ingress, buffer, notices, fault, med, cb, net, heard>>
  /\ NoFault

PlayReceives ==
  /\ pl.pc = "receive"
  /\ IF buffer # <<>>
     THEN /\ pl' = [pl EXCEPT !.pc = "locked", !.chunk = Head(buffer)]
          /\ buffer' = Tail(buffer)
     ELSE Play("finish") /\ UNCHANGED buffer
  /\ UNCHANGED <<gate, io, lock, session, ingress, abort, notices, fault, med, cb, net, heard>>
  /\ NoFault

MayWrite == session.active /\ ~session.incomplete /\ AcceptWrite

PlayLocks ==
  /\ pl.pc = "locked" /\ lock.io = "none"
  /\ IF MayWrite THEN lock' = [lock EXCEPT !.io = "play"] /\ Play("write")
     ELSE UNCHANGED lock /\ Play("top")
  /\ UNCHANGED <<gate, io, session, ingress, buffer, abort, notices, fault, med, cb, net, heard>>
  /\ NoFault

(* WritePcm succeeds, which counts unless the session has failed meanwhile, *)
PlayWrites ==
  /\ pl.pc = "write"
  /\ heard' = Append(heard, pl.chunk)
  /\ lock' = [lock EXCEPT !.io = "none"]
  /\ IF CanMarkWritten
     THEN /\ session' = MarkWritten
          /\ pl' = [pl EXCEPT !.pc = "finish", !.chunk = NoChunk]
          /\ UNCHANGED <<abort, io>>
     ELSE /\ session' = FailIngress(session, session.active)
          /\ GiveUpSession /\ Play("top")
  /\ UNCHANGED <<gate, ingress, buffer, notices, fault, med, cb, net>> /\ NoFault

(* or fails.                                                               *)
PlayWriteFails ==
  /\ pl.pc = "write" /\ Fault
  /\ GiveUpSession
  /\ lock' = [lock EXCEPT !.io = "none"]
  /\ Play("top")
  /\ UNCHANGED <<gate, session, ingress, buffer, notices, fault, med, cb, net, heard>>

(* Nothing is left to write: the hardware drains, with the io mutex held,  *)
PlayFinishes ==
  /\ pl.pc = "finish" /\ lock.io = "none"
  /\ IF AcceptWrite /\ ReadyToFinish(buffer = <<>>)
     THEN lock' = [lock EXCEPT !.io = "play"] /\ Play("drain")
     ELSE UNCHANGED lock /\ Play("top")
  /\ UNCHANGED <<gate, io, session, ingress, buffer, abort, notices, fault, med, cb, net, heard>>
  /\ NoFault

MayReport == AcceptWrite /\ ReadyToFinish(buffer = <<>>)

(* and the answer has been heard.                                          *)
PlayDrained ==
  /\ pl.pc = "drain"
  /\ lock' = [lock EXCEPT !.io = "none"]
  /\ IF MayReport
     THEN /\ session' = Finish
          /\ io' = InvalidateSession
          /\ notices' = Append(notices, [session |-> pl.session, drained |-> TRUE])
          /\ Play("wait") /\ UNCHANGED abort
     ELSE /\ IF session.active /\ AcceptWrite THEN GiveUpSession ELSE UNCHANGED <<abort, io>>
          /\ Play("top") /\ UNCHANGED <<session, notices>>
  /\ UNCHANGED <<gate, ingress, buffer, fault, med, cb, net, heard>> /\ NoFault

PlayLoop ==
  \/ PlayWakes \/ PlayStartsReset
  \/ PlayResetLocks \/ PlayResetLocksBuffer \/ PlayAborts \/ PlayAcknowledges
  \/ PlayReads \/ PlayIncomplete \/ PlayReceives \/ PlayLocks \/ PlayWrites
  \/ PlayFinishes \/ PlayDrained

----------------------------------------------------------------------------
(* The connection.                                                         *)

\* The disconnection has been handled before the next connection is ready.
Connect ==
  /\ Prompt => Settled
  /\ net.link = "down" /\ ~net.lost /\ ~gate.open /\ cb.pc = "idle"
  /\ net' = [net EXCEPT !.link = "up", !.conn = @ + 1]
  /\ UNCHANGED <<shared, med, cb, pl, heard>> /\ NoFault

Lose ==
  /\ net.link = "up" /\ Fault
  /\ net' = [net EXCEPT !.link = "cut"]
  /\ UNCHANGED <<shared, med, cb, pl, heard>>

\* What was received before the connection was lost is still handed over,
\* all of it or less, and then the disconnection.
LossSeen ==
  /\ net.link = "cut" /\ cb.pc = "idle"
  /\ net' = [net EXCEPT !.link = "down", !.lost = TRUE, !.at = 0]
  /\ UNCHANGED <<shared, med, cb, pl, heard>> /\ NoFault

Next ==
  \/ CallbackWorker \/ PlayAudioOverflows
  \/ MediationTask \/ ResetDoesNotLock
  \/ PlayLoop \/ PlayResetFails \/ PlayWriteFails
  \/ Connect \/ Lose \/ LossSeen

\* The scheduler runs every task that is ready, and the network comes back.
\* Neither the user nor a fault need act.
Fairness ==
  /\ WF_vars(CallbackWorker) /\ WF_vars(MediationTask) /\ WF_vars(PlayLoop)
  /\ WF_vars(Connect) /\ WF_vars(LossSeen)

Spec == Init /\ [][Next]_vars /\ Fairness

----------------------------------------------------------------------------
(* Properties.                                                             *)

\* What the loudspeaker plays in a session is a run of chunks, without a gap,
\* of the answer as one connection sent it, whatever was cancelled before (PlayLoop).
HeardWithoutGap ==
  \A i \in DOMAIN heard : heard[i] = [heard[1] EXCEPT !.at = @ + i - 1]

\* An answer counts as heard only when all of it has been written
\* (DrainPlaybackNotices: the receipt that makes the Bridge forget it).
HeardIsWhole ==
  med.phase = "heard" =>
    /\ Len(heard) = Chunks
    /\ \A i \in DOMAIN heard : heard[i].at = i

\* A reset that has been requested is acknowledged: the two mutexes and the
\* wait of the mediation task never stop the play task (RequestPlaybackReset).
ResetIsAcknowledged == ~ResetConfirmed ~> ResetConfirmed

\* A playback ends: the answer is heard, or an error is reported.
PlaybackEnds == (med.phase = "playing") ~> (med.phase # "playing")
=============================================================================
