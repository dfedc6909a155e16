-------------------------- MODULE SegmentPipeline --------------------------
(***************************************************************************)
(* How a recording becomes durable in bridge/src/device-gateway.mjs: one   *)
(* device, its connections and their supersession, speech.start, chunks    *)
(* and speech.end, the WAV file, the state transactions and their failures *)
(* before and after the rename, the transcription queue, case replacement, *)
(* shutdown, crash, power failure and recovery.                            *)
(*                                                                         *)
(* One action is what the event loop runs between two awaits.  Inbound     *)
(* frames of a connection are handled one at a time; state transactions of *)
(* all devices run one at a time; everything else interleaves.             *)
(*                                                                         *)
(* Message identifiers are those of the firmware: a segment has one start  *)
(* and one end message, resent unchanged.  Case identifiers are fresh, so  *)
(* they are numbered in the order the device starts them.  An audio chunk  *)
(* is one unit.  Mediation is not part of this module.                     *)
(***************************************************************************)
EXTENDS CaseManager

CONSTANTS
  Device,       \* the device under study
  Conns,        \* its connections
  SpeakerOf,    \* the speaker of each segment, fixed by its start message
  CaseOf,       \* its case, fixed by that message (of a disciplined device)
  Disciplined,  \* TRUE: a connection opens a stream with speech.start and
                \* ends it before the next one, and a segment keeps its case,
                \* as the firmware does
  MaxTries,     \* bound on the WAV files written for a segment; the disk
                \* refuses further ones
  MaxFaults,    \* bound on failures of the disk
  MaxStops,     \* bound on crashes and shutdowns
  MaxForeign    \* bound on transactions of other devices

ASSUME PipelineAssumption ==
  /\ Device \in Devices
  /\ Cases \subseteq Nat
  /\ SpeakerOf \in [Segments -> Speakers]
  /\ CaseOf \in [Segments -> Cases]
  /\ Disciplined \in BOOLEAN
  /\ None \notin Conns \cup Segments /\ None \notin Cases \X Segments \X (1..MaxTries)
  /\ {MaxTries, MaxFaults, MaxStops, MaxForeign} \subseteq Nat

VARIABLES
  mode,       \* "up", "stopping" (#stopping) or "down"
  writable,   \* ~#stateWriteDisabled
  cm,         \* #cases
  dev,        \* the device record
  conn,       \* its connections
  current,    \* the connection of the latest connectionGeneration
  tail,       \* #stateTransactionTail: transactions that have not started
  txn,        \* the transaction in progress
  exit,       \* the snapshot that the shutdown is committing
  disk,       \* bridge-state.json
  undo,       \* what a power failure may bring back instead of disk
  wavs,       \* the WAV files in tempDir
  confirmed,  \* history: the <<case, segment>> whose durable ACK was sent
  spent       \* bounds: tries per segment, faults, stops, foreign; history:
              \* whether a state commit ever failed

vars == <<mode, writable, cm, dev, conn, current, tail, txn, exit, disk, undo,
          wavs, confirmed, spent>>

proc  == <<mode, writable, exit>>
store == <<disk, undo, wavs>>

Start(s)    == <<"start", s>>
End(s)      == <<"end", s>>
CaseMsg(c)  == <<"case", c>>
MessageIds  == {Start(s) : s \in Segments} \cup {End(s) : s \in Segments}
                 \cup {CaseMsg(c) : c \in Cases}
AboutSegment(s) == {Start(s), End(s)}
Files       == Cases \X Segments \X (1..MaxTries)

Statuses == {"none", "queued", "transcribing", "saved", "failed"}
Job      == [status : Statuses, file : Files \cup {None}]
NoJob    == [status |-> "none", file |-> None]
Pending(job) == job.status \in {"queued", "transcribing"}

NoCommit == [k |-> None, stale |-> FALSE, file |-> None, step |-> "none"]
NoStream == [owner |-> None, seg |-> None, replay |-> FALSE, committing |-> FALSE]
NoTxn    == [call |-> None, snap |-> None, back |-> None, phase |-> "none"]

(* createDeviceRecord *)
FreshDevice ==
  [acks       |-> {},     \* keys of acks; a speech ACK is bound to its segment
   persistent |-> {},     \* persistentAckIds
   durable    |-> {},     \* keys of segmentAcks
   jobs       |-> [s \in Segments |-> NoJob],
   progress   |-> [s \in Segments |-> None],   \* nextSequence
   commits    |-> [s \in Segments |-> NoCommit], \* segmentCommits
   active     |-> NoStream,                    \* activeRecording
   queue      |-> <<>>]                        \* transcriptions in order

Recording(k, s, replay) ==
  [owner |-> k, seg |-> s, replay |-> replay, committing |-> FALSE]

IsActive(s) == dev.active # NoStream /\ dev.active.seg = s

CommitOf(s) == dev.commits[s]
InCommit(s) == CommitOf(s).step # "none"

NoConn == [phase |-> "fresh", busy |-> "no", on |-> None]

(***************************************************************************)
(* Snapshots                                                               *)
(***************************************************************************)

EmptyDisk ==
  [cm |-> EmptyCaseManager, acks |-> {}, durable |-> {},
   jobs |-> [s \in Segments |-> NoJob]]

PersistentState ==
  [cm |-> ExportState(cm), acks |-> dev.persistent, durable |-> dev.durable,
   jobs |-> dev.jobs]

(* The checks of restorePersistentState.                                   *)
Restorable(snap) ==
  /\ MayRestoreState(snap.cm)
  /\ \A s \in snap.durable :
       /\ snap.cm.seg[s].case = snap.cm.current[Device] /\ Live(snap.cm, s)
       /\ End(s) \in snap.acks
  /\ \A s \in Segments : snap.jobs[s].status # "none" =>
       /\ snap.cm.seg[s].case = snap.cm.current[Device]
       /\ snap.cm.seg[s].state = snap.jobs[s].status
       /\ s \in snap.durable
       /\ Pending(snap.jobs[s]) => snap.jobs[s].file # None

RestoredDevice(snap) ==
  [FreshDevice EXCEPT !.acks = snap.acks, !.persistent = snap.acks,
                      !.durable = snap.durable, !.jobs = snap.jobs]

(***************************************************************************)
(* Ledger helpers                                                          *)
(***************************************************************************)

(* discardSegmentLedger, for each segment of a set.                        *)
DiscardLedger(dv, S) ==
  LET ids == UNION {AboutSegment(s) : s \in S}
  IN [dv EXCEPT
        !.progress   = [s \in Segments |-> IF s \in S THEN None ELSE @[s]],
        !.jobs       = [s \in Segments |-> IF s \in S THEN NoJob ELSE @[s]],
        !.durable    = @ \ S,
        !.acks       = @ \ ids,
        !.persistent = @ \ ids]

(* failAndForgetRecording fails a segment unless that throws.              *)
FailAllowed(m, S) ==
  [m EXCEPT !.seg = [s \in Segments |->
     IF s \in S /\ MayFailSegment(m, s, Interrupted)
     THEN FailSegment(m, s, Interrupted).seg[s] ELSE @[s]]]

(* Mutant: a replay stream that goes away fails its durable segment.       *)
AbandonableReplay(rec) == ~rec.committing

(* failAndForgetRecording leaves the other recordings alone, unless forced. *)
Abandonable(rec) == ~rec.replay /\ ~rec.committing

(* Mutant: the stream is detached and its segment left as it is.           *)
DetachActive == dev' = [dev EXCEPT !.active = NoStream] /\ UNCHANGED cm

(* The owner of a recording goes away: the close and supersede paths.      *)
AbandonActive ==
  IF Abandonable(dev.active)
  THEN /\ cm' = FailAllowed(cm, {dev.active.seg})
       /\ dev' = [DiscardLedger(dev, {dev.active.seg})
                    EXCEPT !.active = NoStream]
  ELSE /\ dev' = [dev EXCEPT !.active = NoStream]
       /\ UNCHANGED cm

ReleaseOwner(dv, s) ==
  IF dv.active # NoStream /\ dv.active.seg = s /\ dv.active.committing
  THEN [dv EXCEPT !.active = NoStream] ELSE dv

FinishCommit(dv, s) == [dv EXCEPT !.commits[s] = NoCommit]

Idle(k) == [conn EXCEPT ![k].busy = "no"]

(* sendJson reaches the device only on an open socket of a running Bridge. *)
Delivers(k) == mode = "up" /\ conn[k].phase = "open"

SendDurable(k, s) ==
  confirmed' = IF Delivers(k)
               THEN confirmed \cup {<<cm.seg[s].case, s>>} ELSE confirmed

(* haltForPersistenceFailure: the device's sockets close, nothing is       *)
(* written any more, and the shutdown begins.                              *)
Halt ==
  /\ writable' = FALSE
  /\ mode' = "stopping"
  /\ UNCHANGED exit

(* A waiting transaction starts in the microtasks after the one before it, *)
(* and a frame that waits for a commit goes on in those after its end,     *)
(* before the event loop takes the next event: a frame, a closed socket, a *)
(* finished file operation, an answer of the recogniser, a signal.         *)
Resumable(k) == conn[k].busy = "wait" /\ ~InCommit(conn[k].on)

EventLoop ==
  /\ txn # NoTxn \/ tail = <<>>
  /\ \A k \in Conns : ~Resumable(k)

(***************************************************************************)
(* Connections                                                             *)
(***************************************************************************)

Ready(k) == /\ EventLoop
            /\ mode = "up" /\ conn[k].phase = "open" /\ conn[k].busy = "no"
            /\ current = k

Call(op, k, c, s, text) == [op |-> op, k |-> k, c |-> c, s |-> s, text |-> text]
SegCall(op, s)          == Call(op, None, None, s, None)
Enqueue(call)           == tail' = Append(tail, call)

SendHello(k) ==
  /\ EventLoop
  /\ mode = "up" /\ conn[k].phase = "fresh"
  /\ conn' = [conn EXCEPT ![k] = [phase |-> "hello", busy |-> "txn", on |-> None]]
  /\ Enqueue(Call("hello", k, None, None, None))
  /\ UNCHANGED <<proc, cm, dev, current, txn, store, confirmed, spent>>

(* The socket closes: the peer, the network, or a close by the Bridge.     *)
CloseConnection(k) ==
  /\ EventLoop
  /\ mode # "down" /\ conn[k].phase \in {"hello", "open", "closing"}
  /\ conn' = [conn EXCEPT ![k].phase = "closed"]
  /\ IF dev.active # NoStream /\ dev.active.owner = k THEN AbandonActive
                                                 ELSE UNCHANGED <<cm, dev>>
  /\ UNCHANGED <<proc, current, tail, txn, store, confirmed, spent>>

(* The name of a connection that is gone may be used again.                *)
ForgetConnection(k) ==
  /\ EventLoop
  /\ mode = "up" /\ conn[k].phase = "closed" /\ conn[k].busy = "no"
  /\ conn' = [conn EXCEPT ![k] = NoConn]
  /\ current' = IF current = k THEN None ELSE current
  /\ UNCHANGED <<proc, cm, dev, tail, txn, store, confirmed, spent>>

(* case.start; a repeated one is answered from the ledger.  The device     *)
(* does not go back to a case that it has left.                            *)
SendCaseStart(k, c) ==
  /\ Ready(k)
  /\ CaseMsg(c) \notin dev.acks
  /\ cm.current[Device] # None => cm.current[Device] <= c
  /\ \A i \in DOMAIN tail : tail[i].op = "case" => tail[i].c <= c
  /\ Disciplined => conn[k].on = None
  /\ conn' = [conn EXCEPT ![k].busy = "txn"]
  /\ Enqueue(Call("case", k, c, None, None))
  /\ UNCHANGED <<proc, cm, dev, current, txn, store, confirmed, spent>>

(***************************************************************************)
(* speech.start                                                            *)
(***************************************************************************)

(* startSpeech past the wait: what a new stream for the segment becomes.   *)
ResumesProgress(k, c, s) ==
  /\ Start(s) \in dev.acks /\ cm.seg[s].case = c
  /\ dev.progress[s] # None
  /\ dev.active # NoStream => dev.active.owner = k

ReplaysDurable(c, s) ==
  /\ s \in dev.durable /\ cm.seg[s].case = c
  /\ IF Start(s) \in dev.acks THEN dev.progress[s] = None
                              ELSE dev.active = NoStream

OpensSegment(c, s) ==
  /\ Start(s) \notin dev.acks /\ dev.active = NoStream /\ s \notin dev.durable
  /\ MayStartSegment(cm, c, s, SpeakerOf[s])

OpenStream(k, c, s) ==
  \/ /\ ResumesProgress(k, c, s)
     /\ dev' = [dev EXCEPT !.active = Recording(k, s, FALSE)]
     /\ UNCHANGED <<cm, confirmed>>
  \/ /\ ReplaysDurable(c, s)
     /\ dev' = [dev EXCEPT !.active = Recording(k, s, TRUE),
                           !.acks = @ \cup {Start(s)}]
     /\ IF Start(s) \in dev.acks THEN UNCHANGED confirmed ELSE SendDurable(k, s)
     /\ UNCHANGED cm
  \/ /\ OpensSegment(c, s)
     /\ cm' = StartSegment(cm, c, s, SpeakerOf[s])
     /\ dev' = [dev EXCEPT !.active = Recording(k, s, FALSE),
                           !.acks = @ \cup {Start(s)},
                           !.progress[s] = IF @ = None THEN 0 ELSE @]
     /\ UNCHANGED confirmed

RefuseStream(k, c, s) ==
  /\ ~ResumesProgress(k, c, s) /\ ~ReplaysDurable(c, s) /\ ~OpensSegment(c, s)
  /\ UNCHANGED <<cm, dev, confirmed>>

StartSpeech(k, c, s) ==
  /\ Ready(k)
  /\ cm.owner[c] = Device
  /\ Disciplined => conn[k].on = None /\ c = CaseOf[s]
  /\ ~InCommit(s)
  /\ OpenStream(k, c, s)
  /\ conn' = [conn EXCEPT ![k].on = s]
  /\ UNCHANGED <<proc, current, tail, txn, store, spent>>

(* The segment is being committed for another stream: wait for its end.    *)
WaitForCommit(k, s) ==
  /\ Ready(k)
  /\ Disciplined => conn[k].on = None
  /\ InCommit(s) /\ ~CommitOf(s).stale
  /\ conn' = [conn EXCEPT ![k].busy = "wait", ![k].on = s]
  /\ UNCHANGED <<proc, cm, dev, current, tail, txn, store, confirmed, spent>>

(* Mutant: the connection is not looked at again after the wait.           *)
StillAnything(k) == TRUE

StillCurrent(k) == conn[k].phase = "open" /\ current = k

ResumeStart(k) ==
  LET s == conn[k].on
      c == cm.seg[s].case
  IN /\ mode # "down" /\ Resumable(k)
     /\ conn' = Idle(k)
     /\ IF ~StillCurrent(k)
        THEN UNCHANGED <<cm, dev, confirmed>>
        ELSE IF s \in dev.durable
        THEN /\ dev' = [dev EXCEPT !.active = Recording(k, s, TRUE)]
             /\ UNCHANGED <<cm, confirmed>>
        ELSE IF c = None
        THEN UNCHANGED <<cm, dev, confirmed>>
        ELSE OpenStream(k, c, s) \/ RefuseStream(k, c, s)
     /\ UNCHANGED <<proc, current, tail, txn, store, spent>>

(***************************************************************************)
(* Audio chunks and speech.end                                             *)
(***************************************************************************)

Owns(k) == dev.active # NoStream /\ dev.active.owner = k

FailRecording(s) ==
  /\ cm' = FailAllowed(cm, {s})
  /\ dev' = [DiscardLedger(dev, {s}) EXCEPT !.active = NoStream]

AppendSpeech(k, sequence) ==
  /\ Ready(k) /\ Owns(k) /\ ~dev.active.replay
  /\ LET s    == dev.active.seg
         next == dev.progress[s]
     IN IF sequence <= next
           /\ \E payload \in Payloads : MayAppendChunk(cm, s, sequence, payload)
        THEN \E payload \in Payloads :
               /\ MayAppendChunk(cm, s, sequence, payload)
               /\ cm' = AppendChunk(cm, s, sequence, payload)
               /\ dev' = IF sequence = next
                         THEN [dev EXCEPT !.progress[s] = @ + 1] ELSE dev
        ELSE FailRecording(s)
  /\ UNCHANGED <<proc, conn, current, tail, txn, store, confirmed, spent>>

(* The frame a connection ends: its own stream, or any for a device that   *)
(* is not disciplined.                                                     *)
MayEnd(k, s) == IF Disciplined THEN conn[k].on = s ELSE TRUE

(* speech.end answered from the ledger, whichever stream is active.        *)
EndReplayed(k, s) ==
  /\ Ready(k) /\ MayEnd(k, s)
  /\ End(s) \in dev.acks
  /\ SendDurable(k, s)
  /\ dev' = IF Owns(k) /\ dev.active.replay /\ dev.active.seg = s
            THEN [dev EXCEPT !.active = NoStream] ELSE dev
  /\ conn' = [conn EXCEPT ![k].on = None]
  /\ UNCHANGED <<proc, cm, current, tail, txn, store, spent>>

(* speech.end whose case, segment, sequence, flags or byte count differ    *)
(* from what was received, or with nothing received.                       *)
EndMismatch(k, s) ==
  /\ Ready(k) /\ MayEnd(k, s) /\ End(s) \notin dev.acks
  /\ Owns(k) /\ ~dev.active.replay
  /\ FailRecording(dev.active.seg)
  /\ conn' = [conn EXCEPT ![k].on = None]
  /\ UNCHANGED <<proc, current, tail, txn, store, confirmed, spent>>

(* The stream was taken away before its end arrived.                       *)
EndMissing(k, s) ==
  /\ Ready(k) /\ conn[k].on = s /\ MayEnd(k, s) /\ End(s) \notin dev.acks
  /\ ~Owns(k) /\ s \notin dev.durable
  /\ conn' = [conn EXCEPT ![k].on = None]
  /\ UNCHANGED <<proc, cm, dev, current, tail, txn, store, confirmed, spent>>

(* speech.end that matches: the segment's commit begins.                   *)
EndSpeech(k, s) ==
  /\ Ready(k) /\ MayEnd(k, s) /\ End(s) \notin dev.acks
  /\ Owns(k) /\ ~dev.active.replay /\ dev.active.seg = s
  /\ dev.progress[s] > 0
  /\ MayCopyReceivingAudio(cm, s)
  /\ dev' = [dev EXCEPT !.active.committing = TRUE,
                        !.commits[s] = [k |-> k, stale |-> FALSE, file |-> None,
                                        step |-> "writing"]]
  /\ conn' = [conn EXCEPT ![k].busy = "commit", ![k].on = None]
  /\ UNCHANGED <<proc, cm, current, tail, txn, store, confirmed, spent>>

(***************************************************************************)
(* writeDurableWav: write, sync, rename, sync the directory                *)
(***************************************************************************)

Writing(s) == CommitOf(s).step = "writing"

WriteWav(s) ==
  LET n    == spent.tries[s] + 1
      file == <<cm.seg[s].case, s, n>>
  IN /\ EventLoop
     /\ Writing(s) /\ mode = "up" /\ ~CommitOf(s).stale /\ n <= MaxTries
     /\ wavs' = wavs \cup {file}
     /\ dev' = [dev EXCEPT !.commits[s].file = file, !.commits[s].step = "done"]
     /\ spent' = [spent EXCEPT !.tries[s] = n]
     /\ Enqueue(SegCall("end", s))
     /\ UNCHANGED <<proc, cm, conn, current, txn, disk, undo, confirmed>>

(* A disk error, or an abort: the file, if it came to exist, is removed    *)
(* now or by the next cleanup.                                             *)
WriteWavFails(s) ==
  /\ EventLoop
  /\ Writing(s) /\ mode # "down"
  /\ \/ mode # "up" /\ UNCHANGED spent
     \/ CommitOf(s).stale /\ UNCHANGED spent
     \/ spent.tries[s] = MaxTries /\ UNCHANGED spent
     \/ /\ spent.faults < MaxFaults
        /\ spent' = [spent EXCEPT !.faults = @ + 1]
  /\ dev' = [dev EXCEPT !.commits[s].step = "done"]
  /\ Enqueue(SegCall("failcommit", s))
  /\ UNCHANGED <<proc, cm, conn, current, txn, store, confirmed>>

(***************************************************************************)
(* State transactions                                                      *)
(***************************************************************************)

Starting(op) ==
  /\ mode = "up" /\ txn = NoTxn /\ tail # <<>> /\ Head(tail).op = op
  /\ tail' = Tail(tail)

Call1 == Head(tail)

(* The body has run up to persistState: cm' and dev' are in the snapshot.  *)
PersistFor(call, back) ==
  txn' = [call |-> call, snap |-> PersistentState', back |-> back,
          phase |-> "writing"]

Persist(back) == PersistFor(Call1, back)

SupersedeActive == IF dev.active # NoStream THEN AbandonActive ELSE UNCHANGED <<cm, dev>>

(* hello: the connection supersedes the one before it.                     *)
BeginHello ==
  LET k == Call1.k
  IN /\ Starting("hello")
     /\ SupersedeActive
     /\ current' = k
     /\ conn' = [j \in Conns |->
          IF j = k /\ conn[j].phase = "hello" THEN [conn[j] EXCEPT !.phase = "open"]
          ELSE IF j # k /\ conn[j].phase = "open"
          THEN [conn[j] EXCEPT !.phase = "closing"] ELSE conn[j]]
     /\ Persist(None)
     /\ UNCHANGED <<proc, store, confirmed, spent>>

(* evictDeviceCase; work of the case keeps its aborted signal.             *)
EvictDeviceCase(dv, c) ==
  LET gone == {s \in Segments : cm.seg[s].case = c}
  IN [DiscardLedger(dv, gone) EXCEPT
        !.acks       = @ \ {CaseMsg(c)},
        !.persistent = @ \ {CaseMsg(c)},
        !.commits    = [s \in Segments |-> IF s \in gone /\ @[s].step # "none"
                                           THEN [@[s] EXCEPT !.stale = TRUE]
                                           ELSE @[s]],
        !.queue      = [i \in DOMAIN @ |-> IF @[i].s \in gone
                                           THEN [@[i] EXCEPT !.stale = TRUE]
                                           ELSE @[i]],
        !.active     = IF @ # NoStream /\ @.seg \in gone THEN NoStream ELSE @]

BeginCase ==
  LET c        == Call1.c
      previous == cm.current[Device]
      kept     == IF previous \notin {None, c} THEN EvictDeviceCase(dev, previous)
                                              ELSE dev
  IN /\ Starting("case")
     /\ MayStartCase(cm, Device, c)
     /\ cm' = StartCase(cm, Device, c)
     /\ dev' = [kept EXCEPT !.acks = @ \cup {CaseMsg(c)},
                            !.persistent = @ \cup {CaseMsg(c)}]
     /\ Persist(PersistentState)
     /\ UNCHANGED <<proc, conn, current, store, confirmed, spent>>

(* Mutant: a failed commit never resolves its promise.                     *)
FailCommitUnresolved(s) ==
  /\ cm' = FailAllowed(cm, {s})
  /\ dev' = ReleaseOwner(DiscardLedger(dev, {s}), s)

(* failCommit: after an abort the segment is left to the eviction or the   *)
(* shutdown, otherwise it fails and its start may be resent.               *)
FailCommit(s) ==
  IF mode # "up" \/ CommitOf(s).stale
  THEN /\ dev' = FinishCommit([ReleaseOwner(dev, s) EXCEPT !.progress[s] = None], s)
       /\ UNCHANGED cm
  ELSE /\ cm' = FailAllowed(cm, {s})
       /\ dev' = FinishCommit(ReleaseOwner(DiscardLedger(dev, {s}), s), s)

(* It begins by removing the WAV: when that could not be written, or, in   *)
(* the transaction that was to commit it, when the case was replaced.      *)
EndIsAborted(s) == CommitOf(s).stale \/ ~MayEndSegment(cm, s)

BeginRemoval ==
  /\ \/ Starting("failcommit") \/ Starting("clean")
     \/ Starting("end") /\ EndIsAborted(Call1.s)
  /\ txn' = [call |-> Call1, snap |-> None, back |-> None, phase |-> "removing"]
  /\ UNCHANGED <<proc, cm, dev, conn, current, store, confirmed, spent>>

Removing(ops) ==
  txn # NoTxn /\ mode # "down" /\ txn.phase = "removing" /\ txn.call.op \in ops

FinishFailCommit ==
  LET s == txn.call.s
  IN /\ Removing({"failcommit", "end"})
     /\ FailCommit(s)
     /\ wavs' = wavs \ {CommitOf(s).file}
     /\ conn' = Idle(CommitOf(s).k)
     /\ txn' = NoTxn
     /\ UNCHANGED <<proc, current, tail, disk, undo, confirmed, spent>>

(* The commit point of a recording: segment, ACK, job and the ACKs bound   *)
(* to the segment become persistent in one snapshot.                       *)
BeginEnd ==
  LET s == Call1.s
  IN /\ Starting("end")
     /\ ~EndIsAborted(s)
     /\ cm' = ReleaseAudio(EndSegment(cm, s), s)
     /\ dev' = [ReleaseOwner(dev, s) EXCEPT
                  !.acks       = @ \cup {End(s)},
                  !.durable    = @ \cup {s},
                  !.jobs[s]    = [status |-> "queued", file |-> CommitOf(s).file],
                  !.persistent = @ \cup (AboutSegment(s) \cap (dev.acks \cup {End(s)})),
                  !.progress[s] = None]
     /\ Persist(None)
     /\ UNCHANGED <<proc, conn, current, store, confirmed, spent>>

SubmitForeign ==
  /\ EventLoop
  /\ mode = "up" /\ spent.foreign < MaxForeign
  /\ spent' = [spent EXCEPT !.foreign = @ + 1]
  /\ Enqueue(Call("foreign", None, None, None, None))
  /\ UNCHANGED <<proc, cm, dev, conn, current, txn, store, confirmed>>

BeginForeign ==
  /\ Starting("foreign")
  /\ UNCHANGED <<cm, dev>>
  /\ Persist(None)
  /\ UNCHANGED <<proc, conn, current, store, confirmed, spent>>

(***************************************************************************)
(* The transcription queue: one entry at a time, in the order of commits   *)
(***************************************************************************)

Work == Head(dev.queue)
Busy(step) == dev.queue # <<>> /\ Work.step = step
Popped(dv) == [dv EXCEPT !.queue = Tail(@)]
At(dv, step) == [dv EXCEPT !.queue[1].step = step]

WorkOps == {"begin", "saved", "failed", "clean"}

QueueEntry(s, file) == [s |-> s, file |-> file, stale |-> FALSE, step |-> "waiting"]

(* Mutant: the job keeps its status.                                       *)
KeepStatus(dv, s, status) == dv

SetStatus(dv, s, status) ==
  IF dv.jobs[s] = NoJob THEN dv ELSE [dv EXCEPT !.jobs[s].status = status]

(* The next entry runs, or is dropped after an abort.                      *)
StartWork ==
  /\ mode # "down" /\ Busy("waiting")
  /\ IF mode = "up" /\ ~Work.stale
     THEN dev' = At(dev, "begin") /\ Enqueue(SegCall("begin", Work.s))
     ELSE dev' = Popped(dev) /\ UNCHANGED tail
  /\ UNCHANGED <<proc, cm, conn, current, txn, store, confirmed, spent>>

BeginTranscribing ==
  LET s == Call1.s
  IN /\ Starting("begin")
     /\ ~Work.stale /\ MayBeginTranscription(cm, s)
     /\ cm' = BeginTranscription(cm, s)
     /\ dev' = SetStatus(dev, s, "transcribing")
     /\ Persist(None)
     /\ UNCHANGED <<proc, conn, current, store, confirmed, spent>>

(* The speech recogniser answers, with a text or with an error.            *)
Recognise ==
  /\ EventLoop
  /\ mode # "down" /\ Busy("asr")
  /\ IF mode # "up" \/ Work.stale
     THEN dev' = Popped(dev) /\ UNCHANGED tail
     ELSE /\ dev' = At(dev, "settle")
          /\ \/ \E text \in Transcripts :
                  Enqueue(Call("saved", None, None, Work.s, text))
             \/ Enqueue(SegCall("failed", Work.s))
  /\ UNCHANGED <<proc, cm, conn, current, txn, store, confirmed, spent>>

BeginSaved ==
  LET s == Call1.s
  IN /\ Starting("saved")
     /\ MaySaveTranscript(cm, s, Call1.text)
     /\ cm' = SaveTranscript(cm, s, Call1.text)
     /\ dev' = SetStatus(dev, s, "saved")
     /\ Persist(None)
     /\ UNCHANGED <<proc, conn, current, store, confirmed, spent>>

BeginFailed ==
  LET s == Call1.s
  IN /\ Starting("failed")
     /\ MayFailSegment(cm, s, Interrupted)
     /\ cm' = FailSegment(cm, s, Interrupted)
     /\ dev' = SetStatus(dev, s, "failed")
     /\ Persist(None)
     /\ UNCHANGED <<proc, conn, current, store, confirmed, spent>>

(* A transaction body throws.  An abort ends the work quietly, except on   *)
(* the path of a failed transcription, which does not look for one.        *)
WorkAborts ==
  /\ mode = "up" /\ txn = NoTxn /\ tail # <<>>
  /\ \/ Call1.op = "begin" /\ (Work.stale \/ ~MayBeginTranscription(cm, Call1.s))
     \/ Call1.op = "saved" /\ ~MaySaveTranscript(cm, Call1.s, Call1.text)
     \/ Call1.op = "failed" /\ ~MayFailSegment(cm, Call1.s, Interrupted)
  /\ tail' = Tail(tail)
  /\ dev' = Popped(dev)
  /\ IF Call1.op # "failed" /\ Work.stale THEN UNCHANGED proc ELSE Halt
  /\ UNCHANGED <<cm, conn, current, txn, store, confirmed, spent>>

(* cleanupTerminalAudio: the WAV goes, then the job forgets it.            *)
CleanAudio ==
  LET s == txn.call.s
  IN /\ Removing({"clean"})
     /\ wavs' = wavs \ {Work.file}
     /\ dev' = IF dev.jobs[s] = NoJob THEN dev ELSE [dev EXCEPT !.jobs[s].file = None]
     /\ UNCHANGED cm
     /\ PersistFor(txn.call, None)
     /\ UNCHANGED <<proc, conn, current, tail, disk, undo, confirmed, spent>>

CleanFails ==
  /\ Removing({"clean"})
  /\ spent.faults < MaxFaults
  /\ spent' = [spent EXCEPT !.faults = @ + 1]
  /\ dev' = Popped(dev)
  /\ txn' = NoTxn
  /\ UNCHANGED <<proc, cm, conn, current, tail, store, confirmed>>

(* A transaction that has not started when the Bridge stops is refused.    *)
RefuseTransaction ==
  /\ mode = "stopping" /\ txn = NoTxn /\ tail # <<>>
  /\ tail' = Tail(tail)
  /\ dev' = IF Call1.op \in WorkOps THEN Popped(dev) ELSE dev
  /\ IF Call1.op = "failed" THEN Halt ELSE UNCHANGED proc
  /\ UNCHANGED <<cm, conn, current, txn, store, confirmed, spent>>

(***************************************************************************)
(* The end of a transaction                                                *)
(***************************************************************************)

Running(op) == txn # NoTxn /\ mode # "down" /\ txn.call.op = op
Returned(op) == Running(op) /\ txn.phase = "renamed" /\ txn' = NoTxn

RenameState ==
  /\ txn # NoTxn /\ mode # "down" /\ txn.phase = "writing"
  /\ disk' = txn.snap
  /\ undo' = disk
  /\ txn' = [txn EXCEPT !.phase = "renamed"]
  /\ UNCHANGED <<proc, cm, dev, conn, current, tail, wavs, confirmed, spent>>

HelloReturns ==
  /\ Returned("hello")
  /\ undo' = None
  /\ conn' = Idle(txn.call.k)
  /\ UNCHANGED <<proc, cm, dev, current, tail, disk, wavs, confirmed, spent>>

(* removeOwnedTempFilesForCase may leave a file for a later cleanup.       *)
CaseReturns ==
  /\ Returned("case")
  /\ undo' = None
  /\ conn' = Idle(txn.call.k)
  /\ LET old == {f \in wavs : f[1] = txn.back.cm.current[Device]
                               /\ f[1] # txn.call.c}
     IN wavs' \in {wavs, wavs \ old}
  /\ UNCHANGED <<proc, cm, dev, current, tail, disk, confirmed, spent>>

EndReturns ==
  LET s == txn.call.s
      k == CommitOf(s).k
  IN /\ Returned("end")
     /\ undo' = None
     /\ conn' = Idle(k)
     /\ SendDurable(k, s)
     /\ dev' = IF mode = "up"
               THEN [FinishCommit(dev, s) EXCEPT
                       !.queue = Append(@, QueueEntry(s, CommitOf(s).file))]
               ELSE FinishCommit(dev, s)
     /\ UNCHANGED <<proc, cm, current, tail, disk, wavs, spent>>

TranscribingReturns ==
  /\ Returned("begin")
  /\ undo' = None
  /\ dev' = At(dev, "asr")
  /\ UNCHANGED <<proc, cm, conn, current, tail, disk, wavs, confirmed, spent>>

OutcomeReturns ==
  /\ Returned("saved") \/ Returned("failed")
  /\ undo' = None
  /\ dev' = At(dev, "clean")
  /\ Enqueue(SegCall("clean", Work.s))
  /\ UNCHANGED <<proc, cm, conn, current, disk, wavs, confirmed, spent>>

CleanReturns ==
  /\ Returned("clean")
  /\ undo' = None
  /\ dev' = Popped(dev)
  /\ UNCHANGED <<proc, cm, conn, current, tail, disk, wavs, confirmed, spent>>

ForeignReturns ==
  /\ Returned("foreign")
  /\ undo' = None
  /\ UNCHANGED <<proc, cm, dev, conn, current, tail, disk, wavs, confirmed, spent>>

DiskFault ==
  /\ spent.faults < MaxFaults
  /\ spent' = [spent EXCEPT !.faults = @ + 1, !.failed = TRUE]

(* The commit fails before its rename: bridge-state.json is the old one.   *)
Unwritten(ops) ==
  /\ txn # NoTxn /\ mode # "down" /\ txn.phase = "writing" /\ txn.call.op \in ops
  /\ DiskFault
  /\ txn' = NoTxn
  /\ UNCHANGED <<current, tail, store, confirmed>>

(* The connection is closed; the supersession it made stays.               *)
UnwrittenHello ==
  LET k == txn.call.k
  IN /\ Unwritten({"hello"})
     /\ conn' = [Idle(k) EXCEPT ![k].phase = IF @ = "open" THEN "closing" ELSE @]
     /\ UNCHANGED <<proc, cm, dev>>

(* The cases and devices are rebuilt from the snapshot taken before the    *)
(* case started; what is in progress keeps the device object it began with.*)
UnwrittenCase ==
  /\ Unwritten({"case"})
  /\ Restorable(txn.back)
  /\ cm' = RestoreState(txn.back.cm)
  /\ dev' = [RestoredDevice(txn.back)
               EXCEPT !.commits = dev.commits, !.queue = dev.queue]
  /\ conn' = Idle(txn.call.k)
  /\ Halt

UnwrittenEnd ==
  LET s == txn.call.s
  IN /\ Unwritten({"end"})
     /\ FailCommit(s)
     /\ conn' = Idle(CommitOf(s).k)
     /\ UNCHANGED proc

(* The paths of begin and saved end quietly when the Bridge is stopping.   *)
HaltsFor(op) == mode = "up" \/ op \notin {"begin", "saved"}

UnwrittenWork ==
  /\ Unwritten(WorkOps)
  /\ dev' = Popped(dev)
  /\ IF HaltsFor(txn.call.op) THEN Halt ELSE UNCHANGED proc
  /\ UNCHANGED <<cm, conn>>

UnwrittenForeign ==
  /\ Unwritten({"foreign"})
  /\ UNCHANGED proc \/ Halt        \* by what the transaction was
  /\ UNCHANGED <<cm, dev, conn>>

(* The directory could not be synced after the rename: the new state may   *)
(* or may not be there after a power failure, and the Bridge halts.        *)
CommitFailsVisible ==
  /\ txn # NoTxn /\ mode # "down" /\ txn.phase = "renamed"
  /\ DiskFault
  /\ txn' = NoTxn
  /\ LET call == txn.call
     IN /\ dev' = IF call.op = "end" THEN FinishCommit(ReleaseOwner(dev, call.s), call.s)
                  ELSE IF call.op \in WorkOps THEN Popped(dev) ELSE dev
        /\ conn' = IF call.op \in {"hello", "case"} THEN Idle(call.k)
                   ELSE IF call.op = "end" THEN Idle(CommitOf(call.s).k) ELSE conn
        /\ IF HaltsFor(call.op) THEN Halt ELSE UNCHANGED proc
  /\ UNCHANGED <<cm, current, tail, store, confirmed>>

(***************************************************************************)
(* Shutdown, crash and recovery                                            *)
(***************************************************************************)

ForgetProcess ==
  /\ cm' = EmptyCaseManager /\ dev' = FreshDevice
  /\ conn' = [k \in Conns |-> NoConn] /\ current' = None
  /\ tail' = <<>> /\ txn' = NoTxn /\ exit' = None
  /\ writable' = TRUE

Stop ==
  /\ EventLoop
  /\ mode = "up" /\ spent.stops < MaxStops
  /\ spent' = [spent EXCEPT !.stops = @ + 1]
  /\ mode' = "stopping"
  /\ UNCHANGED <<writable, exit, cm, dev, conn, current, tail, txn, store, confirmed>>

(* Mutant: also the segments whose durable commit is in progress.          *)
CutWithJobs == {s \in Segments : dev.progress[s] # None \/ InCommit(s)}

(* The recordings that makePreDurableRecordingsReplayable fails.           *)
Cut == {s \in Segments : /\ dev.jobs[s] = NoJob
                         /\ dev.progress[s] # None \/ InCommit(s)}

(* That and the snapshot, when the work has drained or the grace periods   *)
(* are over.                                                               *)
BeginExit ==
  /\ EventLoop
  /\ mode = "stopping" /\ writable /\ exit = None
  /\ txn # NoTxn => txn.phase # "removing"   \* an unlink ends in that time
  /\ cm' = FailAllowed(cm, Cut)
  /\ dev' = [DiscardLedger(dev, Cut) EXCEPT
               !.active = IF @ # NoStream /\ @.seg \in Cut THEN NoStream ELSE @]
  /\ exit' = PersistentState'
  /\ UNCHANGED <<mode, writable, conn, current, tail, txn, store, confirmed, spent>>

(* The store commits it after the commit in progress.                      *)
FinishExit ==
  /\ EventLoop
  /\ mode = "stopping" /\ exit # None /\ txn = NoTxn
  /\ disk' = exit
  /\ undo' = None
  /\ wavs' = {f \in wavs : \E s \in Segments : dev.jobs[s].file = f}
  /\ mode' = "down"
  /\ ForgetProcess
  /\ UNCHANGED <<confirmed, spent>>

(* The process ends without that commit: a halt, a crash, a power failure. *)
Crash ==
  /\ mode # "down"
  /\ \/ ~writable /\ UNCHANGED spent
     \/ /\ spent.stops < MaxStops
        /\ spent' = [spent EXCEPT !.stops = @ + 1]
  /\ disk' \in {disk} \cup ({undo} \ {None})
  /\ undo' = None
  /\ mode' = "down"
  /\ ForgetProcess
  /\ UNCHANGED <<wavs, confirmed>>

(* Mutant: only the jobs that had not begun.                               *)
QueuedJobs(jobs) == {s \in Segments : jobs[s].status = "queued"}

(* The transcriptions that recoverOnce queues.                             *)
UnfinishedJobs(jobs) == {s \in Segments : Pending(jobs[s])}

\* A WAV that is gone fails its recording.
LostJobs == {s \in Segments : /\ Pending(disk.jobs[s])
                              /\ disk.jobs[s].file \notin wavs \cup {None}}

\* A transcribed WAV is removed, and its job forgets it, unless that fails.
SettledFiles == {s \in Segments : ~Pending(disk.jobs[s]) /\ disk.jobs[s].file \in wavs}

RecoveredDevice(stuck) ==
  [DiscardLedger(RestoredDevice(disk), LostJobs) EXCEPT
     !.jobs = [s \in Segments |-> IF Pending(@[s]) \/ s \in stuck THEN @[s]
                                  ELSE [@[s] EXCEPT !.file = None]]]

Orders(S) == {f \in [1..Cardinality(S) -> S] : \A i, j \in DOMAIN f : f[i] = f[j] => i = j}

RecoveredQueue(order, jobs) ==
  [i \in DOMAIN order |-> QueueEntry(order[i], jobs[order[i]].file)]

(* recoverOnce: load, restore, clean the WAV files up, write the state if  *)
(* that changed it, and queue the transcriptions that are not done.  stuck *)
(* are the transcribed files the disk refuses to remove.                   *)
Recover ==
  /\ mode = "down"
  /\ Restorable(disk)
  /\ \E stuck \in SUBSET SettledFiles :
       LET dv    == RecoveredDevice(stuck)
           fault == IF stuck = {} THEN 0 ELSE 1
       IN /\ spent.faults + fault <= MaxFaults
          /\ wavs' = {f \in wavs : \E s \in Segments : dv.jobs[s].file = f}
          /\ \/ /\ cm' = FailAllowed(RestoreState(disk.cm), LostJobs)
                /\ \E order \in Orders(UnfinishedJobs(dv.jobs)) :
                     dev' = [dv EXCEPT !.queue = RecoveredQueue(order, dv.jobs)]
                /\ disk' = IF dv.jobs = disk.jobs THEN disk ELSE PersistentState'
                /\ mode' = "up"
                /\ spent' = [spent EXCEPT !.faults = @ + fault]
             \/ /\ dv.jobs # disk.jobs       \* it dies before that commit
                /\ spent.stops < MaxStops
                /\ spent' = [spent EXCEPT !.faults = @ + fault, !.stops = @ + 1]
                /\ UNCHANGED <<mode, cm, dev, disk>>
  /\ UNCHANGED <<writable, exit, conn, current, tail, txn, undo, confirmed>>

Init ==
  /\ mode = "up" /\ writable = TRUE /\ exit = None
  /\ cm = EmptyCaseManager /\ dev = FreshDevice
  /\ conn = [k \in Conns |-> NoConn] /\ current = None
  /\ tail = <<>> /\ txn = NoTxn
  /\ disk = EmptyDisk /\ undo = None /\ wavs = {} /\ confirmed = {}
  /\ spent = [tries |-> [s \in Segments |-> 0], faults |-> 0, stops |-> 0,
              foreign |-> 0, failed |-> FALSE]

ConnectionStep ==
  \E k \in Conns :
    \/ SendHello(k) \/ CloseConnection(k) \/ ForgetConnection(k)
    \/ ResumeStart(k)
    \/ \E c \in Cases : SendCaseStart(k, c)
    \/ \E sequence \in 0..MaxPcm : AppendSpeech(k, sequence)
    \/ \E s \in Segments :
         \/ \E c \in Cases : StartSpeech(k, c, s)
         \/ WaitForCommit(k, s)
         \/ EndReplayed(k, s) \/ EndMismatch(k, s)
         \/ EndMissing(k, s) \/ EndSpeech(k, s)

TransactionStep ==
  \/ BeginHello \/ BeginCase \/ BeginRemoval \/ FinishFailCommit \/ BeginEnd
  \/ BeginForeign \/ BeginTranscribing \/ BeginSaved \/ BeginFailed
  \/ WorkAborts \/ CleanAudio \/ RefuseTransaction
  \/ RenameState
  \/ HelloReturns \/ CaseReturns \/ EndReturns \/ TranscribingReturns
  \/ OutcomeReturns \/ CleanReturns \/ ForeignReturns

WorkStep == (\E s \in Segments : WriteWav(s)) \/ StartWork \/ Recognise

FaultStep ==
  \/ \E s \in Segments : WriteWavFails(s)
  \/ CleanFails
  \/ UnwrittenHello \/ UnwrittenCase \/ UnwrittenEnd \/ UnwrittenWork
  \/ UnwrittenForeign \/ CommitFailsVisible \/ Crash

LifeStep == SubmitForeign \/ Stop \/ BeginExit \/ FinishExit \/ Recover

Next == ConnectionStep \/ TransactionStep \/ WorkStep \/ FaultStep \/ LifeStep

(* What the program and its surroundings keep doing.  Node runs every      *)
(* event that is ready, so a file operation, a promise, the recogniser     *)
(* (whose client has a timeout) and the shutdown go on; the recogniser's   *)
(* answer competes with frames for the event loop, hence SF.  systemd      *)
(* starts the Bridge again after it ends (deploy/debian, Restart).         *)
Fairness ==
  /\ WF_vars(TransactionStep)
  /\ \A s \in Segments : SF_vars(WriteWav(s) \/ WriteWavFails(s))
  /\ WF_vars(StartWork) /\ SF_vars(Recognise)
  /\ \A k \in Conns : WF_vars(ResumeStart(k))
  /\ SF_vars(BeginExit) /\ SF_vars(FinishExit)
  /\ WF_vars(~writable /\ Crash)
  /\ WF_vars(Recover)

Safety == Init /\ [][Next]_vars

Spec == Safety /\ Fairness

----------------------------------------------------------------------------
(* The states a restart may find: the file's, or the one before it while   *)
(* the rename has not reached the disk.                                    *)
OnDisk == {disk} \cup ({undo} \ {None})

Replaced(snap, c) ==
  snap.cm.current[Device] # None /\ snap.cm.current[Device] > c

Kept(snap, c, s) ==
  LET job == snap.jobs[s]
  IN /\ s \in snap.durable /\ snap.cm.seg[s].case = c
     /\ job.status # "none"
     /\ Pending(job) => job.file \in wavs

(* Once the device was sent the durable ACK of a recording it forgets its  *)
(* audio.  From then on, whatever crashes, power failures, disk errors,    *)
(* shutdowns and reconnections follow, every state a restart may find has  *)
(* its WAV and a pending job, or the outcome of its transcription, until   *)
(* the device itself replaces the case (endSpeech, L1155-1335).            *)
DurableAckSurvives ==
  \A m \in confirmed : \A snap \in OnDisk :
    Replaced(snap, m[1]) \/ Kept(snap, m[1], m[2])

(* Every state that reaches the disk passes the validation of the next     *)
(* start (restorePersistentState, L457-582), including those written while *)
(* recordings, commits and transcriptions of the device are in progress.   *)
EverySnapshotRestores == \A snap \in OnDisk : Restorable(snap)

(* A recording that CaseManager still receives has a stream or a commit    *)
(* that will end it: nothing leaves it open for ever, which would keep its *)
(* case from ever being mediated.                                          *)
NoOrphanedRecording ==
  mode = "up" =>
    \A s \in Segments : cm.seg[s].state = "receiving" =>
      (IsActive(s) /\ ~dev.active.replay) \/ InCommit(s)

(* The stream's owner is the device's current connection and its socket    *)
(* has not closed: neither a wait for a commit, nor a transaction, makes a *)
(* connection the owner after it was superseded or closed (L1046-1054).    *)
OwnerIsCurrent ==
  dev.active # NoStream /\ mode = "up" =>
    dev.active.owner = current /\ conn[dev.active.owner].phase # "closed"

(* The gateway never halts because of its own ordering: a halt follows a   *)
(* state commit that failed.                                               *)
HaltMeansCommitFailed == ~writable => spent.failed

Rank(status) == CASE status = "none" -> 0 [] status = "queued" -> 1
                  [] status = "transcribing" -> 2 [] OTHER -> 3

(* No state commit moves a recording of the current case backwards: a      *)
(* durable one stays durable, and its job never returns to an earlier      *)
(* stage, so a transcript is never made twice from a state that had it.    *)
DiskOnlyAdvances ==
  [][disk' # disk /\ ((undo' # None /\ undo' = disk) \/ disk' = exit) =>
       \A s \in disk.durable : Live(disk'.cm, s) =>
         /\ s \in disk'.durable
         /\ Rank(disk.jobs[s].status) <= Rank(disk'.jobs[s].status)]_vars

(* A recording whose job reached the disk is transcribed, or fails, or its *)
(* case is replaced, across halts and restarts: no path of the queue drops *)
(* a job without ending it (transcribe, L1427-1512; recoverOnce).          *)
EveryJobSettles ==
  \A s \in Segments : Pending(disk.jobs[s]) ~> ~Pending(disk.jobs[s])

(* Whoever waits for another stream's commit waits for a frame that is     *)
(* still working on it: whichever way a commit ends, and whatever becomes  *)
(* of its connection or its case meanwhile, it wakes those who wait for it *)
(* (startSpeech, L1029-1056, finishSegmentCommit).                         *)
EveryWaitIsWoken ==
  mode = "up" =>
    \A k \in Conns : conn[k].busy = "wait" =>
      Resumable(k) \/ conn[CommitOf(conn[k].on).k].busy = "commit"
=============================================================================
