# Xiaoli: specifications and proofs

Xiaoli is a voice mediation device. Two people, A and B, record what happened
in turn on an ESP32 device; the device uploads each recording over Wi-Fi to a
Node.js process, the Bridge; the Bridge stores it, has it transcribed, asks a
language model for a mediation when both sides have spoken, synthesises the
answer and streams it back to the device's speaker.

The promise everything else rests on: **a recording is on the device until the
Bridge confirms it, and in the Bridge from then on.** The firmware frees its
copy when it receives a `durable: true` ACK. This project models the machinery
on both sides of that promise, and the links between them, and checks it under
reconnections, full queues, disk errors, crashes, power failures, shutdowns,
replaced cases and tasks that overtake each other.

## 1. Inventory

### Bridge (bridge/src, JavaScript, one event loop)

| part | state it keeps | operations | what makes it correct |
|---|---|---|---|
| `case-manager.mjs` | cases, segments, current case per device, tombstones of evicted segments | startCase, startSegment, appendChunk, endSegment, copyReceivingAudio, releaseAudio, beginTranscription, saveTranscript, failSegment, exportState, restoreState | memory is bounded by evicting the previous case; transcripts are final; every export restores |
| `persistence/atomic-json-state-store.mjs` | one state file, the tail of queued commits | commit, load, cleanupParts | the file is always the whole of some commit; commits apply in order; success means durable; `commitPhase` tells the truth |
| `device-gateway.mjs`, recordings | per device: ACK ledger, durable ACKs, jobs, progress, commits, active recording, queue, connection generation | hello, case.start, speech.start / chunk / end, transcription, shutdown, recovery | the durable ACK; one stream per device; no recording left open; every snapshot restores; every job is settled |
| `device-gateway.mjs`, mediation | per device: pending mediation, generation, sessions, timer | mediation.request, the lane `#mediate`, audio.played, resume | one mediation per device; an accepted request is retried until played or refused; nothing is played again after its receipt |
| `protocol/` | none | validate a message, code a binary frame | pure functions of one message |
| `agent-stack/`, `tts/`, `xfyun/`, `fallback/` | sessions, circuit of the resilient TTS | clients of external services | time out; answer or fail once |
| `mobile/`, `public/mobile` | voice settings | read-only views, settings | not on the recording path |
| `server.mjs`, `config.mjs`, `logger.mjs` | none | wiring | restart after a halt |

The gateway calls the case manager and the store synchronously and waits for
file operations. State transactions of all devices run one at a time
(`#withStateTransaction`), frames of a connection one at a time
(`connection.inbound`), the transcriptions of a device one at a time
(`device.queue`). Everything else interleaves at each `await`.

### Device (boards/rorolee-basic, components/agent_link, C++ on FreeRTOS)

| part | state it keeps | what makes it correct |
|---|---|---|
| `mediation_state` | the user-interface state, the case, the counters of statements | every event in every state has a defined outcome |
| `pending_audio_store` | two slots in PSRAM: free, recording, complete, set aside | a slot is freed only by its own durable ACK |
| `mediation_runtime` | trackers of transcripts, replay, faults, receipt and playback; link edge; callback gate; playback epochs | late answers of an old connection or session have no effect |
| `rorolee_basic`, `bridge_message` | the mediation task that owns the parts above; the callback worker; the play task | the tasks compose the parts; what is owed to the Bridge is delivered |
| `agent_link` core | session flags | calls and callbacks agree on the session |
| `agent_link` Wi-Fi | WebSocket worker, callback worker, three bounded queues, generations, barriers | nothing is used after it is deleted; at most one stale callback; a loss is told; streams are whole |
| `agent_link` BLE | a queue, flags and a worker per stream, the link and its channels | a stream carries its own data in order; its end is honest and comes |
| `wifi_provision` | portal | not on the recording path |

The buttons, the Bridge's messages and the link reach the mediation task through
queues and trackers; the callback worker gives it messages and gives the play
task audio; the mediation task calls the link, whose worker sends. The other
boards, drivers, the Android and iOS shells and the deployment scripts hold no
protocol state.

### What is hard here

In the Bridge: awaits in the middle of handlers, a socket that closes at any of
them, a reconnection that supersedes a connection whose recording is being
committed, a case replaced while its recordings are written or transcribed, a
commit that fails before or after its rename, and a process that dies between
two file operations. On the device: five tasks that share flags and queues
without one lock, a link that is lost between any two of their steps, queues at
their limit, a stop called from a callback, answers of a former connection still
in a queue, and resets that are requested by one task and done by another.
`PROJECT.json` lists the hazards with their lines and properties.

## 2. Modules

```
StateRegister  <--refines--  AtomicJsonStateStore  <--  MCBridgeState, BridgeState_proofs
                                    .  (its two outcomes and two crash results)
CaseManager  <--extends--  CaseRegistry  <--  MCBridgeState
     ^                          ^
     |                     CaseManager_proofs, BridgeState_proofs
     +----extends----  SegmentPipeline  <--  MCSegmentPipeline
                                ^-- SegmentPipeline_proofs  (with CaseManager_proofs)
                                        ^-- SegmentDurability_proofs

                       MediationLane    <--  MCMediationLane, MediationLane_proofs
                            .  (what they answer to one device)
                       BridgePeer ----------------------------+
                                                              |
PendingAudioStore <-- MediationRuntime --+                    v
                      MediationState ----+-> MediationTask -> Board <-- MCBoard
                      AgentLink ---------+   BridgeMessages
                          .  (what it offers to its callers)
                      WifiTransport      BleUplink      PlaybackIo
                           |                 |            |
                           +--------+--------+     PlaybackIo_proofs
                          LinkTransports_proofs

Board  <--  Board_proofs
```

**CaseManager** is the class as a value. A record `cm` holds `owner` and
`listed` (the Map `cases`), `current` (`#currentCases`), `seg` (`segments`) and
`tomb` (`#segmentTombstones`). Each method is a pair `MayX` (does not throw) and
`X` (the object after). Maps become total functions with `None`, state
`"absent"` or case `None` for a missing key. Only the tombstones' insertion
order matters, and `age` keeps it. Identifiers, audio and texts are abstract; a
chunk has length one. **CaseRegistry** runs one such object alone: one action
per method, and a restart that exports and restores.

**AtomicJsonStateStore** has one action per file system call of a commit, with
failure possible at each, a crash or a power failure between any two, and a
directory entry that may or may not reach the disk by itself. The n-th call
writes "the state n". **StateRegister** is what it promises: states take effect
in order, each at one point, a success is stable, a failed or interrupted commit
never takes effect later. The refinement (`Register == INSTANCE StateRegister`,
`ImplementsRegister`) maps the variables of the same names. **MCBridgeState** runs
the class and the store in one state space (`StateSpec`): a behaviour is of one of
them, with the variables of the other as they were at the start.

**SegmentPipeline** is the recording path of the gateway for one device. An
action is what the event loop runs between two awaits.

| variable | in the code |
|---|---|
| `cm`, `dev` | `#cases`, the device record (`acks`, `persistent`, `durable` = segmentAcks, `jobs`, `progress`, `commits`, `active`, `queue`) |
| `conn`, `current` | the connections, and the one of the latest `connectionGeneration` |
| `tail`, `txn` | `#stateTransactionTail`: waiting and running transactions |
| `mode`, `writable`, `exit` | `#stopping`, `#stateWriteDisabled`, the snapshot of the shutdown |
| `disk`, `undo`, `wavs` | the state file, what a power failure may bring back, the WAV files |
| `confirmed`, `spent` | history (durable ACKs sent) and bounds |

The store appears with the interface proved for it: a commit is unwritten, or
renamed and returns, or renamed and fails; until it returns a power failure may
undo it (`undo`). `EventLoop` says that microtasks run first: a waiting
transaction starts, and a frame that awaits a commit resumes, before the next
event of the loop. "foreign" is a transaction of another device, which shares
the tail and the state file. Messages have the identifiers of the firmware: a
segment has one start and one end message, resent unchanged; a message that
differs from the one with its identifier is refused without any change of state
and is not modelled. Answers that change no state are left out.

**MediationLane** is the mediation path of the gateway for one device, with the
same grain and the same store interface.

| variable | in the code |
|---|---|
| `dev` | `currentCaseId`, the persistent `acks`, `pendingMediation` (`ready`, `failed` = deliveryReady, terminalFailure) |
| `mediable` | `canMediate` of the case, which recordings change (`CaseChanges`) |
| `timer` | `pendingMediationTimer`, with the connection it resumes for |
| `lanes` | every call of `#mediate` still running; `mediationWork` is the live one, the others were superseded |
| `conn[k].audio` | the audio stream open at the device, and whether its audio.end came |
| `accepted`, `heard`, `done`, `told`, `asked` | history: what the device and the mobile were told |

A lane's `step` is the await it is at: its replay reset, the mediator's first or
second attempt, synthesis, the delivery commit, the failure commit.
`requestMobileMediation` and `#requestMediation` share `BeginAdmission`, their
commit point. Both generations and the controller of a lane change together, in
`#supersedeMediation`, so one flag (`live`) stands for them. `Orderly = TRUE` is
the firmware: one connection at a time, and requests for its current case only.
`Resends = TRUE` lets a request be repeated with its messageId.

**PendingAudioStore**, **MediationState** and **MediationRuntime** are the
device's classes as values, one operator per method, because one task owns them.
`MediationState.Handle` returns the machine and the list of actions the board is
to carry out; the board may stop in the middle of it. **AgentLink** is the link
as its callers see it: what is accepted, the queue that waits to be sent, the
callbacks that wait to be delivered, the session flags of the core.
**MediationTask** holds the handlers of the mediation task that do not depend on
a message (buttons, link edges, capture, upload, faults, requests, receipt), and
**BridgeMessages** those that do. A handler runs to its end in that task, so each
is an operator on the board's state `d`. **BridgePeer** is the Bridge as this
device sees it: an answer to each message, and the work it then does.

**Board** composes them. A pass of `MediationLoop` is `Look`, a `Message` for each
message that waits, and `Turn`, with the callback worker, the play task, the
WebSocket worker, the network and the Bridge in between. A recording is a
sequence of frames named by their recording and offset, so `KeptUntilStored` and
`StreamIsOneRecording` compare what the Bridge stored with what was captured, and
not the byte counts the ACKs carry.

**PlaybackIo** is the playback of one answer after another by the callback
worker, the mediation task and the play task, at the grain of their mutexes,
critical sections and atomics. `fault`, `gate`, `io`, `ingress`, `session`,
`buffer`, `abort` and `notices` are the members of that meaning; `med`, `cb` and
`pl` say where each task is.

**WifiTransport** is the transport's tasks: the worker, the callback worker, the
event handlers of the client and the driver, a public call, and `wifi_start` and
`wifi_stop`, the latter also from a callback. `closed` are the two
`PublicCallBarrier`s; `tx`, `rx`, `cbq` the queues; `uplink` the stream's
sequence; `frag` the assembler of fragments; `wire` what the Bridge has seen.
The callback worker enters the barrier (`CallbackTakes`), loads the generation
(`CallbackChecks`) and then `s_callbacks_active` (`CallbackRuns`) in three steps,
and `wifi_start` opens the barriers (`StartOpens`) before it counts the generation
(`StartCounts`) and activates the callbacks (`StartActivates`), so that these fall
between each other in every order. `cw.since` is history: the generation when the
callback worker entered. The join of a failed start (5 s, L1203) is taken to last as
long as the worker needs: it has no address yet, hence no client to wait for.

**BleUplink** is one kind of stream over BLE (recording, image or voice) with the
application's calls, the worker and NimBLE's host task. The check and the call of
`RecL2capSend` are two steps, and a channel that goes between them restarts the
device (`SubmitNothing`). A start clears its flags in two steps (`ResetStream`,
`ClearFlags`), with the host task between them or in the middle of its own;
`report.crossed` remembers that a channel was closing then. A call that NimBLE
refuses is sent again without a limit, as in the code (L579-587); `MaxFaults` bounds
how often it refuses. The stalled flag is stored after NimBLE has answered,
`truncated` and `end_req` are stored one after the other, channels are reported
closed before the link is.

## 3. Runs

| run | instance | distinct states | shows |
|---|---|---|---|
| `bridge_state` | 2 devices, 2 cases, 3 segments, limits 2 / 2 / 1; 3 commits, 2 left-over part files | 0.3 M | bounded memory, exact byte counts, final transcripts, restorable exports; whole file, success is durable, `pre-rename` is invisible, no commit is stranded, refinement |
| `pipeline_crash` | 1 segment, 2 connections, 2 cases, 2 WAV tries, 1 disk fault, 1 crash or shutdown, 1 transaction of another device | 1.17 M | the durable ACK and the snapshots, whatever fails and whoever writes the state; no frame waits for ever |
| `pipeline_settles` | 1 segment, 1 connection name (reused), 2 cases, 2 WAV tries, 1 fault, 2 crashes or shutdowns | 54 000 | every job settles |
| `lane_restart` | 1 device and 1 mobile request, 1 connection name, 1 fault, 1 crash or shutdown | 1.6 M | an accepted request is kept, a confirmed one never played again, a failure final, the pending one never left without lane and timer |
| `lane_settles` | 1 request that may be repeated, 2 cases, a device that is not orderly, 1 connection name, 1 fault, 1 transaction of another device | 0.28 M | audio.end closes its own stream; the pending request of a connected device reaches an end |
| `board` | 2 slots, 2 recordings, 1 case, 1 mediation, 1 fault | 1.06 M | recordings kept until stored, streams whole, requests cover everything, all that is owed is delivered |
| `playback` | 3 chunks, buffer of 2, 1 fault, 1 reset that fails or is not waited for | 0.38 M | nothing heard with a gap, nothing counted as heard that was not, every reset and playback ends |
| `wifi` | all queues at 1, 2 callbacks, 2 starts | 1.4 M | nothing used after it is deleted, at most one callback of a former start and none while the link is deleted, losses told, no mixing of connections, `wifi_stop` returns |
| `ble_uplink` | 3 kinds, 2 streams of up to 2 chunks of 2 pieces, queue of 1, 2 links, 2 channels, 1 failed call | 0.72 M | own data in order, honest ends (but for disagreement 3), every stream ends |
| `pipeline_halt` | violation | | disagreement 1 |
| `lane_undriven` | violation | | disagreement 2 |
| `ble_end` | violation | | disagreement 3 |

Why the bounds are enough. In the Bridge the interesting cases need two
connections (a reconnection), two cases (a replacement), a second WAV (a retry),
and one fault at any of the file operations, one of which may follow the other's
recovery. A second fault of the same kind meets the same states as the first,
because recovery ends in a state that differs only in the ledger. Three segments
and two tombstones let a tombstone be dropped, reinserted and collide. The lanes
need two requests (one that takes the other's place, or is rolled back to it),
and two lanes (a live one and a stale one). Where one connection name suffices it
is reused, so reconnections are unlimited.

On the device the two recordings fill both slots, one of each speaker; a fault is
one lost connection, refused recording, failed commit, transcription, answer,
microphone or play task, full queue or early timeout. A larger instance of
`board` (one probe of the pending request, a send queue of 3, safety only) passed
with 2.6 M states; with that queue the liveness property fails only by endless
timeouts of it, which `TxCapacity = 9` excludes. `playback` passed its invariants
with two faults (8 M states). `CHECK_DEADLOCK FALSE` stands where the bounds get used up or the last
answer has been heard; `board` is checked for deadlock.

**Assumptions of the device runs.** They are constants or guards, and each is
there because the code does not enforce it:
- `Prompt = TRUE` (`board`): the mediation task sees a disconnection before the
  next connection is ready, at least 2 s later (`kReconnectBaseMs`). With
  `FALSE`, TLC violates `StreamIsOneRecording`: observation 1 below.
- `Prompt = TRUE` (`playback`): what was cancelled has been cleared before the
  next answer begins. With `FALSE`, a delayed second reset drops the head of the
  next answer and lets its last chunk in: observation 6.
- `Connected` (`wifi`): the callback of a disconnection has been taken, and the
  worker has recycled, before the next connection is made, for the same 2 s.
- `Disciplined = TRUE` (`pipeline_*`): a stream is ended or given up before the
  next one, `speech.start` precedes `speech.end` on each connection, and a segment
  keeps its case (`CaseOf`), since its start message is resent unchanged. The
  ledger branches that this leaves out are observation 8 and the two hazards of
  `PROJECT.json` that say so.
- `PlayedIsFinal` and `FailureIsFinal` are claimed for an orderly device.

**Fairness** is that of the program's surroundings. Node runs whatever is ready,
so file operations, promises, the resume timer and the shutdown proceed; the
clients of the recogniser, the mediator and the synthesiser have timeouts; where
an action competes with frames for the event loop the fairness is strong, since
Node's queue is first in, first out; systemd starts the Bridge again
(`Restart=on-failure`, deploy/debian/xiaoli-bridge.service). FreeRTOS schedules
each task that can run: Board states it of the mediation task as `[]<>` of both
ends of its pass, because a pass has no step that another task may withhold;
PlaybackIo, WifiTransport and BleUplink have weak fairness of each task, of a
call in progress and of a start or stop that holds the mutex. In Board the
network comes back and the Bridge ends its work. No user, frame, reconnection,
fault or crash is fair, and the BLE peer owes nothing, not even credits. Liveness
runs use no symmetry.

Every property has a mutant: a definition with a plausible bug in that code,
marked `Mutant:` next to the original, under which its run fails.

### Three disagreements

1. **A case replaced while its transcription fails halts the Bridge**
   (`pipeline_halt`). `#transcribe` ignores an exception of its first and third
   transaction when the case was aborted (L1441, L1494), but not of the second
   one (L1466), which stores a failed transcription. `failSegment` throws
   because the segment was evicted, and the gateway reports a state persistence
   failure, closes and exits, for all devices, though no commit failed.
2. **An accepted mediation is left without a lane and without a timer**
   (`lane_undriven`). A mobile request that reuses the accepted mediation sets
   the resume timer (L333) while a newer request of the device waits for its
   transaction. The timer fires during the commit of the newer request and
   starts a lane for it (L1656), though it is not stored. The commit fails, the
   accepted request is put back (L1571), and its resumption is skipped because
   that lane still counts as `mediationWork` (L1645). The lane then gives up.

3. **A recording nobody completed is reported as complete** (`ble_end`). The
   comments of `L2capEvent` promise status 1 when the channel goes mid-stream
   (transport_ble.cpp:443, :449). The host task stores `truncated`, then `end_req`
   (L444-451); `RecordingStart` clears `end_req`, then `truncated` (L617-618), and
   `ImageStart` does the same (L779-780), without a lock. If the channel closes
   between the two pairs, the mark of the cut is lost and the request to end
   stays: 0x52 goes out, the worker finds nothing to send, and 0x53 says status 0.
   Every other stream ends honestly: `UncrossedEndIsHonest` (`ble_uplink`, proved).

### Observations

Behaviour met while modelling that no document or test contradicts, or that
needs a device outside the assumptions above:

1. A link that is seen ready twice reopens the stream that is open
   (agent_link.cpp:752): frames repeat, the Bridge refuses the recording and it is
   sent again (rorolee_basic.cc:1680).
2. `mediation_request_pending_` stays set through an error; a disconnection
   during a recording then discards it without an error (rorolee_basic.cc:1205).
3. An `audio.start` that comes late, during a recording, ends that recording as
   if it were complete.
4. A recording that was set aside, then a long press: the device stays in
   Mediating until a new case.
5. A `transcript.saved` repeated right after `hello.ack` meets a closed gate and
   is dropped; the probes recover from that.
6. The play task resets twice when `PlaybackSession::Abort` leaves its incomplete
   mark (rorolee_basic.cc:1960).
7. A disconnection is dropped when the callback queue is full of one that was
   never taken (transport_wifi.cpp:460); `DrainTransmit` may block on the client's
   lock across a reconnection (transport_wifi.cpp:843).
8. A resent `speech.end` without its `speech.start` is answered from the ledger
   before its commit is written (device-gateway.mjs:1165); the firmware always
   resends the start, which waits (L1034). A request repeated with its messageId
   is told `mediation_failed` from memory (L1538) in the same way.
9. BLE: credits reported between the answer ESTALLED and the store of the flag
   (L539) cut the stream short after 3 s; 0x53 and 0x55 are sent once; the check
   and the use of the channel are not atomic.
10. `authenticate` keeps a connection whose socket closed while its transaction
    waited (device-gateway.mjs:871), until the next hello; `storeAck` throws
    after `endSpeech` has finished when 512 entries all have durable references
    (L1984), which 64 recordings with two messages each do not reach.
11. Wi-Fi: an item of the former start that is still in the callback queue, and
   whose generation is loaded after the new start has opened the barrier (L1185) and
   before it counts the generation (L1207), is delivered in the new start if that has
   activated the callbacks by then (L1208, L379). Only one item can pass. If it is
   a "ready", the "lost" behind it is dropped for its generation, and the core
   believes in a link until the next one is made or lost. Without the window (the
   generation equal to the item's whenever a callback runs) TLC shows the first in a
   trace of 34 states, the second in one of 35. The window is the time between two
   loads, and must last as long as `WifiInitOnce`.

## 4. Proofs

`CaseManager_proofs` and `BridgeState_proofs` prove, for all finite sets of
devices, cases and segments and all limits, `Spec => []` of the type invariant
and of `HeldCasesAreCurrent`, `ByteCountIsExact`, `ReadyCaseHoldsNoAudio` and
`ExportIsRestorable`, and the action property `SavedTranscriptStays`.

None of these is inductive alone: that an export restores depends on a segment
being listed once, under the case and speaker its row names; that eviction keeps
this depends on every row being listed; and on tombstones being ordered, for the
limit. `Good(cm)` is the conjunction: type, `GoodRows` (a row's fields agree with
its state), and the shape of the tables (`HeldCurrent`, `ListedRows`,
`ListedOnce`, `RowsListed`, `ListsWithinLimit`, `TombstonesMatch`,
`TombstonesOrdered`). One lemma per method shows that the method preserves it
(`EvictCaseGood`, `StartCaseGood`, `StartSegmentGood`, ..., `RestartGood`); the
three hard ones are eviction (`RollRows`, `RememberOrdered`), the start of a
segment, and the counting argument that a good object is within the limits that
`validateRestoredState` checks (`OneToOneBound`, `GoodWithinLimits`).

Assumptions, all named in CaseManager: `None` is not a value (`NoneAssumption`);
blank transcripts are transcripts and the text of an interruption is a failure
text (`TextAssumption`); devices, cases and segments are finite sets
(`FiniteAssumption`); limits are numbers and the tombstone limit is positive, as
its constructor checks (`LimitAssumption`); and no more devices than
`MAX_RETAINED_CASES` hold a case (`DeviceBound`), which is not a fact of the
class: `startCase` has no such check, the gateway guarantees it by refusing and
pruning devices.

`BridgeState_proofs` also proves, for every number of commits, that the store
implements the register (`StoreIsRegister`), that a success is durable and the
file whole (`ConfirmedIsDurable`), and that a failure before the rename is
invisible (`PreRenameIsInvisible`). The inductive invariant `StoreInv` is an
order of numbers: what is on the disk is not newer than what is named, which is
not newer than the running commit, which is older than every waiting one; nothing
that runs or waits has ended; and what gets a name is complete and synced
(`TailIsAhead`, `RunningIsAhead`, `PartIsReady`, `NamesAreWhole`). It needs only
`CommitBound`. The pipelines use the store through these facts.

`LinkTransports_proofs` proves `NothingUsedAfterDelete` and `CallbacksAreCurrent`
for queues of every size and any number of starts, stops, connections and calls,
from `WifiAssumption` alone. Neither is inductive, because the calls and
callbacks that `wifi_stop` waits for are not named in them. The invariant
`TransportInv` says what each step of a start or stop has already ensured: the
worker is gone from the join on (`WorkerIsJoined`), and leaves no client, no
received data and no admission behind (`NoClientLeft`, `NoAdmission`), so that
nobody queues a callback of the former start; barriers are closed from the signal
until the next start (`BarriersAreClosed`), so that nobody enters whom the
stop would not wait for (`CallsAreInside`); whoever is inside the callbacks'
barrier entered before or after the one start that counts the generation meanwhile
(`EnteredLately`); and what runs for data runs between a start and the stop
that waits for it (`DataRuns`). `CallbacksAreCurrent` also needs the age of what is
queued and in hand (`CallbacksAreOld`, `InHand`). It allows the one item of the
former start that observation 11 is about: a stronger claim is false of this code.

`TheLossIsTold` and `TheWireIsWellFormed` add `LossIsTold` and
`WireIsWellFormed`. A loss is told because `QueueCallback` keeps the last place of
its queue for it (`RoomIsKept`), at most one is on its way, and a link that was
announced and lost has one behind its announcement (`LossIsComing`); `RestInv`
says what a worker without a client, or one that is gone, has left. For the wire,
`Follows` says that the queued frames, one after the other, lead from the stream
the Bridge has seen to the stream the device is in, which needs `s_tx_lock` (a
stream advances exactly when its frame is queued) and the drain between two
connections (`NothingLeft`).

Its second half proves `UncrossedEndIsHonest` of `BleSpec`, for streams, queues and
credits of every size, from `BleAssumption` alone: channels and links go between any
two steps.
`EndIsHonest` itself is false (disagreement 3); the proof shows that a channel that
closes while the flags are cleared (`report.crossed`) is the only way. The invariant
`StreamInv` follows the pieces: while nothing was cut, those that NimBLE took, those in
the worker's hand and those in the queue are all that was accepted
(`PiecesAreCounted`); a stream that was asked to end, and neither cut nor crossed, was
ended by the application, which adds nothing any more (`EndIsAsked`); and the host task
truncates a recording before it ends it (`HostTruncatesFirst`), an order of two
stores in two handlers.

`DataIsInOrder` proves `OwnDataInOrder`. Its invariant counts the place of each piece
from the end: what the worker holds and what is queued are the last pieces that were
accepted (`Order`), so a retry repeats nothing and a new stream has nothing of the
former one.

`SegmentPipeline_proofs` proves `EveryWaitIsWoken` and `OwnerIsCurrent` for any
number of connections, cases, segments, transactions, faults and crashes, for
devices that follow the protocol and for others. The first is not inductive: that
a wait is woken depends on every commit having a frame of its own which ends only
with it. `FramesInv` says who waits for what: a transaction that was asked for by
a frame is the only one of that frame's connection, waiting or running, and one
that ends a commit is the only one of its recording (`CallsHold`); the frames of
two commits are of two connections (`CommitsHold`), because a connection has a
stream for a recording that is being committed only if it is the one that ended
it (`StreamHolds`); and a process that is gone leaves no transaction
(`DownIsEmpty`). Most steps change neither the owner of the stream nor the step of
a commit, whatever they discard (`Keeps`); the lemmas `QuietStep`,
`FrameWaits`, `CommitBegins`, `WavIsDone`, `CommitEnds` and `StreamOpens` treat
the others once, and each action is brought to one of them. No fact about
CaseManager is used: the proof holds whatever it accepts or refuses.

`SegmentDurability_proofs` proves `EverySnapshotRestores` for a device that
follows the protocol (`Disciplined`), for every number of connections, cases,
segments, transcriptions, faults, crashes and shutdowns. The property speaks of
the file, so the invariant (`LedgerInv`) says what memory is like whenever a
snapshot may be taken of it. While the process may write (`writable`), `Core`
holds: CaseManager's object is `Good`; a recording in its table is of the current
case (`RowSound`); a segment is durable exactly when its end is acknowledged, and
then has a job whose status is the state of its row (`JobSound`); only a replay is
streamed of a durable segment (`StreamSound`); and a commit of a durable segment is
the one being written, while a commit of a replaced case is marked stale
(`CommitSound`). After a failed replacement of a case (`UnwrittenCase`) memory need
not be like that, and nothing is written any more. That a handler keeps `Core`
depends on what waits: a transaction that commits a recording has its WAV, one that
removes a WAV finds its job ended (`CallsOK`), an entry of the queue is of a
recording that is durable or whose case is past (`QueueOK`), the transaction of the
queue is about the entry at work (`WorkInv`), and cases are started in order
(`CasesOK`). An object exported from `Core` restores (`SnapFromCore`, with
`GoodMayRestore` of CaseManager), and recovery from such a file, with its lost
WAVs and removals that fail, makes `Core` again (`CoreRecovers`).
The second half of `SegmentPipeline_proofs` has the lemmas these rest on: the row each
CaseManager method writes, the fields each helper changes, when the process writes and
what may be undone (`ControlInv`), and the transcription queue.

`NothingIsOrphaned` adds `NoOrphanedRecording` for such a device. That a recording
which CaseManager receives has a stream or a commit is not inductive: a stream is
replaced when its connection asks for another recording. `OpenInv` says that this
cannot be: the stream belongs to the recording its connection is in or ended
(`StreamOn`), a connection that is in none therefore owns none (`NothingOwned`), and
the connection that is current has said hello (`CurrentIsKnown`), which is when the
streams of its predecessors were abandoned.

`DurableAcksSurvive` adds `DurableAckSurvives`: the promise that the device relies
on when it frees its only copy of a recording. `DurableAckSurvives` reads the
disk, but whether the disk keeps a recording is decided in memory and by what is
being written, so the invariant (`AckInv`) relates the three. Between two
transactions the disk has the ledger of memory; while a transaction writes, its
snapshot has that ledger, and the disk, or the state a power failure brings back,
has it but for the recording that this transaction commits (`AgreeInv`). What a
shutdown took may be written after other jobs ended: it names no pending job that
memory no longer has (`ExitInv`). Nothing of a halted Bridge, whose memory may be
ahead of the disk for good, opens or removes a durable recording again
(`HaltInv`). Every pending job has its WAV, in memory, on the disk and in each
snapshot that may still get there (`WavsInv`): a WAV is removed only for a job
that ended or a case that was replaced, after that was written. The ACK itself is
sent in three places (when a speech.start finds its recording durable, when a
speech.end finds itself acknowledged, and when a commit ends); that in each the
recording is on the disk needs that no commit of it is in progress for the
connection that asks (`OnFree`), and that what was sent is nowhere missing
afterwards is `SentInv`: the recording is in the disk, in what may be undone, in
what is written and in memory, or its case was replaced (`EveryHas`).

`TheDiskOnlyAdvances` adds the action property `DiskOnlyAdvances`. The file changes by
a rename of the running transaction or of the shutdown; the first writes memory, the
second what it took earlier. `AdvanceInv` says that the disk is behind memory, and
that what a shutdown took is ahead of the disk and of the snapshot of the transaction
it overtakes. A power failure that undoes a rename is not a commit, and is left out
of the property.

`MediationLane_proofs` proves five of the six safety properties of the lane, for every set of
connections, cases and requests and every bound on lanes, faults, crashes and other
transactions. None of them is inductive, and the argument has three layers.

- *Shapes.* For each variable, what a step may do to it and because of what: the queue
  stays, grows by one call, loses its first or is dropped (`QueueShape`); a transaction
  starts, goes on, ends or is lost; a lane is started, goes to its next step, is made
  stale or ends. Every one of the actions is brought to these cases once, and the rest of
  the proof speaks of the cases. What a transaction does to the record of the device is
  one relation between the record before and after it (`Effect`).
- *`LaneInv`, of any device.* Between transactions the disk has what memory has; while
  one runs, memory is what it writes and the disk is that or what was there before it
  (`StoreInv`). No two transactions that wait or run are of one frame or of one lane
  (`ApartInv`), and each belongs to a frame or a lane that still waits for it (`OwnInv`).
  At most one lane is live (`OneLive`); its connection is current and open, and while its
  audio goes out the stream is its own (`OpenInv`); a hello that waits or runs has a
  connection nothing else is about (`HelloInv`); and a lane that calls a provider works
  for the pending request, which has neither failed nor, unless its last transaction runs,
  been delivered (`ProvidingInv`). `LaneIsSound` proves it with the types, and
  `AudioEndsIt` the action property `AudioEndsItsOwnStream` from it.
- *`SnapInv`, of an orderly device.* A frame that waits is of the current connection and
  no hello stands before it (`FramesInv`); a request that waits is newer than the one
  before it in the queue and than any that is known to memory, to the disk, to what a
  power failure brings back or to what a shutdown writes, and it is for the case the
  device is in (`AdmissionInv`); each of these states is sound (`SnapsOK`: an acknowledged
  request is of its case and is pending, played or followed by a later one); and each holds
  what anybody was told (`HistoryInv`). From it follow `SnapshotsRestore`,
  `AcceptedAreKept` and `PlayedAreFinal`, and with `ToldInv`, which says of reported
  failures what `HistoryInv` says of acceptances, `FailuresAreFinal`.

The two hypotheses are constants of the model and not of convenience. `Orderly` says that a
device has left its connection before its next one says hello and asks only for its
current case, which is what the firmware does. Without it `EverySnapshotRestores` is false: with two connections and two cases TLC
finds a `case.start` of a superseded connection that was queued behind the hello of its
successor and takes the device back to an older case. `~Resends` says that a device
sends no request again unchanged. With it `FailureIsFinal` is false: a repeated request is
answered with the failure while that failure is still being written, and a crash at that
point brings the request back (`RepeatRequest`, `BeginFail`). The run `lane_restart` has
both values; `lane_settles` has neither, and `AudioEndsIt` covers it. The assumptions are
`LaneAssumption` (cases and requests are numbers, there is a case) and `NoneAssumption`.

`PlaybackIo_proofs` proves `HeardWithoutGap` and `HeardIsWhole` for answers and buffers of
every size and any number of faults and slips. The two say what the three tasks achieve
together, and no task alone has the means: most fields are read without a lock and used
after it. The argument again has layers.

- *What each step does.* Every variable has few writers (`Shapes`), and each action one
  lemma that says what it does to the fields the argument needs (`...Does`).
- *`ControlInv`.* Who holds the two mutexes, read off the tasks' positions (`LockInv`); that
  a reset that is served is newer than the last one acknowledged (`ResetInv`); that a play
  task past its first look has the lease of the session there is (`PlayHolds`), and a
  callback past its gate the gate's epoch if the gate is open (`CallbackInv`); that a closed
  gate with nothing left to reset has nothing behind it (`Closed`); that a notice is of a
  former session (`Noticed`).
- *What went wrong.* `Spoiled` says that a reset has been asked for, the gate is closed, or
  the session or the gate before it is incomplete. Whatever breaks the following facts, a
  full buffer, a failed write, a late callback, makes it true, and only a reset or a new
  connection ends it, with nothing left anywhere (`Recovered`). While it is false the
  session has counted exactly the chunks that are written, in hand, in the buffer or about
  to enter it (`CountInv`); a callback that is refused then was there before that reset
  (`FreshInv`).
- *The tape.* While it is false these chunks, one after the other, are a run of one answer of
  one connection (`InPlace`), which ends where that connection has got to (`Fits`). A new
  answer is asked for only while nothing of the last one is left, or its `audio.end` is
  still to be handled (`EndInv`). A tape as long as the answer begins at its first chunk,
  so `ReportIsWhole`: what `PlayDrained` reports was written whole, and a report is of the
  session the mediation task waits for or of none (`WholeInv`).

`PlaybackIsOrderly` (types, `ControlInv`, `CountInv`, `FreshInv`) needs no hypothesis on the
timing. The tape needs `Prompt`: without it TLC (75 states) lets the second reset of
observation 6 fall into the next answer, whose first chunks are refused and whose third is
left in the buffer; when the answer is asked for again, that one is heard first.
The only assumption is `PlaybackAssumption`, on the constants.

`Board_proofs` proves `KeptUntilStored`, `StreamIsOneRecording` and
`RequestCoversEverything` for any slots, recordings, queues, links and faults and any
number of cases, from `Prompt` and the named assumptions on the constants. The run has one case; the proof
covers what comes with more: a slot and a segment number used again, the ACK of a
replaced case that arrives late, the case that is replaced while its recording is sent.
`made` is what was completed in the current case. The invariant relates the device to
the Bridge:

- the stream: what waits to be sent leads, message by message, from the place the
  Bridge has reached to the place the device has reached (`PathOK`);
- the slots hold different recordings, one of which is being made (`StoreOK`), and the
  one that is being sent is whole and the one the stream is open for (`ReplayOK`);
- the core of the link, its callbacks and the task know the same of the connection, or
  are about to (`LinkOK`, `ReadyOK`). This is where `Prompt` is needed;
- a `speech.end`, or the ACK that answers it, is on its way only for a recording that
  was sent to its end on this connection (`SentOK`);
- the Bridge is never in a later case than the device, and acknowledges what it has
  (`CaseOK`);
- what was completed is held, or stored whole (`KeptOK`), from which the properties
  follow.

A handler of the mediation task is a composition of small steps on the value `d`.
`Good(z, d, b)` is what each of them preserves: `d` is as it should be, and has lost
no recording of the device `z` that the handler began with unless the Bridge has it
(`Keeps`). A handler of the Bridge is one of a few reactions (`Reacts`), which the
device hears of (`AnswersHeard`).

Only model-checked: `PendingIsDriven` of the lane, which is not true of every instance
(disagreement 2 is its violation, with a third request); `NoCommitIsStranded`, for its
ENABLED; and what must eventually happen. Liveness under fairness and ENABLED are
beyond this prover and stay with TLC.

## 5. Not modelled

- Bridge: the 512 entry limit of the ACK ledger (see observation 10),
  backpressure and heartbeats (they end as a closed connection), the HTTP and
  mobile side beyond a mediation request, pruning of devices, messages refused by
  validation, the bytes of WAV files and frames, the clients of external services.
- Device: a reboot (it loses PSRAM, and with it the recordings; the Bridge then
  resumes a mediation for a case the device does not know), display, camera,
  power and menus, JSON and identifiers, the second button of one pass, the
  suppression of a replayed answer in PlaybackIo (it is in Board).
- Links: Wi-Fi station phases, provisioning, mDNS, SNTP, a client that reconnects
  before the worker recycles it; the GATT table, pairing, advertising errors,
  downlink voice, two kinds of BLE stream at once.

The other boards, drivers, phone shells, web page and deployment scripts keep no
protocol state. See the notes of `PROJECT.json` for each part.

## 6. Plan

1. A reboot of the device in `Board`, and what the Bridge then still holds.
2. The playback of a replayed answer, with its suppression, in `PlaybackIo`.
3. The transcription queue with several recordings under fairness (with two
   segments `pipeline_settles` is beyond five minutes of TLC).
