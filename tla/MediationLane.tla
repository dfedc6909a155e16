--------------------------- MODULE MediationLane ---------------------------
(***************************************************************************)
(* How a mediation request is kept and served in                           *)
(* bridge/src/device-gateway.mjs: requests of the device and of the mobile *)
(* control plane, the single mediation lane of a device and the stale      *)
(* lanes beside it, the mediator with its retry, speech synthesis, the     *)
(* audio stream, the playback confirmation, reconnection and its resume    *)
(* timer, case replacement, commit failures, shutdown, crash and restart.  *)
(*                                                                         *)
(* One action is what the event loop runs between two awaits; frames of a  *)
(* connection are handled one at a time, and so are state transactions.    *)
(* The caller of a transaction goes on in the microtasks after its end,    *)
(* before the next transaction starts, so both are one action.             *)
(*                                                                         *)
(* Requests are numbered in the order they are first made; each names its  *)
(* case, as its fingerprint fixes it.  Recordings are not part of this     *)
(* module: the case can be mediated or not, and other transactions, of     *)
(* recordings and of other devices, come between those shown here.         *)
(***************************************************************************)
EXTENDS Naturals, Sequences

CONSTANTS
  None,        \* no value
  Conns,       \* the connections of the device
  Cases,       \* its cases, numbered in the order it starts them
  Requests,    \* mediation requests, numbered in the order they are made
  Mobile,      \* those made by requestMobileMediation
  CaseOf,      \* the case of each request
  Orderly,     \* TRUE: the device has left a connection before its next one
               \* says hello, and it asks only for the current case
  Resends,     \* TRUE: the device may send a request again unchanged, as
               \* the protocol allows; the firmware makes a new one
  MaxLanes,    \* bound on the lanes, stale ones included, alive at a time
  MaxOthers,   \* bound on transactions of recordings and other devices
  MaxFaults,   \* bound on failed commits
  MaxStops     \* bound on crashes and shutdowns

ASSUME LaneAssumption ==
  /\ Cases \subseteq Nat /\ Cases # {} /\ Requests \subseteq Nat \ {0}
  /\ Mobile \subseteq Requests
  /\ CaseOf \in [Requests -> Cases]
  /\ {Orderly, Resends} \subseteq BOOLEAN
  /\ MaxLanes \in Nat /\ {MaxOthers, MaxFaults, MaxStops} \subseteq Nat
  /\ None \notin Conns \cup Cases \cup Requests

VARIABLES
  mode,      \* "up", "stopping" (#stopping) or "down"
  writable,  \* ~#stateWriteDisabled
  dev,       \* the part of the device record that is persisted
  mediable,  \* canMediate of the device's case
  timer,     \* pendingMediationTimer: the connection it resumes for
  lanes,     \* the calls of mediate; mediationWork is the live one
  conn,      \* the connections
  current,   \* the connection of the latest connectionGeneration
  tail,      \* #stateTransactionTail: transactions that have not started
  txn,       \* the transaction in progress
  exit,      \* the snapshot that the shutdown is committing
  disk,      \* bridge-state.json
  undo,      \* what a power failure may bring back instead of disk
  accepted,  \* history: requests somebody was told are accepted
  heard,     \* history: requests whose whole audio reached the device
  done,      \* history: requests whose playback was acknowledged
  told,      \* history: requests whose failure was reported to the device
  asked,     \* history: somebody was told to ask again for the pending one
  spent      \* bounds: requests made, others, faults, stops

vars == <<mode, writable, dev, mediable, timer, lanes, conn, current, tail, txn,
          exit, disk, undo, accepted, heard, done, told, asked, spent>>

proc    == <<mode, writable, exit>>
store   == <<disk, undo>>
history == <<accepted, heard, done, told, asked>>

Req(r)    == <<"request", r>>
Played(r) == <<"played", r>>
Messages  == {Req(r) : r \in Requests} \cup {Played(r) : r \in Requests}

LaneIds == 1..MaxLanes
Steps   == {"reset", "first", "second", "tts", "deliver", "fail"}

(* At these steps a lane has work of a provider under way or to send.      *)
Providing == {"first", "second", "tts", "deliver"}

Pending(r) == [req |-> r, ready |-> FALSE, failed |-> FALSE]

(* What is persisted of the device, a call of mediate, an open stream.     *)
Snapshots == [case : Cases, acks : SUBSET Messages,
              pending : {None} \cup [req : Requests, ready : BOOLEAN, failed : BOOLEAN]]
Mediations == [req : Requests, step : Steps, live : BOOLEAN]
Streams   == [req : Requests, whole : BOOLEAN]

(* A state transaction that waits, and the one that runs.                  *)
Calls == [op : {"hello", "case", "request", "mobile", "played", "other",
                "reset", "deliver", "fail"},
          k : Conns \cup {None}, c : Cases \cup {None}, r : Requests \cup {None},
          l : LaneIds \cup {None}]
Transactions == [call : Calls, snap : Snapshots, back : Snapshots,
                 phase : {"writing", "renamed"}]

ASSUME NoneAssumption ==
  /\ None \notin LaneIds
  /\ None \notin [req : Requests, ready : BOOLEAN, failed : BOOLEAN]
  /\ None \notin Snapshots \cup Mediations \cup Streams \cup Transactions

(* Ledger and pending mediation of a device with this case.                *)
FreshDevice(c) == [case |-> c, acks |-> {}, pending |-> None]

NoConn == [phase |-> "closed", busy |-> FALSE, audio |-> None]

PersistentState == dev

(* The checks of restorePersistentState on a pending mediation.            *)
Restorable(snap) ==
  snap.pending # None =>
    /\ CaseOf[snap.pending.req] = snap.case
    /\ Req(snap.pending.req) \in snap.acks

(* Mutant: the terminal failure is not read back.                          *)
RestoredUnfailed(snap) ==
  IF snap.pending = None THEN snap ELSE [snap EXCEPT !.pending.failed = FALSE]

(* The device record that restorePersistentState builds.                   *)
Restored(snap) == snap

----------------------------------------------------------------------------
(* sendJson reaches the device only on an open socket of a running Bridge. *)
Delivers(k) == mode = "up" /\ k # None /\ conn[k].phase = "open"

(* isCurrentConnection *)
IsCurrent(k) == current = k /\ conn[k].phase = "open"

IsPending(r) == dev.pending # None /\ dev.pending.req = r

Live(l) == lanes[l] # None /\ lanes[l].live

(* mediationWork *)
Working == \E l \in LaneIds : Live(l)

(* supersedeMediation: the live lane becomes a stale one.                  *)
Supersede(lns) ==
  [l \in LaneIds |-> IF lns[l] = None THEN None ELSE [lns[l] EXCEPT !.live = FALSE]]

(* Mutant: the generation of the lane is not looked at.                    *)
CurrentWhateverLane(l) == mode = "up" /\ IsPending(lanes[l].req)

(* mediationCurrent: every new connection generation supersedes the lane,  *)
(* so its two generations and its controller are current together.         *)
MediationCurrent(l) == mode = "up" /\ Live(l) /\ IsPending(lanes[l].req)

Idle(k) == [conn EXCEPT ![k].busy = FALSE]

Call(op, k, c, r, l) == [op |-> op, k |-> k, c |-> c, r |-> r, l |-> l]
LaneCall(op, l)      == Call(op, None, None, None, l)
Enqueue(call)        == tail' = Append(tail, call)

EventLoop == txn # None \/ tail = <<>>

(* startMediation: it supersedes the lane, and the new one first waits for *)
(* a transaction.                                                          *)
Launch(r) ==
  \E l \in LaneIds :
    /\ lanes[l] = None
    /\ \A m \in LaneIds : lanes[m] = None => l <= m
    /\ lanes' = [Supersede(lanes) EXCEPT
                   ![l] = [req |-> r, step |-> "reset", live |-> TRUE]]
    /\ Enqueue(LaneCall("reset", l))
    /\ asked' = FALSE

NoLaunch == UNCHANGED <<lanes, tail, asked>>

(* deliverPendingMediationFailure: to the device's open connection.        *)
TellFailure(r) == told' = IF Delivers(current) THEN told \cup {r} ELSE told

ClearTimer == timer' = None

(* Mutant: the timer is cleared and not set again.                         *)
ForgetResume(k, dv) == ClearTimer /\ UNCHANGED <<told, asked>>

(* schedulePendingMediationResume, dv being what the device record is now. *)
ScheduleResume(k, dv) ==
  IF dv.pending = None \/ Working \/ ~IsCurrent(k)
  THEN ClearTimer /\ UNCHANGED <<told, asked>>
  ELSE IF dv.pending.failed
  THEN ClearTimer /\ TellFailure(dv.pending.req) /\ UNCHANGED asked
  ELSE timer' = k /\ asked' = FALSE /\ UNCHANGED told

(* haltForPersistenceFailure *)
Halt == writable' = FALSE /\ mode' = "stopping" /\ UNCHANGED exit

(***************************************************************************)
(* Connections and frames                                                  *)
(***************************************************************************)

NewerHello == \E i \in DOMAIN tail : tail[i].op = "hello"

(* A frame of an authenticated connection is routed.                       *)
Ready(k) ==
  /\ EventLoop
  /\ mode = "up" /\ IsCurrent(k) /\ ~conn[k].busy
  /\ Orderly => ~NewerHello

(* The name of a connection that is gone is used again for a new one.      *)
SendHello(k) ==
  /\ EventLoop
  /\ mode = "up" /\ conn[k].phase = "closed" /\ ~conn[k].busy /\ timer # k
  /\ \A i \in DOMAIN tail : tail[i].k # k
  /\ txn # None => txn.call.k # k
  /\ conn' = [conn EXCEPT ![k] = [phase |-> "hello", busy |-> TRUE, audio |-> None]]
  /\ Enqueue(Call("hello", k, None, None, None))
  /\ UNCHANGED <<proc, mediable, dev, timer, lanes, current, txn, store, history,
                 spent>>

(* The socket closes: the peer, the network, or a close by the Bridge.     *)
CloseConnection(k) ==
  /\ EventLoop
  /\ mode # "down" /\ conn[k].phase # "closed"
  /\ conn' = [conn EXCEPT ![k].phase = "closed", ![k].audio = None]
  /\ lanes' = IF current = k THEN Supersede(lanes) ELSE lanes
  /\ UNCHANGED <<proc, mediable, dev, timer, current, tail, txn, store, history,
                 spent>>

(* case.start, also of the case it has already; it goes back to no other.  *)
SendCaseStart(k, c) ==
  /\ Ready(k)
  /\ dev.case <= c
  /\ \A i \in DOMAIN tail : tail[i].op = "case" => tail[i].c <= c
  /\ conn' = [conn EXCEPT ![k].busy = TRUE]
  /\ Enqueue(Call("case", k, c, None, None))
  /\ UNCHANGED <<proc, mediable, dev, timer, lanes, current, txn, store, history,
                 spent>>

(* The next request, or the last one again.                                *)
MayAsk(r, ids) ==
  /\ r \in ids /\ CaseOf[r] = dev.case
  /\ r = spent.made + 1 \/ (Resends /\ r = spent.made)
  /\ spent' = [spent EXCEPT !.made = r]

(* requestMediation of a request the ledger knows.                         *)
RepeatRequest(k, r) ==
  /\ Ready(k)
  /\ MayAsk(r, Requests \ Mobile) /\ Req(r) \in dev.acks
  /\ ClearTimer
  /\ accepted' = accepted \cup {r}
  /\ IF IsPending(r) /\ dev.pending.failed
     THEN TellFailure(r) /\ NoLaunch
     ELSE /\ UNCHANGED told
          /\ IF IsPending(r) /\ ~Working THEN Launch(r) ELSE NoLaunch
  /\ UNCHANGED <<proc, mediable, dev, conn, current, txn, store, heard, done>>

(* requestMediation of a new one, up to its transaction.                   *)
SendRequest(k, r) ==
  /\ Ready(k)
  /\ MayAsk(r, Requests \ Mobile) /\ Req(r) \notin dev.acks
  /\ ClearTimer
  /\ conn' = [conn EXCEPT ![k].busy = TRUE]
  /\ Enqueue(Call("request", k, CaseOf[r], r, None))
  /\ UNCHANGED <<proc, mediable, dev, lanes, current, txn, store, history>>

(* ownedCase refuses a request for a case the device no longer has.        *)
RequestLostCase(k) ==
  /\ Ready(k)
  /\ ~Orderly /\ \E r \in Requests : CaseOf[r] < dev.case
  /\ ClearTimer
  /\ UNCHANGED <<proc, mediable, dev, lanes, conn, current, tail, txn, store,
                 history, spent>>

(* confirmPlayback, up to its transaction.  The device confirms what it    *)
(* has played whole.                                                       *)
SendPlayed(k, r) ==
  /\ Ready(k)
  /\ r \in heard
  /\ IF Played(r) \in dev.acks
     THEN done' = done \cup {r} /\ UNCHANGED <<conn, tail>>
     ELSE /\ CaseOf[r] = dev.case
          /\ conn' = [conn EXCEPT ![k].busy = TRUE]
          /\ Enqueue(Call("played", k, CaseOf[r], r, None))
          /\ UNCHANGED done
  /\ UNCHANGED <<proc, mediable, dev, timer, lanes, current, txn, store, accepted,
                 heard, told, asked, spent>>

(* requestMobileMediation, up to its transaction; its identifier is new.   *)
AskMobile(k, r) ==
  /\ EventLoop
  /\ mode = "up" /\ IsCurrent(k)
  /\ mediable
  /\ r # spent.made /\ MayAsk(r, Mobile)
  /\ ClearTimer
  /\ Enqueue(Call("mobile", k, CaseOf[r], r, None))
  /\ UNCHANGED <<proc, mediable, dev, lanes, conn, current, txn, store, history>>

(* The resume timer runs out after 50 ms.                                  *)
TimerFires ==
  /\ EventLoop
  /\ mode = "up" /\ timer # None
  /\ timer' = None
  /\ IF dev.pending # None /\ ~dev.pending.failed /\ ~Working /\ IsCurrent(timer)
     THEN Launch(dev.pending.req) ELSE NoLaunch
  /\ UNCHANGED <<proc, mediable, dev, conn, current, txn, store, accepted, heard,
                 done,
                 told, spent>>

(* A recording starts, is saved, fails or is dropped.                      *)
CaseChanges ==
  /\ EventLoop
  /\ mode = "up"
  /\ mediable' = ~mediable
  /\ UNCHANGED <<proc, dev, timer, lanes, conn, current, tail, txn, store,
                 history, spent>>

SubmitOther ==
  /\ EventLoop
  /\ mode = "up" /\ spent.others < MaxOthers
  /\ spent' = [spent EXCEPT !.others = @ + 1]
  /\ Enqueue(Call("other", None, None, None, None))
  /\ UNCHANGED <<proc, mediable, dev, timer, lanes, conn, current, txn, store,
                 history>>

(***************************************************************************)
(* State transactions: how they start                                      *)
(***************************************************************************)

Call1 == Head(tail)

Starting(ops) ==
  /\ mode = "up" /\ writable /\ txn = None /\ tail # <<>> /\ Call1.op \in ops
  /\ tail' = Tail(tail)

(* The body has run up to persistState: dev' is in the snapshot.           *)
Persist == txn' = [call |-> Call1, snap |-> PersistentState', back |-> dev,
                   phase |-> "writing"]

(* The body ends without a commit, and so does the frame, if it is one.    *)
Skips(k) ==
  /\ conn' = IF k = None THEN conn ELSE Idle(k)
  /\ UNCHANGED txn

(* The connection supersedes the one before it, whose closed socket then   *)
(* changes nothing more.                                                   *)
BeginHello ==
  LET k == Call1.k
  IN /\ Starting({"hello"})
     /\ lanes' = Supersede(lanes)
     /\ current' = k
     /\ conn' = [j \in Conns |->
          IF j = k /\ conn[j].phase = "hello" THEN [conn[j] EXCEPT !.phase = "open"]
          ELSE IF j # k /\ conn[j].phase \in {"open", "closing"}
          THEN [conn[j] EXCEPT !.phase = "closed", !.audio = None] ELSE conn[j]]
     /\ UNCHANGED dev
     /\ Persist
     /\ UNCHANGED <<proc, mediable, timer, store, history, spent>>

(* startCase and evictDeviceCase of the case before it.                    *)
ReplaceCase(dv, c) ==
  [case    |-> c,
   acks    |-> {m \in dv.acks : CaseOf[m[2]] # dv.case},
   pending |-> IF dv.pending # None /\ CaseOf[dv.pending.req] = dv.case
               THEN None ELSE dv.pending]

BeginCase ==
  LET c == Call1.c
  IN /\ Starting({"case"})
     /\ IF c = dev.case
        THEN UNCHANGED <<dev, mediable, lanes, timer>>
        ELSE /\ dev' = ReplaceCase(dev, c)
             /\ mediable' = FALSE
             /\ lanes' = Supersede(lanes)
             /\ timer' = IF dev.pending # None THEN None ELSE timer
     /\ Persist
     /\ UNCHANGED <<proc, conn, current, store, history, spent>>

(* Mutant: the ACK of the request is not stored with it.                   *)
AdmitUnacknowledged(dv, r) == [dv EXCEPT !.pending = Pending(r)]

Admit(dv, r) == [dv EXCEPT !.acks = @ \cup {Req(r)}, !.pending = Pending(r)]

(* The commit point of a request, of the device or of the mobile.          *)
BeginAdmission ==
  /\ dev' = Admit(dev, Call1.r)
  /\ lanes' = Supersede(lanes)
  /\ Persist
  /\ asked' = FALSE
  /\ UNCHANGED <<proc, mediable, timer, conn, current, store, accepted, heard,
                 done, told,
                 spent>>

BeginRequest == Starting({"request"}) /\ BeginAdmission

(* What the control plane asked for is not possible any more.              *)
MobileRefused ==
  /\ Starting({"mobile"})
  /\ IF IsCurrent(Call1.k) /\ CaseOf[Call1.r] = dev.case
     THEN ~mediable /\ asked' = TRUE               \* mediation_not_ready
     ELSE UNCHANGED asked
  /\ UNCHANGED <<proc, mediable, dev, timer, lanes, conn, current, txn, store,
                 accepted,
                 heard, done, told, spent>>

MobileMayGoOn ==
  /\ Starting({"mobile"})
  /\ IsCurrent(Call1.k) /\ CaseOf[Call1.r] = dev.case /\ mediable

Reusable(r) == dev.pending # None /\ CaseOf[dev.pending.req] = CaseOf[r]
                 /\ ~dev.pending.failed

MobileReuses ==
  /\ MobileMayGoOn /\ Reusable(Call1.r)
  /\ accepted' = accepted \cup {dev.pending.req}
  /\ ScheduleResume(Call1.k, dev)
  /\ UNCHANGED <<proc, mediable, dev, lanes, conn, current, txn, store, heard,
                 done, spent>>

BeginMobile == MobileMayGoOn /\ ~Reusable(Call1.r) /\ BeginAdmission

MayConfirm(r) == Played(r) \notin dev.acks /\ IsPending(r) /\ dev.pending.ready

(* Mutant: the pending mediation is left to a later commit.                *)
ConfirmOnly(dv, r) == [dv EXCEPT !.acks = @ \cup {Played(r)}]

Confirm(dv, r) == [dv EXCEPT !.acks = @ \cup {Played(r)}, !.pending = None]

BeginPlayed ==
  /\ Starting({"played"})
  /\ MayConfirm(Call1.r)
  /\ ClearTimer
  /\ dev' = Confirm(dev, Call1.r)
  /\ Persist
  /\ UNCHANGED <<proc, mediable, lanes, conn, current, store, history, spent>>

(* It was confirmed before, or it is not what waits to be played.          *)
PlayedRefused ==
  LET k == Call1.k  r == Call1.r
  IN /\ Starting({"played"})
     /\ ~MayConfirm(r)
     /\ Skips(k)
     /\ done' = IF Played(r) \in dev.acks /\ Delivers(k) THEN done \cup {r} ELSE done
     /\ UNCHANGED <<proc, mediable, dev, timer, lanes, current, store, accepted,
                    heard,
                    told, asked, spent>>

BeginOther ==
  /\ Starting({"other"})
  /\ UNCHANGED dev
  /\ Persist
  /\ UNCHANGED <<proc, mediable, timer, lanes, conn, current, store, history,
                 spent>>

----------------------------------------------------------------------------
(* Transactions of a lane.                                                 *)

EndLane(l)      == lanes' = [lanes EXCEPT ![l] = None]
GoTo(l, step)   == lanes' = [lanes EXCEPT ![l].step = step]
Mark(field, b)  == dev' = [dev EXCEPT !.pending[field] = b]

(* Past the replay reset: the case is looked at, then the mediator called. *)
CallMediator(l) ==
  IF mediable THEN GoTo(l, "first") /\ UNCHANGED asked
  ELSE EndLane(l) /\ asked' = TRUE                 \* mediation_not_ready

(* The first transaction takes deliveryReady back before a replay.         *)
BeginReset ==
  LET l == Call1.l
  IN /\ Starting({"reset"})
     /\ MediationCurrent(l) /\ ~dev.pending.failed
     /\ IF dev.pending.ready
        THEN Mark("ready", FALSE) /\ Persist /\ UNCHANGED <<lanes, asked>>
        ELSE CallMediator(l) /\ UNCHANGED <<dev, txn>>
     /\ UNCHANGED <<proc, mediable, timer, conn, current, store, accepted, heard,
                    done,
                    told, spent>>

BeginDeliver ==
  /\ Starting({"deliver"})
  /\ MediationCurrent(Call1.l)
  /\ Mark("ready", TRUE) /\ Persist
  /\ UNCHANGED <<proc, mediable, timer, lanes, conn, current, store, history,
                 spent>>

BeginFail ==
  /\ Starting({"fail"})
  /\ MediationCurrent(Call1.l)
  /\ Mark("failed", TRUE) /\ Persist
  /\ UNCHANGED <<proc, mediable, timer, lanes, conn, current, store, history,
                 spent>>

LaneOps  == {"reset", "deliver", "fail"}
FrameOps == {"hello", "case", "request", "played"}

(* A lane that is not current any more, or that has nothing to do.         *)
LaneGivesUp ==
  LET l == Call1.l
  IN /\ Starting(LaneOps)
     /\ \/ ~MediationCurrent(l)
        \/ Call1.op = "reset" /\ dev.pending # None /\ dev.pending.failed
     /\ EndLane(l)
     /\ UNCHANGED <<proc, mediable, dev, timer, conn, current, txn, store,
                    history, spent>>

(* A transaction that has not started when the Bridge stops is refused.    *)
RefuseTransaction ==
  /\ mode = "stopping" /\ txn = None /\ tail # <<>>
  /\ tail' = Tail(tail)
  /\ IF Call1.l = None THEN UNCHANGED lanes ELSE EndLane(Call1.l)
  /\ conn' = IF Call1.op \in FrameOps THEN Idle(Call1.k) ELSE conn
  /\ UNCHANGED <<proc, mediable, dev, timer, current, txn, store, history, spent>>

(***************************************************************************)
(* Providers                                                               *)
(***************************************************************************)

(* mediateWithSingleRetry and synthesize: an answer or an error reaches a  *)
(* lane; a stale lane ends with either.                                    *)
Answered(l, step) ==
  /\ EventLoop
  /\ mode # "down" /\ lanes[l] # None /\ lanes[l].step = step

StaleAnswer(l) ==
  /\ \E step \in {"first", "second", "tts"} : Answered(l, step)
  /\ ~MediationCurrent(l)
  /\ EndLane(l)
  /\ UNCHANGED <<proc, mediable, dev, timer, conn, current, tail, txn, store,
                 history, spent>>

(* The mediator fails twice, or the synthesis fails.                       *)
Failing(l) == GoTo(l, "fail") /\ Enqueue(LaneCall("fail", l))

MediatorAnswers(l) ==
  /\ \/ /\ Answered(l, "first") \/ Answered(l, "second")
        /\ MediationCurrent(l)
        /\ GoTo(l, "tts") /\ UNCHANGED tail
     \/ /\ Answered(l, "first") /\ MediationCurrent(l)
        /\ GoTo(l, "second") /\ UNCHANGED tail
     \/ /\ Answered(l, "second") /\ MediationCurrent(l)
        /\ Failing(l)
  /\ UNCHANGED <<proc, mediable, dev, timer, conn, current, txn, store, history,
                 spent>>

(* audio.start and the chunks go out together.                             *)
SpeechAnswers(l) ==
  /\ Answered(l, "tts") /\ MediationCurrent(l)
  /\ \/ /\ conn' = IF Delivers(current)
                   THEN [conn EXCEPT ![current].audio =
                           [req |-> lanes[l].req, whole |-> FALSE]]
                   ELSE conn
        /\ GoTo(l, "deliver") /\ Enqueue(LaneCall("deliver", l))
     \/ Failing(l) /\ UNCHANGED conn
  /\ UNCHANGED <<proc, mediable, dev, timer, current, txn, store, history, spent>>

(***************************************************************************)
(* State transactions: how they end                                        *)
(***************************************************************************)

Running(ops)  == txn # None /\ mode # "down" /\ txn.call.op \in ops
Returned(ops) == Running(ops) /\ txn.phase = "renamed" /\ txn' = None /\ undo' = None

RenameState ==
  /\ txn # None /\ mode # "down" /\ txn.phase = "writing"
  /\ disk' = txn.snap
  /\ undo' = disk
  /\ txn' = [txn EXCEPT !.phase = "renamed"]
  /\ UNCHANGED <<proc, mediable, dev, timer, lanes, conn, current, tail, history,
                 spent>>

HelloReturns ==
  /\ Returned({"hello"})
  /\ conn' = Idle(txn.call.k)
  /\ ScheduleResume(txn.call.k, dev)
  /\ UNCHANGED <<proc, mediable, dev, lanes, current, tail, disk, accepted, heard,
                 done, spent>>

CaseReturns ==
  /\ Returned({"case"})
  /\ conn' = Idle(txn.call.k)
  /\ UNCHANGED <<proc, mediable, dev, timer, lanes, current, tail, disk, history,
                 spent>>

(* The ACK, and the lane unless its generation is taken or the connection  *)
(* gone.                                                                   *)
AdmissionReturns ==
  LET k == txn.call.k  r == txn.call.r
  IN /\ Returned({"request", "mobile"})
     /\ conn' = IF txn.call.op = "request" THEN Idle(k) ELSE conn
     /\ accepted' = IF txn.call.op = "mobile" \/ Delivers(k)
                    THEN accepted \cup {r} ELSE accepted
     /\ IF mode = "up" /\ IsCurrent(k) /\ ~Working THEN Launch(r) ELSE NoLaunch
     /\ UNCHANGED <<proc, mediable, dev, timer, current, disk, heard, done, told,
                    spent>>

OtherReturns ==
  /\ Returned({"other"})
  /\ UNCHANGED <<proc, mediable, dev, timer, lanes, conn, current, tail, disk,
                 history, spent>>

PlayedReturns ==
  LET k == txn.call.k
  IN /\ Returned({"played"})
     /\ conn' = Idle(k)
     /\ done' = IF Delivers(k) THEN done \cup {txn.call.r} ELSE done
     /\ UNCHANGED <<proc, mediable, dev, timer, lanes, current, tail, disk,
                    accepted,
                    heard, told, asked, spent>>

ResetReturns ==
  LET l == txn.call.l
  IN /\ Returned({"reset"})
     /\ IF MediationCurrent(l) THEN CallMediator(l) ELSE EndLane(l) /\ UNCHANGED asked
     /\ UNCHANGED <<proc, mediable, dev, timer, conn, current, tail, disk, accepted,
                    heard, done, told, spent>>

(* audio.end *)
DeliverReturns ==
  LET l == txn.call.l
  IN /\ Returned({"deliver"})
     /\ IF MediationCurrent(l) /\ Delivers(current)
        THEN /\ conn' = [conn EXCEPT ![current].audio =
                          [req |-> lanes[l].req, whole |-> TRUE]]
             /\ heard' = heard \cup {lanes[l].req}
        ELSE UNCHANGED <<conn, heard>>
     /\ EndLane(l)
     /\ UNCHANGED <<proc, mediable, dev, timer, current, tail, disk, accepted, done,
                    told, asked, spent>>

FailReturns ==
  /\ Returned({"fail"})
  /\ TellFailure(dev.pending.req)
  /\ EndLane(txn.call.l)
  /\ UNCHANGED <<proc, mediable, dev, timer, conn, current, tail, disk, accepted,
                 heard,
                 done, asked, spent>>

DiskFault ==
  /\ spent.faults < MaxFaults
  /\ spent' = [spent EXCEPT !.faults = @ + 1]

(* The commit fails before its rename: bridge-state.json is the old one.   *)
Unwritten(ops) ==
  /\ Running(ops) /\ txn.phase = "writing"
  /\ DiskFault
  /\ txn' = None
  /\ UNCHANGED <<mediable, current, tail, store, accepted, heard, done>>

(* The connection is closed; the supersession it made stays.               *)
UnwrittenHello ==
  LET k == txn.call.k
  IN /\ Unwritten({"hello"})
     /\ conn' = [Idle(k) EXCEPT ![k].phase = IF @ = "open" THEN "closing" ELSE @]
     /\ UNCHANGED <<proc, dev, timer, lanes, told, asked>>

(* Mutant: the pending mediation is forgotten with the refused one.        *)
RollBackToNothing == dev' = [txn.back EXCEPT !.pending = None]

RollBack == dev' = txn.back

(* A refused request gives way to the one before it.                       *)
UnwrittenAdmission ==
  LET k == txn.call.k
  IN /\ Unwritten({"request", "mobile"})
     /\ RollBack
     /\ conn' = IF txn.call.op = "request" THEN Idle(k) ELSE conn
     /\ IF txn.call.op = "request" \/ txn.back.pending # None
        THEN ScheduleResume(k, txn.back) ELSE UNCHANGED <<timer, told, asked>>
     /\ UNCHANGED <<proc, lanes>>

UnwrittenHalt ==
  /\ Unwritten({"case", "played"} \cup LaneOps)
  /\ RollBack
  /\ IF txn.call.l = None
     THEN conn' = Idle(txn.call.k) /\ UNCHANGED lanes
     ELSE EndLane(txn.call.l) /\ UNCHANGED conn
  /\ Halt
  /\ UNCHANGED <<timer, told, asked>>

UnwrittenOther ==
  /\ Unwritten({"other"})
  /\ UNCHANGED proc \/ Halt                         \* by what it was
  /\ UNCHANGED <<dev, timer, lanes, conn, told, asked>>

(* The directory could not be synced after the rename: the new state may   *)
(* or may not be there after a power failure, and the Bridge halts.        *)
CommitFailsVisible ==
  /\ txn # None /\ mode # "down" /\ txn.phase = "renamed"
  /\ DiskFault
  /\ txn' = None
  /\ conn' = IF txn.call.op \in FrameOps THEN Idle(txn.call.k) ELSE conn
  /\ IF txn.call.l = None THEN UNCHANGED lanes ELSE EndLane(txn.call.l)
  /\ Halt
  /\ UNCHANGED <<dev, mediable, timer, current, tail, store, history>>

(***************************************************************************)
(* Shutdown, crash and recovery                                            *)
(***************************************************************************)

ForgetProcess ==
  /\ dev' = disk' /\ timer' = None
  /\ lanes' = [l \in LaneIds |-> None]
  /\ conn' = [k \in Conns |-> NoConn] /\ current' = None
  /\ tail' = <<>> /\ txn' = None /\ exit' = None
  /\ undo' = None
  /\ writable' = TRUE
  /\ mode' = "down"
  /\ UNCHANGED <<mediable, history>>

Stop ==
  /\ EventLoop
  /\ mode = "up" /\ spent.stops < MaxStops
  /\ spent' = [spent EXCEPT !.stops = @ + 1]
  /\ mode' = "stopping"
  /\ UNCHANGED <<writable, exit, mediable, dev, timer, lanes, conn, current, tail,
                 txn,
                 store, history>>

(* The last snapshot, when the work has drained or the grace is over.      *)
BeginExit ==
  /\ EventLoop
  /\ mode = "stopping" /\ writable /\ exit = None
  /\ exit' = PersistentState
  /\ UNCHANGED <<mode, writable, mediable, dev, timer, lanes, conn, current, tail,
                 txn,
                 store, history, spent>>

(* The store commits it after the commit in progress.                      *)
FinishExit ==
  /\ EventLoop
  /\ mode = "stopping" /\ exit # None /\ txn = None
  /\ disk' = exit
  /\ ForgetProcess
  /\ UNCHANGED spent

(* The process ends without that commit: a halt, a crash, a power failure. *)
Crash ==
  /\ mode # "down"
  /\ \/ ~writable /\ UNCHANGED spent
     \/ /\ spent.stops < MaxStops
        /\ spent' = [spent EXCEPT !.stops = @ + 1]
  /\ disk' \in {disk} \cup ({undo} \ {None})
  /\ ForgetProcess

(* recoverOnce; a lane starts again when the device says hello.            *)
Recover ==
  /\ mode = "down"
  /\ Restorable(disk)
  /\ mode' = "up"
  /\ dev' = Restored(disk)
  /\ UNCHANGED <<writable, exit, mediable, timer, lanes, conn, current, tail, txn,
                 store,
                 history, spent>>

FirstCase == CHOOSE c \in Cases : \A d \in Cases : c <= d

(* The device has a case with saved transcripts of both speakers.          *)
Init ==
  /\ mode = "up" /\ writable = TRUE /\ exit = None /\ mediable = TRUE
  /\ dev = FreshDevice(FirstCase) /\ timer = None
  /\ lanes = [l \in LaneIds |-> None]
  /\ conn = [k \in Conns |-> NoConn] /\ current = None
  /\ tail = <<>> /\ txn = None
  /\ disk = dev /\ undo = None
  /\ accepted = {} /\ heard = {} /\ done = {} /\ told = {} /\ asked = FALSE
  /\ spent = [made |-> 0, others |-> 0, faults |-> 0, stops |-> 0]

FrameStep ==
  \E k \in Conns :
    \/ SendHello(k) \/ CloseConnection(k)
    \/ RequestLostCase(k)
    \/ \E c \in Cases : SendCaseStart(k, c)
    \/ \E r \in Requests :
         \/ RepeatRequest(k, r) \/ SendRequest(k, r)
         \/ SendPlayed(k, r) \/ AskMobile(k, r)

TransactionStep ==
  \/ BeginHello \/ BeginCase \/ BeginRequest \/ MobileRefused \/ MobileReuses
  \/ BeginMobile \/ BeginPlayed \/ PlayedRefused \/ BeginOther
  \/ BeginReset \/ BeginDeliver \/ BeginFail \/ LaneGivesUp \/ RefuseTransaction
  \/ RenameState
  \/ HelloReturns \/ CaseReturns \/ AdmissionReturns \/ PlayedReturns
  \/ OtherReturns \/ ResetReturns \/ DeliverReturns \/ FailReturns

Answer(l) == StaleAnswer(l) \/ MediatorAnswers(l) \/ SpeechAnswers(l)

ProviderStep == \E l \in LaneIds : Answer(l)

FaultStep ==
  \/ UnwrittenHello \/ UnwrittenAdmission \/ UnwrittenHalt
  \/ UnwrittenOther \/ CommitFailsVisible \/ Crash

LifeStep ==
  \/ TimerFires \/ CaseChanges \/ SubmitOther
  \/ Stop \/ BeginExit \/ FinishExit \/ Recover

Next == FrameStep \/ TransactionStep \/ ProviderStep \/ FaultStep \/ LifeStep

(* Node runs every event that is ready.  Provider calls end by themselves, *)
(* by their timeouts or by their abort signals; their answers, the timer   *)
(* and the shutdown compete with frames for the event loop, hence SF.      *)
(* systemd starts the Bridge again after it ends.                          *)
Fairness ==
  /\ WF_vars(TransactionStep)
  /\ \A l \in LaneIds : SF_vars(Answer(l))
  /\ SF_vars(TimerFires)
  /\ SF_vars(BeginExit \/ FinishExit)
  /\ WF_vars((~writable /\ Crash) \/ Recover)

Safety == Init /\ [][Next]_vars

Spec == Safety /\ Fairness

----------------------------------------------------------------------------
(* The states a restart may find.                                          *)
OnDisk == {disk} \cup ({undo} \ {None})

IsPendingIn(snap, r) == snap.pending # None /\ snap.pending.req = r

Newer(snap, r) ==
  \/ snap.case > CaseOf[r]
  \/ \E n \in Requests : n > r /\ (IsPendingIn(snap, n) \/ Played(n) \in snap.acks)

(* A request that the device or the mobile was told is accepted stays      *)
(* pending in every state a restart may find, across crashes, disk errors  *)
(* and reconnections, until its playback is confirmed or a newer request   *)
(* or case takes its place (requestMediation, requestMobileMediation).     *)
AcceptedIsKept ==
  \A r \in accepted : \A snap \in OnDisk :
    IsPendingIn(snap, r) \/ Played(r) \in snap.acks \/ Newer(snap, r)

(* Every state that reaches the disk passes the checks of the next start   *)
(* on the pending mediation (restorePersistentState, L540-577).            *)
EverySnapshotRestores == \A snap \in OnDisk : Restorable(snap)

(* After the ACK of its playback a request is never served again: it is    *)
(* pending in no state a restart may find and no provider works for it, so *)
(* the device is not made to play an answer it has heard (confirmPlayback).*)
PlayedIsFinal ==
  \A r \in done :
    /\ \A snap \in OnDisk : ~IsPendingIn(snap, r)
    /\ \A l \in LaneIds : Live(l) /\ lanes[l].req = r => lanes[l].step \notin Providing

(* After the device was told that a request failed, no provider is called  *)
(* for it again, also after a restart (mediate, L1832-1861).               *)
FailureIsFinal ==
  \A r \in told :
    /\ \A snap \in OnDisk : IsPendingIn(snap, r) => snap.pending.failed
    /\ \A l \in LaneIds : Live(l) /\ lanes[l].req = r => lanes[l].step \notin Providing

(* audio.end closes the stream that the device has open, and says so only  *)
(* when every state a restart may find awaits its playback: a lane that    *)
(* another request, case or connection made stale never speaks into it     *)
(* (mediate, L1779-1827).                                                  *)
AudioEndsItsOwnStream ==
  [][\A k \in Conns :
       conn'[k].audio # None /\ conn'[k].audio.whole
         /\ conn[k].audio # conn'[k].audio =>
         /\ conn[k].audio # None /\ conn'[k].audio.req = conn[k].audio.req
         /\ \A snap \in OnDisk' :
              IsPendingIn(snap, conn[k].audio.req) /\ snap.pending.ready]_vars

Connected == current # None /\ conn[current].phase = "open" /\ ~conn[current].busy

HasAudio(r) == current # None /\ conn[current].audio = [req |-> r, whole |-> TRUE]

(* The pending request of a connected device that nobody was told to make  *)
(* again is with a lane or waits for the timer, unless its audio is with   *)
(* the device: no path drops both (schedulePendingMediationResume).        *)
PendingIsDriven ==
  mode = "up" /\ txn = None /\ tail = <<>> /\ Connected
    /\ dev.pending # None /\ ~dev.pending.failed /\ ~asked
    /\ dev.pending.req \in accepted
  => Working \/ timer = current \/ HasAudio(dev.pending.req)

Unsettled(r) ==
  /\ mode = "up" /\ current # None /\ conn[current].phase = "open"
  /\ IsPending(r) /\ ~dev.pending.failed /\ ~HasAudio(r) /\ ~asked

(* While the device stays connected, a request ends: its audio is sent, it *)
(* fails or gives way to another, or somebody is told to make it again     *)
(* (mediate, L1719-1861; schedulePendingMediationResume, L1644-1662).      *)
PendingSettles == \A r \in Requests : Unsettled(r) ~> ~Unsettled(r)
=============================================================================
