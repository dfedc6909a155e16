-------------------------- MODULE MediationRuntime --------------------------
(***************************************************************************)
(* The trackers the mediation task of the device keeps beside its state    *)
(* machine (boards/rorolee-basic/mediation_runtime.cc).  Each belongs to   *)
(* that task alone, so its methods are operators on its value.             *)
(***************************************************************************)
EXTENDS Naturals, PendingAudioStore

CONSTANTS Segments,     \* recordings, numbered in the order they are begun
          MaxProbes     \* MediationProbeBudget::kMaxAttempts

ASSUME SegmentsAssumption == IsFiniteSet(Segments) /\ Segments \subseteq Nat \ {0}
ASSUME ProbesAssumption == MaxProbes \in Nat

----------------------------------------------------------------------------
(* TranscriptTracker.  Its table has room for every recording a case may   *)
(* have, and a recording never changes its speaker.                        *)
NoTexts == [seg \in Segments |-> [status |-> "empty", speaker |-> "none"]]

Noted(t, seg, s, status) == [t EXCEPT ![seg] = [status |-> status, speaker |-> s]]

CanNoteDurable(t, seg, s) == t[seg].status = "empty" \/ t[seg].speaker = s

NoteDurable(t, seg, s) ==
  IF t[seg].status = "empty" THEN Noted(t, seg, s, "pending") ELSE t

CanNoteSaved(t, seg, s) ==
  t[seg].status = "empty" \/ (t[seg].speaker = s /\ t[seg].status # "failed")

NoteSaved(t, seg, s) == Noted(t, seg, s, "saved")

NoteFailed(t, seg) ==
  IF t[seg].status \in {"empty", "saved"} THEN t
  ELSE [t EXCEPT ![seg].status = "failed"]

HasPending(t) == \E seg \in Segments : t[seg].status = "pending"

ReadyToMediate(t) ==
  /\ ~HasPending(t)
  /\ \A s \in {"A", "B"} :
       \E seg \in Segments : t[seg] = [status |-> "saved", speaker |-> s]

----------------------------------------------------------------------------
(* CompleteFaultDeferral: an error about a complete recording waits while  *)
(* another one is being made.                                              *)
NoFault == [slot |-> 0, ordinal |-> 0, retryable |-> FALSE]

CanDefer(fault, slot, ordinal) ==
  fault = NoFault \/ (fault.slot = slot /\ fault.ordinal = ordinal)

Deferred(fault, slot, ordinal, retryable) ==
  [slot |-> slot, ordinal |-> ordinal,
   retryable |-> retryable /\ (fault = NoFault \/ fault.retryable)]

----------------------------------------------------------------------------
(* ConnectionReplayLedger: the recordings sent to the end on this          *)
(* connection, by slot and ordinal.                                        *)
EmptyLedger == [slot \in SlotIds |-> 0]

WasSent(ledger, slot, ordinal)  == ordinal # 0 /\ ledger[slot] = ordinal
MarkSent(ledger, slot, ordinal) == [ledger EXCEPT ![slot] = ordinal]
Forget(ledger, slot, ordinal) ==
  IF WasSent(ledger, slot, ordinal) THEN [ledger EXCEPT ![slot] = 0] ELSE ledger

(* ReplayRuntime with its ReplayFrameCursor: an upload batch is one frame. *)
NoReplay == [active |-> FALSE, slot |-> 0, ordinal |-> 0, offset |-> 0, total |-> 0]

Replay(slot, ordinal, total) ==
  [active |-> TRUE, slot |-> slot, ordinal |-> ordinal, offset |-> 0,
   total |-> total]

CursorDone(r) == r.offset = r.total

----------------------------------------------------------------------------
(* PlaybackAckTracker: the receipt of one playback, kept until the Bridge  *)
(* confirms it.  The receipt's message id is a function of the request it  *)
(* answers, which is played at most once.                                  *)
NoReceipt == [phase |-> "none", req |-> 0, ended |-> FALSE, sent |-> FALSE]

ReceiptActive(p)  == p.phase = "active"
ReceiptPending(p) == p.phase = "pending"
NeedsSend(p)      == ReceiptPending(p) /\ ~p.sent

CanBeginReceipt(p)   == p.phase = "none"
BeginReceipt(r)      == [NoReceipt EXCEPT !.phase = "active", !.req = r]
CanAcceptEnd(p, r)   == ReceiptActive(p) /\ ~p.ended /\ p.req = r
CanDrain(p)          == ReceiptActive(p) /\ p.ended
Drained(p)           == [p EXCEPT !.phase = "pending", !.ended = FALSE]
CanResend(p, r)      == ReceiptPending(p) /\ p.req = r
Unsent(p)            == [p EXCEPT !.sent = FALSE]
AbortPlayback(p)     == IF ReceiptActive(p) THEN NoReceipt ELSE p
ReceiptOffline(p)    == Unsent(AbortPlayback(p))
=============================================================================
