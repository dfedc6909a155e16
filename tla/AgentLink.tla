------------------------------ MODULE AgentLink ------------------------------
(***************************************************************************)
(* The device's end of the link to the Bridge as its callers see it: the   *)
(* agent_link core (components/agent_link/src/agent_link.cpp), the uplink  *)
(* streams and the bounded send queue of the Wi-Fi transport, and the      *)
(* queue of callbacks that its callback worker hands to the core.  The     *)
(* workers themselves are in WifiTransport.                                *)
(*                                                                         *)
(* A call that waits for space in the send queue is shown at the end of    *)
(* its wait: there is room, or it has timed out.                           *)
(***************************************************************************)
EXTENDS Naturals, Sequences

CONSTANT TxCapacity      \* kTxItemCapacity items may wait to be sent

ASSUME TxCapacityAssumption == TxCapacity \in Nat \ {0}

NoStream == [seg |-> 0, frames |-> 0]

(* usable: the WebSocket is authenticated and sends are accepted.          *)
(* core, asr: s_state and s_asr_started of the core.  told: the level that *)
(* a callback has stored in s_state and not yet passed on to the board.    *)
(* seen, fresh: the LinkEdgeTracker's sticky disconnect, and whether its   *)
(* epoch has moved since the mediation task last looked.                   *)
DownLink ==
  [usable |-> FALSE, announced |-> FALSE, core |-> "disconnected", asr |-> FALSE,
   stream |-> NoStream, tx |-> <<>>, callbacks |-> <<>>, told |-> "none",
   seen |-> FALSE, fresh |-> FALSE]

TxFull(l) == Len(l.tx) >= TxCapacity

(* agent_link_push_event *)
CanPushEvent(l)  == l.usable /\ ~TxFull(l)
PushEvent(l, m)  == [l EXCEPT !.tx = Append(@, m)]

(* agent_link_asr_start returns ESP_OK for a stream that is open already,  *)
(* whatever recording it was opened for.                                   *)
CanAsrStart(l) == l.usable /\ (l.asr \/ (l.stream = NoStream /\ ~TxFull(l)))

AsrStart(l, seg, speaker) ==
  IF l.asr THEN l
  ELSE [l EXCEPT !.asr = TRUE, !.stream = [seg |-> seg, frames |-> 0],
                 !.tx = Append(@, [t |-> "start", seg |-> seg, speaker |-> speaker])]

(* agent_link_asr_push *)
PushResult(l) ==
  CASE ~l.asr \/ ~l.usable \/ l.stream = NoStream -> "fail"
    [] l.asr /\ l.usable /\ l.stream # NoStream /\ TxFull(l) -> "timeout"
    [] OTHER -> "ok"

AsrPush(l, pcm) ==
  [l EXCEPT !.tx = Append(@, [t |-> "chunk", seq |-> l.stream.frames, pcm |-> pcm]),
            !.stream.frames = @ + 1]

(* agent_link_asr_end: the core's stream stays open when the end cannot be *)
(* queued.                                                                 *)
CanAsrEnd(l, complete) ==
  ~l.asr \/ (/\ l.usable /\ l.stream # NoStream /\ ~TxFull(l)
             /\ (complete => l.stream.frames # 0))

AsrEnd(l, complete) ==
  IF ~l.asr THEN l
  ELSE [l EXCEPT !.asr = FALSE, !.stream = NoStream,
                 !.tx = Append(@, [t |-> "end", seg |-> l.stream.seg,
                                   frames |-> l.stream.frames,
                                   complete |-> complete])]

(* LinkEdgeTracker::Notify *)
Notify(l, level) ==
  [l EXCEPT !.fresh = TRUE, !.seen = @ \/ level = "disconnected", !.told = "none"]

(* LinkEdgeTracker::Take *)
Taken(l) == [l EXCEPT !.fresh = FALSE, !.seen = FALSE]

(* OnConn, up to the call of the board's handler.                          *)
CoreConn(l, level) ==
  [l EXCEPT !.core = level, !.told = level,
            !.asr = IF level = "disconnected" THEN FALSE ELSE @]

(* The connection is lost: nothing more is accepted, and what had not been *)
(* sent is dropped.                                                        *)
LostLink(l) == [l EXCEPT !.usable = FALSE, !.stream = NoStream, !.tx = <<>>]

(* agent_link_stop: the transport waits for the callback in progress and   *)
(* drops the others; then the core closes its sessions.                    *)
StopLink(l) ==
  LET quiet == IF l.told = "none" THEN l ELSE Notify(l, l.told)
  IN [LostLink(quiet) EXCEPT !.callbacks = <<>>, !.announced = FALSE,
                             !.asr = FALSE, !.core = "disconnected"]
=============================================================================
