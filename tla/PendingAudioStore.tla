------------------------- MODULE PendingAudioStore -------------------------
(***************************************************************************)
(* The two recording slots the device keeps in PSRAM until the Bridge says *)
(* that it has them on disk (boards/rorolee-basic/pending_audio_store.cc). *)
(* The store belongs to the mediation task, so its calls are operators on  *)
(* its value: each returns the store after the call.                       *)
(*                                                                         *)
(* A recording's metadata is [case, seg, speaker, gen]; the message ids    *)
(* and the speech.start text are functions of the segment.                 *)
(***************************************************************************)
EXTENDS Naturals, FiniteSets

CONSTANTS SlotIds,      \* kPendingSlotCount slots, numbered from 0
          Capacity      \* capacity of a slot, in captured frames

ASSUME SlotsAssumption == SlotIds # {} /\ SlotIds \subseteq Nat
ASSUME CapacityAssumption == Capacity \in Nat \ {0}

NoMeta == [case |-> 0, seg |-> 0, speaker |-> "none", gen |-> 0]

FreeSlot == [state |-> "free", ordinal |-> 0, bytes |-> 0, meta |-> NoMeta,
             quarantined |-> FALSE]

\* InitProduction: both buffers allocated, both slots free.
EmptyStore == [slots |-> [s \in SlotIds |-> FreeSlot], next |-> 1]

FreeSlots(st)     == {s \in SlotIds : st.slots[s].state = "free"}
CompleteSlots(st) == {s \in SlotIds : st.slots[s].state = "complete"}

HasFreeSlot(st)        == FreeSlots(st) # {}
HasCompleteUnacked(st) == CompleteSlots(st) # {}

\* The slot Begin takes: the first free one.
FirstFree(st) == CHOOSE s \in FreeSlots(st) : \A t \in FreeSlots(st) : s <= t

\* Begin: the caller has seen that a slot is free.  next_ordinal_ is 64 bits
\* wide and does not wrap within the life of a device.  A slot that was never
\* quarantined keeps its flag.
BeginSlot(st, meta) ==
  [slots |-> [st.slots EXCEPT ![FirstFree(st)] =
                [@ EXCEPT !.state = "recording", !.bytes = 0, !.meta = meta,
                          !.ordinal = st.next]],
   next  |-> st.next + 1]

\* Append accepts a frame while the slot records and has room for it.
CanAppend(st, s) ==
  st.slots[s].state = "recording" /\ st.slots[s].bytes < Capacity

AppendFrame(st, s) == [st EXCEPT !.slots[s].bytes = @ + 1]

\* MarkLocallyComplete refuses an empty recording.
CanComplete(st, s) ==
  st.slots[s].state = "recording" /\ st.slots[s].bytes # 0

MarkLocallyComplete(st, s) ==
  [st EXCEPT !.slots[s].state = "complete", !.slots[s].quarantined = FALSE]

Release(st, s) == [st EXCEPT !.slots[s] = FreeSlot]

\* AbortIncomplete leaves a complete recording alone.
AbortIncomplete(st, s) ==
  IF st.slots[s].state = "recording" THEN Release(st, s) ELSE st

\* QuarantineComplete names the recording by slot and ordinal: a slot that
\* was released and taken again is not the same recording.
CanQuarantine(st, s, ordinal) ==
  /\ ordinal # 0
  /\ st.slots[s].state = "complete"
  /\ st.slots[s].ordinal = ordinal

QuarantineComplete(st, s) == [st EXCEPT !.slots[s].quarantined = TRUE]

\* The slots a durable ACK names: complete, the same case and segment, the
\* same end message (a function of the segment) and the same byte count.
AckedSlots(st, ack) ==
  {s \in CompleteSlots(st) :
     /\ ack.durable
     /\ st.slots[s].meta.case = ack.case
     /\ st.slots[s].meta.seg = ack.seg
     /\ st.slots[s].bytes = ack.bytes}
=============================================================================
