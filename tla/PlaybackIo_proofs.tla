-------------------------- MODULE PlaybackIo_proofs --------------------------
(***************************************************************************)
(* For answers and buffers of every size and any number of faults and      *)
(* slips: the three tasks agree on the mutexes, the resets and the session *)
(* (ControlInv), and on what has been counted (CountInv); and if what was  *)
(* cancelled has been cleared before the next answer begins, what is heard *)
(* has no gap and what is reported as heard was heard whole.               *)
(*                                                                         *)
(* Most shared fields are read without a lock and used after it.  What     *)
(* makes that right is not one task's doing: a reset that has been asked   *)
(* for keeps every other step from counting, and while none is, the gate   *)
(* and the leases that were read are still those of now.  Spoiled says     *)
(* that something has gone wrong, from which only a reset recovers.  Until *)
(* then the chunks written, in hand, in the buffer and about to enter it   *)
(* make a tape: a run of one answer of one connection (InPlace), which     *)
(* ends where that connection has got to (Fits), and whose length is what  *)
(* the session or the gate has counted (Counted).  It begins at the first  *)
(* chunk when it is as long as the answer, which is what the play task     *)
(* checks before it reports it.                                            *)
(***************************************************************************)
EXTENDS PlaybackIo, SequenceTheorems, TLAPS

----------------------------------------------------------------------------
(* Types.                                                                  *)

ChunkSet == [conn : Nat, at : Nat]
Notices == [session : Nat, drained : BOOLEAN]
Messages == [t : {"start", "end"}, epoch : Nat]

GateType == gate \in [open : BOOLEAN, epoch : Nat]
IoSet == [requested : Nat, acknowledged : Nat, session : Nat, epoch : Nat]
IoType == io \in IoSet
LockType == lock \in [io : {"none", "mediation", "play"}, buffer : {"none", "callback", "play"}]
SessionSet ==
  [active : BOOLEAN, incomplete : BOOLEAN, ended : BOOLEAN, got : Nat, wrote : Nat]
SessionType == session \in SessionSet
IngressSet ==
  [armed : BOOLEAN, bound : BOOLEAN, incomplete : BOOLEAN, got : Nat, epoch : Nat]
IngressType == ingress \in IngressSet
FaultType == fault \in [epoch : Nat, latch : Nat]
BufferType == buffer \in Seq(ChunkSet)
HeardType == heard \in Seq(ChunkSet)
AbortType == abort \in Nat
NoticesType == notices \in Seq(Notices)
MedSet ==
  [pc : {"idle", "lock", "gate", "request", "release", "confirm", "adopt"},
   then : {"none", "boundary", "lost", "error", "restart"},
   advance : BOOLEAN, locked : BOOLEAN, msgs : Seq(Messages),
   phase : {"wanted", "inflight", "playing", "aborted", "heard"},
   ended : BOOLEAN, session : Nat]
MedType == med \in MedSet
CbType ==
  cb \in [pc : {"idle", "reset", "fault", "lock", "reserve", "refused", "send"},
          chunk : ChunkSet, epoch : Nat, reset : Nat, fault : Nat]
PlType ==
  pl \in [pc : {"wait", "top", "lock", "lockBuffer", "abort", "clear", "incomplete", "receive",
                "locked", "write", "finish", "drain"},
          awake : BOOLEAN, session : Nat, epoch : Nat, reset : Nat, report : Nat, chunk : ChunkSet]
NetSet == [link : {"up", "cut", "down"}, lost : BOOLEAN, conn : Nat, at : Nat]
NetType == net \in NetSet

\* A reset has been started by a handler, which goes on after it.
ThenInv ==
  med.pc \in {"lock", "gate", "request", "release", "confirm"} =>
    med.then \in {"boundary", "lost", "error", "restart"}

TypeOK ==
  /\ ThenInv
  /\ GateType /\ IoType /\ LockType /\ SessionType /\ IngressType /\ FaultType
  /\ BufferType /\ HeardType /\ AbortType /\ NoticesType
  /\ MedType /\ CbType /\ PlType /\ NetType

\* What the steps make of their records.
LEMMA IoChanges ==
  ASSUME NEW i \in IoSet, NEW e \in Nat
  PROVE  /\ [i EXCEPT !.session = @ + 1, !.epoch = e] \in IoSet
         /\ [i EXCEPT !.acknowledged = e] \in IoSet
         /\ [i EXCEPT !.requested = @ + 1] \in IoSet
<1>1. i.session + 1 \in Nat /\ i.requested + 1 \in Nat
  BY DEF IoSet
<1> QED BY <1>1 DEF IoSet

LEMMA SessionChanges ==
  ASSUME NEW s \in SessionSet, NEW g \in Nat
  PROVE  /\ [active |-> FALSE, incomplete |-> TRUE, ended |-> FALSE, got |-> 0, wrote |-> 0] \in SessionSet
         /\ [active |-> TRUE, incomplete |-> FALSE, ended |-> FALSE, got |-> g, wrote |-> 0] \in SessionSet
         /\ [s EXCEPT !.active = FALSE, !.incomplete = FALSE, !.ended = TRUE] \in SessionSet
         /\ [s EXCEPT !.wrote = @ + 1] \in SessionSet /\ [s EXCEPT !.got = @ + 1] \in SessionSet
         /\ [s EXCEPT !.incomplete = @ \/ s.active] \in SessionSet
<1>1. /\ [active |-> FALSE, incomplete |-> TRUE, ended |-> FALSE, got |-> 0, wrote |-> 0] \in SessionSet
      /\ [active |-> TRUE, incomplete |-> FALSE, ended |-> FALSE, got |-> g, wrote |-> 0] \in SessionSet
  BY DEF SessionSet
<1>2. [s EXCEPT !.active = FALSE, !.incomplete = FALSE, !.ended = TRUE] \in SessionSet
  BY DEF SessionSet
<1>3. [s EXCEPT !.wrote = @ + 1] \in SessionSet /\ [s EXCEPT !.got = @ + 1] \in SessionSet
  BY DEF SessionSet
<1>4. [s EXCEPT !.incomplete = @ \/ s.active] \in SessionSet
  BY DEF SessionSet
<1> QED BY <1>1, <1>2, <1>3, <1>4

LEMMA IngressChanges ==
  ASSUME NEW g \in IngressSet, NEW e \in Nat
  PROVE  /\ Disarmed \in IngressSet
         /\ [Disarmed EXCEPT !.armed = TRUE, !.epoch = e] \in IngressSet
         /\ [g EXCEPT !.bound = TRUE] \in IngressSet /\ [g EXCEPT !.got = @ + 1] \in IngressSet
         /\ [g EXCEPT !.incomplete = TRUE] \in IngressSet
         /\ [g EXCEPT !.incomplete = @ \/ g.armed] \in IngressSet
<1>1. Disarmed \in IngressSet /\ [Disarmed EXCEPT !.armed = TRUE, !.epoch = e] \in IngressSet
  BY DEF Disarmed, IngressSet
<1>2. [g EXCEPT !.bound = TRUE] \in IngressSet /\ [g EXCEPT !.got = @ + 1] \in IngressSet
  <2>1. g.got + 1 \in Nat
    BY DEF IngressSet
  <2>2. [g EXCEPT !.bound = TRUE] \in IngressSet
    BY DEF IngressSet
  <2> QED BY <2>1, <2>2 DEF IngressSet
<1>3. [g EXCEPT !.incomplete = TRUE] \in IngressSet
  BY DEF IngressSet
<1>4. [g EXCEPT !.incomplete = @ \/ g.armed] \in IngressSet
  <2> DEFINE b == g.incomplete \/ g.armed
  <2>1. b \in BOOLEAN /\ [g EXCEPT !.incomplete = @ \/ g.armed] = [g EXCEPT !.incomplete = b]
    BY DEF IngressSet
  <2> HIDE DEF b
  <2> QED BY <2>1 DEF IngressSet
<1> QED BY <1>1, <1>2, <1>3, <1>4

LEMMA NoticesGrow ==
  ASSUME NoticesType, NEW s \in Nat, NEW d \in BOOLEAN
  PROVE  Append(notices, [session |-> s, drained |-> d]) \in Seq(Notices)
<1>1. [session |-> s, drained |-> d] \in Notices
  BY DEF Notices
<1> QED BY <1>1, AppendProperties DEF NoticesType

LEMMA ChunksNat == Chunks \in Nat /\ Chunks # 0
BY PlaybackAssumption

LEMMA IngressEpoch == IngressType => ingress.epoch \in Nat /\ ingress.got \in Nat
BY DEF IngressType, IngressSet

LEMMA GateEpoch == GateType => gate.epoch \in Nat
BY DEF GateType

LEMMA PlNumbers == PlType => pl.session \in Nat /\ pl.report \in Nat /\ pl.reset \in Nat
BY DEF PlType

LEMMA Armed ==
  ASSUME IngressType, NEW e \in Nat
  PROVE  LET g == Arm(e)
         IN /\ g \in IngressSet /\ g.armed
            /\ ingress.armed => g = ingress
            /\ ~ingress.armed => g.got = 0 /\ ~g.incomplete /\ g.epoch = e
<1>1. CASE ingress.armed
  BY <1>1 DEF Arm, IngressType
<1>2. CASE ~ingress.armed
  BY <1>2, IngressChanges DEF Arm, IngressType, Disarmed
<1> QED BY <1>1, <1>2

LEMMA Reservation ==
  ASSUME IngressType, CbType
  PROVE  /\ ReserveIngress.g \in IngressSet
         /\ ReserveIngress.ok \in BOOLEAN
         /\ ReserveIngress.ok => /\ Arm(cb.epoch).epoch = cb.epoch /\ ~Arm(cb.epoch).incomplete
                                 /\ Arm(cb.epoch).got # Chunks
                                 /\ ReserveIngress.g = [Arm(cb.epoch) EXCEPT !.got = @ + 1]
         /\ ~ReserveIngress.ok => \/ Arm(cb.epoch).epoch # cb.epoch /\ ReserveIngress.g = Arm(cb.epoch)
                                  \/ ReserveIngress.g = [Arm(cb.epoch) EXCEPT !.incomplete = TRUE]
<1> DEFINE g == Arm(cb.epoch)
<1>0. cb.epoch \in Nat
  BY DEF CbType
<1>1. g \in IngressSet
  BY <1>0, Armed
<1> HIDE DEF g
<1>2. CASE g.epoch # cb.epoch
  <2>1. ReserveIngress = [g |-> g, ok |-> FALSE]
    BY <1>2 DEF ReserveIngress, g
  <2> QED BY <1>1, <1>2, <2>1 DEF g
<1>3. CASE g.epoch = cb.epoch /\ (g.incomplete \/ g.got = Chunks)
  <2>1. ReserveIngress = [g |-> [g EXCEPT !.incomplete = TRUE], ok |-> FALSE]
    BY <1>3 DEF ReserveIngress, g
  <2> QED BY <1>1, <2>1, IngressChanges DEF g
<1>4. CASE g.epoch = cb.epoch /\ ~(g.incomplete \/ g.got = Chunks)
  <2>1. ReserveIngress = [g |-> [g EXCEPT !.got = @ + 1], ok |-> TRUE]
    BY <1>4 DEF ReserveIngress, g
  <2> QED BY <1>1, <1>4, <2>1, IngressChanges DEF g
<1> QED BY <1>2, <1>3, <1>4

LEMMA MedRecord ==
  MedType => med \in MedSet /\ med.msgs \in Seq(Messages) /\ med.advance \in BOOLEAN
             /\ (med.msgs # <<>> => Tail(med.msgs) \in Seq(Messages) /\ Head(med.msgs) \in Messages)
<1>1. MedType => med \in MedSet /\ med.msgs \in Seq(Messages) /\ med.advance \in BOOLEAN
  BY DEF MedType, MedSet
<1> QED BY <1>1, HeadTailProperties

LEMMA MessageAppended ==
  ASSUME MedType, GateType, NEW t \in {"start", "end"}
  PROVE  Append(med.msgs, [t |-> t, epoch |-> gate.epoch]) \in Seq(Messages)
<1>1. [t |-> t, epoch |-> gate.epoch] \in Messages
  BY GateEpoch DEF Messages
<1> QED BY <1>1, MedRecord, AppendProperties

----------------------------------------------------------------------------
(* Who writes what.                                                        *)

GateShape == gate' = gate \/ ResetGate \/ LinkReady
IoShape == io' = io \/ ResetRequest \/ AdoptPlayback \/ PlayAborts \/ PlayAcknowledges \/
  PlayIncomplete \/ PlayWrites \/ PlayWriteFails \/ PlayDrained
LockShape == lock' = lock \/ PlayAudioLocks \/ PlayAudioRefused \/ PlayAudioSends \/
  PlayAudioOverflows \/ ResetLocks \/ ResetReleases \/ PlayResetLocks \/ PlayResetLocksBuffer \/
  PlayAcknowledges \/ PlayResetFails \/ PlayLocks \/ PlayWrites \/ PlayWriteFails \/ PlayFinishes \/
  PlayDrained
SessionShape == session' = session \/ PlayAudioReserves \/ PlayAudioOverflows \/ AdoptPlayback \/
  ApplyAudioEnd \/ PlayAborts \/ PlayWrites \/ PlayDrained
IngressShape == ingress' = ingress \/ PlayAudioReserves \/ PlayAudioOverflows \/ ApplyAudioStart \/
  AdoptPlayback \/ PlayAborts
BufferShape == buffer' = buffer \/ PlayAudioSends \/ PlayAcknowledges \/ PlayReceives
AbortShape == abort' = abort \/ PlayAborts \/ PlayResetFails \/ PlayIncomplete \/ PlayWrites \/
  PlayWriteFails \/ PlayDrained
NoticesShape == notices' = notices \/ DrainPlaybackNotices \/ PlayAcknowledges \/ PlayDrained
FaultShape == fault' = fault \/ PlayAudioRefused \/ PlayAudioSends \/ PlayAudioOverflows \/
  ResetReleases \/ ResetReturns \/ DrainBridgeIngressFault \/ LinkReady
MedShape == med' = med \/ HandleCustom \/ ResetLocks \/ ResetDoesNotLock \/ ResetGate \/
  ResetRequest \/ ResetReleases \/ ResetReturns \/ DrainBridgeIngressFault \/
  CleanupObservedDisconnect \/ Request \/ DropMessages \/ ApplyAudioStart \/ AdoptPlayback \/
  ApplyAudioEnd \/ DrainPlaybackNotices
CbShape == cb' = cb \/ PlayAudio \/ PlayAudioReadsReset \/ PlayAudioReadsFault \/ PlayAudioLocks \/
  PlayAudioReserves \/ PlayAudioRefused \/ PlayAudioSends \/ PlayAudioOverflows
PlShape == pl' = pl \/ PlayAudioOverflows \/ ResetReleases \/ AdoptPlayback \/ ApplyAudioEnd \/
  PlayWakes \/ PlayStartsReset \/ PlayResetLocks \/ PlayResetLocksBuffer \/ PlayAborts \/
  PlayAcknowledges \/ PlayResetFails \/ PlayReads \/ PlayIncomplete \/ PlayReceives \/ PlayLocks \/
  PlayWrites \/ PlayWriteFails \/ PlayFinishes \/ PlayDrained
NetShape == net' = net \/ HandleCustom \/ PlayAudio \/ ResetReturns \/ CleanupObservedDisconnect \/
  Request \/ Connect \/ Lose \/ LossSeen
HeardShape == heard' = heard \/ AdoptPlayback \/ PlayWrites

Shapes == GateShape /\ IoShape /\ LockShape /\ SessionShape /\ IngressShape /\ BufferShape /\
  AbortShape /\ NoticesShape /\ FaultShape /\ MedShape /\ CbShape /\ PlShape /\ NetShape /\
  HeardShape

LEMMA WhoWrites == [Next]_vars => Shapes
<1>0. SUFFICES ASSUME [Next]_vars PROVE Shapes
  OBVIOUS
<1>1. CASE HandleCustom
  <2>1. UNCHANGED <<gate, io, lock, session, ingress, buffer, abort, notices, fault, cb, pl, heard>>
    BY <1>1 DEF HandleCustom, shared
  <2> QED BY <1>1, <2>1 DEF Shapes, GateShape, IoShape, LockShape, SessionShape, IngressShape, BufferShape, AbortShape, NoticesShape, FaultShape, MedShape, CbShape, PlShape, NetShape, HeardShape
<1>2. CASE PlayAudio
  <2>1. UNCHANGED <<gate, io, lock, session, ingress, buffer, abort, notices, fault, med, pl,
    heard>>
    BY <1>2 DEF PlayAudio, shared
  <2> QED BY <1>2, <2>1 DEF Shapes, GateShape, IoShape, LockShape, SessionShape, IngressShape, BufferShape, AbortShape, NoticesShape, FaultShape, MedShape, CbShape, PlShape, NetShape, HeardShape
<1>3. CASE PlayAudioReadsReset
  <2>1. UNCHANGED <<gate, io, lock, session, ingress, buffer, abort, notices, fault, med, pl, net,
    heard>>
    BY <1>3 DEF PlayAudioReadsReset, shared
  <2> QED BY <1>3, <2>1 DEF Shapes, GateShape, IoShape, LockShape, SessionShape, IngressShape, BufferShape, AbortShape, NoticesShape, FaultShape, MedShape, CbShape, PlShape, NetShape, HeardShape
<1>4. CASE PlayAudioReadsFault
  <2>1. UNCHANGED <<gate, io, lock, session, ingress, buffer, abort, notices, fault, med, pl, net,
    heard>>
    BY <1>4 DEF PlayAudioReadsFault, shared
  <2> QED BY <1>4, <2>1 DEF Shapes, GateShape, IoShape, LockShape, SessionShape, IngressShape, BufferShape, AbortShape, NoticesShape, FaultShape, MedShape, CbShape, PlShape, NetShape, HeardShape
<1>5. CASE PlayAudioLocks
  <2>1. UNCHANGED <<gate, io, session, ingress, buffer, abort, notices, fault, med, pl, net, heard>>
    BY <1>5 DEF PlayAudioLocks, shared
  <2> QED BY <1>5, <2>1 DEF Shapes, GateShape, IoShape, LockShape, SessionShape, IngressShape, BufferShape, AbortShape, NoticesShape, FaultShape, MedShape, CbShape, PlShape, NetShape, HeardShape
<1>6. CASE PlayAudioReserves
  <2>1. UNCHANGED <<gate, io, lock, buffer, abort, notices, fault, med, pl, net, heard>>
    BY <1>6 DEF PlayAudioReserves, shared
  <2> QED BY <1>6, <2>1 DEF Shapes, GateShape, IoShape, LockShape, SessionShape, IngressShape, BufferShape, AbortShape, NoticesShape, FaultShape, MedShape, CbShape, PlShape, NetShape, HeardShape
<1>7. CASE PlayAudioRefused
  <2>1. UNCHANGED <<gate, io, session, ingress, buffer, abort, notices, med, pl, net, heard>>
    BY <1>7 DEF PlayAudioRefused, shared, PlayAudioLeaves
  <2> QED BY <1>7, <2>1 DEF Shapes, GateShape, IoShape, LockShape, SessionShape, IngressShape, BufferShape, AbortShape, NoticesShape, FaultShape, MedShape, CbShape, PlShape, NetShape, HeardShape
<1>8. CASE PlayAudioSends
  <2>1. UNCHANGED <<gate, io, session, ingress, abort, notices, med, pl, net, heard>>
    BY <1>8 DEF PlayAudioSends, shared, PlayAudioLeaves
  <2> QED BY <1>8, <2>1 DEF Shapes, GateShape, IoShape, LockShape, SessionShape, IngressShape, BufferShape, AbortShape, NoticesShape, FaultShape, MedShape, CbShape, PlShape, NetShape, HeardShape
<1>9. CASE PlayAudioOverflows
  <2>1. UNCHANGED <<gate, io, buffer, abort, notices, med, net, heard>>
    BY <1>9 DEF PlayAudioOverflows, shared, PlayAudioLeaves
  <2> QED BY <1>9, <2>1 DEF Shapes, GateShape, IoShape, LockShape, SessionShape, IngressShape, BufferShape, AbortShape, NoticesShape, FaultShape, MedShape, CbShape, PlShape, NetShape, HeardShape
<1>10. CASE ResetLocks
  <2>1. UNCHANGED <<gate, io, session, ingress, buffer, abort, notices, fault, cb, pl, net, heard>>
    BY <1>10 DEF ResetLocks, shared
  <2> QED BY <1>10, <2>1 DEF Shapes, GateShape, IoShape, LockShape, SessionShape, IngressShape, BufferShape, AbortShape, NoticesShape, FaultShape, MedShape, CbShape, PlShape, NetShape, HeardShape
<1>11. CASE ResetDoesNotLock
  <2>1. UNCHANGED <<gate, io, lock, session, ingress, buffer, abort, notices, fault, cb, pl, net,
    heard>>
    BY <1>11 DEF ResetDoesNotLock, shared
  <2> QED BY <1>11, <2>1 DEF Shapes, GateShape, IoShape, LockShape, SessionShape, IngressShape, BufferShape, AbortShape, NoticesShape, FaultShape, MedShape, CbShape, PlShape, NetShape, HeardShape
<1>12. CASE ResetGate
  <2>1. UNCHANGED <<io, lock, session, ingress, buffer, abort, notices, fault, cb, pl, net, heard>>
    BY <1>12 DEF ResetGate, shared
  <2> QED BY <1>12, <2>1 DEF Shapes, GateShape, IoShape, LockShape, SessionShape, IngressShape, BufferShape, AbortShape, NoticesShape, FaultShape, MedShape, CbShape, PlShape, NetShape, HeardShape
<1>13. CASE ResetRequest
  <2>1. UNCHANGED <<gate, lock, session, ingress, buffer, abort, notices, fault, cb, pl, net,
    heard>>
    BY <1>13 DEF ResetRequest, shared
  <2> QED BY <1>13, <2>1 DEF Shapes, GateShape, IoShape, LockShape, SessionShape, IngressShape, BufferShape, AbortShape, NoticesShape, FaultShape, MedShape, CbShape, PlShape, NetShape, HeardShape
<1>14. CASE ResetReleases
  <2>1. UNCHANGED <<gate, io, session, ingress, buffer, abort, notices, cb, net, heard>>
    BY <1>14 DEF ResetReleases, shared
  <2> QED BY <1>14, <2>1 DEF Shapes, GateShape, IoShape, LockShape, SessionShape, IngressShape, BufferShape, AbortShape, NoticesShape, FaultShape, MedShape, CbShape, PlShape, NetShape, HeardShape
<1>15. CASE ResetReturns
  <2>1. UNCHANGED <<gate, io, lock, session, ingress, buffer, abort, notices, cb, pl, heard>>
    BY <1>15 DEF ResetReturns, shared
  <2> QED BY <1>15, <2>1 DEF Shapes, GateShape, IoShape, LockShape, SessionShape, IngressShape, BufferShape, AbortShape, NoticesShape, FaultShape, MedShape, CbShape, PlShape, NetShape, HeardShape
<1>16. CASE DrainBridgeIngressFault
  <2>1. UNCHANGED <<gate, io, lock, session, ingress, buffer, abort, notices, cb, pl, net, heard>>
    BY <1>16 DEF DrainBridgeIngressFault, shared
  <2> QED BY <1>16, <2>1 DEF Shapes, GateShape, IoShape, LockShape, SessionShape, IngressShape, BufferShape, AbortShape, NoticesShape, FaultShape, MedShape, CbShape, PlShape, NetShape, HeardShape
<1>17. CASE CleanupObservedDisconnect
  <2>1. UNCHANGED <<gate, io, lock, session, ingress, buffer, abort, notices, fault, cb, pl, heard>>
    BY <1>17 DEF CleanupObservedDisconnect, shared
  <2> QED BY <1>17, <2>1 DEF Shapes, GateShape, IoShape, LockShape, SessionShape, IngressShape, BufferShape, AbortShape, NoticesShape, FaultShape, MedShape, CbShape, PlShape, NetShape, HeardShape
<1>18. CASE LinkReady
  <2>1. UNCHANGED <<io, lock, session, ingress, buffer, abort, notices, med, cb, pl, net, heard>>
    BY <1>18 DEF LinkReady, shared
  <2> QED BY <1>18, <2>1 DEF Shapes, GateShape, IoShape, LockShape, SessionShape, IngressShape, BufferShape, AbortShape, NoticesShape, FaultShape, MedShape, CbShape, PlShape, NetShape, HeardShape
<1>19. CASE Request
  <2>1. UNCHANGED <<gate, io, lock, session, ingress, buffer, abort, notices, fault, cb, pl, heard>>
    BY <1>19 DEF Request, shared
  <2> QED BY <1>19, <2>1 DEF Shapes, GateShape, IoShape, LockShape, SessionShape, IngressShape, BufferShape, AbortShape, NoticesShape, FaultShape, MedShape, CbShape, PlShape, NetShape, HeardShape
<1>20. CASE DropMessages
  <2>1. UNCHANGED <<gate, io, lock, session, ingress, buffer, abort, notices, fault, cb, pl, net,
    heard>>
    BY <1>20 DEF DropMessages, shared
  <2> QED BY <1>20, <2>1 DEF Shapes, GateShape, IoShape, LockShape, SessionShape, IngressShape, BufferShape, AbortShape, NoticesShape, FaultShape, MedShape, CbShape, PlShape, NetShape, HeardShape
<1>21. CASE ApplyAudioStart
  <2>1. UNCHANGED <<gate, io, lock, session, buffer, abort, notices, fault, cb, pl, net, heard>>
    BY <1>21 DEF ApplyAudioStart, shared
  <2> QED BY <1>21, <2>1 DEF Shapes, GateShape, IoShape, LockShape, SessionShape, IngressShape, BufferShape, AbortShape, NoticesShape, FaultShape, MedShape, CbShape, PlShape, NetShape, HeardShape
<1>22. CASE AdoptPlayback
  <2>1. UNCHANGED <<gate, lock, buffer, abort, notices, fault, cb, net>>
    BY <1>22 DEF AdoptPlayback, shared
  <2> QED BY <1>22, <2>1 DEF Shapes, GateShape, IoShape, LockShape, SessionShape, IngressShape, BufferShape, AbortShape, NoticesShape, FaultShape, MedShape, CbShape, PlShape, NetShape, HeardShape
<1>23. CASE ApplyAudioEnd
  <2>1. UNCHANGED <<gate, io, lock, ingress, buffer, abort, notices, fault, cb, net, heard>>
    BY <1>23 DEF ApplyAudioEnd, shared
  <2> QED BY <1>23, <2>1 DEF Shapes, GateShape, IoShape, LockShape, SessionShape, IngressShape, BufferShape, AbortShape, NoticesShape, FaultShape, MedShape, CbShape, PlShape, NetShape, HeardShape
<1>24. CASE DrainPlaybackNotices
  <2>1. UNCHANGED <<gate, io, lock, session, ingress, buffer, abort, fault, cb, pl, net, heard>>
    BY <1>24 DEF DrainPlaybackNotices, shared
  <2> QED BY <1>24, <2>1 DEF Shapes, GateShape, IoShape, LockShape, SessionShape, IngressShape, BufferShape, AbortShape, NoticesShape, FaultShape, MedShape, CbShape, PlShape, NetShape, HeardShape
<1>25. CASE PlayWakes
  <2>1. UNCHANGED <<gate, io, lock, session, ingress, buffer, abort, notices, fault, med, cb, net,
    heard>>
    BY <1>25 DEF PlayWakes, shared
  <2> QED BY <1>25, <2>1 DEF Shapes, GateShape, IoShape, LockShape, SessionShape, IngressShape, BufferShape, AbortShape, NoticesShape, FaultShape, MedShape, CbShape, PlShape, NetShape, HeardShape
<1>26. CASE PlayStartsReset
  <2>1. UNCHANGED <<gate, io, lock, session, ingress, buffer, abort, notices, fault, med, cb, net,
    heard>>
    BY <1>26 DEF PlayStartsReset, shared
  <2> QED BY <1>26, <2>1 DEF Shapes, GateShape, IoShape, LockShape, SessionShape, IngressShape, BufferShape, AbortShape, NoticesShape, FaultShape, MedShape, CbShape, PlShape, NetShape, HeardShape
<1>27. CASE PlayResetLocks
  <2>1. UNCHANGED <<gate, io, session, ingress, buffer, abort, notices, fault, med, cb, net, heard>>
    BY <1>27 DEF PlayResetLocks, shared
  <2> QED BY <1>27, <2>1 DEF Shapes, GateShape, IoShape, LockShape, SessionShape, IngressShape, BufferShape, AbortShape, NoticesShape, FaultShape, MedShape, CbShape, PlShape, NetShape, HeardShape
<1>28. CASE PlayResetLocksBuffer
  <2>1. UNCHANGED <<gate, io, session, ingress, buffer, abort, notices, fault, med, cb, net, heard>>
    BY <1>28 DEF PlayResetLocksBuffer, shared
  <2> QED BY <1>28, <2>1 DEF Shapes, GateShape, IoShape, LockShape, SessionShape, IngressShape, BufferShape, AbortShape, NoticesShape, FaultShape, MedShape, CbShape, PlShape, NetShape, HeardShape
<1>29. CASE PlayAborts
  <2>1. UNCHANGED <<gate, lock, buffer, notices, fault, med, cb, net, heard>>
    BY <1>29 DEF PlayAborts, shared
  <2> QED BY <1>29, <2>1 DEF Shapes, GateShape, IoShape, LockShape, SessionShape, IngressShape, BufferShape, AbortShape, NoticesShape, FaultShape, MedShape, CbShape, PlShape, NetShape, HeardShape
<1>30. CASE PlayAcknowledges
  <2>1. UNCHANGED <<gate, session, ingress, abort, fault, med, cb, net, heard>>
    BY <1>30 DEF PlayAcknowledges, shared
  <2> QED BY <1>30, <2>1 DEF Shapes, GateShape, IoShape, LockShape, SessionShape, IngressShape, BufferShape, AbortShape, NoticesShape, FaultShape, MedShape, CbShape, PlShape, NetShape, HeardShape
<1>31. CASE PlayResetFails
  <2>1. UNCHANGED <<gate, io, session, ingress, buffer, notices, fault, med, cb, net, heard>>
    BY <1>31 DEF PlayResetFails, shared
  <2> QED BY <1>31, <2>1 DEF Shapes, GateShape, IoShape, LockShape, SessionShape, IngressShape, BufferShape, AbortShape, NoticesShape, FaultShape, MedShape, CbShape, PlShape, NetShape, HeardShape
<1>32. CASE PlayReads
  <2>1. UNCHANGED <<gate, io, lock, session, ingress, buffer, abort, notices, fault, med, cb, net,
    heard>>
    BY <1>32 DEF PlayReads, shared
  <2> QED BY <1>32, <2>1 DEF Shapes, GateShape, IoShape, LockShape, SessionShape, IngressShape, BufferShape, AbortShape, NoticesShape, FaultShape, MedShape, CbShape, PlShape, NetShape, HeardShape
<1>33. CASE PlayIncomplete
  <2>1. UNCHANGED <<gate, lock, session, ingress, buffer, notices, fault, med, cb, net, heard>>
    BY <1>33 DEF PlayIncomplete, shared
  <2> QED BY <1>33, <2>1 DEF Shapes, GateShape, IoShape, LockShape, SessionShape, IngressShape, BufferShape, AbortShape, NoticesShape, FaultShape, MedShape, CbShape, PlShape, NetShape, HeardShape
<1>34. CASE PlayReceives
  <2>1. UNCHANGED <<gate, io, lock, session, ingress, abort, notices, fault, med, cb, net, heard>>
    BY <1>34 DEF PlayReceives, shared
  <2> QED BY <1>34, <2>1 DEF Shapes, GateShape, IoShape, LockShape, SessionShape, IngressShape, BufferShape, AbortShape, NoticesShape, FaultShape, MedShape, CbShape, PlShape, NetShape, HeardShape
<1>35. CASE PlayLocks
  <2>1. UNCHANGED <<gate, io, session, ingress, buffer, abort, notices, fault, med, cb, net, heard>>
    BY <1>35 DEF PlayLocks, shared
  <2> QED BY <1>35, <2>1 DEF Shapes, GateShape, IoShape, LockShape, SessionShape, IngressShape, BufferShape, AbortShape, NoticesShape, FaultShape, MedShape, CbShape, PlShape, NetShape, HeardShape
<1>36. CASE PlayWrites
  <2>1. UNCHANGED <<gate, ingress, buffer, notices, fault, med, cb, net>>
    BY <1>36 DEF PlayWrites, shared
  <2> QED BY <1>36, <2>1 DEF Shapes, GateShape, IoShape, LockShape, SessionShape, IngressShape, BufferShape, AbortShape, NoticesShape, FaultShape, MedShape, CbShape, PlShape, NetShape, HeardShape
<1>37. CASE PlayWriteFails
  <2>1. UNCHANGED <<gate, session, ingress, buffer, notices, fault, med, cb, net, heard>>
    BY <1>37 DEF PlayWriteFails, shared
  <2> QED BY <1>37, <2>1 DEF Shapes, GateShape, IoShape, LockShape, SessionShape, IngressShape, BufferShape, AbortShape, NoticesShape, FaultShape, MedShape, CbShape, PlShape, NetShape, HeardShape
<1>38. CASE PlayFinishes
  <2>1. UNCHANGED <<gate, io, session, ingress, buffer, abort, notices, fault, med, cb, net, heard>>
    BY <1>38 DEF PlayFinishes, shared
  <2> QED BY <1>38, <2>1 DEF Shapes, GateShape, IoShape, LockShape, SessionShape, IngressShape, BufferShape, AbortShape, NoticesShape, FaultShape, MedShape, CbShape, PlShape, NetShape, HeardShape
<1>39. CASE PlayDrained
  <2>1. UNCHANGED <<gate, ingress, buffer, fault, med, cb, net, heard>>
    BY <1>39 DEF PlayDrained, shared
  <2> QED BY <1>39, <2>1 DEF Shapes, GateShape, IoShape, LockShape, SessionShape, IngressShape, BufferShape, AbortShape, NoticesShape, FaultShape, MedShape, CbShape, PlShape, NetShape, HeardShape
<1>40. CASE Connect
  <2>1. UNCHANGED <<gate, io, lock, session, ingress, buffer, abort, notices, fault, med, cb, pl,
    heard>>
    BY <1>40 DEF Connect, shared
  <2> QED BY <1>40, <2>1 DEF Shapes, GateShape, IoShape, LockShape, SessionShape, IngressShape, BufferShape, AbortShape, NoticesShape, FaultShape, MedShape, CbShape, PlShape, NetShape, HeardShape
<1>41. CASE Lose
  <2>1. UNCHANGED <<gate, io, lock, session, ingress, buffer, abort, notices, fault, med, cb, pl,
    heard>>
    BY <1>41 DEF Lose, shared
  <2> QED BY <1>41, <2>1 DEF Shapes, GateShape, IoShape, LockShape, SessionShape, IngressShape, BufferShape, AbortShape, NoticesShape, FaultShape, MedShape, CbShape, PlShape, NetShape, HeardShape
<1>42. CASE LossSeen
  <2>1. UNCHANGED <<gate, io, lock, session, ingress, buffer, abort, notices, fault, med, cb, pl,
    heard>>
    BY <1>42 DEF LossSeen, shared
  <2> QED BY <1>42, <2>1 DEF Shapes, GateShape, IoShape, LockShape, SessionShape, IngressShape, BufferShape, AbortShape, NoticesShape, FaultShape, MedShape, CbShape, PlShape, NetShape, HeardShape
<1>43. CASE UNCHANGED vars
  BY <1>43 DEF vars, shared, Shapes, GateShape, IoShape, LockShape, SessionShape, IngressShape, BufferShape, AbortShape, NoticesShape, FaultShape, MedShape, CbShape, PlShape, NetShape, HeardShape
<1> QED BY <1>0, <1>1, <1>2, <1>3, <1>4, <1>5, <1>6, <1>7, <1>8, <1>9, <1>10, <1>11, <1>12, <1>13, <1>14, <1>15, <1>16, <1>17, <1>18, <1>19, <1>20, <1>21, <1>22, <1>23, <1>24, <1>25, <1>26, <1>27, <1>28, <1>29, <1>30, <1>31, <1>32, <1>33, <1>34, <1>35, <1>36, <1>37, <1>38, <1>39, <1>40, <1>41, <1>42, <1>43 DEF Next, CallbackWorker, MediationTask, PlayLoop

----------------------------------------------------------------------------
(* The types.                                                              *)

LEMMA GateTyped ==
  ASSUME [Next]_vars, GateType, MedType
  PROVE  GateType'
<1>1. CASE ResetGate
  BY <1>1 DEF ResetGate, GateType, shared, MedType
<1>2. CASE LinkReady
  BY <1>2 DEF LinkReady, MedIdle, Signal, GateType, shared
<1>3. CASE gate' = gate
  BY <1>3 DEF GateType
<1> QED BY WhoWrites, <1>1, <1>2, <1>3 DEF Shapes, GateShape

LEMMA IoTyped ==
  ASSUME [Next]_vars, IoType, IngressType, PlType
  PROVE  IoType'
<1>1. CASE ResetRequest
  BY <1>1 DEF ResetRequest, RequestReset, IoType, shared, IoSet
<1>2. CASE AdoptPlayback
  <2>1. io' = io \/ io' = [io EXCEPT !.session = @ + 1, !.epoch = ingress.epoch]
    BY <1>2 DEF AdoptPlayback, StartReset, BeginSession, Inactive
  <2> QED BY <2>1, IoChanges, IngressEpoch DEF IoType
<1>3. CASE PlayAborts
  <2>1. io' = [io EXCEPT !.session = @ + 1, !.epoch = 0]
    BY <1>3 DEF PlayAborts, Abort, InvalidateSession, Disarmed
  <2> QED BY <2>1, IoChanges DEF IoType
<1>4. CASE PlayAcknowledges
  <2>1. io' = [io EXCEPT !.acknowledged = pl.reset]
    BY <1>4 DEF PlayAcknowledges, Play, BufferReset, AcknowledgeReset, Unlocked, PlayAsleep
  <2> QED BY <2>1, IoChanges DEF IoType, PlType
<1>5. CASE PlayIncomplete
  BY <1>5 DEF PlayIncomplete, Play, GiveUpSession, RequestReset, PlayAsleep, IoType, shared, IoSet
<1>6. CASE PlayWrites
  <2>1. io' = io \/ io' = [io EXCEPT !.requested = @ + 1]
    BY <1>6 DEF PlayWrites, Play, GiveUpSession, RequestReset, PlayAsleep, MarkWritten, FailIngress
  <2> QED BY <2>1, IoChanges DEF IoType
<1>7. CASE PlayWriteFails
  BY <1>7 DEF PlayWriteFails, Play, GiveUpSession, RequestReset, PlayAsleep, IoType, shared, IoSet
<1>8. CASE PlayDrained
  <2>1. io' = io \/ io' = [io EXCEPT !.session = @ + 1, !.epoch = 0] \/ io' = [io EXCEPT !.requested
    = @ + 1]
    BY <1>8 DEF PlayDrained, Play, Finish, InvalidateSession, GiveUpSession, RequestReset, PlayAsleep
  <2> QED BY <2>1, IoChanges DEF IoType
<1>9. CASE io' = io
  BY <1>9 DEF IoType
<1> QED BY WhoWrites, <1>1, <1>2, <1>3, <1>4, <1>5, <1>6, <1>7, <1>8, <1>9 DEF Shapes, IoShape

LEMMA LockTyped ==
  ASSUME [Next]_vars, LockType
  PROVE  LockType'
<1>1. CASE PlayAudioLocks
  BY <1>1 DEF PlayAudioLocks, Callback, BufferFree, CallbackIdle, LockType, shared
<1>2. CASE PlayAudioRefused
  BY <1>2 DEF PlayAudioRefused, PlayAudioLeaves, Callback, CallbackIdle, Signal, LockType, shared
<1>3. CASE PlayAudioSends
  BY <1>3 DEF PlayAudioSends, PlayAudioLeaves, Callback, CallbackIdle, LockType, shared
<1>4. CASE PlayAudioOverflows
  BY <1>4 DEF PlayAudioOverflows, PlayAudioLeaves, Callback, CallbackIdle, FailIngress, Signal,
    LockType, shared
<1>5. CASE ResetLocks
  BY <1>5 DEF ResetLocks, LockType, shared
<1>6. CASE ResetReleases
  BY <1>6 DEF ResetReleases, IoReleased, LockType, shared
<1>7. CASE PlayResetLocks
  BY <1>7 DEF PlayResetLocks, LockType, shared
<1>8. CASE PlayResetLocksBuffer
  BY <1>8 DEF PlayResetLocksBuffer, Play, LockType, shared
<1>9. CASE PlayAcknowledges
  BY <1>9 DEF PlayAcknowledges, Play, BufferReset, AcknowledgeReset, Unlocked, PlayAsleep, LockType,
    shared
<1>10. CASE PlayResetFails
  BY <1>10 DEF PlayResetFails, Play, Unlocked, PlayAsleep, LockType, shared
<1>11. CASE PlayLocks
  BY <1>11 DEF PlayLocks, Play, PlayAsleep, LockType, shared
<1>12. CASE PlayWrites
  BY <1>12 DEF PlayWrites, Play, GiveUpSession, RequestReset, PlayAsleep, MarkWritten, FailIngress,
    LockType, shared
<1>13. CASE PlayWriteFails
  BY <1>13 DEF PlayWriteFails, Play, GiveUpSession, RequestReset, PlayAsleep, LockType, shared
<1>14. CASE PlayFinishes
  BY <1>14 DEF PlayFinishes, Play, PlayAsleep, LockType, shared
<1>15. CASE PlayDrained
  BY <1>15 DEF PlayDrained, Play, Finish, InvalidateSession, GiveUpSession, RequestReset,
    PlayAsleep, LockType, shared
<1>16. CASE lock' = lock
  BY <1>16 DEF LockType
<1> QED BY WhoWrites, <1>1, <1>2, <1>3, <1>4, <1>5, <1>6, <1>7, <1>8, <1>9, <1>10, <1>11, <1>12,
  <1>13, <1>14, <1>15, <1>16 DEF Shapes, LockShape

LEMMA SessionTyped ==
  ASSUME [Next]_vars, SessionType, IngressType
  PROVE  SessionType'
<1>1. CASE PlayAudioReserves
  <2>1. session' = session \/ session' = ReserveChunk(session)
    BY <1>1 DEF PlayAudioReserves, Callback
  <2> QED BY <2>1, SessionChanges DEF SessionType, ReserveChunk, FailIngress
<1>2. CASE PlayAudioOverflows
  <2>1. session' = session \/ session' = [session EXCEPT !.incomplete = @ \/ session.active]
    BY <1>2 DEF PlayAudioOverflows, PlayAudioLeaves, Callback, CallbackIdle, FailIngress, Signal
  <2> QED BY <2>1, SessionChanges DEF SessionType
<1>3. CASE AdoptPlayback
  <2>1. session' = session \/ session' = [active |-> FALSE, incomplete |-> TRUE, ended |-> FALSE,
    got |-> 0, wrote |-> 0] \/ session' = [active |-> TRUE, incomplete |-> FALSE, ended |-> FALSE,
    got |-> ingress.got, wrote |-> 0]
    BY <1>3 DEF AdoptPlayback, StartReset, BeginSession, Inactive
  <2> QED BY <2>1, SessionChanges, IngressEpoch DEF SessionType
<1>4. CASE ApplyAudioEnd
  <2>1. session' = session \/ session' = [session EXCEPT !.ended = TRUE]
    BY <1>4 DEF ApplyAudioEnd, Takes, MedIdle, Taken, StartReset, AcceptEnd
  <2> QED BY <2>1 DEF SessionType, SessionSet
<1>5. CASE PlayAborts
  <2>1. session' = [session EXCEPT !.active = FALSE, !.incomplete = TRUE, !.ended = FALSE]
    BY <1>5 DEF PlayAborts, Abort, InvalidateSession, Disarmed
  <2> QED BY <2>1 DEF SessionType, SessionSet
<1>6. CASE PlayWrites
  <2>1. session' = [session EXCEPT !.wrote = @ + 1] \/ session' = [session EXCEPT !.incomplete = @
    \/ session.active]
    BY <1>6 DEF PlayWrites, Play, GiveUpSession, RequestReset, PlayAsleep, MarkWritten, FailIngress
  <2> QED BY <2>1, SessionChanges DEF SessionType
<1>7. CASE PlayDrained
  <2>1. session' = session \/ session' = [session EXCEPT !.active = FALSE, !.incomplete = FALSE,
    !.ended = TRUE]
    BY <1>7 DEF PlayDrained, Play, Finish, InvalidateSession, GiveUpSession, RequestReset, PlayAsleep
  <2> QED BY <2>1, SessionChanges DEF SessionType
<1>8. CASE session' = session
  BY <1>8 DEF SessionType
<1> QED BY WhoWrites, <1>1, <1>2, <1>3, <1>4, <1>5, <1>6, <1>7, <1>8 DEF Shapes, SessionShape

LEMMA IngressTyped ==
  ASSUME [Next]_vars, IngressType, GateType, CbType
  PROVE  IngressType'
<1>1. CASE PlayAudioReserves
  <2>1. ingress' = ingress \/ ingress' = ReserveIngress.g
    BY <1>1 DEF PlayAudioReserves, Callback
  <2> QED BY <2>1, Reservation DEF IngressType
<1>2. CASE PlayAudioOverflows
  <2>1. ingress' = ingress \/ ingress' = [ingress EXCEPT !.incomplete = TRUE]
    BY <1>2 DEF PlayAudioOverflows, PlayAudioLeaves, Callback, CallbackIdle, FailIngress, Signal
  <2> QED BY <2>1, IngressChanges DEF IngressType
<1>3. CASE ApplyAudioStart
  <2>1. ingress' = ingress \/ ingress' = [Arm(gate.epoch) EXCEPT !.bound = TRUE] \/ ingress' =
    [ingress EXCEPT !.incomplete = @ \/ ingress.armed]
    BY <1>3 DEF ApplyAudioStart, Takes, MedIdle, Taken, StartReset, BindPlaybackIngress, Arm,
      FailIngress
  <2> QED BY <2>1, IngressChanges, Armed, GateEpoch DEF IngressType
<1>4. CASE AdoptPlayback
  <2>1. ingress' = ingress \/ ingress' = Disarmed
    BY <1>4 DEF AdoptPlayback, StartReset, BeginSession
  <2> QED BY <2>1, IngressChanges DEF IngressType
<1>5. CASE PlayAborts
  <2>1. ingress' = Disarmed
    BY <1>5 DEF PlayAborts, Abort, InvalidateSession, Disarmed
  <2> QED BY <2>1, IngressChanges DEF IngressType
<1>6. CASE ingress' = ingress
  BY <1>6 DEF IngressType
<1> QED BY WhoWrites, <1>1, <1>2, <1>3, <1>4, <1>5, <1>6 DEF Shapes, IngressShape

LEMMA FaultTyped ==
  ASSUME [Next]_vars, FaultType, CbType
  PROVE  FaultType'
<1>1. CASE PlayAudioRefused
  BY <1>1 DEF PlayAudioRefused, PlayAudioLeaves, Callback, CallbackIdle, Signal, FaultType, shared,
    CbType
<1>2. CASE PlayAudioSends
  BY <1>2 DEF PlayAudioSends, PlayAudioLeaves, Callback, CallbackIdle, FaultType, shared
<1>3. CASE PlayAudioOverflows
  BY <1>3 DEF PlayAudioOverflows, PlayAudioLeaves, Callback, CallbackIdle, FailIngress, Signal,
    FaultType, shared, CbType
<1>4. CASE ResetReleases
  BY <1>4 DEF ResetReleases, IoReleased, FaultType, shared
<1>5. CASE ResetReturns
  BY <1>5 DEF ResetReturns, StartReset, FeedError, ResetOver, Stopped, Signal, FaultType, shared
<1>6. CASE DrainBridgeIngressFault
  BY <1>6 DEF DrainBridgeIngressFault, MedIdle, StartReset, TakenFault, FaultType, shared
<1>7. CASE LinkReady
  BY <1>7 DEF LinkReady, MedIdle, Signal, FaultType, shared
<1>8. CASE fault' = fault
  BY <1>8 DEF FaultType
<1> QED BY WhoWrites, <1>1, <1>2, <1>3, <1>4, <1>5, <1>6, <1>7, <1>8 DEF Shapes, FaultShape

LEMMA BufferTyped ==
  ASSUME [Next]_vars, BufferType, CbType
  PROVE  BufferType'
<1>1. CASE PlayAudioSends
  BY <1>1 DEF PlayAudioSends, PlayAudioLeaves, Callback, CallbackIdle, BufferType, shared, CbType
<1>2. CASE PlayAcknowledges
  BY <1>2 DEF PlayAcknowledges, Play, BufferReset, AcknowledgeReset, Unlocked, PlayAsleep,
    BufferType, shared
<1>3. CASE PlayReceives
  <2>1. buffer' = buffer \/ (buffer # <<>> /\ buffer' = Tail(buffer))
    BY <1>3 DEF PlayReceives, Play
  <2> QED BY <2>1, HeadTailProperties DEF BufferType
<1>4. CASE buffer' = buffer
  BY <1>4 DEF BufferType
<1> QED BY WhoWrites, <1>1, <1>2, <1>3, <1>4 DEF Shapes, BufferShape

LEMMA HeardTyped ==
  ASSUME [Next]_vars, HeardType, PlType
  PROVE  HeardType'
<1>1. CASE AdoptPlayback
  <2>1. heard' = heard \/ heard' = <<>>
    BY <1>1 DEF AdoptPlayback, StartReset, BeginSession
  <2> QED BY <2>1, EmptySeq DEF HeardType
<1>2. CASE PlayWrites
  BY <1>2 DEF PlayWrites, Play, GiveUpSession, RequestReset, PlayAsleep, MarkWritten, FailIngress,
    HeardType, shared, PlType
<1>3. CASE heard' = heard
  BY <1>3 DEF HeardType
<1> QED BY WhoWrites, <1>1, <1>2, <1>3 DEF Shapes, HeardShape

LEMMA AbortTyped ==
  ASSUME [Next]_vars, AbortType, PlType
  PROVE  AbortType'
<1>1. CASE PlayAborts
  BY <1>1 DEF PlayAborts, Abort, InvalidateSession, Disarmed, AbortType, shared
<1>2. CASE PlayResetFails
  BY <1>2 DEF PlayResetFails, Play, Unlocked, PlayAsleep, AbortType, shared, PlType
<1>3. CASE PlayIncomplete
  BY <1>3 DEF PlayIncomplete, Play, GiveUpSession, RequestReset, PlayAsleep, AbortType, shared,
    PlType
<1>4. CASE PlayWrites
  BY <1>4 DEF PlayWrites, Play, GiveUpSession, RequestReset, PlayAsleep, MarkWritten, FailIngress,
    AbortType, shared, PlType
<1>5. CASE PlayWriteFails
  BY <1>5 DEF PlayWriteFails, Play, GiveUpSession, RequestReset, PlayAsleep, AbortType, shared,
    PlType
<1>6. CASE PlayDrained
  BY <1>6 DEF PlayDrained, Play, Finish, InvalidateSession, GiveUpSession, RequestReset, PlayAsleep,
    AbortType, shared, PlType
<1>7. CASE abort' = abort
  BY <1>7 DEF AbortType
<1> QED BY WhoWrites, <1>1, <1>2, <1>3, <1>4, <1>5, <1>6, <1>7 DEF Shapes, AbortShape

LEMMA NoticesTyped ==
  ASSUME [Next]_vars, NoticesType, PlType
  PROVE  NoticesType'
<1>1. CASE DrainPlaybackNotices
  BY <1>1, HeadTailProperties DEF DrainPlaybackNotices, MedIdle, FeedError, NoticesType, shared
<1>2. CASE PlayAcknowledges
  <2>1. notices' = notices \/ notices' = Append(notices, [session |-> pl.report, drained |-> FALSE])
    BY <1>2 DEF PlayAcknowledges, Play, BufferReset, AcknowledgeReset, Unlocked, PlayAsleep
  <2> QED BY <2>1, NoticesGrow, PlNumbers DEF NoticesType
<1>3. CASE PlayDrained
  <2>1. notices' = notices \/ notices' = Append(notices, [session |-> pl.session, drained |-> TRUE])
    BY <1>3 DEF PlayDrained, Play, Finish, InvalidateSession, GiveUpSession, RequestReset, PlayAsleep
  <2> QED BY <2>1, NoticesGrow, PlNumbers DEF NoticesType
<1>4. CASE notices' = notices
  BY <1>4 DEF NoticesType
<1> QED BY WhoWrites, <1>1, <1>2, <1>3, <1>4 DEF Shapes, NoticesShape

\* What the handlers of the mediation task make of its record.
LEMMA ResetStarts ==
  ASSUME NEW m \in MedSet, NEW advance \in BOOLEAN,
         NEW then \in {"boundary", "lost", "error", "restart"}
  PROVE  LET n == StartReset(m, advance, then)
         IN /\ n \in MedSet
            /\ n.pc = "lock" /\ n.then = then /\ n.session = m.session /\ n.msgs = m.msgs
            /\ n.phase = IF m.phase = "playing" THEN "aborted" ELSE m.phase
<1> DEFINE p == IF m.phase = "playing" THEN "aborted" ELSE m.phase
<1>1. p \in {"wanted", "inflight", "playing", "aborted", "heard"}
  BY DEF MedSet
<1>2. StartReset(m, advance, then) =
        [m EXCEPT !.pc = "lock", !.advance = advance, !.then = then, !.phase = p]
  BY DEF StartReset, MedSet
<1> HIDE DEF p
<1>3. LET n == StartReset(m, advance, then)
      IN /\ n \in MedSet /\ n.pc = "lock" /\ n.then = then /\ n.session = m.session
         /\ n.msgs = m.msgs /\ n.phase = p
  BY <1>1, <1>2 DEF MedSet
<1> QED BY <1>3 DEF p

LEMMA ErrorFed ==
  ASSUME NEW m \in MedSet
  PROVE  LET n == FeedError(m)
         IN /\ n \in MedSet
            /\ n.pc = m.pc /\ n.session = m.session /\ n.msgs = m.msgs /\ n.locked = m.locked
            /\ n.phase = IF m.phase = "heard" THEN "heard" ELSE "wanted"
<1> DEFINE p == IF m.phase = "heard" THEN m.phase ELSE "wanted"
<1>1. p \in {"wanted", "inflight", "playing", "aborted", "heard"}
  BY DEF MedSet
<1>2. FeedError(m) = [m EXCEPT !.phase = p, !.ended = FALSE]
  BY DEF FeedError, MedSet
<1> HIDE DEF p
<1>3. LET n == FeedError(m)
      IN /\ n \in MedSet /\ n.pc = m.pc /\ n.session = m.session /\ n.msgs = m.msgs
         /\ n.locked = m.locked /\ n.phase = p
  BY <1>1, <1>2 DEF MedSet
<1> QED BY <1>3 DEF p

LEMMA ResetIsOver ==
  ASSUME NEW m \in MedSet
  PROVE  LET n == ResetOver(m)
         IN /\ n \in MedSet
            /\ n.pc = "idle" /\ n.session = m.session /\ n.msgs = m.msgs /\ n.locked = FALSE
            /\ n.phase = m.phase
BY DEF ResetOver, MedSet

LEMMA MessagesReplaced ==
  ASSUME NEW m \in MedSet, NEW s \in Seq(Messages)
  PROVE  LET n == [m EXCEPT !.msgs = s]
         IN /\ n \in MedSet
            /\ n.pc = m.pc /\ n.session = m.session /\ n.msgs = s /\ n.locked = m.locked
            /\ n.phase = m.phase
BY DEF MedSet

LEMMA MedTaken ==
  ASSUME MedType, med.msgs # <<>>
  PROVE  /\ Taken \in MedSet /\ Taken.msgs = Tail(med.msgs)
         /\ Taken.pc = med.pc /\ Taken.phase = med.phase /\ Taken.session = med.session
         /\ Taken.locked = med.locked
BY MedRecord, MessagesReplaced DEF Taken

LEMMA MedAdopts ==
  ASSUME NEW m \in MedSet
  PROVE  LET n == [m EXCEPT !.pc = "adopt"]
         IN n \in MedSet /\ n.pc = "adopt" /\ n.msgs = m.msgs /\ n.phase = m.phase
            /\ n.session = m.session /\ n.locked = m.locked
BY DEF MedSet

LEMMA MedPlays ==
  ASSUME MedType, IoType
  PROVE  LET n == [med EXCEPT !.pc = "idle", !.phase = "playing", !.session = io.session + 1]
         IN n \in MedSet /\ n.pc = "idle" /\ n.msgs = med.msgs /\ n.phase = "playing"
            /\ n.session = io.session + 1 /\ n.locked = med.locked
<1>1. io.session + 1 \in Nat
  BY DEF IoType, IoSet
<1> QED BY <1>1 DEF MedType, MedSet

LEMMA MedEnds ==
  ASSUME NEW m \in MedSet
  PROVE  LET n == [m EXCEPT !.ended = TRUE]
         IN n \in MedSet /\ n.pc = m.pc /\ n.msgs = m.msgs /\ n.phase = m.phase
            /\ n.session = m.session /\ n.locked = m.locked
BY DEF MedSet

LEMMA MedHears ==
  ASSUME NEW m \in MedSet
  PROVE  LET o == [m EXCEPT !.session = 0]
             n == [o EXCEPT !.phase = "heard", !.ended = FALSE]
         IN /\ o \in MedSet /\ o.session = 0 /\ o.phase = m.phase /\ o.pc = m.pc /\ o.msgs = m.msgs
            /\ o.locked = m.locked
            /\ n \in MedSet /\ n.session = 0 /\ n.phase = "heard" /\ n.pc = m.pc /\ n.msgs = m.msgs
            /\ n.locked = m.locked
BY DEF MedSet

LEMMA MedTyped ==
  ASSUME [Next]_vars, MedType, GateType, IoType, ThenInv
  PROVE  MedType'
<1>1. CASE HandleCustom
  <2>1. med' = med \/ (\E t \in {"start", "end"} : med' = [med EXCEPT !.msgs = Append(med.msgs, [t
    |-> t, epoch |-> gate.epoch])])
    BY <1>1 DEF HandleCustom
  <2> QED BY <2>1, MessageAppended, MessagesReplaced DEF MedType
<1>2. CASE ResetLocks
  BY <1>2 DEF ResetLocks, MedType, shared, MedSet
<1>3. CASE ResetDoesNotLock
  BY <1>3 DEF ResetDoesNotLock, MedType, shared, MedSet
<1>4. CASE ResetGate
  BY <1>4 DEF ResetGate, MedType, shared, MedSet
<1>5. CASE ResetRequest
  BY <1>5 DEF ResetRequest, RequestReset, MedType, shared, MedSet
<1>6. CASE ResetReleases
  BY <1>6 DEF ResetReleases, IoReleased, MedType, shared, MedSet
<1>7. CASE ResetReturns
  <2> DEFINE m == [med EXCEPT !.msgs = <<>>]
             q == ResetOver(med)
             u == [q EXCEPT !.msgs = <<>>]
  <2>1. med.then \in {"boundary", "lost", "error", "restart"}
    BY <1>7 DEF ThenInv, ResetReturns
  <2>2. med' = StartReset(m, FALSE, "lost") \/ med' = FeedError(q) \/ med' = FeedError(u)
    BY <1>7, <2>1 DEF ResetReturns
  <2>3. m \in MedSet /\ q \in MedSet
    BY MedRecord, EmptySeq, MessagesReplaced, ResetIsOver
  <2> HIDE DEF m, q
  <2>4. u \in MedSet
    BY <2>3, EmptySeq, MessagesReplaced
  <2> HIDE DEF u
  <2>5. StartReset(m, FALSE, "lost") \in MedSet /\ FeedError(q) \in MedSet /\ FeedError(u) \in MedSet
    BY <2>3, <2>4, ResetStarts, ErrorFed
  <2> QED BY <2>2, <2>5 DEF MedType
<1>8. CASE DrainBridgeIngressFault
  <2> DEFINE m == [med EXCEPT !.msgs = <<>>]
  <2>1. med' = med \/ med' = StartReset(m, TRUE, "restart")
    BY <1>8 DEF DrainBridgeIngressFault
  <2>2. m \in MedSet
    BY MedRecord, EmptySeq, MessagesReplaced
  <2> HIDE DEF m
  <2>3. StartReset(m, TRUE, "restart") \in MedSet
    BY <2>2, ResetStarts
  <2> QED BY <2>1, <2>3 DEF MedType
<1>9. CASE CleanupObservedDisconnect
  <2>1. med' = StartReset(med, TRUE, "boundary")
    BY <1>9 DEF CleanupObservedDisconnect, MedIdle
  <2> QED BY <2>1, MedRecord, ResetStarts DEF MedType
<1>10. CASE Request
  BY <1>10 DEF Request, MedIdle, MedType, shared, MedSet
<1>11. CASE DropMessages
  <2>1. med' = [med EXCEPT !.msgs = <<>>] \/ (med.msgs # <<>> /\ med' = Taken)
    BY <1>11 DEF DropMessages
  <2>2. [med EXCEPT !.msgs = <<>>] \in MedSet
    BY MedRecord, EmptySeq, MessagesReplaced
  <2> QED BY <2>1, <2>2, MedTaken DEF MedType
<1>12. CASE ApplyAudioStart
  <2>1. med.msgs # <<>> /\ (med' = [Taken EXCEPT !.pc = "adopt"] \/ med' = StartReset(Taken, FALSE, "error"))
    BY <1>12 DEF ApplyAudioStart, Takes
  <2>2. Taken \in MedSet
    BY <2>1, MedTaken
  <2>3. [Taken EXCEPT !.pc = "adopt"] \in MedSet
    BY <2>2, MedAdopts
  <2>4. StartReset(Taken, FALSE, "error") \in MedSet
    BY <2>2, ResetStarts
  <2> QED BY <2>1, <2>3, <2>4 DEF MedType
<1>13. CASE AdoptPlayback
  <2> DEFINE m == [med EXCEPT !.pc = "idle", !.phase = "playing", !.session = io.session + 1]
  <2>1. med' = m \/ med' = StartReset(med, FALSE, "error")
    BY <1>13 DEF AdoptPlayback
  <2>2. m \in MedSet
    BY MedPlays
  <2> HIDE DEF m
  <2>3. StartReset(med, FALSE, "error") \in MedSet
    BY MedRecord, ResetStarts
  <2> QED BY <2>1, <2>2, <2>3 DEF MedType
<1>14. CASE ApplyAudioEnd
  <2>1. med.msgs # <<>> /\ (med' = [Taken EXCEPT !.ended = TRUE] \/ med' = StartReset(Taken, FALSE, "error"))
    BY <1>14 DEF ApplyAudioEnd, Takes
  <2>2. Taken \in MedSet
    BY <2>1, MedTaken
  <2>3. [Taken EXCEPT !.ended = TRUE] \in MedSet
    BY <2>2, MedEnds
  <2>4. StartReset(Taken, FALSE, "error") \in MedSet
    BY <2>2, ResetStarts
  <2> QED BY <2>1, <2>3, <2>4 DEF MedType
<1>15. CASE DrainPlaybackNotices
  <2>1. med' = med \/ med' = [[med EXCEPT !.session = 0] EXCEPT !.phase = "heard", !.ended = FALSE]
    \/ med' = FeedError([med EXCEPT !.session = 0])
    BY <1>15 DEF DrainPlaybackNotices, MedIdle
  <2> QED BY <2>1, MedRecord, MedHears, ErrorFed DEF MedType
<1>16. CASE med' = med
  BY <1>16 DEF MedType
<1> QED BY WhoWrites, <1>1, <1>2, <1>3, <1>4, <1>5, <1>6, <1>7, <1>8, <1>9, <1>10, <1>11, <1>12,
  <1>13, <1>14, <1>15, <1>16 DEF Shapes, MedShape

\* What a handler of the mediation task leaves behind.
LEMMA AfterReset ==
  ASSUME MedType, ThenInv, ResetReturns
  PROVE  /\ med'.session = med.session
         /\ med'.phase # "playing" /\ (med'.phase = "heard" <=> med.phase = "heard")
         /\ \/ med'.pc = "lock" /\ med'.then = "lost" /\ med'.msgs = <<>> /\ net' = net
            \/ med'.pc = "idle" /\ med'.msgs = med.msgs /\ net' = net
            \/ med'.pc = "idle" /\ med'.msgs = <<>> /\ cb.pc = "idle" /\ net' = Stopped
<1> DEFINE m == [med EXCEPT !.msgs = <<>>]
           q == ResetOver(med)
           u == [q EXCEPT !.msgs = <<>>]
<1>1. med.then \in {"boundary", "lost", "error", "restart"}
  BY DEF ThenInv, ResetReturns
<1>2. \/ med' = StartReset(m, FALSE, "lost") /\ net' = net
      \/ med' = FeedError(q) /\ net' = net
      \/ med' = FeedError(u) /\ cb.pc = "idle" /\ net' = Stopped
  BY <1>1 DEF ResetReturns
<1>3. /\ m \in MedSet /\ m.msgs = <<>> /\ m.session = med.session /\ m.phase = med.phase
      /\ q \in MedSet /\ q.msgs = med.msgs /\ q.session = med.session /\ q.phase = med.phase
      /\ q.pc = "idle"
  BY MedRecord, EmptySeq, MessagesReplaced, ResetIsOver
<1> HIDE DEF m, q
<1>4. u \in MedSet /\ u.msgs = <<>> /\ u.session = q.session /\ u.phase = q.phase /\ u.pc = q.pc
  BY <1>3, EmptySeq, MessagesReplaced
<1> HIDE DEF u
<1>5. CASE med' = StartReset(m, FALSE, "lost") /\ net' = net
  <2>1. /\ med'.pc = "lock" /\ med'.then = "lost" /\ med'.session = m.session /\ med'.msgs = m.msgs
        /\ med'.phase = IF m.phase = "playing" THEN "aborted" ELSE m.phase
    BY <1>3, <1>5, ResetStarts
  <2> QED BY <1>3, <1>5, <2>1
<1>6. CASE med' = FeedError(q) /\ net' = net
  <2>1. /\ med'.pc = q.pc /\ med'.session = q.session /\ med'.msgs = q.msgs
        /\ med'.phase = IF q.phase = "heard" THEN "heard" ELSE "wanted"
    BY <1>3, <1>6, ErrorFed
  <2> QED BY <1>3, <1>6, <2>1
<1>7. CASE med' = FeedError(u) /\ cb.pc = "idle" /\ net' = Stopped
  <2>1. /\ med'.pc = u.pc /\ med'.session = u.session /\ med'.msgs = u.msgs
        /\ med'.phase = IF u.phase = "heard" THEN "heard" ELSE "wanted"
    BY <1>4, <1>7, ErrorFed
  <2> QED BY <1>3, <1>4, <1>7, <2>1
<1> QED BY <1>2, <1>5, <1>6, <1>7

LEMMA AfterFault ==
  ASSUME MedType, DrainBridgeIngressFault
  PROVE  /\ med.pc = "idle"
         /\ \/ med' = med
            \/ /\ med'.pc = "lock" /\ med'.then = "restart" /\ med'.msgs = <<>>
               /\ med'.session = med.session
               /\ med'.phase = IF med.phase = "playing" THEN "aborted" ELSE med.phase
<1> DEFINE m == [med EXCEPT !.msgs = <<>>]
<1>1. med.pc = "idle" /\ (med' = med \/ med' = StartReset(m, TRUE, "restart"))
  BY DEF DrainBridgeIngressFault, MedIdle
<1>2. m \in MedSet /\ m.msgs = <<>> /\ m.session = med.session /\ m.phase = med.phase
  BY MedRecord, EmptySeq, MessagesReplaced
<1> HIDE DEF m
<1>3. CASE med' = StartReset(m, TRUE, "restart")
  <2>1. /\ med'.pc = "lock" /\ med'.then = "restart" /\ med'.session = m.session
        /\ med'.msgs = m.msgs /\ med'.phase = IF m.phase = "playing" THEN "aborted" ELSE m.phase
    BY <1>2, <1>3, ResetStarts
  <2> QED BY <1>1, <1>2, <2>1
<1> QED BY <1>1, <1>3

LEMMA AfterLoss ==
  ASSUME MedType, CleanupObservedDisconnect
  PROVE  /\ med.pc = "idle" /\ med'.pc = "lock" /\ med'.then = "boundary" /\ med'.msgs = med.msgs
         /\ med'.session = med.session
         /\ med'.phase = IF med.phase = "playing" THEN "aborted" ELSE med.phase
<1>1. med.pc = "idle" /\ med' = StartReset(med, TRUE, "boundary")
  BY DEF CleanupObservedDisconnect, MedIdle
<1> QED BY <1>1, MedRecord, ResetStarts

LEMMA AfterStart ==
  ASSUME MedType, ApplyAudioStart
  PROVE  /\ med.pc = "idle" /\ med.msgs # <<>> /\ Head(med.msgs).t = "start" /\ gate.open
         /\ med'.msgs = Tail(med.msgs) /\ med'.session = med.session
         /\ \/ /\ med.phase = "inflight" /\ CanBind /\ ingress' = [Arm(gate.epoch) EXCEPT !.bound = TRUE]
               /\ med'.pc = "adopt" /\ med'.phase = med.phase
            \/ /\ ingress' = ingress \/ ingress' = [ingress EXCEPT !.incomplete = @ \/ ingress.armed]
               /\ med'.pc = "lock" /\ med'.then = "error"
               /\ med'.phase = IF med.phase = "playing" THEN "aborted" ELSE med.phase
<1>1. /\ med.pc = "idle" /\ med.msgs # <<>> /\ Head(med.msgs).t = "start" /\ gate.open
      /\ \/ /\ med.phase = "inflight" /\ CanBind /\ ingress' = [Arm(gate.epoch) EXCEPT !.bound = TRUE]
            /\ med' = [Taken EXCEPT !.pc = "adopt"]
         \/ /\ ingress' = ingress \/ ingress' = [ingress EXCEPT !.incomplete = @ \/ ingress.armed]
            /\ med' = StartReset(Taken, FALSE, "error")
  BY DEF ApplyAudioStart, Takes, MedIdle, Accepts, BindPlaybackIngress, FailIngress
<1>2. /\ Taken \in MedSet /\ Taken.msgs = Tail(med.msgs) /\ Taken.phase = med.phase
      /\ Taken.session = med.session
  BY <1>1, MedTaken
<1>3. ASSUME med' = [Taken EXCEPT !.pc = "adopt"]
      PROVE  /\ med'.pc = "adopt" /\ med'.session = Taken.session /\ med'.msgs = Taken.msgs
             /\ med'.phase = Taken.phase
  BY <1>2, <1>3, MedAdopts
<1>4. ASSUME med' = StartReset(Taken, FALSE, "error")
      PROVE  /\ med'.pc = "lock" /\ med'.then = "error" /\ med'.session = Taken.session
             /\ med'.msgs = Taken.msgs
             /\ med'.phase = IF Taken.phase = "playing" THEN "aborted" ELSE Taken.phase
  BY <1>2, <1>4, ResetStarts
<1>5. CASE /\ med.phase = "inflight" /\ CanBind /\ ingress' = [Arm(gate.epoch) EXCEPT !.bound = TRUE]
           /\ med' = [Taken EXCEPT !.pc = "adopt"]
  BY <1>1, <1>2, <1>3, <1>5
<1>6. CASE /\ ingress' = ingress \/ ingress' = [ingress EXCEPT !.incomplete = @ \/ ingress.armed]
           /\ med' = StartReset(Taken, FALSE, "error")
  BY <1>1, <1>2, <1>4, <1>6
<1> QED BY <1>1, <1>5, <1>6

LEMMA AfterEnd ==
  ASSUME MedType, ApplyAudioEnd
  PROVE  /\ med.pc = "idle" /\ med.msgs # <<>> /\ Head(med.msgs).t = "end" /\ gate.open
         /\ med'.msgs = Tail(med.msgs) /\ med'.session = med.session
         /\ \/ /\ med.phase = "playing" /\ CanAcceptEnd /\ session' = [session EXCEPT !.ended = TRUE]
               /\ med'.pc = "idle" /\ med'.phase = med.phase
            \/ /\ session' = session
               /\ med'.pc = "lock" /\ med'.then = "error"
               /\ med'.phase = IF med.phase = "playing" THEN "aborted" ELSE med.phase
<1>1. /\ med.pc = "idle" /\ med.msgs # <<>> /\ Head(med.msgs).t = "end" /\ gate.open
      /\ \/ /\ med.phase = "playing" /\ CanAcceptEnd /\ session' = [session EXCEPT !.ended = TRUE]
            /\ med' = [Taken EXCEPT !.ended = TRUE]
         \/ session' = session /\ med' = StartReset(Taken, FALSE, "error")
  BY DEF ApplyAudioEnd, Takes, MedIdle, Accepts, AcceptEnd
<1>2. /\ Taken \in MedSet /\ Taken.msgs = Tail(med.msgs) /\ Taken.phase = med.phase
      /\ Taken.session = med.session /\ Taken.pc = "idle"
  BY <1>1, MedTaken
<1>3. ASSUME session' = session, med' = StartReset(Taken, FALSE, "error")
      PROVE  /\ med'.pc = "lock" /\ med'.then = "error" /\ med'.session = Taken.session
             /\ med'.msgs = Taken.msgs
             /\ med'.phase = IF Taken.phase = "playing" THEN "aborted" ELSE Taken.phase
  BY <1>2, <1>3, ResetStarts
<1>4. ASSUME med' = [Taken EXCEPT !.ended = TRUE]
      PROVE  /\ med'.pc = Taken.pc /\ med'.phase = Taken.phase /\ med'.session = Taken.session
             /\ med'.msgs = Taken.msgs
  BY <1>2, <1>4, MedEnds
<1>5. CASE /\ med.phase = "playing" /\ CanAcceptEnd /\ session' = [session EXCEPT !.ended = TRUE]
           /\ med' = [Taken EXCEPT !.ended = TRUE]
  BY <1>1, <1>2, <1>4, <1>5
<1>6. CASE session' = session /\ med' = StartReset(Taken, FALSE, "error")
  BY <1>1, <1>2, <1>3, <1>6
<1> QED BY <1>1, <1>5, <1>6

LEMMA AfterNotice ==
  ASSUME MedType, DrainPlaybackNotices
  PROVE  /\ med.pc = "idle" /\ notices # <<>> /\ notices' = Tail(notices)
         /\ med'.pc = "idle" /\ med'.msgs = med.msgs
         /\ \/ med' = med
            \/ /\ med.session # 0 /\ Head(notices).session = med.session /\ Head(notices).drained
               /\ med'.phase = "heard" /\ med'.session = 0
            \/ /\ med.session # 0 /\ Head(notices).session = med.session /\ med'.session = 0
               /\ med'.phase = IF med.phase = "heard" THEN "heard" ELSE "wanted"
<1> DEFINE u == [med EXCEPT !.session = 0]
           h == [u EXCEPT !.phase = "heard", !.ended = FALSE]
<1>1. /\ med.pc = "idle" /\ notices # <<>> /\ notices' = Tail(notices)
      /\ \/ med' = med
         \/ /\ med.session # 0 /\ Head(notices).session = med.session /\ Head(notices).drained
            /\ med' = h
         \/ /\ med.session # 0 /\ Head(notices).session = med.session
            /\ med' = FeedError(u)
  BY DEF DrainPlaybackNotices, MedIdle, IsCurrentPlaybackNotice
<1>2. /\ u \in MedSet /\ u.session = 0 /\ u.phase = med.phase /\ u.pc = med.pc /\ u.msgs = med.msgs
      /\ h.session = 0 /\ h.phase = "heard" /\ h.pc = med.pc /\ h.msgs = med.msgs
  BY MedRecord, MedHears
<1> HIDE DEF u, h
<1>3. CASE med.session # 0 /\ Head(notices).session = med.session /\ med' = FeedError(u)
  <2>1. /\ med'.pc = u.pc /\ med'.session = u.session /\ med'.msgs = u.msgs
        /\ med'.phase = IF u.phase = "heard" THEN "heard" ELSE "wanted"
    BY <1>2, <1>3, ErrorFed
  <2> QED BY <1>1, <1>2, <2>1
<1>4. CASE /\ med.session # 0 /\ Head(notices).session = med.session /\ Head(notices).drained
           /\ med' = h
  BY <1>1, <1>2, <1>4
<1>5. CASE med' = med
  BY <1>1, <1>5
<1> QED BY <1>1, <1>3, <1>4, <1>5

LEMMA AfterAdoption ==
  ASSUME MedType, IoType, IngressType, AdoptPlayback
  PROVE  /\ med.pc = "adopt" /\ med'.msgs = med.msgs
         /\ ingress' = IF ingress.bound THEN Disarmed ELSE ingress
         /\ \/ /\ ingress.armed /\ ingress.bound /\ ~ingress.incomplete /\ ResetConfirmed
               /\ session' = [active |-> TRUE, incomplete |-> FALSE, ended |-> FALSE,
                              got |-> ingress.got, wrote |-> 0]
               /\ io' = [io EXCEPT !.session = @ + 1, !.epoch = ingress.epoch]
               /\ med'.pc = "idle" /\ med'.phase = "playing" /\ med'.session = io.session + 1
               /\ heard' = <<>> /\ pl' = [pl EXCEPT !.awake = TRUE]
            \/ /\ session' = session \/ session' = [active |-> FALSE, incomplete |-> TRUE, ended |-> FALSE,
                                                    got |-> 0, wrote |-> 0]
               /\ io' = io /\ heard' = heard /\ pl' = pl
               /\ med'.pc = "lock" /\ med'.then = "error" /\ med'.session = med.session
               /\ med'.phase = IF med.phase = "playing" THEN "aborted" ELSE med.phase
<1>1. CASE CanAdopt /\ MayBeginSession
  <2>1. med' = [med EXCEPT !.pc = "idle", !.phase = "playing", !.session = io.session + 1]
    BY <1>1 DEF AdoptPlayback
  <2>2. /\ med'.pc = "idle" /\ med'.msgs = med.msgs /\ med'.phase = "playing"
        /\ med'.session = io.session + 1
    BY <2>1, MedPlays
  <2>3. session' = BeginSession(ingress.got)
    BY <1>1 DEF AdoptPlayback
  <2>4. session' = [active |-> TRUE, incomplete |-> FALSE, ended |-> FALSE,
                    got |-> ingress.got, wrote |-> 0]
    BY <2>3 DEF BeginSession, Inactive
  <2>5. /\ med.pc = "adopt" /\ ingress' = IF ingress.bound THEN Disarmed ELSE ingress
        /\ io' = [io EXCEPT !.session = @ + 1, !.epoch = ingress.epoch]
        /\ heard' = <<>> /\ pl' = [pl EXCEPT !.awake = TRUE]
    BY <1>1 DEF AdoptPlayback
  <2>6. ingress.armed /\ ingress.bound /\ ~ingress.incomplete /\ ResetConfirmed
    BY <1>1 DEF CanAdopt, MayBeginSession
  <2> QED BY <2>2, <2>4, <2>5, <2>6
<1>2. CASE ~(CanAdopt /\ MayBeginSession)
  <2>1. med' = StartReset(med, FALSE, "error")
    BY <1>2 DEF AdoptPlayback
  <2>2. /\ med'.pc = "lock" /\ med'.then = "error" /\ med'.session = med.session /\ med'.msgs = med.msgs
        /\ med'.phase = IF med.phase = "playing" THEN "aborted" ELSE med.phase
    BY <2>1, MedRecord, ResetStarts
  <2>3. /\ med.pc = "adopt" /\ ingress' = IF ingress.bound THEN Disarmed ELSE ingress
        /\ io' = io /\ heard' = heard /\ pl' = pl
    BY <1>2 DEF AdoptPlayback
  <2>4. session' = session \/ session' = [active |-> FALSE, incomplete |-> TRUE, ended |-> FALSE,
                                          got |-> 0, wrote |-> 0]
    BY <1>2 DEF AdoptPlayback, Inactive
  <2> QED BY <2>2, <2>3, <2>4
<1> QED BY <1>1, <1>2

LEMMA ThenKept ==
  ASSUME [Next]_vars, MedType, IoType, IngressType, ThenInv
  PROVE  ThenInv'
<1>1. CASE HandleCustom
  BY <1>1 DEF HandleCustom, ThenInv, shared, MedType, MedSet
<1>2. CASE ResetLocks
  BY <1>2 DEF ResetLocks, ThenInv, shared, MedType, MedSet
<1>3. CASE ResetDoesNotLock
  BY <1>3 DEF ResetDoesNotLock, ThenInv, shared, MedType, MedSet
<1>4. CASE ResetGate
  BY <1>4 DEF ResetGate, ThenInv, shared, MedType, MedSet
<1>5. CASE ResetRequest
  BY <1>5 DEF ResetRequest, RequestReset, ThenInv, shared, MedType, MedSet
<1>6. CASE ResetReleases
  BY <1>6 DEF ResetReleases, IoReleased, ThenInv, shared, MedType, MedSet
<1>7. CASE ResetReturns
  BY <1>7, AfterReset DEF ThenInv
<1>8. CASE DrainBridgeIngressFault
  BY <1>8, AfterFault DEF ThenInv
<1>9. CASE CleanupObservedDisconnect
  BY <1>9, AfterLoss DEF ThenInv
<1>10. CASE Request
  BY <1>10 DEF Request, MedIdle, ThenInv, shared, MedType, MedSet
<1>11. CASE DropMessages
  BY <1>11 DEF DropMessages, MedIdle, Taken, ThenInv, shared, MedType, MedSet
<1>12. CASE ApplyAudioStart
  BY <1>12, AfterStart DEF ThenInv
<1>13. CASE AdoptPlayback
  BY <1>13, AfterAdoption DEF ThenInv
<1>14. CASE ApplyAudioEnd
  BY <1>14, AfterEnd DEF ThenInv
<1>15. CASE DrainPlaybackNotices
  BY <1>15, AfterNotice DEF ThenInv
<1>16. CASE med' = med
  BY <1>16 DEF ThenInv
<1> QED BY WhoWrites, <1>1, <1>2, <1>3, <1>4, <1>5, <1>6, <1>7, <1>8, <1>9, <1>10, <1>11, <1>12,
  <1>13, <1>14, <1>15, <1>16 DEF Shapes, MedShape

LEMMA CallbackGoes ==
  ASSUME CbType, NEW pc \in {"idle", "reset", "fault", "lock", "reserve", "refused", "send"},
         Callback(pc)
  PROVE  /\ CbType' /\ cb'.pc = pc
         /\ pc # "idle" => /\ cb'.chunk = cb.chunk /\ cb'.epoch = cb.epoch /\ cb'.reset = cb.reset
                           /\ cb'.fault = cb.fault
<1>1. CASE pc = "idle"
  <2>1. cb' = [pc |-> "idle", chunk |-> [conn |-> 0, at |-> 0], epoch |-> 0, reset |-> 0, fault |-> 0]
    BY <1>1 DEF Callback, CallbackIdle, NoChunk
  <2> QED BY <1>1, <2>1 DEF CbType, ChunkSet
<1>2. CASE pc # "idle"
  <2>1. cb' = [cb EXCEPT !.pc = pc]
    BY <1>2 DEF Callback
  <2> QED BY <2>1 DEF CbType
<1> QED BY <1>1, <1>2

LEMMA PlayGoes ==
  ASSUME PlType, NEW pc \in {"wait", "top", "lock", "lockBuffer", "abort", "clear", "incomplete",
                             "receive", "locked", "write", "finish", "drain"},
         Play(pc)
  PROVE  /\ PlType' /\ pl'.pc = pc
         /\ pc \notin {"top", "wait"} =>
              /\ pl'.chunk = pl.chunk /\ pl'.epoch = pl.epoch /\ pl'.reset = pl.reset
              /\ pl'.session = pl.session /\ pl'.report = pl.report
         /\ pc \in {"top", "wait"} => pl'.session = 0 /\ pl'.report = 0
<1>1. CASE pc \in {"top", "wait"}
  <2>1. pl' = [pc |-> pc, awake |-> pl.awake, session |-> 0, epoch |-> 0, reset |-> 0,
               report |-> 0, chunk |-> [conn |-> 0, at |-> 0]]
    BY <1>1 DEF Play, PlayAsleep, NoChunk
  <2> QED BY <1>1, <2>1 DEF PlType, ChunkSet
<1>2. CASE pc \notin {"top", "wait"}
  <2>1. pl' = [pl EXCEPT !.pc = pc]
    BY <1>2 DEF Play
  <2> QED BY <1>2, <2>1 DEF PlType
<1> QED BY <1>1, <1>2

LEMMA CbTyped ==
  ASSUME [Next]_vars, CbType, GateType, IoType, FaultType, NetType
  PROVE  CbType'
<1>1. CASE PlayAudio
  <2>1. cb' = cb \/ cb' = [cb EXCEPT !.pc = "reset", !.epoch = gate.epoch,
                                    !.chunk = [conn |-> net.conn, at |-> net.at - 1]]
    BY <1>1 DEF PlayAudio
  <2>2. [conn |-> net.conn, at |-> net.at - 1] \in ChunkSet
    BY <1>1 DEF PlayAudio, NetType, NetSet, ChunkSet
  <2> DEFINE c == [conn |-> net.conn, at |-> net.at - 1]
  <2> HIDE DEF c
  <2>3. cb' = cb \/ cb' = [cb EXCEPT !.pc = "reset", !.epoch = gate.epoch, !.chunk = c]
    BY <2>1 DEF c
  <2> QED BY <2>2, <2>3, GateEpoch DEF CbType, c
<1>2. CASE PlayAudioReadsReset
  BY <1>2 DEF PlayAudioReadsReset, CbType, shared, IoType, IoSet
<1>3. CASE PlayAudioReadsFault
  BY <1>3 DEF PlayAudioReadsFault, CbType, shared, FaultType
<1>4. CASE PlayAudioLocks
  <2>1. Callback("reserve") \/ Callback("idle")
    BY <1>4 DEF PlayAudioLocks
  <2> QED BY <2>1, CallbackGoes
<1>5. CASE PlayAudioReserves
  <2>1. Callback("refused") \/ Callback("send")
    BY <1>5 DEF PlayAudioReserves
  <2> QED BY <2>1, CallbackGoes
<1>6. CASE PlayAudioRefused
  <2>1. Callback("idle")
    BY <1>6 DEF PlayAudioRefused, PlayAudioLeaves
  <2> QED BY <2>1, CallbackGoes
<1>7. CASE PlayAudioSends
  <2>1. Callback("idle")
    BY <1>7 DEF PlayAudioSends, PlayAudioLeaves
  <2> QED BY <2>1, CallbackGoes
<1>8. CASE PlayAudioOverflows
  <2>1. Callback("idle")
    BY <1>8 DEF PlayAudioOverflows, PlayAudioLeaves
  <2> QED BY <2>1, CallbackGoes
<1>9. CASE cb' = cb
  BY <1>9 DEF CbType
<1> QED BY WhoWrites, <1>1, <1>2, <1>3, <1>4, <1>5, <1>6, <1>7, <1>8, <1>9 DEF Shapes, CbShape

LEMMA PlTyped ==
  ASSUME [Next]_vars, PlType, IoType, AbortType, BufferType
  PROVE  PlType'
<1>1. CASE PlayAudioOverflows
  <2>1. pl' = pl \/ pl' = [pl EXCEPT !.awake = TRUE]
    BY <1>1 DEF PlayAudioOverflows
  <2> QED BY <2>1, PlayGoes DEF PlType
<1>2. CASE ResetReleases
  BY <1>2 DEF ResetReleases, IoReleased, PlType, shared
<1>3. CASE AdoptPlayback
  <2>1. pl' = pl \/ pl' = [pl EXCEPT !.awake = TRUE]
    BY <1>3 DEF AdoptPlayback
  <2> QED BY <2>1, PlayGoes DEF PlType
<1>4. CASE ApplyAudioEnd
  <2>1. pl' = pl \/ pl' = [pl EXCEPT !.awake = TRUE]
    BY <1>4 DEF ApplyAudioEnd
  <2> QED BY <2>1, PlayGoes DEF PlType
<1>5. CASE PlayWakes
  BY <1>5 DEF PlayWakes, PlType, shared
<1>6. CASE PlayStartsReset
  <2>1. Play("lock")
    BY <1>6 DEF PlayStartsReset
  <2> QED BY <2>1, PlayGoes
<1>7. CASE PlayResetLocks
  <2>1. pl' = [pl EXCEPT !.pc = "lockBuffer", !.reset = io.requested]
    BY <1>7 DEF PlayResetLocks
  <2> QED BY <2>1, PlayGoes DEF PlType, IoType, IoSet
<1>8. CASE PlayResetLocksBuffer
  <2>1. Play("abort")
    BY <1>8 DEF PlayResetLocksBuffer
  <2> QED BY <2>1, PlayGoes
<1>9. CASE PlayAborts
  BY <1>9 DEF PlayAborts, Abort, InvalidateSession, Disarmed, PlType, shared, AbortType
<1>10. CASE PlayAcknowledges
  <2>1. Play("wait")
    BY <1>10 DEF PlayAcknowledges
  <2> QED BY <2>1, PlayGoes
<1>11. CASE PlayResetFails
  <2>1. Play("top")
    BY <1>11 DEF PlayResetFails
  <2> QED BY <2>1, PlayGoes
<1>12. CASE PlayReads
  <2>1. \/ Play("wait")
        \/ pl' = [pl EXCEPT !.session = io.session, !.epoch = io.epoch, !.pc = "incomplete"]
        \/ pl' = [pl EXCEPT !.session = io.session, !.epoch = io.epoch, !.pc = "receive"]
    BY <1>12 DEF PlayReads
  <2>2. io.session \in Nat /\ io.epoch \in Nat
    BY DEF IoType, IoSet
  <2>3. CASE Play("wait")
    BY <2>3, PlayGoes
  <2> QED BY <2>1, <2>2, <2>3 DEF PlType
<1>13. CASE PlayIncomplete
  <2>1. Play("top")
    BY <1>13 DEF PlayIncomplete
  <2> QED BY <2>1, PlayGoes
<1>14. CASE PlayReceives
  <2>1. \/ buffer # <<>> /\ pl' = [pl EXCEPT !.pc = "locked", !.chunk = Head(buffer)]
        \/ Play("finish")
    BY <1>14 DEF PlayReceives
  <2>2. CASE Play("finish")
    BY <2>2, PlayGoes
  <2>3. buffer # <<>> => Head(buffer) \in ChunkSet
    BY HeadTailProperties DEF BufferType
  <2> QED BY <2>1, <2>2, <2>3 DEF PlType
<1>15. CASE PlayLocks
  <2>1. Play("write") \/ Play("top")
    BY <1>15 DEF PlayLocks
  <2> QED BY <2>1, PlayGoes
<1>16. CASE PlayWrites
  <2>1. pl' = [pl EXCEPT !.pc = "finish", !.chunk = NoChunk] \/ Play("top")
    BY <1>16 DEF PlayWrites
  <2>2. CASE Play("top")
    BY <2>2, PlayGoes
  <2>3. NoChunk \in ChunkSet
    BY DEF NoChunk, ChunkSet
  <2> QED BY <2>1, <2>2, <2>3 DEF PlType
<1>17. CASE PlayWriteFails
  <2>1. Play("top")
    BY <1>17 DEF PlayWriteFails
  <2> QED BY <2>1, PlayGoes
<1>18. CASE PlayFinishes
  <2>1. Play("drain") \/ Play("top")
    BY <1>18 DEF PlayFinishes
  <2> QED BY <2>1, PlayGoes
<1>19. CASE PlayDrained
  <2>1. Play("wait") \/ Play("top")
    BY <1>19 DEF PlayDrained
  <2> QED BY <2>1, PlayGoes
<1>20. CASE pl' = pl
  BY <1>20 DEF PlType
<1> QED BY WhoWrites, <1>1, <1>2, <1>3, <1>4, <1>5, <1>6, <1>7, <1>8, <1>9, <1>10, <1>11, <1>12,
  <1>13, <1>14, <1>15, <1>16, <1>17, <1>18, <1>19, <1>20 DEF Shapes, PlShape

LEMMA NetTyped ==
  ASSUME [Next]_vars, NetType, ThenInv
  PROVE  NetType'
<1>1. CASE HandleCustom
  <2>1. net' = [net EXCEPT !.at = 0] \/ net' = [net EXCEPT !.at = net.at + 1]
    BY <1>1 DEF HandleCustom
  <2>2. net.at + 1 \in Nat
    BY DEF NetType, NetSet
  <2> QED BY <2>1, <2>2 DEF NetType, NetSet
<1>2. CASE PlayAudio
  <2>1. net' = [net EXCEPT !.at = net.at + 1] /\ net.at + 1 \in Nat
    BY <1>2 DEF PlayAudio, NetType, NetSet
  <2> QED BY <2>1 DEF NetType, NetSet
<1>3. CASE ResetReturns
  <2>1. med.then \in {"boundary", "lost", "error", "restart"}
    BY <1>3 DEF ThenInv, ResetReturns
  <2>2. net' = net \/ net' = Stopped
    BY <1>3, <2>1 DEF ResetReturns
  <2>3. [net EXCEPT !.link = "down", !.lost = FALSE, !.at = 0] \in NetSet
    BY DEF NetType, NetSet
  <2> QED BY <2>2, <2>3 DEF NetType, Stopped
<1>4. CASE CleanupObservedDisconnect
  BY <1>4 DEF CleanupObservedDisconnect, MedIdle, StartReset, NetType, NetSet, shared
<1>5. CASE Request
  BY <1>5 DEF Request, MedIdle, NetType, NetSet, shared
<1>6. CASE Connect
  <2>1. net' = [net EXCEPT !.link = "up", !.conn = net.conn + 1] /\ net.conn + 1 \in Nat
    BY <1>6 DEF Connect, NetType, NetSet
  <2> QED BY <2>1 DEF NetType, NetSet
<1>7. CASE Lose
  BY <1>7 DEF Lose, NetType, NetSet, shared
<1>8. CASE LossSeen
  BY <1>8 DEF LossSeen, NetType, NetSet, shared
<1>9. CASE net' = net
  BY <1>9 DEF NetType, NetSet
<1> QED BY WhoWrites, <1>1, <1>2, <1>3, <1>4, <1>5, <1>6, <1>7, <1>8, <1>9 DEF Shapes, NetShape

LEMMA TypesStep == ASSUME [Next]_vars, TypeOK PROVE TypeOK'
BY GateTyped, IoTyped, LockTyped, SessionTyped, IngressTyped, FaultTyped, BufferTyped, HeardTyped,
   AbortTyped, NoticesTyped, MedTyped, CbTyped, PlTyped, NetTyped, ThenKept DEF TypeOK

----------------------------------------------------------------------------
(* What each step does to the parts of the state.                          *)

LEMMA HandleCustomDoes ==
  ASSUME TypeOK, HandleCustom
  PROVE  /\ cb.pc = "idle"
         /\ \/ net.at = LastItem /\ net'.at = 0
            \/ net.at = 1 /\ net'.at = 2
         /\ net'.link = net.link /\ net'.conn = net.conn /\ med'.pc = med.pc
         /\ med'.locked = med.locked /\ med'.phase = med.phase /\ med'.session = med.session
         /\ \/ ~gate.open /\ med'.msgs = med.msgs
            \/ /\ gate.open
               /\ med'.msgs = Append(med.msgs, [t |-> IF net.at = 1 THEN "start" ELSE "end", epoch |-> gate.epoch])
         /\ UNCHANGED <<gate, io, lock, session, ingress, buffer, abort, notices, fault, cb,
              pl, heard>>
<1>0. UNCHANGED <<gate, io, lock, session, ingress, buffer, abort, notices, fault, cb, pl, heard>>
  BY DEF HandleCustom, shared
<1>1. cb.pc = "idle"
  BY DEF HandleCustom
<1>2. /\ \/ net.at = LastItem /\ net'.at = 0
         \/ net.at = 1 /\ net'.at = 2
      /\ net'.link = net.link /\ net'.conn = net.conn
  <2>1. NetType
    BY DEF TypeOK
  <2>2. /\ net.at = LastItem \/ net.at = 1
        /\ net' = [net EXCEPT !.at = IF @ = LastItem THEN 0 ELSE @ + 1]
    BY DEF HandleCustom
  <2>3. CASE net.at = LastItem
    <3>1. net' = [net EXCEPT !.at = 0]
      BY <2>2, <2>3
    <3> QED BY <2>1, <2>3, <3>1 DEF NetType, NetSet
  <2>4. CASE net.at = 1
    <3>1. 1 # LastItem
      BY ChunksNat DEF LastItem
    <3>2. net' = [net EXCEPT !.at = 2]
      BY <2>2, <2>4, <3>1
    <3> QED BY <2>1, <2>4, <3>2 DEF NetType, NetSet
  <2> QED BY <2>2, <2>3, <2>4
<1>3. /\ med'.pc = med.pc /\ med'.locked = med.locked /\ med'.phase = med.phase
      /\ med'.session = med.session
  <2>1. MedType
    BY DEF TypeOK
  <2> QED BY <2>1 DEF HandleCustom, MedType, MedSet
<1>4. /\ \/ ~gate.open /\ med'.msgs = med.msgs
         \/ /\ gate.open
            /\ med'.msgs = Append(med.msgs, [t |-> IF net.at = 1 THEN "start" ELSE "end", epoch |-> gate.epoch])
  <2>1. MedType
    BY DEF TypeOK
  <2> QED BY <2>1 DEF HandleCustom, MedType, MedSet
<1> QED BY <1>0, <1>1, <1>2, <1>3, <1>4

LEMMA PlayAudioDoes ==
  ASSUME TypeOK, PlayAudio
  PROVE  /\ cb.pc = "idle" /\ net.at \in 2..(Chunks + 1) /\ net'.at = net.at + 1
         /\ net'.link = net.link /\ net'.conn = net.conn
         /\ \/ ~gate.open /\ cb' = cb
            \/ /\ gate.open /\ cb'.pc = "reset" /\ cb'.epoch = gate.epoch
               /\ cb'.chunk = [conn |-> net.conn, at |-> net.at - 1]
         /\ UNCHANGED <<gate, io, lock, session, ingress, buffer, abort, notices, fault,
              med, pl, heard>>
<1>0. UNCHANGED <<gate, io, lock, session, ingress, buffer, abort, notices, fault, med, pl, heard>>
  BY DEF PlayAudio, shared
<1>1. cb.pc = "idle" /\ net.at \in 2..(Chunks + 1)
  BY DEF PlayAudio
<1>2. net'.at = net.at + 1 /\ net'.link = net.link /\ net'.conn = net.conn
  <2>1. NetType
    BY DEF TypeOK
  <2> QED BY <2>1 DEF PlayAudio, NetType, NetSet
<1>3. /\ \/ ~gate.open /\ cb' = cb
         \/ /\ gate.open /\ cb'.pc = "reset" /\ cb'.epoch = gate.epoch
            /\ cb'.chunk = [conn |-> net.conn, at |-> net.at - 1]
  <2>1. CbType
    BY DEF TypeOK
  <2> QED BY <2>1 DEF PlayAudio, CbType
<1> QED BY <1>0, <1>1, <1>2, <1>3

LEMMA PlayAudioReadsResetDoes ==
  ASSUME TypeOK, PlayAudioReadsReset
  PROVE  /\ cb.pc = "reset" /\ cb'.pc = "fault" /\ cb'.reset = io.requested
         /\ cb'.chunk = cb.chunk /\ cb'.epoch = cb.epoch
         /\ UNCHANGED <<gate, io, lock, session, ingress, buffer, abort, notices, fault,
              med, pl, net, heard>>
<1>0. UNCHANGED <<gate, io, lock, session, ingress, buffer, abort, notices, fault, med, pl, net, heard>>
  BY DEF PlayAudioReadsReset, shared
<1>1. /\ cb.pc = "reset" /\ cb'.pc = "fault" /\ cb'.reset = io.requested /\ cb'.chunk = cb.chunk
      /\ cb'.epoch = cb.epoch
  <2>1. CbType
    BY DEF TypeOK
  <2> QED BY <2>1 DEF PlayAudioReadsReset, CbType
<1> QED BY <1>0, <1>1

LEMMA PlayAudioReadsFaultDoes ==
  ASSUME TypeOK, PlayAudioReadsFault
  PROVE  /\ cb.pc = "fault" /\ cb'.pc = "lock" /\ cb'.chunk = cb.chunk /\ cb'.epoch = cb.epoch
         /\ cb'.reset = cb.reset
         /\ UNCHANGED <<gate, io, lock, session, ingress, buffer, abort, notices, fault,
              med, pl, net, heard>>
<1>0. UNCHANGED <<gate, io, lock, session, ingress, buffer, abort, notices, fault, med, pl, net, heard>>
  BY DEF PlayAudioReadsFault, shared
<1>1. /\ cb.pc = "fault" /\ cb'.pc = "lock" /\ cb'.chunk = cb.chunk /\ cb'.epoch = cb.epoch
      /\ cb'.reset = cb.reset
  <2>1. CbType
    BY DEF TypeOK
  <2> QED BY <2>1 DEF PlayAudioReadsFault, CbType
<1> QED BY <1>0, <1>1

LEMMA PlayAudioLocksDoes ==
  ASSUME TypeOK, PlayAudioLocks
  PROVE  /\ cb.pc = "lock"
         /\ \/ /\ lock.buffer = "none" /\ lock'.buffer = "callback" /\ lock'.io = lock.io
               /\ cb'.pc = "reserve" /\ cb'.chunk = cb.chunk /\ cb'.epoch = cb.epoch /\ cb'.reset = cb.reset
            \/ lock.buffer # "none" /\ lock' = lock /\ cb'.pc = "idle"
         /\ UNCHANGED <<gate, io, session, ingress, buffer, abort, notices, fault, med, pl,
              net, heard>>
<1>0. UNCHANGED <<gate, io, session, ingress, buffer, abort, notices, fault, med, pl, net, heard>>
  BY DEF PlayAudioLocks, shared
<1>1. /\ cb.pc = "lock"
      /\ \/ /\ lock.buffer = "none" /\ lock'.buffer = "callback" /\ lock'.io = lock.io
            /\ cb'.pc = "reserve" /\ cb'.chunk = cb.chunk /\ cb'.epoch = cb.epoch /\ cb'.reset = cb.reset
         \/ lock.buffer # "none" /\ lock' = lock /\ cb'.pc = "idle"
  <2>1. LockType /\ CbType
    BY DEF TypeOK
  <2> QED BY <2>1, CallbackGoes DEF PlayAudioLocks, BufferFree, LockType
<1> QED BY <1>0, <1>1

LEMMA PlayAudioReservesDoes ==
  ASSUME TypeOK, PlayAudioReserves
  PROVE  /\ cb.pc = "reserve" /\ cb'.pc \in {"send", "refused"} /\ cb'.chunk = cb.chunk
         /\ cb'.epoch = cb.epoch /\ cb'.reset = cb.reset
         /\ ~Current => cb'.pc = "refused" /\ session' = session /\ ingress' = ingress
         /\ Current /\ session.active =>
              /\ ingress' = ingress /\ session'.active /\ session'.wrote = session.wrote
              /\ cb'.pc = "refused" => session'.incomplete
              /\ cb'.pc = "send" => /\ ~session'.incomplete /\ ~session.incomplete
                                     /\ session'.got = session.got + 1
         /\ Current /\ ~session.active =>
              /\ session' = session /\ ingress'.armed
              /\ ingress.armed => ingress'.epoch = ingress.epoch
              /\ ~ingress.armed => ingress'.epoch = cb.epoch
              /\ cb'.pc = "refused" => ingress'.incomplete \/ ingress'.epoch # cb.epoch
              /\ cb'.pc = "send" =>
                   /\ ~ingress'.incomplete /\ (ingress.armed => ~ingress.incomplete)
                   /\ ingress'.got = (IF ingress.armed THEN ingress.got ELSE 0) + 1
         /\ UNCHANGED <<gate, io, lock, buffer, abort, notices, fault, med, pl, net, heard>>
<1>0. UNCHANGED <<gate, io, lock, buffer, abort, notices, fault, med, pl, net, heard>>
  BY DEF PlayAudioReserves, shared
<1>1. /\ cb.pc = "reserve" /\ cb'.pc \in {"send", "refused"} /\ cb'.chunk = cb.chunk
      /\ cb'.epoch = cb.epoch /\ cb'.reset = cb.reset
  <2>1. CbType
    BY DEF TypeOK
  <2> QED BY <2>1, CallbackGoes DEF PlayAudioReserves
<1>2. ~Current => cb'.pc = "refused" /\ session' = session /\ ingress' = ingress
  <2>1. CbType
    BY DEF TypeOK
  <2> QED BY <2>1, CallbackGoes DEF PlayAudioReserves
<1>3. /\ Current /\ session.active =>
           /\ ingress' = ingress /\ session'.active /\ session'.wrote = session.wrote
           /\ cb'.pc = "refused" => session'.incomplete
           /\ cb'.pc = "send" => /\ ~session'.incomplete /\ ~session.incomplete
                                  /\ session'.got = session.got + 1
  <2>1. SessionType /\ CbType
    BY DEF TypeOK
  <2> QED BY <2>1, CallbackGoes DEF PlayAudioReserves, ReserveChunk, FailIngress, SessionType,
    SessionSet
<1>4. /\ Current /\ ~session.active =>
           /\ session' = session /\ ingress'.armed
           /\ ingress.armed => ingress'.epoch = ingress.epoch
           /\ ~ingress.armed => ingress'.epoch = cb.epoch
           /\ cb'.pc = "refused" => ingress'.incomplete \/ ingress'.epoch # cb.epoch
           /\ cb'.pc = "send" =>
                /\ ~ingress'.incomplete /\ (ingress.armed => ~ingress.incomplete)
                /\ ingress'.got = (IF ingress.armed THEN ingress.got ELSE 0) + 1
  <2> SUFFICES ASSUME Current, ~session.active
               PROVE  /\ session' = session /\ ingress'.armed
                      /\ ingress.armed => ingress'.epoch = ingress.epoch
                      /\ ~ingress.armed => ingress'.epoch = cb.epoch
                      /\ cb'.pc = "refused" => ingress'.incomplete \/ ingress'.epoch # cb.epoch
                      /\ cb'.pc = "send" =>
                           /\ ~ingress'.incomplete /\ (ingress.armed => ~ingress.incomplete)
                           /\ ingress'.got = (IF ingress.armed THEN ingress.got ELSE 0) + 1
    OBVIOUS
  <2> DEFINE g == Arm(cb.epoch)
  <2>1. CbType /\ IngressType /\ cb.epoch \in Nat
    BY DEF TypeOK, CbType
  <2>2. /\ g \in IngressSet /\ g.armed
        /\ ingress.armed => g = ingress
        /\ ~ingress.armed => g.got = 0 /\ ~g.incomplete /\ g.epoch = cb.epoch
    BY <2>1, Armed
  <2>3. /\ session' = session /\ ingress' = ReserveIngress.g
        /\ Callback(IF ReserveIngress.ok THEN "send" ELSE "refused")
    BY DEF PlayAudioReserves
  <2>4. /\ ReserveIngress.ok => /\ g.epoch = cb.epoch /\ ~g.incomplete
                                /\ ReserveIngress.g = [g EXCEPT !.got = @ + 1]
        /\ ~ReserveIngress.ok => \/ g.epoch # cb.epoch /\ ReserveIngress.g = g
                                 \/ ReserveIngress.g = [g EXCEPT !.incomplete = TRUE]
    BY <2>1, Reservation
  <2> HIDE DEF g
  <2>5. CASE ReserveIngress.ok
    <3>0. Callback("send")
      BY <2>3, <2>5
    <3>1. cb'.pc = "send" /\ ingress' = [g EXCEPT !.got = @ + 1]
      BY <2>1, <2>3, <2>4, <2>5, <3>0, CallbackGoes
    <3>2. ingress'.armed /\ ingress'.epoch = g.epoch /\ ingress'.incomplete = g.incomplete
          /\ ingress'.got = g.got + 1
      BY <2>2, <3>1 DEF IngressSet
    <3> QED BY <2>2, <2>3, <2>4, <2>5, <3>1, <3>2
  <2>6. CASE ~ReserveIngress.ok
    <3>0. Callback("refused")
      BY <2>3, <2>6
    <3>1. cb'.pc = "refused"
      BY <2>1, <3>0, CallbackGoes
    <3>2. \/ g.epoch # cb.epoch /\ ingress' = g
          \/ ingress' = [g EXCEPT !.incomplete = TRUE]
      BY <2>3, <2>4, <2>6
    <3>3. ingress'.armed /\ ingress'.epoch = g.epoch /\ (ingress'.incomplete \/ g.epoch # cb.epoch)
      BY <2>2, <3>2 DEF IngressSet
    <3> QED BY <2>2, <2>3, <3>1, <3>3
  <2> QED BY <2>5, <2>6
<1> QED BY <1>0, <1>1, <1>2, <1>3, <1>4

LEMMA PlayAudioRefusedDoes ==
  ASSUME TypeOK, PlayAudioRefused
  PROVE  /\ cb.pc = "refused" /\ cb'.pc = "idle" /\ lock'.buffer = "none" /\ lock'.io = lock.io
         /\ UNCHANGED <<gate, io, session, ingress, buffer, abort, notices, med, pl, net,
              heard>>
<1>0. UNCHANGED <<gate, io, session, ingress, buffer, abort, notices, med, pl, net, heard>>
  BY DEF PlayAudioRefused, shared, PlayAudioLeaves
<1>1. cb.pc = "refused" /\ cb'.pc = "idle" /\ lock'.buffer = "none" /\ lock'.io = lock.io
  <2>1. LockType /\ CbType
    BY DEF TypeOK
  <2> QED BY <2>1, CallbackGoes DEF PlayAudioRefused, PlayAudioLeaves, LockType
<1> QED BY <1>0, <1>1

LEMMA PlayAudioSendsDoes ==
  ASSUME TypeOK, PlayAudioSends
  PROVE  /\ cb.pc = "send" /\ buffer' = Append(buffer, cb.chunk) /\ cb'.pc = "idle"
         /\ lock'.buffer = "none" /\ lock'.io = lock.io
         /\ UNCHANGED <<gate, io, session, ingress, abort, notices, med, pl, net, heard>>
<1>0. UNCHANGED <<gate, io, session, ingress, abort, notices, med, pl, net, heard>>
  BY DEF PlayAudioSends, shared, PlayAudioLeaves
<1>1. /\ cb.pc = "send" /\ buffer' = Append(buffer, cb.chunk) /\ cb'.pc = "idle"
      /\ lock'.buffer = "none" /\ lock'.io = lock.io
  <2>1. LockType /\ CbType
    BY DEF TypeOK
  <2> QED BY <2>1, CallbackGoes DEF PlayAudioSends, PlayAudioLeaves, LockType
<1> QED BY <1>0, <1>1

LEMMA PlayAudioOverflowsDoes ==
  ASSUME TypeOK, PlayAudioOverflows
  PROVE  /\ cb.pc = "send" /\ cb'.pc = "idle" /\ lock'.buffer = "none" /\ lock'.io = lock.io
         /\ pl'.pc = pl.pc /\ pl'.session = pl.session /\ pl'.epoch = pl.epoch
         /\ pl'.reset = pl.reset /\ pl'.report = pl.report /\ pl'.chunk = pl.chunk
         /\ session'.active = session.active /\ session'.got = session.got
         /\ session'.wrote = session.wrote /\ ingress'.armed = ingress.armed
         /\ ingress'.got = ingress.got /\ ingress'.epoch = ingress.epoch
         /\ \/ ~Current /\ session' = session /\ ingress' = ingress
            \/ Current /\ ingress.armed /\ ingress'.incomplete /\ session' = session
            \/ /\ Current /\ ~ingress.armed /\ ingress' = ingress
               /\ session.active \/ session.incomplete => session'.incomplete
         /\ UNCHANGED <<gate, io, buffer, abort, notices, med, net, heard>>
<1>0. UNCHANGED <<gate, io, buffer, abort, notices, med, net, heard>>
  BY DEF PlayAudioOverflows, shared, PlayAudioLeaves
<1>1. cb.pc = "send" /\ cb'.pc = "idle" /\ lock'.buffer = "none" /\ lock'.io = lock.io
  <2>1. LockType /\ CbType
    BY DEF TypeOK
  <2> QED BY <2>1, CallbackGoes DEF PlayAudioOverflows, PlayAudioLeaves, LockType
<1>2. /\ pl'.pc = pl.pc /\ pl'.session = pl.session /\ pl'.epoch = pl.epoch
      /\ pl'.reset = pl.reset /\ pl'.report = pl.report /\ pl'.chunk = pl.chunk
  <2>1. PlType
    BY DEF TypeOK
  <2> QED BY <2>1 DEF PlayAudioOverflows, PlType
<1>3. /\ session'.active = session.active /\ session'.got = session.got
      /\ session'.wrote = session.wrote /\ ingress'.armed = ingress.armed
      /\ ingress'.got = ingress.got /\ ingress'.epoch = ingress.epoch
  <2>1. SessionType /\ IngressType
    BY DEF TypeOK
  <2> QED BY <2>1 DEF PlayAudioOverflows, FailIngress, SessionType, SessionSet, IngressType,
    IngressSet
<1>4. /\ \/ ~Current /\ session' = session /\ ingress' = ingress
         \/ Current /\ ingress.armed /\ ingress'.incomplete /\ session' = session
         \/ /\ Current /\ ~ingress.armed /\ ingress' = ingress
            /\ session.active \/ session.incomplete => session'.incomplete
  <2>1. SessionType /\ IngressType
    BY DEF TypeOK
  <2> QED BY <2>1 DEF PlayAudioOverflows, FailIngress, SessionType, SessionSet, IngressType,
    IngressSet
<1> QED BY <1>0, <1>1, <1>2, <1>3, <1>4

LEMMA ResetLocksDoes ==
  ASSUME TypeOK, ResetLocks
  PROVE  /\ med.pc = "lock" /\ lock.io = "none" /\ lock'.io = "mediation"
         /\ lock'.buffer = lock.buffer /\ med'.pc = "gate" /\ med'.locked
         /\ med'.phase = med.phase /\ med'.session = med.session /\ med'.msgs = med.msgs
         /\ UNCHANGED <<gate, io, session, ingress, buffer, abort, notices, fault, cb, pl,
              net, heard>>
<1>0. UNCHANGED <<gate, io, session, ingress, buffer, abort, notices, fault, cb, pl, net, heard>>
  BY DEF ResetLocks, shared
<1>1. /\ med.pc = "lock" /\ lock.io = "none" /\ lock'.io = "mediation"
      /\ lock'.buffer = lock.buffer
  <2>1. LockType
    BY DEF TypeOK
  <2> QED BY <2>1 DEF ResetLocks, LockType
<1>2. /\ med'.pc = "gate" /\ med'.locked /\ med'.phase = med.phase /\ med'.session = med.session
      /\ med'.msgs = med.msgs
  <2>1. MedType
    BY DEF TypeOK
  <2> QED BY <2>1 DEF ResetLocks, MedType, MedSet
<1> QED BY <1>0, <1>1, <1>2

LEMMA ResetDoesNotLockDoes ==
  ASSUME TypeOK, ResetDoesNotLock
  PROVE  /\ med.pc = "lock" /\ med'.pc = "gate" /\ ~med'.locked /\ med'.phase = med.phase
         /\ med'.session = med.session /\ med'.msgs = med.msgs
         /\ UNCHANGED <<gate, io, lock, session, ingress, buffer, abort, notices, fault, cb,
              pl, net, heard>>
<1>0. UNCHANGED <<gate, io, lock, session, ingress, buffer, abort, notices, fault, cb, pl, net, heard>>
  BY DEF ResetDoesNotLock, shared
<1>1. /\ med.pc = "lock" /\ med'.pc = "gate" /\ ~med'.locked /\ med'.phase = med.phase
      /\ med'.session = med.session /\ med'.msgs = med.msgs
  <2>1. MedType
    BY DEF TypeOK
  <2> QED BY <2>1 DEF ResetDoesNotLock, MedType, MedSet
<1> QED BY <1>0, <1>1

LEMMA ResetGateDoes ==
  ASSUME TypeOK, ResetGate
  PROVE  /\ med.pc = "gate" /\ med'.pc = "request" /\ med'.locked = med.locked
         /\ med'.phase = med.phase /\ med'.session = med.session /\ med'.msgs = med.msgs
         /\ gate'.open => gate.open /\ gate'.epoch = gate.epoch
         /\ UNCHANGED <<io, lock, session, ingress, buffer, abort, notices, fault, cb, pl,
              net, heard>>
<1>0. UNCHANGED <<io, lock, session, ingress, buffer, abort, notices, fault, cb, pl, net, heard>>
  BY DEF ResetGate, shared
<1>1. /\ med.pc = "gate" /\ med'.pc = "request" /\ med'.locked = med.locked
      /\ med'.phase = med.phase /\ med'.session = med.session /\ med'.msgs = med.msgs
  <2>1. MedType
    BY DEF TypeOK
  <2> QED BY <2>1 DEF ResetGate, MedType, MedSet
<1>2. gate'.open => gate.open /\ gate'.epoch = gate.epoch
  <2>1. GateType
    BY DEF TypeOK
  <2> QED BY <2>1 DEF ResetGate, GateType
<1> QED BY <1>0, <1>1, <1>2

LEMMA ResetRequestDoes ==
  ASSUME TypeOK, ResetRequest
  PROVE  /\ med.pc = "request" /\ med'.pc = "release" /\ med'.locked = med.locked
         /\ med'.phase = med.phase /\ med'.session = med.session /\ med'.msgs = med.msgs
         /\ io'.requested = io.requested + 1 /\ io'.acknowledged = io.acknowledged
         /\ io'.session = io.session /\ io'.epoch = io.epoch
         /\ UNCHANGED <<gate, lock, session, ingress, buffer, abort, notices, fault, cb, pl,
              net, heard>>
<1>0. UNCHANGED <<gate, lock, session, ingress, buffer, abort, notices, fault, cb, pl, net, heard>>
  BY DEF ResetRequest, shared
<1>1. /\ med.pc = "request" /\ med'.pc = "release" /\ med'.locked = med.locked
      /\ med'.phase = med.phase /\ med'.session = med.session /\ med'.msgs = med.msgs
  <2>1. MedType
    BY DEF TypeOK
  <2> QED BY <2>1 DEF ResetRequest, MedType, MedSet
<1>2. /\ io'.requested = io.requested + 1 /\ io'.acknowledged = io.acknowledged
      /\ io'.session = io.session /\ io'.epoch = io.epoch
  <2>1. IoType
    BY DEF TypeOK
  <2> QED BY <2>1 DEF ResetRequest, RequestReset, IoType, IoSet
<1> QED BY <1>0, <1>1, <1>2

LEMMA ResetReleasesDoes ==
  ASSUME TypeOK, ResetReleases
  PROVE  /\ med.pc = "release" /\ med'.pc = "confirm" /\ med'.locked = med.locked
         /\ med'.phase = med.phase /\ med'.session = med.session /\ med'.msgs = med.msgs
         /\ pl'.pc = pl.pc /\ pl'.session = pl.session /\ pl'.epoch = pl.epoch
         /\ pl'.reset = pl.reset /\ pl'.report = pl.report /\ pl'.chunk = pl.chunk
         /\ lock'.buffer = lock.buffer
         /\ lock'.io = IF med.locked THEN "none" ELSE lock.io
         /\ UNCHANGED <<gate, io, session, ingress, buffer, abort, notices, cb, net, heard>>
<1>0. UNCHANGED <<gate, io, session, ingress, buffer, abort, notices, cb, net, heard>>
  BY DEF ResetReleases, shared
<1>1. /\ med.pc = "release" /\ med'.pc = "confirm" /\ med'.locked = med.locked
      /\ med'.phase = med.phase /\ med'.session = med.session /\ med'.msgs = med.msgs
  <2>1. MedType
    BY DEF TypeOK
  <2> QED BY <2>1 DEF ResetReleases, MedType, MedSet
<1>2. /\ pl'.pc = pl.pc /\ pl'.session = pl.session /\ pl'.epoch = pl.epoch
      /\ pl'.reset = pl.reset /\ pl'.report = pl.report /\ pl'.chunk = pl.chunk
  <2>1. PlType
    BY DEF TypeOK
  <2> QED BY <2>1 DEF ResetReleases, PlType
<1>3. /\ lock'.buffer = lock.buffer
      /\ lock'.io = IF med.locked THEN "none" ELSE lock.io
  <2>1. LockType
    BY DEF TypeOK
  <2> QED BY <2>1 DEF ResetReleases, IoReleased, LockType
<1> QED BY <1>0, <1>1, <1>2, <1>3

LEMMA ResetReturnsDoes ==
  ASSUME TypeOK, ResetReturns
  PROVE  /\ med.pc = "confirm" /\ med'.session = med.session /\ med'.phase # "playing"
         /\ med'.phase = "heard" <=> med.phase = "heard"
         /\ \/ med'.pc = "lock" /\ med'.msgs = <<>> /\ net' = net
            \/ med'.pc = "idle" /\ med'.msgs = med.msgs /\ net' = net
            \/ /\ med'.pc = "idle" /\ med'.msgs = <<>> /\ cb.pc = "idle"
               /\ net'.link = "down" /\ net'.conn = net.conn /\ net'.at = 0
         /\ UNCHANGED <<gate, io, lock, session, ingress, buffer, abort, notices, cb, pl,
              heard>>
<1>0. UNCHANGED <<gate, io, lock, session, ingress, buffer, abort, notices, cb, pl, heard>>
  BY DEF ResetReturns, shared
<1>1. med.pc = "confirm"
  BY DEF ResetReturns
<1>2. /\ med'.session = med.session /\ med'.phase # "playing"
      /\ med'.phase = "heard" <=> med.phase = "heard"
      /\ \/ med'.pc = "lock" /\ med'.msgs = <<>> /\ net' = net
         \/ med'.pc = "idle" /\ med'.msgs = med.msgs /\ net' = net
         \/ /\ med'.pc = "idle" /\ med'.msgs = <<>> /\ cb.pc = "idle"
            /\ net'.link = "down" /\ net'.conn = net.conn /\ net'.at = 0
  <2>1. NetType /\ MedType /\ ThenInv
    BY DEF TypeOK
  <2> QED BY <2>1, AfterReset DEF Stopped, NetType, NetSet
<1> QED BY <1>0, <1>1, <1>2

LEMMA DrainBridgeIngressFaultDoes ==
  ASSUME TypeOK, DrainBridgeIngressFault
  PROVE  /\ med.pc = "idle"
         /\ \/ med' = med
            \/ /\ med'.pc = "lock" /\ med'.session = med.session
               /\ med'.phase = IF med.phase = "playing" THEN "aborted" ELSE med.phase
         /\ UNCHANGED <<gate, io, lock, session, ingress, buffer, abort, notices, cb, pl,
              net, heard>>
<1>0. UNCHANGED <<gate, io, lock, session, ingress, buffer, abort, notices, cb, pl, net, heard>>
  BY DEF DrainBridgeIngressFault, shared
<1>1. /\ med.pc = "idle"
      /\ \/ med' = med
         \/ /\ med'.pc = "lock" /\ med'.session = med.session
            /\ med'.phase = IF med.phase = "playing" THEN "aborted" ELSE med.phase
  <2>1. MedType
    BY DEF TypeOK
  <2> QED BY <2>1, AfterFault
<1> QED BY <1>0, <1>1

LEMMA CleanupObservedDisconnectDoes ==
  ASSUME TypeOK, CleanupObservedDisconnect
  PROVE  /\ med.pc = "idle" /\ med'.pc = "lock" /\ med'.msgs = med.msgs
         /\ med'.session = med.session
         /\ med'.phase = IF med.phase = "playing" THEN "aborted" ELSE med.phase
         /\ net'.link = net.link /\ net'.conn = net.conn /\ net'.at = net.at
         /\ UNCHANGED <<gate, io, lock, session, ingress, buffer, abort, notices, fault, cb,
              pl, heard>>
<1>0. UNCHANGED <<gate, io, lock, session, ingress, buffer, abort, notices, fault, cb, pl, heard>>
  BY DEF CleanupObservedDisconnect, shared
<1>1. /\ med.pc = "idle" /\ med'.pc = "lock" /\ med'.msgs = med.msgs /\ med'.session = med.session
      /\ med'.phase = IF med.phase = "playing" THEN "aborted" ELSE med.phase
  <2>1. MedType
    BY DEF TypeOK
  <2> QED BY <2>1, AfterLoss
<1>2. net'.link = net.link /\ net'.conn = net.conn /\ net'.at = net.at
  <2>1. NetType
    BY DEF TypeOK
  <2> QED BY <2>1 DEF CleanupObservedDisconnect, NetType, NetSet
<1> QED BY <1>0, <1>1, <1>2

LEMMA LinkReadyDoes ==
  ASSUME TypeOK, LinkReady
  PROVE  /\ med.pc = "idle" /\ cb.pc = "idle" /\ ~gate.open
         /\ \/ gate' = gate
            \/ ResetConfirmed /\ gate'.open /\ gate'.epoch = gate.epoch
         /\ UNCHANGED <<io, lock, session, ingress, buffer, abort, notices, med, cb, pl,
              net, heard>>
<1>0. UNCHANGED <<io, lock, session, ingress, buffer, abort, notices, med, cb, pl, net, heard>>
  BY DEF LinkReady, shared
<1>1. /\ med.pc = "idle" /\ cb.pc = "idle" /\ ~gate.open
      /\ \/ gate' = gate
         \/ ResetConfirmed /\ gate'.open /\ gate'.epoch = gate.epoch
  <2>1. GateType
    BY DEF TypeOK
  <2>2. med.pc = "idle" /\ cb.pc = "idle" /\ ~gate.open
    BY DEF LinkReady, MedIdle
  <2>3. CASE ResetConfirmed
    <3>1. gate' = [gate EXCEPT !.open = TRUE]
      BY <2>3 DEF LinkReady
    <3>2. gate'.open /\ gate'.epoch = gate.epoch
      BY <2>1, <3>1 DEF GateType
    <3> QED BY <2>2, <2>3, <3>2
  <2>4. CASE ~ResetConfirmed
    <3>1. gate' = gate
      BY <2>4 DEF LinkReady
    <3> QED BY <2>2, <3>1
  <2> QED BY <2>3, <2>4
<1> QED BY <1>0, <1>1

LEMMA RequestDoes ==
  ASSUME TypeOK, Request
  PROVE  /\ Prompt => Settled
         /\ med.pc = "idle" /\ med.phase = "wanted" /\ gate.open /\ net.link = "up" /\ net.at = 0
         /\ net'.at = 1 /\ net'.link = net.link /\ net'.conn = net.conn /\ med'.phase = "inflight"
         /\ med'.pc = med.pc /\ med'.locked = med.locked /\ med'.session = med.session
         /\ med'.msgs = med.msgs
         /\ UNCHANGED <<gate, io, lock, session, ingress, buffer, abort, notices, fault, cb,
              pl, heard>>
<1>0. UNCHANGED <<gate, io, lock, session, ingress, buffer, abort, notices, fault, cb, pl, heard>>
  BY DEF Request, shared
<1>1. /\ Prompt => Settled
      /\ med.pc = "idle" /\ med.phase = "wanted" /\ gate.open /\ net.link = "up" /\ net.at = 0
      /\ net'.at = 1 /\ net'.link = net.link /\ net'.conn = net.conn
  <2>1. NetType
    BY DEF TypeOK
  <2> QED BY <2>1 DEF Request, MedIdle, NetType, NetSet
<1>2. /\ med'.phase = "inflight" /\ med'.pc = med.pc /\ med'.locked = med.locked
      /\ med'.session = med.session /\ med'.msgs = med.msgs
  <2>1. MedType
    BY DEF TypeOK
  <2> QED BY <2>1 DEF Request, MedType, MedSet
<1> QED BY <1>0, <1>1, <1>2

LEMMA DropMessagesDoes ==
  ASSUME TypeOK, DropMessages
  PROVE  /\ med.pc = "idle" /\ med.msgs # <<>> /\ med'.pc = med.pc /\ med'.locked = med.locked
         /\ med'.phase = med.phase /\ med'.session = med.session
         /\ \/ ~gate.open
            \/ med'.msgs = Tail(med.msgs) /\ Head(med.msgs).epoch # gate.epoch
         /\ UNCHANGED <<gate, io, lock, session, ingress, buffer, abort, notices, fault, cb,
              pl, net, heard>>
<1>0. UNCHANGED <<gate, io, lock, session, ingress, buffer, abort, notices, fault, cb, pl, net, heard>>
  BY DEF DropMessages, shared
<1>1. med.pc = "idle" /\ med.msgs # <<>>
  BY DEF DropMessages, MedIdle
<1>2. /\ med'.pc = med.pc /\ med'.locked = med.locked /\ med'.phase = med.phase
      /\ med'.session = med.session
  <2>1. MedType
    BY DEF TypeOK
  <2> QED BY <2>1 DEF DropMessages, Taken, MedType, MedSet
<1>3. /\ \/ ~gate.open
         \/ med'.msgs = Tail(med.msgs) /\ Head(med.msgs).epoch # gate.epoch
  <2>1. CASE gate.open
    <3>1. med' = [med EXCEPT !.msgs = Tail(@)] /\ Head(med.msgs).epoch # gate.epoch
      BY <2>1 DEF DropMessages, Taken, Accepts
    <3>2. MedType
      BY DEF TypeOK
    <3>3. med'.msgs = Tail(med.msgs)
      BY <3>1, <3>2 DEF MedType, MedSet
    <3> QED BY <3>1, <3>3
  <2>2. CASE ~gate.open
    BY <2>2
  <2> QED BY <2>1, <2>2
<1> QED BY <1>0, <1>1, <1>2, <1>3

LEMMA ApplyAudioStartDoes ==
  ASSUME TypeOK, ApplyAudioStart
  PROVE  /\ med.pc = "idle" /\ med.msgs # <<>> /\ Head(med.msgs).t = "start" /\ gate.open
         /\ med'.msgs = Tail(med.msgs) /\ med'.session = med.session
         /\ \/ /\ med.phase = "inflight" /\ ResetConfirmed /\ ~session.active
               /\ ingress'.armed /\ ~ingress'.incomplete
               /\ ingress.armed => ~ingress.incomplete /\ ingress'.got = ingress.got
               /\ ~ingress.armed => ingress'.got = 0
               /\ ingress'.epoch = gate.epoch
               /\ med'.pc = "adopt" /\ med'.phase = med.phase
            \/ /\ ingress'.armed = ingress.armed /\ ingress'.got = ingress.got /\ ingress'.epoch = ingress.epoch
               /\ ingress.incomplete => ingress'.incomplete
               /\ ingress'.incomplete => ingress.incomplete \/ ingress.armed
               /\ med'.pc = "lock"
               /\ med'.phase = IF med.phase = "playing" THEN "aborted" ELSE med.phase
         /\ UNCHANGED <<gate, io, lock, session, buffer, abort, notices, fault, cb, pl, net,
              heard>>
<1>0. UNCHANGED <<gate, io, lock, session, buffer, abort, notices, fault, cb, pl, net, heard>>
  BY DEF ApplyAudioStart, shared
<1>1. /\ med.pc = "idle" /\ med.msgs # <<>> /\ Head(med.msgs).t = "start" /\ gate.open
      /\ med'.msgs = Tail(med.msgs) /\ med'.session = med.session
      /\ \/ /\ med.phase = "inflight" /\ ResetConfirmed /\ ~session.active
            /\ ingress'.armed /\ ~ingress'.incomplete
            /\ ingress.armed => ~ingress.incomplete /\ ingress'.got = ingress.got
            /\ ~ingress.armed => ingress'.got = 0
            /\ ingress'.epoch = gate.epoch
            /\ med'.pc = "adopt" /\ med'.phase = med.phase
         \/ /\ ingress'.armed = ingress.armed /\ ingress'.got = ingress.got /\ ingress'.epoch = ingress.epoch
            /\ ingress.incomplete => ingress'.incomplete
            /\ ingress'.incomplete => ingress.incomplete \/ ingress.armed
            /\ med'.pc = "lock"
            /\ med'.phase = IF med.phase = "playing" THEN "aborted" ELSE med.phase
  <2>1. MedType /\ IngressType /\ GateType
    BY DEF TypeOK
  <2>2. /\ med.pc = "idle" /\ med.msgs # <<>> /\ Head(med.msgs).t = "start" /\ gate.open
        /\ med'.msgs = Tail(med.msgs) /\ med'.session = med.session
        /\ \/ /\ med.phase = "inflight" /\ CanBind /\ ingress' = [Arm(gate.epoch) EXCEPT !.bound = TRUE]
              /\ med'.pc = "adopt" /\ med'.phase = med.phase
           \/ /\ ingress' = ingress \/ ingress' = [ingress EXCEPT !.incomplete = @ \/ ingress.armed]
              /\ med'.pc = "lock"
              /\ med'.phase = IF med.phase = "playing" THEN "aborted" ELSE med.phase
    BY <2>1, AfterStart
  <2>3. CASE /\ med.phase = "inflight" /\ CanBind /\ ingress' = [Arm(gate.epoch) EXCEPT !.bound = TRUE]
             /\ med'.pc = "adopt" /\ med'.phase = med.phase
    <3> DEFINE g == Arm(gate.epoch)
    <3>1. gate.epoch \in Nat
      BY <2>1, GateEpoch
    <3>2. /\ g \in IngressSet /\ g.armed
          /\ ingress.armed => g = ingress
          /\ ~ingress.armed => g.got = 0 /\ ~g.incomplete /\ g.epoch = gate.epoch
      BY <2>1, <3>1, Armed
    <3>3. ingress' = [g EXCEPT !.bound = TRUE]
      BY <2>3
    <3> HIDE DEF g
    <3>4. /\ ingress'.armed /\ ingress'.got = g.got /\ ingress'.incomplete = g.incomplete
          /\ ingress'.epoch = g.epoch
      BY <3>2, <3>3 DEF IngressSet
    <3>5. ResetConfirmed /\ ~session.active /\ (ingress.armed => ingress.epoch = gate.epoch /\ ~ingress.incomplete)
      BY <2>3 DEF CanBind
    <3> QED BY <2>2, <2>3, <3>2, <3>4, <3>5
  <2>4. CASE /\ ingress' = ingress \/ ingress' = [ingress EXCEPT !.incomplete = @ \/ ingress.armed]
             /\ med'.pc = "lock"
             /\ med'.phase = IF med.phase = "playing" THEN "aborted" ELSE med.phase
    <3>1. /\ ingress'.armed = ingress.armed /\ ingress'.got = ingress.got /\ ingress'.epoch = ingress.epoch
          /\ ingress.incomplete => ingress'.incomplete
          /\ ingress'.incomplete => ingress.incomplete \/ ingress.armed
      BY <2>1, <2>4 DEF IngressType, IngressSet
    <3> QED BY <2>2, <2>4, <3>1
  <2> QED BY <2>2, <2>3, <2>4
<1> QED BY <1>0, <1>1

LEMMA AdoptPlaybackDoes ==
  ASSUME TypeOK, AdoptPlayback
  PROVE  /\ med.pc = "adopt" /\ med'.msgs = med.msgs
         /\ \/ /\ ingress.armed /\ ~ingress.incomplete /\ ResetConfirmed /\ ingress.epoch # 0
               /\ ~ingress'.armed /\ ingress'.got = 0 /\ ~ingress'.incomplete
               /\ session'.active /\ ~session'.incomplete /\ session'.got = ingress.got /\ session'.wrote = 0
               /\ io'.session = io.session + 1 /\ io'.epoch = ingress.epoch
               /\ io'.requested = io.requested /\ io'.acknowledged = io.acknowledged
               /\ med'.pc = "idle" /\ med'.phase = "playing" /\ med'.session = io.session + 1
               /\ heard' = <<>>
            \/ /\ session' = session \/ ~session'.active
               /\ ingress' = ingress \/ (~ingress'.armed /\ ingress'.got = 0 /\ ~ingress'.incomplete)
               /\ io' = io /\ heard' = heard
               /\ med'.pc = "lock" /\ med'.session = med.session
               /\ med'.phase = IF med.phase = "playing" THEN "aborted" ELSE med.phase
         /\ pl'.pc = pl.pc /\ pl'.session = pl.session /\ pl'.epoch = pl.epoch
         /\ pl'.reset = pl.reset /\ pl'.report = pl.report /\ pl'.chunk = pl.chunk
         /\ UNCHANGED <<gate, lock, buffer, abort, notices, fault, cb, net>>
<1>0. UNCHANGED <<gate, lock, buffer, abort, notices, fault, cb, net>>
  BY DEF AdoptPlayback, shared
<1>1. /\ med.pc = "adopt" /\ med'.msgs = med.msgs
      /\ \/ /\ ingress.armed /\ ~ingress.incomplete /\ ResetConfirmed /\ ingress.epoch # 0
            /\ ~ingress'.armed /\ ingress'.got = 0 /\ ~ingress'.incomplete
            /\ session'.active /\ ~session'.incomplete /\ session'.got = ingress.got /\ session'.wrote = 0
            /\ io'.session = io.session + 1 /\ io'.epoch = ingress.epoch
            /\ io'.requested = io.requested /\ io'.acknowledged = io.acknowledged
            /\ med'.pc = "idle" /\ med'.phase = "playing" /\ med'.session = io.session + 1
            /\ heard' = <<>>
         \/ /\ session' = session \/ ~session'.active
            /\ ingress' = ingress \/ (~ingress'.armed /\ ingress'.got = 0 /\ ~ingress'.incomplete)
            /\ io' = io /\ heard' = heard
            /\ med'.pc = "lock" /\ med'.session = med.session
            /\ med'.phase = IF med.phase = "playing" THEN "aborted" ELSE med.phase
      /\ pl'.pc = pl.pc /\ pl'.session = pl.session /\ pl'.epoch = pl.epoch
      /\ pl'.reset = pl.reset /\ pl'.report = pl.report /\ pl'.chunk = pl.chunk
  <2>1. MedType /\ IoType /\ IngressType /\ PlType
    BY DEF TypeOK
  <2>2. /\ med.pc = "adopt" /\ med'.msgs = med.msgs
        /\ ingress' = IF ingress.bound THEN Disarmed ELSE ingress
    BY <2>1, AfterAdoption
  <2>3. /\ \/ ingress' = ingress
           \/ ~ingress'.armed /\ ingress'.got = 0 /\ ~ingress'.incomplete
        /\ ingress.bound => ~ingress'.armed /\ ingress'.got = 0 /\ ~ingress'.incomplete
    <3>1. Disarmed.armed = FALSE /\ Disarmed.got = 0 /\ Disarmed.incomplete = FALSE
      BY DEF Disarmed
    <3>2. ingress.bound \in BOOLEAN
      BY <2>1 DEF IngressType, IngressSet
    <3> QED BY <2>2, <3>1, <3>2
  <2>4. pl' = pl \/ pl' = [pl EXCEPT !.awake = TRUE]
    BY <2>1, AfterAdoption
  <2>5. pl'.pc = pl.pc /\ pl'.session = pl.session /\ pl'.epoch = pl.epoch /\ pl'.reset = pl.reset
        /\ pl'.report = pl.report /\ pl'.chunk = pl.chunk
    BY <2>1, <2>4 DEF PlType
  <2>6. \/ /\ ingress.armed /\ ingress.bound /\ ~ingress.incomplete /\ ResetConfirmed
           /\ session' = [active |-> TRUE, incomplete |-> FALSE, ended |-> FALSE,
                          got |-> ingress.got, wrote |-> 0]
           /\ io' = [io EXCEPT !.session = @ + 1, !.epoch = ingress.epoch]
           /\ med'.pc = "idle" /\ med'.phase = "playing" /\ med'.session = io.session + 1
           /\ heard' = <<>>
        \/ /\ session' = session \/ session' = [active |-> FALSE, incomplete |-> TRUE, ended |-> FALSE,
                                                got |-> 0, wrote |-> 0]
           /\ io' = io /\ heard' = heard
           /\ med'.pc = "lock" /\ med'.session = med.session
           /\ med'.phase = IF med.phase = "playing" THEN "aborted" ELSE med.phase
    BY <2>1, AfterAdoption
  <2>7. CASE /\ ingress.armed /\ ingress.bound /\ ~ingress.incomplete /\ ResetConfirmed
             /\ session' = [active |-> TRUE, incomplete |-> FALSE, ended |-> FALSE,
                            got |-> ingress.got, wrote |-> 0]
             /\ io' = [io EXCEPT !.session = @ + 1, !.epoch = ingress.epoch]
             /\ med'.pc = "idle" /\ med'.phase = "playing" /\ med'.session = io.session + 1
             /\ heard' = <<>>
    <3>1. /\ io'.session = io.session + 1 /\ io'.epoch = ingress.epoch
          /\ io'.requested = io.requested /\ io'.acknowledged = io.acknowledged
      BY <2>1, <2>7 DEF IoType, IoSet
    <3>2. session'.active /\ ~session'.incomplete /\ session'.got = ingress.got /\ session'.wrote = 0
      BY <2>7
    <3>3. ingress.epoch # 0
      BY <2>7, <2>2 DEF AdoptPlayback, CanAdopt, MayBeginSession, StartReset
    <3> QED BY <2>2, <2>3, <2>5, <2>7, <3>1, <3>2, <3>3
  <2>8. CASE /\ session' = session \/ session' = [active |-> FALSE, incomplete |-> TRUE, ended |-> FALSE,
                                                  got |-> 0, wrote |-> 0]
             /\ io' = io /\ heard' = heard
             /\ med'.pc = "lock" /\ med'.session = med.session
             /\ med'.phase = IF med.phase = "playing" THEN "aborted" ELSE med.phase
    <3>1. session' = session \/ ~session'.active
      BY <2>8
    <3> QED BY <2>2, <2>3, <2>5, <2>8, <3>1
  <2> QED BY <2>6, <2>7, <2>8
<1> QED BY <1>0, <1>1

LEMMA ApplyAudioEndDoes ==
  ASSUME TypeOK, ApplyAudioEnd
  PROVE  /\ med.pc = "idle" /\ med.msgs # <<>> /\ Head(med.msgs).t = "end" /\ gate.open
         /\ med'.msgs = Tail(med.msgs) /\ med'.session = med.session
         /\ \/ session.active /\ med.phase = "playing" /\ med'.pc = "idle" /\ med'.phase = med.phase
            \/ /\ med'.pc = "lock"
               /\ med'.phase = IF med.phase = "playing" THEN "aborted" ELSE med.phase
         /\ session'.active = session.active /\ session'.incomplete = session.incomplete
         /\ session'.got = session.got /\ session'.wrote = session.wrote /\ pl'.pc = pl.pc
         /\ pl'.session = pl.session /\ pl'.epoch = pl.epoch /\ pl'.reset = pl.reset
         /\ pl'.report = pl.report /\ pl'.chunk = pl.chunk
         /\ UNCHANGED <<gate, io, lock, ingress, buffer, abort, notices, fault, cb, net,
              heard>>
<1>0. UNCHANGED <<gate, io, lock, ingress, buffer, abort, notices, fault, cb, net, heard>>
  BY DEF ApplyAudioEnd, shared
<1>1. /\ med.pc = "idle" /\ med.msgs # <<>> /\ Head(med.msgs).t = "end" /\ gate.open
      /\ med'.msgs = Tail(med.msgs) /\ med'.session = med.session
      /\ \/ session.active /\ med.phase = "playing" /\ med'.pc = "idle" /\ med'.phase = med.phase
         \/ /\ med'.pc = "lock"
            /\ med'.phase = IF med.phase = "playing" THEN "aborted" ELSE med.phase
  <2>1. MedType
    BY DEF TypeOK
  <2> QED BY <2>1, AfterEnd DEF CanAcceptEnd
<1>2. /\ session'.active = session.active /\ session'.incomplete = session.incomplete
      /\ session'.got = session.got /\ session'.wrote = session.wrote
  <2>1. SessionType /\ MedType
    BY DEF TypeOK
  <2> QED BY <2>1, AfterEnd DEF SessionType, SessionSet
<1>3. /\ pl'.pc = pl.pc /\ pl'.session = pl.session /\ pl'.epoch = pl.epoch
      /\ pl'.reset = pl.reset /\ pl'.report = pl.report /\ pl'.chunk = pl.chunk
  <2>1. PlType
    BY DEF TypeOK
  <2> QED BY <2>1 DEF ApplyAudioEnd, PlType
<1> QED BY <1>0, <1>1, <1>2, <1>3

LEMMA DrainPlaybackNoticesDoes ==
  ASSUME TypeOK, DrainPlaybackNotices
  PROVE  /\ med.pc = "idle" /\ notices # <<>> /\ notices' = Tail(notices) /\ med'.pc = "idle"
         /\ med'.msgs = med.msgs
         /\ \/ med' = med
            \/ /\ med.session # 0 /\ Head(notices).session = med.session /\ Head(notices).drained
               /\ med'.phase = "heard" /\ med'.session = 0
            \/ /\ med.session # 0 /\ Head(notices).session = med.session /\ med'.session = 0
               /\ med'.phase = IF med.phase = "heard" THEN "heard" ELSE "wanted"
         /\ UNCHANGED <<gate, io, lock, session, ingress, buffer, abort, fault, cb, pl, net,
              heard>>
<1>0. UNCHANGED <<gate, io, lock, session, ingress, buffer, abort, fault, cb, pl, net, heard>>
  BY DEF DrainPlaybackNotices, shared
<1>1. /\ med.pc = "idle" /\ notices # <<>> /\ notices' = Tail(notices) /\ med'.pc = "idle"
      /\ med'.msgs = med.msgs
      /\ \/ med' = med
         \/ /\ med.session # 0 /\ Head(notices).session = med.session /\ Head(notices).drained
            /\ med'.phase = "heard" /\ med'.session = 0
         \/ /\ med.session # 0 /\ Head(notices).session = med.session /\ med'.session = 0
            /\ med'.phase = IF med.phase = "heard" THEN "heard" ELSE "wanted"
  <2>1. MedType
    BY DEF TypeOK
  <2> QED BY <2>1, AfterNotice
<1> QED BY <1>0, <1>1

LEMMA PlayWakesDoes ==
  ASSUME TypeOK, PlayWakes
  PROVE  /\ pl.pc = "wait" /\ pl'.pc = "top" /\ pl'.session = pl.session /\ pl'.epoch = pl.epoch
         /\ pl'.reset = pl.reset /\ pl'.report = pl.report /\ pl'.chunk = pl.chunk
         /\ UNCHANGED <<gate, io, lock, session, ingress, buffer, abort, notices, fault,
              med, cb, net, heard>>
<1>0. UNCHANGED <<gate, io, lock, session, ingress, buffer, abort, notices, fault, med, cb, net, heard>>
  BY DEF PlayWakes, shared
<1>1. /\ pl.pc = "wait" /\ pl'.pc = "top" /\ pl'.session = pl.session /\ pl'.epoch = pl.epoch
      /\ pl'.reset = pl.reset /\ pl'.report = pl.report /\ pl'.chunk = pl.chunk
  <2>1. PlType
    BY DEF TypeOK
  <2> QED BY <2>1 DEF PlayWakes, PlType
<1> QED BY <1>0, <1>1

LEMMA PlayStartsResetDoes ==
  ASSUME TypeOK, PlayStartsReset
  PROVE  /\ pl.pc = "top" /\ ~ResetConfirmed /\ pl'.pc = "lock" /\ pl'.session = pl.session
         /\ pl'.epoch = pl.epoch /\ pl'.reset = pl.reset /\ pl'.report = pl.report
         /\ pl'.chunk = pl.chunk
         /\ UNCHANGED <<gate, io, lock, session, ingress, buffer, abort, notices, fault,
              med, cb, net, heard>>
<1>0. UNCHANGED <<gate, io, lock, session, ingress, buffer, abort, notices, fault, med, cb, net, heard>>
  BY DEF PlayStartsReset, shared
<1>1. /\ pl.pc = "top" /\ ~ResetConfirmed /\ pl'.pc = "lock" /\ pl'.session = pl.session
      /\ pl'.epoch = pl.epoch /\ pl'.reset = pl.reset /\ pl'.report = pl.report
      /\ pl'.chunk = pl.chunk
  <2>1. PlType
    BY DEF TypeOK
  <2> QED BY <2>1, PlayGoes DEF PlayStartsReset
<1> QED BY <1>0, <1>1

LEMMA PlayResetLocksDoes ==
  ASSUME TypeOK, PlayResetLocks
  PROVE  /\ pl.pc = "lock" /\ lock.io = "none" /\ pl'.pc = "lockBuffer"
         /\ pl'.reset = io.requested /\ pl'.session = pl.session /\ pl'.epoch = pl.epoch
         /\ pl'.report = pl.report /\ pl'.chunk = pl.chunk /\ lock'.io = "play"
         /\ lock'.buffer = lock.buffer
         /\ UNCHANGED <<gate, io, session, ingress, buffer, abort, notices, fault, med, cb,
              net, heard>>
<1>0. UNCHANGED <<gate, io, session, ingress, buffer, abort, notices, fault, med, cb, net, heard>>
  BY DEF PlayResetLocks, shared
<1>1. /\ pl.pc = "lock" /\ lock.io = "none" /\ pl'.pc = "lockBuffer" /\ pl'.reset = io.requested
      /\ pl'.session = pl.session /\ pl'.epoch = pl.epoch /\ pl'.report = pl.report
      /\ pl'.chunk = pl.chunk
  <2>1. PlType
    BY DEF TypeOK
  <2> QED BY <2>1 DEF PlayResetLocks, PlType
<1>2. lock'.io = "play" /\ lock'.buffer = lock.buffer
  <2>1. LockType
    BY DEF TypeOK
  <2> QED BY <2>1 DEF PlayResetLocks, LockType
<1> QED BY <1>0, <1>1, <1>2

LEMMA PlayResetLocksBufferDoes ==
  ASSUME TypeOK, PlayResetLocksBuffer
  PROVE  /\ pl.pc = "lockBuffer" /\ lock.buffer = "none" /\ pl'.pc = "abort"
         /\ pl'.session = pl.session /\ pl'.epoch = pl.epoch /\ pl'.reset = pl.reset
         /\ pl'.report = pl.report /\ pl'.chunk = pl.chunk /\ lock'.buffer = "play"
         /\ lock'.io = lock.io
         /\ UNCHANGED <<gate, io, session, ingress, buffer, abort, notices, fault, med, cb,
              net, heard>>
<1>0. UNCHANGED <<gate, io, session, ingress, buffer, abort, notices, fault, med, cb, net, heard>>
  BY DEF PlayResetLocksBuffer, shared
<1>1. /\ pl.pc = "lockBuffer" /\ lock.buffer = "none" /\ pl'.pc = "abort"
      /\ pl'.session = pl.session /\ pl'.epoch = pl.epoch /\ pl'.reset = pl.reset
      /\ pl'.report = pl.report /\ pl'.chunk = pl.chunk
  <2>1. PlType
    BY DEF TypeOK
  <2> QED BY <2>1, PlayGoes DEF PlayResetLocksBuffer
<1>2. lock'.buffer = "play" /\ lock'.io = lock.io
  <2>1. LockType
    BY DEF TypeOK
  <2> QED BY <2>1 DEF PlayResetLocksBuffer, LockType
<1> QED BY <1>0, <1>1, <1>2

LEMMA PlayAbortsDoes ==
  ASSUME TypeOK, PlayAborts
  PROVE  /\ pl.pc = "abort" /\ pl'.pc = "clear" /\ pl'.report = abort /\ pl'.session = pl.session
         /\ pl'.epoch = pl.epoch /\ pl'.reset = pl.reset /\ pl'.chunk = pl.chunk /\ abort' = 0
         /\ ~session'.active /\ ~ingress'.armed /\ ingress'.got = 0 /\ ~ingress'.incomplete
         /\ io'.session = io.session + 1 /\ io'.requested = io.requested
         /\ io'.acknowledged = io.acknowledged
         /\ UNCHANGED <<gate, lock, buffer, notices, fault, med, cb, net, heard>>
<1>0. UNCHANGED <<gate, lock, buffer, notices, fault, med, cb, net, heard>>
  BY DEF PlayAborts, shared
<1>1. /\ pl.pc = "abort" /\ pl'.pc = "clear" /\ pl'.report = abort /\ pl'.session = pl.session
      /\ pl'.epoch = pl.epoch /\ pl'.reset = pl.reset /\ pl'.chunk = pl.chunk /\ abort' = 0
  <2>1. PlType
    BY DEF TypeOK
  <2> QED BY <2>1 DEF PlayAborts, PlType
<1>2. ~session'.active
  <2>1. SessionType
    BY DEF TypeOK
  <2> QED BY <2>1 DEF PlayAborts, Abort, SessionType, SessionSet
<1>3. ~ingress'.armed /\ ingress'.got = 0 /\ ~ingress'.incomplete
  BY DEF PlayAborts, Disarmed
<1>4. /\ io'.session = io.session + 1 /\ io'.requested = io.requested
      /\ io'.acknowledged = io.acknowledged
  <2>1. IoType
    BY DEF TypeOK
  <2> QED BY <2>1 DEF PlayAborts, InvalidateSession, IoType, IoSet
<1> QED BY <1>0, <1>1, <1>2, <1>3, <1>4

LEMMA PlayAcknowledgesDoes ==
  ASSUME TypeOK, PlayAcknowledges
  PROVE  /\ pl.pc = "clear" /\ pl'.pc = "wait" /\ pl'.session = 0 /\ buffer' = <<>>
         /\ lock'.io = "none" /\ lock'.buffer = "none"
         /\ notices' = notices \/ notices' = Append(notices, [session |-> pl.report, drained |-> FALSE])
         /\ io'.acknowledged = pl.reset /\ io'.requested = io.requested
         /\ io'.session = io.session /\ io'.epoch = io.epoch
         /\ UNCHANGED <<gate, session, ingress, abort, fault, med, cb, net, heard>>
<1>0. UNCHANGED <<gate, session, ingress, abort, fault, med, cb, net, heard>>
  BY DEF PlayAcknowledges, shared
<1>1. pl.pc = "clear" /\ pl'.pc = "wait" /\ pl'.session = 0
  <2>1. PlType
    BY DEF TypeOK
  <2> QED BY <2>1, PlayGoes DEF PlayAcknowledges
<1>2. /\ buffer' = <<>> /\ lock'.io = "none" /\ lock'.buffer = "none"
      /\ notices' = notices \/ notices' = Append(notices, [session |-> pl.report, drained |-> FALSE])
  BY DEF PlayAcknowledges, BufferReset, Unlocked
<1>3. /\ io'.acknowledged = pl.reset /\ io'.requested = io.requested /\ io'.session = io.session
      /\ io'.epoch = io.epoch
  <2>1. IoType
    BY DEF TypeOK
  <2> QED BY <2>1 DEF PlayAcknowledges, AcknowledgeReset, IoType, IoSet
<1> QED BY <1>0, <1>1, <1>2, <1>3

LEMMA PlayResetFailsDoes ==
  ASSUME TypeOK, PlayResetFails
  PROVE  /\ pl.pc = "clear" /\ pl'.pc = "top" /\ pl'.session = 0 /\ lock'.io = "none"
         /\ lock'.buffer = "none"
         /\ abort' = abort \/ abort' = pl.report
         /\ UNCHANGED <<gate, io, session, ingress, buffer, notices, fault, med, cb, net,
              heard>>
<1>0. UNCHANGED <<gate, io, session, ingress, buffer, notices, fault, med, cb, net, heard>>
  BY DEF PlayResetFails, shared
<1>1. pl.pc = "clear" /\ pl'.pc = "top" /\ pl'.session = 0
  <2>1. PlType
    BY DEF TypeOK
  <2> QED BY <2>1, PlayGoes DEF PlayResetFails
<1>2. /\ lock'.io = "none" /\ lock'.buffer = "none"
      /\ abort' = abort \/ abort' = pl.report
  BY DEF PlayResetFails, Unlocked
<1> QED BY <1>0, <1>1, <1>2

LEMMA PlayReadsDoes ==
  ASSUME TypeOK, PlayReads
  PROVE  /\ pl.pc = "top" /\ ResetConfirmed
         /\ \/ pl'.pc = "wait" /\ pl'.session = 0
            \/ /\ pl'.session = io.session /\ pl'.epoch = io.epoch
               /\ pl'.pc = "incomplete" \/ (pl'.pc = "receive" /\ session.active)
         /\ UNCHANGED <<gate, io, lock, session, ingress, buffer, abort, notices, fault,
              med, cb, net, heard>>
<1>0. UNCHANGED <<gate, io, lock, session, ingress, buffer, abort, notices, fault, med, cb, net, heard>>
  BY DEF PlayReads, shared
<1>1. pl.pc = "top" /\ ResetConfirmed
  BY DEF PlayReads
<1>2. /\ \/ pl'.pc = "wait" /\ pl'.session = 0
         \/ /\ pl'.session = io.session /\ pl'.epoch = io.epoch
            /\ pl'.pc = "incomplete" \/ (pl'.pc = "receive" /\ session.active)
  <2>1. PlType
    BY DEF TypeOK
  <2>2. CASE Play("wait")
    BY <2>1, <2>2, PlayGoes
  <2>3. CASE /\ session.incomplete \/ session.active
             /\ pl' = [pl EXCEPT !.session = io.session, !.epoch = io.epoch,
                                 !.pc = IF session.incomplete THEN "incomplete" ELSE "receive"]
    <3>1. CASE session.incomplete
      <4>1. pl' = [pl EXCEPT !.session = io.session, !.epoch = io.epoch, !.pc = "incomplete"]
        BY <2>3, <3>1
      <4> QED BY <2>1, <4>1 DEF PlType
    <3>2. CASE ~session.incomplete
      <4>1. pl' = [pl EXCEPT !.session = io.session, !.epoch = io.epoch, !.pc = "receive"]
        BY <2>3, <3>2
      <4>2. pl'.session = io.session /\ pl'.epoch = io.epoch /\ pl'.pc = "receive"
        BY <2>1, <4>1 DEF PlType
      <4> QED BY <2>3, <3>2, <4>2
    <3> QED BY <3>1, <3>2
  <2> QED BY <2>2, <2>3 DEF PlayReads
<1> QED BY <1>0, <1>1, <1>2

LEMMA PlayIncompleteDoes ==
  ASSUME TypeOK, PlayIncomplete
  PROVE  /\ pl.pc = "incomplete" /\ pl'.pc = "top" /\ pl'.session = 0
         /\ io'.requested = io.requested + 1 /\ io'.acknowledged = io.acknowledged
         /\ io'.session = io.session /\ io'.epoch = io.epoch /\ abort' = pl.session
         /\ UNCHANGED <<gate, lock, session, ingress, buffer, notices, fault, med, cb, net,
              heard>>
<1>0. UNCHANGED <<gate, lock, session, ingress, buffer, notices, fault, med, cb, net, heard>>
  BY DEF PlayIncomplete, shared
<1>1. pl.pc = "incomplete" /\ pl'.pc = "top" /\ pl'.session = 0
  <2>1. PlType
    BY DEF TypeOK
  <2> QED BY <2>1, PlayGoes DEF PlayIncomplete
<1>2. /\ io'.requested = io.requested + 1 /\ io'.acknowledged = io.acknowledged
      /\ io'.session = io.session /\ io'.epoch = io.epoch /\ abort' = pl.session
  <2>1. IoType
    BY DEF TypeOK
  <2> QED BY <2>1 DEF PlayIncomplete, GiveUpSession, RequestReset, IoType, IoSet
<1> QED BY <1>0, <1>1, <1>2

LEMMA PlayReceivesDoes ==
  ASSUME TypeOK, PlayReceives
  PROVE  /\ pl.pc = "receive"
         /\ \/ /\ buffer # <<>> /\ pl'.pc = "locked" /\ pl'.chunk = Head(buffer) /\ buffer' = Tail(buffer)
            \/ pl'.pc = "finish" /\ buffer' = buffer
         /\ pl'.session = pl.session /\ pl'.epoch = pl.epoch /\ pl'.reset = pl.reset
         /\ pl'.report = pl.report
         /\ UNCHANGED <<gate, io, lock, session, ingress, abort, notices, fault, med, cb,
              net, heard>>
<1>0. UNCHANGED <<gate, io, lock, session, ingress, abort, notices, fault, med, cb, net, heard>>
  BY DEF PlayReceives, shared
<1>1. pl.pc = "receive"
  BY DEF PlayReceives
<1>2. /\ \/ /\ buffer # <<>> /\ pl'.pc = "locked" /\ pl'.chunk = Head(buffer) /\ buffer' = Tail(buffer)
         \/ pl'.pc = "finish" /\ buffer' = buffer
      /\ pl'.session = pl.session /\ pl'.epoch = pl.epoch /\ pl'.reset = pl.reset
      /\ pl'.report = pl.report
  <2>1. PlType
    BY DEF TypeOK
  <2> QED BY <2>1, PlayGoes DEF PlayReceives, PlType
<1> QED BY <1>0, <1>1, <1>2

LEMMA PlayLocksDoes ==
  ASSUME TypeOK, PlayLocks
  PROVE  /\ pl.pc = "locked" /\ lock.io = "none"
         /\ \/ MayWrite /\ lock'.io = "play" /\ lock'.buffer = lock.buffer /\ pl'.pc = "write" /\ pl'.session = pl.session /\ pl'.epoch = pl.epoch /\ pl'.reset = pl.reset /\ pl'.report = pl.report /\ pl'.chunk = pl.chunk
            \/ ~MayWrite /\ lock' = lock /\ pl'.pc = "top" /\ pl'.session = 0
         /\ UNCHANGED <<gate, io, session, ingress, buffer, abort, notices, fault, med, cb,
              net, heard>>
<1>0. UNCHANGED <<gate, io, session, ingress, buffer, abort, notices, fault, med, cb, net, heard>>
  BY DEF PlayLocks, shared
<1>1. /\ pl.pc = "locked" /\ lock.io = "none"
      /\ \/ MayWrite /\ lock'.io = "play" /\ lock'.buffer = lock.buffer /\ pl'.pc = "write" /\ pl'.session = pl.session /\ pl'.epoch = pl.epoch /\ pl'.reset = pl.reset /\ pl'.report = pl.report /\ pl'.chunk = pl.chunk
         \/ ~MayWrite /\ lock' = lock /\ pl'.pc = "top" /\ pl'.session = 0
  <2>1. LockType /\ PlType
    BY DEF TypeOK
  <2> QED BY <2>1, PlayGoes DEF PlayLocks, LockType
<1> QED BY <1>0, <1>1

LEMMA PlayWritesDoes ==
  ASSUME TypeOK, PlayWrites
  PROVE  /\ pl.pc = "write" /\ heard' = Append(heard, pl.chunk) /\ lock'.io = "none"
         /\ lock'.buffer = lock.buffer /\ session'.active = session.active
         /\ io'.acknowledged = io.acknowledged /\ io'.session = io.session /\ io'.epoch = io.epoch
         /\ io'.requested \in {io.requested, io.requested + 1}
         /\ \/ /\ session.active /\ ~session.incomplete /\ session'.incomplete = session.incomplete /\ session'.got = session.got
               /\ session'.wrote = session.wrote + 1
               /\ pl'.pc = "finish" /\ pl'.session = pl.session /\ pl'.epoch = pl.epoch
               /\ io' = io /\ abort' = abort
            \/ /\ io'.requested = io.requested + 1 /\ io'.acknowledged = io.acknowledged /\ io'.session = io.session /\ io'.epoch = io.epoch
               /\ abort' = pl.session /\ pl'.pc = "top" /\ pl'.session = 0
         /\ UNCHANGED <<gate, ingress, buffer, notices, fault, med, cb, net>>
<1>0. UNCHANGED <<gate, ingress, buffer, notices, fault, med, cb, net>>
  BY DEF PlayWrites, shared
<1>1. pl.pc = "write" /\ heard' = Append(heard, pl.chunk)
  BY DEF PlayWrites
<1>2. lock'.io = "none" /\ lock'.buffer = lock.buffer
  <2>1. LockType
    BY DEF TypeOK
  <2> QED BY <2>1 DEF PlayWrites, LockType
<1>3. /\ session'.active = session.active /\ io'.acknowledged = io.acknowledged
      /\ io'.session = io.session /\ io'.epoch = io.epoch
      /\ io'.requested \in {io.requested, io.requested + 1}
      /\ \/ /\ session.active /\ ~session.incomplete /\ session'.incomplete = session.incomplete /\ session'.got = session.got
            /\ session'.wrote = session.wrote + 1
            /\ pl'.pc = "finish" /\ pl'.session = pl.session /\ pl'.epoch = pl.epoch
            /\ io' = io /\ abort' = abort
         \/ /\ io'.requested = io.requested + 1 /\ io'.acknowledged = io.acknowledged /\ io'.session = io.session /\ io'.epoch = io.epoch
            /\ abort' = pl.session /\ pl'.pc = "top" /\ pl'.session = 0
  <2>1. PlType /\ SessionType /\ IoType
    BY DEF TypeOK
  <2>2. CASE CanMarkWritten
    <3>1. /\ session' = [session EXCEPT !.wrote = @ + 1] /\ io' = io /\ abort' = abort
          /\ pl' = [pl EXCEPT !.pc = "finish", !.chunk = NoChunk]
      BY <2>2 DEF PlayWrites, MarkWritten
    <3>2. /\ session'.active = session.active /\ session'.incomplete = session.incomplete
          /\ session'.got = session.got /\ session'.wrote = session.wrote + 1
      BY <2>1, <3>1 DEF SessionType, SessionSet
    <3>3. pl'.pc = "finish" /\ pl'.session = pl.session /\ pl'.epoch = pl.epoch
      BY <2>1, <3>1 DEF PlType
    <3> QED BY <2>2, <3>1, <3>2, <3>3 DEF CanMarkWritten
  <2>3. CASE ~CanMarkWritten
    <3>1. /\ session' = [session EXCEPT !.incomplete = @ \/ session.active]
          /\ abort' = pl.session /\ io' = [io EXCEPT !.requested = @ + 1] /\ Play("top")
      BY <2>3 DEF PlayWrites, FailIngress, GiveUpSession, RequestReset
    <3>2. session'.active = session.active
      BY <2>1, <3>1 DEF SessionType, SessionSet
    <3>3. pl'.pc = "top" /\ pl'.session = 0
      BY <2>1, <3>1, PlayGoes
    <3>4. /\ io'.requested = io.requested + 1 /\ io'.acknowledged = io.acknowledged
          /\ io'.session = io.session /\ io'.epoch = io.epoch
      BY <2>1, <3>1 DEF IoType, IoSet
    <3> QED BY <3>1, <3>2, <3>3, <3>4
  <2> QED BY <2>2, <2>3
<1> QED BY <1>0, <1>1, <1>2, <1>3

LEMMA PlayWriteFailsDoes ==
  ASSUME TypeOK, PlayWriteFails
  PROVE  /\ pl.pc = "write" /\ pl'.pc = "top" /\ pl'.session = 0 /\ lock'.io = "none"
         /\ lock'.buffer = lock.buffer /\ io'.requested = io.requested + 1
         /\ io'.acknowledged = io.acknowledged /\ io'.session = io.session /\ io'.epoch = io.epoch
         /\ abort' = pl.session
         /\ UNCHANGED <<gate, session, ingress, buffer, notices, fault, med, cb, net,
              heard>>
<1>0. UNCHANGED <<gate, session, ingress, buffer, notices, fault, med, cb, net, heard>>
  BY DEF PlayWriteFails, shared
<1>1. pl.pc = "write" /\ pl'.pc = "top" /\ pl'.session = 0
  <2>1. PlType
    BY DEF TypeOK
  <2> QED BY <2>1, PlayGoes DEF PlayWriteFails
<1>2. lock'.io = "none" /\ lock'.buffer = lock.buffer
  <2>1. LockType
    BY DEF TypeOK
  <2> QED BY <2>1 DEF PlayWriteFails, LockType
<1>3. /\ io'.requested = io.requested + 1 /\ io'.acknowledged = io.acknowledged
      /\ io'.session = io.session /\ io'.epoch = io.epoch /\ abort' = pl.session
  <2>1. IoType
    BY DEF TypeOK
  <2> QED BY <2>1 DEF PlayWriteFails, GiveUpSession, RequestReset, IoType, IoSet
<1> QED BY <1>0, <1>1, <1>2, <1>3

LEMMA PlayFinishesDoes ==
  ASSUME TypeOK, PlayFinishes
  PROVE  /\ pl.pc = "finish" /\ lock.io = "none"
         /\ \/ lock'.io = "play" /\ lock'.buffer = lock.buffer /\ pl'.pc = "drain" /\ pl'.session = pl.session /\ pl'.epoch = pl.epoch /\ pl'.reset = pl.reset /\ pl'.report = pl.report /\ pl'.chunk = pl.chunk
            \/ lock' = lock /\ pl'.pc = "top" /\ pl'.session = 0
         /\ UNCHANGED <<gate, io, session, ingress, buffer, abort, notices, fault, med, cb,
              net, heard>>
<1>0. UNCHANGED <<gate, io, session, ingress, buffer, abort, notices, fault, med, cb, net, heard>>
  BY DEF PlayFinishes, shared
<1>1. /\ pl.pc = "finish" /\ lock.io = "none"
      /\ \/ lock'.io = "play" /\ lock'.buffer = lock.buffer /\ pl'.pc = "drain" /\ pl'.session = pl.session /\ pl'.epoch = pl.epoch /\ pl'.reset = pl.reset /\ pl'.report = pl.report /\ pl'.chunk = pl.chunk
         \/ lock' = lock /\ pl'.pc = "top" /\ pl'.session = 0
  <2>1. LockType /\ PlType
    BY DEF TypeOK
  <2> QED BY <2>1, PlayGoes DEF PlayFinishes, LockType
<1> QED BY <1>0, <1>1

LEMMA PlayDrainedDoes ==
  ASSUME TypeOK, PlayDrained
  PROVE  /\ pl.pc = "drain" /\ lock'.io = "none" /\ lock'.buffer = lock.buffer
         /\ io'.acknowledged = io.acknowledged
         /\ io'.requested \in {io.requested, io.requested + 1}
         /\ io'.session \in {io.session, io.session + 1}
         /\ \/ /\ session.active /\ ~session.incomplete /\ session.wrote = Chunks /\ session.got = Chunks
               /\ buffer = <<>> /\ gate.open /\ ResetConfirmed
               /\ ~session'.active /\ abort' = abort
               /\ io'.session = io.session + 1 /\ io'.requested = io.requested /\ io'.acknowledged = io.acknowledged
               /\ notices' = Append(notices, [session |-> pl.session, drained |-> TRUE])
               /\ pl'.pc = "wait" /\ pl'.session = 0
            \/ /\ session' = session /\ notices' = notices /\ pl'.pc = "top" /\ pl'.session = 0
               /\ \/ io' = io /\ abort' = abort
                  \/ abort' = pl.session /\ io'.requested = io.requested + 1 /\ io'.acknowledged = io.acknowledged /\ io'.session = io.session /\ io'.epoch = io.epoch
         /\ UNCHANGED <<gate, ingress, buffer, fault, med, cb, net, heard>>
<1>0. UNCHANGED <<gate, ingress, buffer, fault, med, cb, net, heard>>
  BY DEF PlayDrained, shared
<1>1. pl.pc = "drain"
  BY DEF PlayDrained
<1>2. lock'.io = "none" /\ lock'.buffer = lock.buffer
  <2>1. LockType
    BY DEF TypeOK
  <2> QED BY <2>1 DEF PlayDrained, LockType
<1>3. /\ io'.acknowledged = io.acknowledged /\ io'.requested \in {io.requested, io.requested + 1}
      /\ io'.session \in {io.session, io.session + 1}
      /\ \/ /\ session.active /\ ~session.incomplete /\ session.wrote = Chunks /\ session.got = Chunks
            /\ buffer = <<>> /\ gate.open /\ ResetConfirmed
            /\ ~session'.active /\ abort' = abort
            /\ io'.session = io.session + 1 /\ io'.requested = io.requested /\ io'.acknowledged = io.acknowledged
            /\ notices' = Append(notices, [session |-> pl.session, drained |-> TRUE])
            /\ pl'.pc = "wait" /\ pl'.session = 0
         \/ /\ session' = session /\ notices' = notices /\ pl'.pc = "top" /\ pl'.session = 0
            /\ \/ io' = io /\ abort' = abort
               \/ abort' = pl.session /\ io'.requested = io.requested + 1 /\ io'.acknowledged = io.acknowledged /\ io'.session = io.session /\ io'.epoch = io.epoch
  <2>1. PlType /\ SessionType /\ IoType
    BY DEF TypeOK
  <2>2. CASE MayReport
    <3>1. /\ session' = [session EXCEPT !.active = FALSE, !.incomplete = FALSE, !.ended = TRUE]
          /\ io' = [io EXCEPT !.session = @ + 1, !.epoch = 0]
          /\ notices' = Append(notices, [session |-> pl.session, drained |-> TRUE])
          /\ Play("wait") /\ abort' = abort
      BY <2>2 DEF PlayDrained, Finish, InvalidateSession
    <3>2. ~session'.active
      BY <2>1, <3>1 DEF SessionType, SessionSet
    <3>3. pl'.pc = "wait" /\ pl'.session = 0
      BY <2>1, <3>1, PlayGoes
    <3>4. /\ io'.session = io.session + 1 /\ io'.requested = io.requested
          /\ io'.acknowledged = io.acknowledged
      BY <2>1, <3>1 DEF IoType, IoSet
    <3>5. /\ session.active /\ ~session.incomplete /\ session.wrote = Chunks /\ session.got = Chunks
          /\ buffer = <<>> /\ gate.open /\ ResetConfirmed
      BY <2>2 DEF MayReport, AcceptWrite, Accepts, ReadyToFinish
    <3> QED BY <3>1, <3>2, <3>3, <3>4, <3>5
  <2>3. CASE ~MayReport
    <3>1. /\ session' = session /\ notices' = notices /\ Play("top")
          /\ \/ io' = io /\ abort' = abort
             \/ abort' = pl.session /\ io' = [io EXCEPT !.requested = @ + 1]
      BY <2>3 DEF PlayDrained, GiveUpSession, RequestReset
    <3>2. pl'.pc = "top" /\ pl'.session = 0
      BY <2>1, <3>1, PlayGoes
    <3>3. io' = [io EXCEPT !.requested = @ + 1] =>
            /\ io'.requested = io.requested + 1 /\ io'.acknowledged = io.acknowledged
            /\ io'.session = io.session /\ io'.epoch = io.epoch
      BY <2>1 DEF IoType, IoSet
    <3> QED BY <3>1, <3>2, <3>3
  <2> QED BY <2>2, <2>3
<1> QED BY <1>0, <1>1, <1>2, <1>3

LEMMA ConnectDoes ==
  ASSUME TypeOK, Connect
  PROVE  /\ ~gate.open /\ cb.pc = "idle" /\ net.link = "down" /\ net'.link = "up"
         /\ net'.conn = net.conn + 1 /\ net'.at = net.at
         /\ UNCHANGED <<gate, io, lock, session, ingress, buffer, abort, notices, fault,
              med, cb, pl, heard>>
<1>0. UNCHANGED <<gate, io, lock, session, ingress, buffer, abort, notices, fault, med, cb, pl, heard>>
  BY DEF Connect, shared
<1>1. /\ ~gate.open /\ cb.pc = "idle" /\ net.link = "down" /\ net'.link = "up"
      /\ net'.conn = net.conn + 1 /\ net'.at = net.at
  <2>1. NetType
    BY DEF TypeOK
  <2> QED BY <2>1 DEF Connect, NetType, NetSet
<1> QED BY <1>0, <1>1

LEMMA LoseDoes ==
  ASSUME TypeOK, Lose
  PROVE  /\ net.link = "up" /\ net'.link = "cut" /\ net'.conn = net.conn /\ net'.at = net.at
         /\ UNCHANGED <<gate, io, lock, session, ingress, buffer, abort, notices, fault,
              med, cb, pl, heard>>
<1>0. UNCHANGED <<gate, io, lock, session, ingress, buffer, abort, notices, fault, med, cb, pl, heard>>
  BY DEF Lose, shared
<1>1. net.link = "up" /\ net'.link = "cut" /\ net'.conn = net.conn /\ net'.at = net.at
  <2>1. NetType
    BY DEF TypeOK
  <2> QED BY <2>1 DEF Lose, NetType, NetSet
<1> QED BY <1>0, <1>1

LEMMA LossSeenDoes ==
  ASSUME TypeOK, LossSeen
  PROVE  /\ net.link = "cut" /\ cb.pc = "idle" /\ net'.link = "down" /\ net'.conn = net.conn
         /\ net'.at = 0
         /\ UNCHANGED <<gate, io, lock, session, ingress, buffer, abort, notices, fault,
              med, cb, pl, heard>>
<1>0. UNCHANGED <<gate, io, lock, session, ingress, buffer, abort, notices, fault, med, cb, pl, heard>>
  BY DEF LossSeen, shared
<1>1. /\ net.link = "cut" /\ cb.pc = "idle" /\ net'.link = "down" /\ net'.conn = net.conn
      /\ net'.at = 0
  <2>1. NetType
    BY DEF TypeOK
  <2> QED BY <2>1 DEF LossSeen, NetType, NetSet
<1> QED BY <1>0, <1>1

LEMMA AdoptionBegins ==
  ASSUME TypeOK, AdoptPlayback, med'.pc = "idle"
  PROVE  /\ med.pc = "adopt" /\ med'.msgs = med.msgs /\ ingress.armed /\ ~ingress.incomplete
         /\ ResetConfirmed /\ ingress.epoch # 0 /\ ~ingress'.armed /\ ingress'.got = 0
         /\ ~ingress'.incomplete /\ session'.active /\ ~session'.incomplete
         /\ session'.got = ingress.got /\ session'.wrote = 0 /\ io'.session = io.session + 1
         /\ io'.epoch = ingress.epoch /\ io'.requested = io.requested
         /\ io'.acknowledged = io.acknowledged /\ med'.phase = "playing"
         /\ med'.session = io.session + 1 /\ pl'.pc = pl.pc /\ pl'.session = pl.session
         /\ pl'.epoch = pl.epoch /\ pl'.reset = pl.reset /\ pl'.report = pl.report
         /\ pl'.chunk = pl.chunk
         /\ UNCHANGED <<gate, lock, buffer, abort, notices, fault, cb, net>>
BY AdoptPlaybackDoes

LEMMA AdoptionFails ==
  ASSUME TypeOK, AdoptPlayback, ~(med'.pc = "idle")
  PROVE  /\ med.pc = "adopt" /\ med'.msgs = med.msgs
         /\ session' = session \/ ~session'.active
         /\ ingress' = ingress \/ (~ingress'.armed /\ ingress'.got = 0 /\ ~ingress'.incomplete)
         /\ io' = io /\ heard' = heard /\ med'.pc = "lock" /\ med'.session = med.session
         /\ med'.phase = IF med.phase = "playing" THEN "aborted" ELSE med.phase
         /\ pl'.pc = pl.pc /\ pl'.session = pl.session /\ pl'.epoch = pl.epoch
         /\ pl'.reset = pl.reset /\ pl'.report = pl.report /\ pl'.chunk = pl.chunk
         /\ UNCHANGED <<gate, lock, buffer, abort, notices, fault, cb, net>>
BY AdoptPlaybackDoes

LEMMA WriteCounts ==
  ASSUME TypeOK, PlayWrites, pl'.pc = "finish"
  PROVE  /\ pl.pc = "write" /\ lock'.io = "none" /\ lock'.buffer = lock.buffer /\ session.active
         /\ ~session.incomplete /\ session'.active = session.active
         /\ session'.incomplete = session.incomplete /\ session'.got = session.got
         /\ session'.wrote = session.wrote + 1 /\ pl'.session = pl.session /\ pl'.epoch = pl.epoch
         /\ io' = io /\ abort' = abort
         /\ UNCHANGED <<gate, ingress, buffer, notices, fault, med, cb, net>>
BY PlayWritesDoes

LEMMA WriteSpoils ==
  ASSUME TypeOK, PlayWrites, ~(pl'.pc = "finish")
  PROVE  /\ pl.pc = "write" /\ lock'.io = "none" /\ lock'.buffer = lock.buffer
         /\ session'.active = session.active /\ io'.requested = io.requested + 1
         /\ io'.acknowledged = io.acknowledged /\ io'.session = io.session /\ io'.epoch = io.epoch
         /\ abort' = pl.session /\ pl'.pc = "top" /\ pl'.session = 0
         /\ UNCHANGED <<gate, ingress, buffer, notices, fault, med, cb, net>>
BY PlayWritesDoes

LEMMA DrainReports ==
  ASSUME TypeOK, PlayDrained, pl'.pc = "wait"
  PROVE  /\ pl.pc = "drain" /\ lock'.io = "none" /\ lock'.buffer = lock.buffer /\ session.active
         /\ ~session.incomplete /\ session.wrote = Chunks /\ session.got = Chunks /\ buffer = <<>>
         /\ gate.open /\ ResetConfirmed /\ ~session'.active /\ abort' = abort
         /\ io'.session = io.session + 1 /\ io'.requested = io.requested
         /\ io'.acknowledged = io.acknowledged /\ pl'.session = 0
         /\ UNCHANGED <<gate, ingress, buffer, fault, med, cb, net, heard>>
BY PlayDrainedDoes

LEMMA DrainWaits ==
  ASSUME TypeOK, PlayDrained, ~(pl'.pc = "wait")
  PROVE  /\ pl.pc = "drain" /\ lock'.io = "none" /\ lock'.buffer = lock.buffer
         /\ session' = session /\ notices' = notices /\ pl'.pc = "top" /\ pl'.session = 0
         /\ io'.session = io.session /\ io'.epoch = io.epoch /\ io'.acknowledged = io.acknowledged
         /\ io'.requested \in {io.requested, io.requested + 1} /\ abort' \in {abort, pl.session}
         /\ UNCHANGED <<gate, ingress, buffer, fault, med, cb, net, heard>>
BY PlayDrainedDoes


----------------------------------------------------------------------------
(* Who holds the two mutexes.                                              *)

Numbers ==
  /\ gate.epoch \in Nat /\ io.requested \in Nat /\ io.acknowledged \in Nat
  /\ io.session \in Nat /\ io.epoch \in Nat
  /\ ingress.epoch \in Nat /\ ingress.got \in Nat /\ session.got \in Nat /\ session.wrote \in Nat
  /\ med.session \in Nat /\ cb.epoch \in Nat /\ cb.reset \in Nat /\ abort \in Nat
  /\ pl.session \in Nat /\ pl.reset \in Nat /\ pl.report \in Nat
  /\ net.conn \in Nat /\ net.at \in Nat

LEMMA NumbersAre == (TypeOK => Numbers) /\ (TypeOK' => Numbers')
<1>1. /\ GateType => gate.epoch \in Nat
      /\ GateType' => gate'.epoch \in Nat
  BY DEF GateType
<1>2. /\ IoType => io.requested \in Nat /\ io.acknowledged \in Nat /\ io.session \in Nat /\ io.epoch \in Nat
      /\ IoType' => io'.requested \in Nat /\ io'.acknowledged \in Nat /\ io'.session \in Nat /\ io'.epoch \in Nat
  BY DEF IoType, IoSet
<1>3. /\ IngressType => ingress.epoch \in Nat /\ ingress.got \in Nat
      /\ IngressType' => ingress'.epoch \in Nat /\ ingress'.got \in Nat
  BY DEF IngressType, IngressSet
<1>4. /\ SessionType => session.got \in Nat /\ session.wrote \in Nat
      /\ SessionType' => session'.got \in Nat /\ session'.wrote \in Nat
  BY DEF SessionType, SessionSet
<1>5. /\ MedType => med.session \in Nat
      /\ MedType' => med'.session \in Nat
  BY DEF MedType, MedSet
<1>6. /\ CbType => cb.epoch \in Nat /\ cb.reset \in Nat
      /\ CbType' => cb'.epoch \in Nat /\ cb'.reset \in Nat
  BY DEF CbType
<1>7. /\ PlType => pl.session \in Nat /\ pl.reset \in Nat /\ pl.report \in Nat
      /\ PlType' => pl'.session \in Nat /\ pl'.reset \in Nat /\ pl'.report \in Nat
  BY DEF PlType
<1>8. /\ NetType => net.conn \in Nat /\ net.at \in Nat
      /\ NetType' => net'.conn \in Nat /\ net'.at \in Nat
  BY DEF NetType, NetSet
<1>9. (AbortType => abort \in Nat) /\ (AbortType' => abort' \in Nat)
  BY DEF AbortType
<1> QED BY <1>1, <1>2, <1>3, <1>4, <1>5, <1>6, <1>7, <1>8, <1>9 DEF TypeOK, Numbers

MediationLocks == lock.io = "mediation" <=> med.pc \in {"gate", "request", "release"} /\ med.locked
PlayLocksIo == lock.io = "play" <=> pl.pc \in {"lockBuffer", "abort", "clear", "write", "drain"}
PlayLocksBuffer == lock.buffer = "play" <=> pl.pc \in {"abort", "clear"}
CallbackLocks == lock.buffer = "callback" <=> cb.pc \in {"reserve", "refused", "send"}

LockInv == MediationLocks /\ PlayLocksIo /\ PlayLocksBuffer /\ CallbackLocks

LEMMA MediationLocksStep ==
  ASSUME [Next]_vars, TypeOK, LockInv
  PROVE  MediationLocks'
<1>1. CASE HandleCustom
  BY <1>1, HandleCustomDoes DEF LockInv, MediationLocks, PlayLocksIo
<1>2. CASE PlayAudioLocks
  BY <1>2, PlayAudioLocksDoes DEF LockInv, MediationLocks, PlayLocksIo
<1>3. CASE PlayAudioRefused
  BY <1>3, PlayAudioRefusedDoes DEF LockInv, MediationLocks, PlayLocksIo
<1>4. CASE PlayAudioSends
  BY <1>4, PlayAudioSendsDoes DEF LockInv, MediationLocks, PlayLocksIo
<1>5. CASE PlayAudioOverflows
  BY <1>5, PlayAudioOverflowsDoes DEF LockInv, MediationLocks, PlayLocksIo
<1>6. CASE ResetLocks
  BY <1>6, ResetLocksDoes DEF LockInv, MediationLocks, PlayLocksIo
<1>7. CASE ResetDoesNotLock
  BY <1>7, ResetDoesNotLockDoes DEF LockInv, MediationLocks, PlayLocksIo
<1>8. CASE ResetGate
  BY <1>8, ResetGateDoes DEF LockInv, MediationLocks, PlayLocksIo
<1>9. CASE ResetRequest
  BY <1>9, ResetRequestDoes DEF LockInv, MediationLocks, PlayLocksIo
<1>10. CASE ResetReleases
  BY <1>10, ResetReleasesDoes DEF LockInv, MediationLocks, PlayLocksIo
<1>11. CASE ResetReturns
  BY <1>11, ResetReturnsDoes DEF LockInv, MediationLocks, PlayLocksIo
<1>12. CASE DrainBridgeIngressFault
  BY <1>12, DrainBridgeIngressFaultDoes DEF LockInv, MediationLocks, PlayLocksIo
<1>13. CASE CleanupObservedDisconnect
  BY <1>13, CleanupObservedDisconnectDoes DEF LockInv, MediationLocks, PlayLocksIo
<1>14. CASE Request
  BY <1>14, RequestDoes DEF LockInv, MediationLocks, PlayLocksIo
<1>15. CASE DropMessages
  BY <1>15, DropMessagesDoes DEF LockInv, MediationLocks, PlayLocksIo
<1>16. CASE ApplyAudioStart
  BY <1>16, ApplyAudioStartDoes DEF LockInv, MediationLocks, PlayLocksIo
<1>17. CASE AdoptPlayback
  <2>1. CASE med'.pc = "idle"
    BY <1>17, AdoptionBegins, <2>1 DEF LockInv, MediationLocks, PlayLocksIo
  <2>2. CASE ~(med'.pc = "idle")
    BY <1>17, AdoptionFails, <2>2 DEF LockInv, MediationLocks, PlayLocksIo
  <2> QED BY <2>1, <2>2
<1>18. CASE ApplyAudioEnd
  BY <1>18, ApplyAudioEndDoes DEF LockInv, MediationLocks, PlayLocksIo
<1>19. CASE DrainPlaybackNotices
  BY <1>19, DrainPlaybackNoticesDoes DEF LockInv, MediationLocks, PlayLocksIo
<1>20. CASE PlayResetLocks
  BY <1>20, PlayResetLocksDoes DEF LockInv, MediationLocks, PlayLocksIo
<1>21. CASE PlayResetLocksBuffer
  BY <1>21, PlayResetLocksBufferDoes DEF LockInv, MediationLocks, PlayLocksIo
<1>22. CASE PlayAcknowledges
  BY <1>22, PlayAcknowledgesDoes DEF LockInv, MediationLocks, PlayLocksIo
<1>23. CASE PlayResetFails
  BY <1>23, PlayResetFailsDoes DEF LockInv, MediationLocks, PlayLocksIo
<1>24. CASE PlayLocks
  BY <1>24, PlayLocksDoes DEF LockInv, MediationLocks, PlayLocksIo
<1>25. CASE PlayWrites
  <2>1. CASE pl'.pc = "finish"
    BY <1>25, WriteCounts, <2>1 DEF LockInv, MediationLocks, PlayLocksIo
  <2>2. CASE ~(pl'.pc = "finish")
    BY <1>25, WriteSpoils, <2>2 DEF LockInv, MediationLocks, PlayLocksIo
  <2> QED BY <2>1, <2>2
<1>26. CASE PlayWriteFails
  BY <1>26, PlayWriteFailsDoes DEF LockInv, MediationLocks, PlayLocksIo
<1>27. CASE PlayFinishes
  BY <1>27, PlayFinishesDoes DEF LockInv, MediationLocks, PlayLocksIo
<1>28. CASE PlayDrained
  <2>1. CASE pl'.pc = "wait"
    BY <1>28, DrainReports, <2>1 DEF LockInv, MediationLocks, PlayLocksIo
  <2>2. CASE ~(pl'.pc = "wait")
    BY <1>28, DrainWaits, <2>2 DEF LockInv, MediationLocks, PlayLocksIo
  <2> QED BY <2>1, <2>2
<1>29. CASE lock' = lock /\ med' = med
  BY <1>29 DEF LockInv, MediationLocks, PlayLocksIo
<1> QED BY WhoWrites, <1>1, <1>2, <1>3, <1>4, <1>5, <1>6, <1>7, <1>8, <1>9, <1>10, <1>11, <1>12,
  <1>13, <1>14, <1>15, <1>16, <1>17, <1>18, <1>19, <1>20, <1>21, <1>22, <1>23, <1>24, <1>25, <1>26,
  <1>27, <1>28, <1>29 DEF Shapes, LockShape, MedShape

LEMMA PlayLocksIoStep ==
  ASSUME [Next]_vars, TypeOK, LockInv
  PROVE  PlayLocksIo'
<1>1. CASE PlayAudioLocks
  BY <1>1, PlayAudioLocksDoes DEF LockInv, MediationLocks, PlayLocksIo
<1>2. CASE PlayAudioRefused
  BY <1>2, PlayAudioRefusedDoes DEF LockInv, MediationLocks, PlayLocksIo
<1>3. CASE PlayAudioSends
  BY <1>3, PlayAudioSendsDoes DEF LockInv, MediationLocks, PlayLocksIo
<1>4. CASE PlayAudioOverflows
  BY <1>4, PlayAudioOverflowsDoes DEF LockInv, MediationLocks, PlayLocksIo
<1>5. CASE ResetLocks
  BY <1>5, ResetLocksDoes DEF LockInv, MediationLocks, PlayLocksIo
<1>6. CASE ResetReleases
  BY <1>6, ResetReleasesDoes DEF LockInv, MediationLocks, PlayLocksIo
<1>7. CASE AdoptPlayback
  <2>1. CASE med'.pc = "idle"
    BY <1>7, AdoptionBegins, <2>1 DEF LockInv, MediationLocks, PlayLocksIo
  <2>2. CASE ~(med'.pc = "idle")
    BY <1>7, AdoptionFails, <2>2 DEF LockInv, MediationLocks, PlayLocksIo
  <2> QED BY <2>1, <2>2
<1>8. CASE ApplyAudioEnd
  BY <1>8, ApplyAudioEndDoes DEF LockInv, MediationLocks, PlayLocksIo
<1>9. CASE PlayWakes
  BY <1>9, PlayWakesDoes DEF LockInv, MediationLocks, PlayLocksIo
<1>10. CASE PlayStartsReset
  BY <1>10, PlayStartsResetDoes DEF LockInv, MediationLocks, PlayLocksIo
<1>11. CASE PlayResetLocks
  BY <1>11, PlayResetLocksDoes DEF LockInv, MediationLocks, PlayLocksIo
<1>12. CASE PlayResetLocksBuffer
  BY <1>12, PlayResetLocksBufferDoes DEF LockInv, MediationLocks, PlayLocksIo
<1>13. CASE PlayAborts
  BY <1>13, PlayAbortsDoes DEF LockInv, MediationLocks, PlayLocksIo
<1>14. CASE PlayAcknowledges
  BY <1>14, PlayAcknowledgesDoes DEF LockInv, MediationLocks, PlayLocksIo
<1>15. CASE PlayResetFails
  BY <1>15, PlayResetFailsDoes DEF LockInv, MediationLocks, PlayLocksIo
<1>16. CASE PlayReads
  BY <1>16, PlayReadsDoes DEF LockInv, MediationLocks, PlayLocksIo
<1>17. CASE PlayIncomplete
  BY <1>17, PlayIncompleteDoes DEF LockInv, MediationLocks, PlayLocksIo
<1>18. CASE PlayReceives
  BY <1>18, PlayReceivesDoes DEF LockInv, MediationLocks, PlayLocksIo
<1>19. CASE PlayLocks
  BY <1>19, PlayLocksDoes DEF LockInv, MediationLocks, PlayLocksIo
<1>20. CASE PlayWrites
  <2>1. CASE pl'.pc = "finish"
    BY <1>20, WriteCounts, <2>1 DEF LockInv, MediationLocks, PlayLocksIo
  <2>2. CASE ~(pl'.pc = "finish")
    BY <1>20, WriteSpoils, <2>2 DEF LockInv, MediationLocks, PlayLocksIo
  <2> QED BY <2>1, <2>2
<1>21. CASE PlayWriteFails
  BY <1>21, PlayWriteFailsDoes DEF LockInv, MediationLocks, PlayLocksIo
<1>22. CASE PlayFinishes
  BY <1>22, PlayFinishesDoes DEF LockInv, MediationLocks, PlayLocksIo
<1>23. CASE PlayDrained
  <2>1. CASE pl'.pc = "wait"
    BY <1>23, DrainReports, <2>1 DEF LockInv, MediationLocks, PlayLocksIo
  <2>2. CASE ~(pl'.pc = "wait")
    BY <1>23, DrainWaits, <2>2 DEF LockInv, MediationLocks, PlayLocksIo
  <2> QED BY <2>1, <2>2
<1>24. CASE lock' = lock /\ pl' = pl
  BY <1>24 DEF LockInv, MediationLocks, PlayLocksIo
<1> QED BY WhoWrites, <1>1, <1>2, <1>3, <1>4, <1>5, <1>6, <1>7, <1>8, <1>9, <1>10, <1>11, <1>12,
  <1>13, <1>14, <1>15, <1>16, <1>17, <1>18, <1>19, <1>20, <1>21, <1>22, <1>23, <1>24 DEF Shapes,
  LockShape, PlShape

LEMMA PlayLocksBufferStep ==
  ASSUME [Next]_vars, TypeOK, LockInv
  PROVE  PlayLocksBuffer'
<1>1. CASE PlayAudioLocks
  BY <1>1, PlayAudioLocksDoes DEF LockInv, CallbackLocks, PlayLocksBuffer
<1>2. CASE PlayAudioRefused
  BY <1>2, PlayAudioRefusedDoes DEF LockInv, CallbackLocks, PlayLocksBuffer
<1>3. CASE PlayAudioSends
  BY <1>3, PlayAudioSendsDoes DEF LockInv, CallbackLocks, PlayLocksBuffer
<1>4. CASE PlayAudioOverflows
  BY <1>4, PlayAudioOverflowsDoes DEF LockInv, CallbackLocks, PlayLocksBuffer
<1>5. CASE ResetLocks
  BY <1>5, ResetLocksDoes DEF LockInv, CallbackLocks, PlayLocksBuffer
<1>6. CASE ResetReleases
  BY <1>6, ResetReleasesDoes DEF LockInv, CallbackLocks, PlayLocksBuffer
<1>7. CASE AdoptPlayback
  <2>1. CASE med'.pc = "idle"
    BY <1>7, AdoptionBegins, <2>1 DEF LockInv, CallbackLocks, PlayLocksBuffer
  <2>2. CASE ~(med'.pc = "idle")
    BY <1>7, AdoptionFails, <2>2 DEF LockInv, CallbackLocks, PlayLocksBuffer
  <2> QED BY <2>1, <2>2
<1>8. CASE ApplyAudioEnd
  BY <1>8, ApplyAudioEndDoes DEF LockInv, CallbackLocks, PlayLocksBuffer
<1>9. CASE PlayWakes
  BY <1>9, PlayWakesDoes DEF LockInv, CallbackLocks, PlayLocksBuffer
<1>10. CASE PlayStartsReset
  BY <1>10, PlayStartsResetDoes DEF LockInv, CallbackLocks, PlayLocksBuffer
<1>11. CASE PlayResetLocks
  BY <1>11, PlayResetLocksDoes DEF LockInv, CallbackLocks, PlayLocksBuffer
<1>12. CASE PlayResetLocksBuffer
  BY <1>12, PlayResetLocksBufferDoes DEF LockInv, CallbackLocks, PlayLocksBuffer
<1>13. CASE PlayAborts
  BY <1>13, PlayAbortsDoes DEF LockInv, CallbackLocks, PlayLocksBuffer
<1>14. CASE PlayAcknowledges
  BY <1>14, PlayAcknowledgesDoes DEF LockInv, CallbackLocks, PlayLocksBuffer
<1>15. CASE PlayResetFails
  BY <1>15, PlayResetFailsDoes DEF LockInv, CallbackLocks, PlayLocksBuffer
<1>16. CASE PlayReads
  BY <1>16, PlayReadsDoes DEF LockInv, CallbackLocks, PlayLocksBuffer
<1>17. CASE PlayIncomplete
  BY <1>17, PlayIncompleteDoes DEF LockInv, CallbackLocks, PlayLocksBuffer
<1>18. CASE PlayReceives
  BY <1>18, PlayReceivesDoes DEF LockInv, CallbackLocks, PlayLocksBuffer
<1>19. CASE PlayLocks
  BY <1>19, PlayLocksDoes DEF LockInv, CallbackLocks, PlayLocksBuffer
<1>20. CASE PlayWrites
  <2>1. CASE pl'.pc = "finish"
    BY <1>20, WriteCounts, <2>1 DEF LockInv, CallbackLocks, PlayLocksBuffer
  <2>2. CASE ~(pl'.pc = "finish")
    BY <1>20, WriteSpoils, <2>2 DEF LockInv, CallbackLocks, PlayLocksBuffer
  <2> QED BY <2>1, <2>2
<1>21. CASE PlayWriteFails
  BY <1>21, PlayWriteFailsDoes DEF LockInv, CallbackLocks, PlayLocksBuffer
<1>22. CASE PlayFinishes
  BY <1>22, PlayFinishesDoes DEF LockInv, CallbackLocks, PlayLocksBuffer
<1>23. CASE PlayDrained
  <2>1. CASE pl'.pc = "wait"
    BY <1>23, DrainReports, <2>1 DEF LockInv, CallbackLocks, PlayLocksBuffer
  <2>2. CASE ~(pl'.pc = "wait")
    BY <1>23, DrainWaits, <2>2 DEF LockInv, CallbackLocks, PlayLocksBuffer
  <2> QED BY <2>1, <2>2
<1>24. CASE lock' = lock /\ pl' = pl
  BY <1>24 DEF LockInv, CallbackLocks, PlayLocksBuffer
<1> QED BY WhoWrites, <1>1, <1>2, <1>3, <1>4, <1>5, <1>6, <1>7, <1>8, <1>9, <1>10, <1>11, <1>12,
  <1>13, <1>14, <1>15, <1>16, <1>17, <1>18, <1>19, <1>20, <1>21, <1>22, <1>23, <1>24 DEF Shapes,
  LockShape, PlShape

LEMMA CallbackLocksStep ==
  ASSUME [Next]_vars, TypeOK, LockInv
  PROVE  CallbackLocks'
<1>1. CASE PlayAudio
  BY <1>1, PlayAudioDoes DEF LockInv, CallbackLocks, PlayLocksBuffer
<1>2. CASE PlayAudioReadsReset
  BY <1>2, PlayAudioReadsResetDoes DEF LockInv, CallbackLocks, PlayLocksBuffer
<1>3. CASE PlayAudioReadsFault
  BY <1>3, PlayAudioReadsFaultDoes DEF LockInv, CallbackLocks, PlayLocksBuffer
<1>4. CASE PlayAudioLocks
  BY <1>4, PlayAudioLocksDoes DEF LockInv, CallbackLocks, PlayLocksBuffer
<1>5. CASE PlayAudioReserves
  BY <1>5, PlayAudioReservesDoes DEF LockInv, CallbackLocks, PlayLocksBuffer
<1>6. CASE PlayAudioRefused
  BY <1>6, PlayAudioRefusedDoes DEF LockInv, CallbackLocks, PlayLocksBuffer
<1>7. CASE PlayAudioSends
  BY <1>7, PlayAudioSendsDoes DEF LockInv, CallbackLocks, PlayLocksBuffer
<1>8. CASE PlayAudioOverflows
  BY <1>8, PlayAudioOverflowsDoes DEF LockInv, CallbackLocks, PlayLocksBuffer
<1>9. CASE ResetLocks
  BY <1>9, ResetLocksDoes DEF LockInv, CallbackLocks, PlayLocksBuffer
<1>10. CASE ResetReleases
  BY <1>10, ResetReleasesDoes DEF LockInv, CallbackLocks, PlayLocksBuffer
<1>11. CASE PlayResetLocks
  BY <1>11, PlayResetLocksDoes DEF LockInv, CallbackLocks, PlayLocksBuffer
<1>12. CASE PlayResetLocksBuffer
  BY <1>12, PlayResetLocksBufferDoes DEF LockInv, CallbackLocks, PlayLocksBuffer
<1>13. CASE PlayAcknowledges
  BY <1>13, PlayAcknowledgesDoes DEF LockInv, CallbackLocks, PlayLocksBuffer
<1>14. CASE PlayResetFails
  BY <1>14, PlayResetFailsDoes DEF LockInv, CallbackLocks, PlayLocksBuffer
<1>15. CASE PlayLocks
  BY <1>15, PlayLocksDoes DEF LockInv, CallbackLocks, PlayLocksBuffer
<1>16. CASE PlayWrites
  <2>1. CASE pl'.pc = "finish"
    BY <1>16, WriteCounts, <2>1 DEF LockInv, CallbackLocks, PlayLocksBuffer
  <2>2. CASE ~(pl'.pc = "finish")
    BY <1>16, WriteSpoils, <2>2 DEF LockInv, CallbackLocks, PlayLocksBuffer
  <2> QED BY <2>1, <2>2
<1>17. CASE PlayWriteFails
  BY <1>17, PlayWriteFailsDoes DEF LockInv, CallbackLocks, PlayLocksBuffer
<1>18. CASE PlayFinishes
  BY <1>18, PlayFinishesDoes DEF LockInv, CallbackLocks, PlayLocksBuffer
<1>19. CASE PlayDrained
  <2>1. CASE pl'.pc = "wait"
    BY <1>19, DrainReports, <2>1 DEF LockInv, CallbackLocks, PlayLocksBuffer
  <2>2. CASE ~(pl'.pc = "wait")
    BY <1>19, DrainWaits, <2>2 DEF LockInv, CallbackLocks, PlayLocksBuffer
  <2> QED BY <2>1, <2>2
<1>20. CASE lock' = lock /\ cb' = cb
  BY <1>20 DEF LockInv, CallbackLocks, PlayLocksBuffer
<1> QED BY WhoWrites, <1>1, <1>2, <1>3, <1>4, <1>5, <1>6, <1>7, <1>8, <1>9, <1>10, <1>11, <1>12,
  <1>13, <1>14, <1>15, <1>16, <1>17, <1>18, <1>19, <1>20 DEF Shapes, LockShape, CbShape

LEMMA LockStep == ASSUME [Next]_vars, TypeOK, LockInv PROVE LockInv'
BY MediationLocksStep, PlayLocksIoStep, PlayLocksBufferStep, CallbackLocksStep DEF LockInv

----------------------------------------------------------------------------
(* The resets, the gate and the lease of the session.                      *)

Acknowledged == io.acknowledged <= io.requested
PlayResets ==
  /\ pl.pc = "lock" => io.acknowledged < io.requested
  /\ pl.pc \in {"lockBuffer", "abort", "clear"} =>
       io.acknowledged < pl.reset /\ pl.reset <= io.requested
CallbackResets ==
  /\ cb.pc \in {"fault", "lock", "reserve", "refused", "send"} => cb.reset <= io.requested
  /\ cb.pc = "send" => cb.reset = io.acknowledged
ResetInv == Acknowledged /\ PlayResets /\ CallbackResets

LinkUp == net.link = "down" => net.at = 0
CallbackInv ==
  cb.pc # "idle" =>
    /\ net.at \in 3..LastItem /\ net.link # "down"
    /\ cb.chunk = [conn |-> net.conn, at |-> net.at - 2]
    /\ gate.open => cb.epoch = gate.epoch

PlayHolds ==
  pl.pc \in {"receive", "locked", "write", "finish", "drain"} =>
    session.active /\ pl.session = io.session /\ pl.epoch = io.epoch
Cleared == pl.pc = "clear" => ~session.active /\ ~ingress.armed
Unarmed == ~ingress.armed => ingress.got = 0 /\ ~ingress.incomplete
OneReservation == session.active => ~ingress.armed
ArmedCurrent == gate.open /\ ResetConfirmed /\ ingress.armed => ingress.epoch = gate.epoch
Lease ==
  session.active =>
    /\ io.epoch # 0 /\ io.session # 0
    /\ gate.open /\ ResetConfirmed => io.epoch = gate.epoch
Adopting == med.pc = "adopt" => med.phase = "inflight" /\ ~session.active /\ gate.open
Clean == ~session.active /\ ~ingress.armed /\ buffer = <<>> /\ cb.pc # "send"
Closed == ~gate.open /\ ResetConfirmed /\ med.pc # "request" => Clean
Playing ==
  session.active /\ ResetConfirmed /\ med.pc \notin {"lock", "gate", "request"} =>
    med.pc = "idle" /\ med.phase = "playing" /\ med.session = io.session
Sessions ==
  /\ med.session <= io.session /\ pl.session <= io.session /\ abort <= io.session
  /\ pl.pc = "clear" => pl.report < io.session
Noticed == \A i \in DOMAIN notices : notices[i].session < io.session

ControlInv ==
  /\ LockInv /\ ResetInv /\ LinkUp /\ CallbackInv /\ PlayHolds /\ Cleared /\ Unarmed /\ OneReservation
  /\ ArmedCurrent /\ Lease /\ Adopting /\ Closed /\ Playing /\ Sessions /\ Noticed

LEMMA AcknowledgedStep ==
  ASSUME [Next]_vars, TypeOK, ResetInv
  PROVE  Acknowledged'
<1>0. Numbers /\ Numbers'
  BY NumbersAre, TypesStep
<1>1. CASE ResetRequest
  BY <1>0, <1>1, ResetRequestDoes DEF ResetInv, Acknowledged, PlayResets, Numbers
<1>2. CASE AdoptPlayback
  <2>1. CASE med'.pc = "idle"
    BY <1>0, <1>2, AdoptionBegins, <2>1 DEF ResetInv, Acknowledged, PlayResets, Numbers
  <2>2. CASE ~(med'.pc = "idle")
    BY <1>0, <1>2, AdoptionFails, <2>2 DEF ResetInv, Acknowledged, PlayResets, Numbers
  <2> QED BY <2>1, <2>2
<1>3. CASE PlayAborts
  BY <1>0, <1>3, PlayAbortsDoes DEF ResetInv, Acknowledged, PlayResets, Numbers
<1>4. CASE PlayAcknowledges
  BY <1>0, <1>4, PlayAcknowledgesDoes DEF ResetInv, Acknowledged, PlayResets, Numbers
<1>5. CASE PlayIncomplete
  BY <1>0, <1>5, PlayIncompleteDoes DEF ResetInv, Acknowledged, PlayResets, Numbers
<1>6. CASE PlayWrites
  <2>1. CASE pl'.pc = "finish"
    BY <1>0, <1>6, WriteCounts, <2>1 DEF ResetInv, Acknowledged, PlayResets, Numbers
  <2>2. CASE ~(pl'.pc = "finish")
    BY <1>0, <1>6, WriteSpoils, <2>2 DEF ResetInv, Acknowledged, PlayResets, Numbers
  <2> QED BY <2>1, <2>2
<1>7. CASE PlayWriteFails
  BY <1>0, <1>7, PlayWriteFailsDoes DEF ResetInv, Acknowledged, PlayResets, Numbers
<1>8. CASE PlayDrained
  <2>1. CASE pl'.pc = "wait"
    BY <1>0, <1>8, DrainReports, <2>1 DEF ResetInv, Acknowledged, PlayResets, Numbers
  <2>2. CASE ~(pl'.pc = "wait")
    BY <1>0, <1>8, DrainWaits, <2>2 DEF ResetInv, Acknowledged, PlayResets, Numbers
  <2> QED BY <2>1, <2>2
<1>9. CASE io' = io
  BY <1>9 DEF ResetInv, Acknowledged, PlayResets
<1> QED BY WhoWrites, <1>1, <1>2, <1>3, <1>4, <1>5, <1>6, <1>7, <1>8, <1>9 DEF Shapes, IoShape

LEMMA PlayResetsStep ==
  ASSUME [Next]_vars, TypeOK, ResetInv
  PROVE  PlayResets'
<1>0. Numbers /\ Numbers'
  BY NumbersAre, TypesStep
<1>1. CASE PlayAudioOverflows
  BY <1>0, <1>1, PlayAudioOverflowsDoes DEF ResetInv, Acknowledged, PlayResets, Numbers
<1>2. CASE ResetRequest
  BY <1>0, <1>2, ResetRequestDoes DEF ResetInv, Acknowledged, PlayResets, Numbers
<1>3. CASE ResetReleases
  BY <1>0, <1>3, ResetReleasesDoes DEF ResetInv, Acknowledged, PlayResets, Numbers
<1>4. CASE AdoptPlayback
  <2>1. CASE med'.pc = "idle"
    BY <1>0, <1>4, AdoptionBegins, <2>1 DEF ResetInv, Acknowledged, PlayResets, Numbers
  <2>2. CASE ~(med'.pc = "idle")
    BY <1>0, <1>4, AdoptionFails, <2>2 DEF ResetInv, Acknowledged, PlayResets, Numbers
  <2> QED BY <2>1, <2>2
<1>5. CASE ApplyAudioEnd
  BY <1>0, <1>5, ApplyAudioEndDoes DEF ResetInv, Acknowledged, PlayResets, Numbers
<1>6. CASE PlayWakes
  BY <1>0, <1>6, PlayWakesDoes DEF ResetInv, Acknowledged, PlayResets, Numbers
<1>7. CASE PlayStartsReset
  BY <1>0, <1>7, PlayStartsResetDoes DEF ResetInv, Acknowledged, PlayResets, ResetConfirmed, Numbers
<1>8. CASE PlayResetLocks
  BY <1>0, <1>8, PlayResetLocksDoes DEF ResetInv, Acknowledged, PlayResets, Numbers
<1>9. CASE PlayResetLocksBuffer
  BY <1>0, <1>9, PlayResetLocksBufferDoes DEF ResetInv, Acknowledged, PlayResets, Numbers
<1>10. CASE PlayAborts
  BY <1>0, <1>10, PlayAbortsDoes DEF ResetInv, Acknowledged, PlayResets, Numbers
<1>11. CASE PlayAcknowledges
  BY <1>0, <1>11, PlayAcknowledgesDoes DEF ResetInv, Acknowledged, PlayResets, Numbers
<1>12. CASE PlayResetFails
  BY <1>0, <1>12, PlayResetFailsDoes DEF ResetInv, Acknowledged, PlayResets, Numbers
<1>13. CASE PlayReads
  BY <1>0, <1>13, PlayReadsDoes DEF ResetInv, Acknowledged, PlayResets, Numbers
<1>14. CASE PlayIncomplete
  BY <1>0, <1>14, PlayIncompleteDoes DEF ResetInv, Acknowledged, PlayResets, Numbers
<1>15. CASE PlayReceives
  BY <1>0, <1>15, PlayReceivesDoes DEF ResetInv, Acknowledged, PlayResets, Numbers
<1>16. CASE PlayLocks
  BY <1>0, <1>16, PlayLocksDoes DEF ResetInv, Acknowledged, PlayResets, Numbers
<1>17. CASE PlayWrites
  <2>1. CASE pl'.pc = "finish"
    BY <1>0, <1>17, WriteCounts, <2>1 DEF ResetInv, Acknowledged, PlayResets, Numbers
  <2>2. CASE ~(pl'.pc = "finish")
    BY <1>0, <1>17, WriteSpoils, <2>2 DEF ResetInv, Acknowledged, PlayResets, Numbers
  <2> QED BY <2>1, <2>2
<1>18. CASE PlayWriteFails
  BY <1>0, <1>18, PlayWriteFailsDoes DEF ResetInv, Acknowledged, PlayResets, Numbers
<1>19. CASE PlayFinishes
  BY <1>0, <1>19, PlayFinishesDoes DEF ResetInv, Acknowledged, PlayResets, Numbers
<1>20. CASE PlayDrained
  <2>1. CASE pl'.pc = "wait"
    BY <1>0, <1>20, DrainReports, <2>1 DEF ResetInv, Acknowledged, PlayResets, Numbers
  <2>2. CASE ~(pl'.pc = "wait")
    BY <1>0, <1>20, DrainWaits, <2>2 DEF ResetInv, Acknowledged, PlayResets, Numbers
  <2> QED BY <2>1, <2>2
<1>21. CASE io' = io /\ pl' = pl
  BY <1>21 DEF ResetInv, Acknowledged, PlayResets
<1> QED BY WhoWrites, <1>1, <1>2, <1>3, <1>4, <1>5, <1>6, <1>7, <1>8, <1>9, <1>10, <1>11, <1>12,
  <1>13, <1>14, <1>15, <1>16, <1>17, <1>18, <1>19, <1>20, <1>21 DEF Shapes, IoShape, PlShape

LEMMA CallbackResetsStep ==
  ASSUME [Next]_vars, TypeOK, ResetInv, LockInv
  PROVE  CallbackResets'
<1>0. Numbers /\ Numbers'
  BY NumbersAre, TypesStep
<1>1. CASE PlayAudio
  BY <1>0, <1>1, PlayAudioDoes DEF ResetInv, CallbackResets, Acknowledged, Numbers
<1>2. CASE PlayAudioReadsReset
  BY <1>0, <1>2, PlayAudioReadsResetDoes DEF ResetInv, CallbackResets, Acknowledged, Numbers
<1>3. CASE PlayAudioReadsFault
  BY <1>0, <1>3, PlayAudioReadsFaultDoes DEF ResetInv, CallbackResets, Acknowledged, Numbers
<1>4. CASE PlayAudioLocks
  BY <1>0, <1>4, PlayAudioLocksDoes DEF ResetInv, CallbackResets, Acknowledged, Numbers
<1>5. CASE PlayAudioReserves
  BY <1>0, <1>5, PlayAudioReservesDoes DEF ResetInv, CallbackResets, Acknowledged, Current,
    AcceptCallback, ResetConfirmed, Numbers
<1>6. CASE PlayAudioRefused
  BY <1>0, <1>6, PlayAudioRefusedDoes DEF ResetInv, CallbackResets, Acknowledged, Numbers
<1>7. CASE PlayAudioSends
  BY <1>0, <1>7, PlayAudioSendsDoes DEF ResetInv, CallbackResets, Acknowledged, Numbers
<1>8. CASE PlayAudioOverflows
  BY <1>0, <1>8, PlayAudioOverflowsDoes DEF ResetInv, CallbackResets, Acknowledged, Numbers
<1>9. CASE ResetRequest
  BY <1>0, <1>9, ResetRequestDoes DEF ResetInv, CallbackResets, Acknowledged, Numbers
<1>10. CASE AdoptPlayback
  <2>1. CASE med'.pc = "idle"
    BY <1>0, <1>10, AdoptionBegins, <2>1 DEF ResetInv, CallbackResets, Acknowledged, Numbers
  <2>2. CASE ~(med'.pc = "idle")
    BY <1>0, <1>10, AdoptionFails, <2>2 DEF ResetInv, CallbackResets, Acknowledged, Numbers
  <2> QED BY <2>1, <2>2
<1>11. CASE PlayAborts
  BY <1>0, <1>11, PlayAbortsDoes DEF ResetInv, CallbackResets, Acknowledged, Numbers
<1>12. CASE PlayAcknowledges
  BY <1>0, <1>12, PlayAcknowledgesDoes DEF ResetInv, CallbackResets, Acknowledged, LockInv,
    PlayLocksBuffer, CallbackLocks, PlayResets, Numbers
<1>13. CASE PlayIncomplete
  BY <1>0, <1>13, PlayIncompleteDoes DEF ResetInv, CallbackResets, Acknowledged, Numbers
<1>14. CASE PlayWrites
  <2>1. CASE pl'.pc = "finish"
    BY <1>0, <1>14, WriteCounts, <2>1 DEF ResetInv, CallbackResets, Acknowledged, Numbers
  <2>2. CASE ~(pl'.pc = "finish")
    BY <1>0, <1>14, WriteSpoils, <2>2 DEF ResetInv, CallbackResets, Acknowledged, Numbers
  <2> QED BY <2>1, <2>2
<1>15. CASE PlayWriteFails
  BY <1>0, <1>15, PlayWriteFailsDoes DEF ResetInv, CallbackResets, Acknowledged, Numbers
<1>16. CASE PlayDrained
  <2>1. CASE pl'.pc = "wait"
    BY <1>0, <1>16, DrainReports, <2>1 DEF ResetInv, CallbackResets, Acknowledged, Numbers
  <2>2. CASE ~(pl'.pc = "wait")
    BY <1>0, <1>16, DrainWaits, <2>2 DEF ResetInv, CallbackResets, Acknowledged, Numbers
  <2> QED BY <2>1, <2>2
<1>17. CASE io' = io /\ cb' = cb
  BY <1>17 DEF ResetInv, CallbackResets, Acknowledged
<1> QED BY WhoWrites, <1>1, <1>2, <1>3, <1>4, <1>5, <1>6, <1>7, <1>8, <1>9, <1>10, <1>11, <1>12,
  <1>13, <1>14, <1>15, <1>16, <1>17 DEF Shapes, IoShape, CbShape

LEMMA LinkUpStep ==
  ASSUME [Next]_vars, TypeOK, LinkUp
  PROVE  LinkUp'
<1>0. Numbers /\ Numbers'
  BY NumbersAre, TypesStep
<1>1. CASE HandleCustom
  BY <1>0, <1>1, HandleCustomDoes, ChunksNat DEF LinkUp, LastItem, Numbers
<1>2. CASE PlayAudio
  BY <1>0, <1>2, PlayAudioDoes, ChunksNat DEF LinkUp, LastItem, Numbers
<1>3. CASE ResetReturns
  BY <1>0, <1>3, ResetReturnsDoes, ChunksNat DEF LinkUp, LastItem, Numbers
<1>4. CASE CleanupObservedDisconnect
  BY <1>0, <1>4, CleanupObservedDisconnectDoes, ChunksNat DEF LinkUp, LastItem, Numbers
<1>5. CASE Request
  BY <1>0, <1>5, RequestDoes, ChunksNat DEF LinkUp, LastItem, Numbers
<1>6. CASE Connect
  BY <1>0, <1>6, ConnectDoes, ChunksNat DEF LinkUp, LastItem, Numbers
<1>7. CASE Lose
  BY <1>0, <1>7, LoseDoes, ChunksNat DEF LinkUp, LastItem, Numbers
<1>8. CASE LossSeen
  BY <1>0, <1>8, LossSeenDoes, ChunksNat DEF LinkUp, LastItem, Numbers
<1>9. CASE net' = net
  BY <1>9 DEF LinkUp, LastItem
<1> QED BY WhoWrites, <1>1, <1>2, <1>3, <1>4, <1>5, <1>6, <1>7, <1>8, <1>9 DEF Shapes, NetShape

LEMMA CallbackInvStep ==
  ASSUME [Next]_vars, TypeOK, CallbackInv, LinkUp
  PROVE  CallbackInv'
<1>0. Numbers /\ Numbers'
  BY NumbersAre, TypesStep
<1>1. CASE HandleCustom
  BY <1>0, <1>1, HandleCustomDoes, ChunksNat DEF CallbackInv, LastItem, Numbers
<1>2. CASE PlayAudio
  <2>1. CASE ~gate.open
    BY <2>1, <1>2, PlayAudioDoes DEF CallbackInv
  <2>2. CASE gate.open
    <3>1. /\ net.at \in 2..(Chunks + 1) /\ net'.at = net.at + 1 /\ net'.link = net.link
          /\ net'.conn = net.conn /\ gate' = gate /\ cb'.epoch = gate.epoch
          /\ cb'.chunk = [conn |-> net.conn, at |-> net.at - 1]
      BY <1>2, <2>2, PlayAudioDoes
    <3>2. net'.at - 2 = net.at - 1 /\ net'.at \in 3..LastItem
      BY <1>0, <3>1, ChunksNat DEF LastItem, Numbers
    <3>3. net.link # "down"
      BY <1>0, <3>1 DEF LinkUp, Numbers
    <3> QED BY <3>1, <3>2, <3>3 DEF CallbackInv
  <2> QED BY <2>1, <2>2
<1>3. CASE PlayAudioReadsReset
  BY <1>0, <1>3, PlayAudioReadsResetDoes, ChunksNat DEF CallbackInv, LastItem, Numbers
<1>4. CASE PlayAudioReadsFault
  BY <1>0, <1>4, PlayAudioReadsFaultDoes, ChunksNat DEF CallbackInv, LastItem, Numbers
<1>5. CASE PlayAudioLocks
  BY <1>0, <1>5, PlayAudioLocksDoes, ChunksNat DEF CallbackInv, LastItem, Numbers
<1>6. CASE PlayAudioReserves
  BY <1>0, <1>6, PlayAudioReservesDoes, ChunksNat DEF CallbackInv, LastItem, Numbers
<1>7. CASE PlayAudioRefused
  BY <1>0, <1>7, PlayAudioRefusedDoes, ChunksNat DEF CallbackInv, LastItem, Numbers
<1>8. CASE PlayAudioSends
  BY <1>0, <1>8, PlayAudioSendsDoes, ChunksNat DEF CallbackInv, LastItem, Numbers
<1>9. CASE PlayAudioOverflows
  BY <1>0, <1>9, PlayAudioOverflowsDoes, ChunksNat DEF CallbackInv, LastItem, Numbers
<1>10. CASE ResetGate
  BY <1>0, <1>10, ResetGateDoes, ChunksNat DEF CallbackInv, LastItem, Numbers
<1>11. CASE ResetReturns
  BY <1>0, <1>11, ResetReturnsDoes, ChunksNat DEF CallbackInv, LastItem, Numbers
<1>12. CASE CleanupObservedDisconnect
  BY <1>0, <1>12, CleanupObservedDisconnectDoes, ChunksNat DEF CallbackInv, LastItem, Numbers
<1>13. CASE LinkReady
  BY <1>0, <1>13, LinkReadyDoes, ChunksNat DEF CallbackInv, LastItem, Numbers
<1>14. CASE Request
  BY <1>0, <1>14, RequestDoes, ChunksNat DEF CallbackInv, LastItem, Numbers
<1>15. CASE Connect
  BY <1>0, <1>15, ConnectDoes, ChunksNat DEF CallbackInv, LastItem, Numbers
<1>16. CASE Lose
  BY <1>0, <1>16, LoseDoes, ChunksNat DEF CallbackInv, LastItem, Numbers
<1>17. CASE LossSeen
  BY <1>0, <1>17, LossSeenDoes, ChunksNat DEF CallbackInv, LastItem, Numbers
<1>18. CASE cb' = cb /\ net' = net /\ gate' = gate
  BY <1>18 DEF CallbackInv, LastItem
<1> QED BY WhoWrites, <1>1, <1>2, <1>3, <1>4, <1>5, <1>6, <1>7, <1>8, <1>9, <1>10, <1>11, <1>12,
  <1>13, <1>14, <1>15, <1>16, <1>17, <1>18 DEF Shapes, CbShape, NetShape, GateShape

LEMMA AdoptingStep ==
  ASSUME [Next]_vars, TypeOK, Adopting
  PROVE  Adopting'
<1>1. CASE HandleCustom
  BY <1>1, HandleCustomDoes DEF Adopting
<1>2. CASE PlayAudioReserves
  BY <1>2, PlayAudioReservesDoes DEF Adopting
<1>3. CASE PlayAudioOverflows
  BY <1>3, PlayAudioOverflowsDoes DEF Adopting
<1>4. CASE ResetLocks
  BY <1>4, ResetLocksDoes DEF Adopting
<1>5. CASE ResetDoesNotLock
  BY <1>5, ResetDoesNotLockDoes DEF Adopting
<1>6. CASE ResetGate
  BY <1>6, ResetGateDoes DEF Adopting
<1>7. CASE ResetRequest
  BY <1>7, ResetRequestDoes DEF Adopting
<1>8. CASE ResetReleases
  BY <1>8, ResetReleasesDoes DEF Adopting
<1>9. CASE ResetReturns
  BY <1>9, ResetReturnsDoes DEF Adopting
<1>10. CASE DrainBridgeIngressFault
  BY <1>10, DrainBridgeIngressFaultDoes DEF Adopting
<1>11. CASE CleanupObservedDisconnect
  BY <1>11, CleanupObservedDisconnectDoes DEF Adopting
<1>12. CASE LinkReady
  BY <1>12, LinkReadyDoes DEF Adopting
<1>13. CASE Request
  BY <1>13, RequestDoes DEF Adopting
<1>14. CASE DropMessages
  BY <1>14, DropMessagesDoes DEF Adopting
<1>15. CASE ApplyAudioStart
  BY <1>15, ApplyAudioStartDoes DEF Adopting
<1>16. CASE AdoptPlayback
  <2>1. CASE med'.pc = "idle"
    BY <1>16, AdoptionBegins, <2>1 DEF Adopting
  <2>2. CASE ~(med'.pc = "idle")
    BY <1>16, AdoptionFails, <2>2 DEF Adopting
  <2> QED BY <2>1, <2>2
<1>17. CASE ApplyAudioEnd
  BY <1>17, ApplyAudioEndDoes DEF Adopting
<1>18. CASE DrainPlaybackNotices
  BY <1>18, DrainPlaybackNoticesDoes DEF Adopting
<1>19. CASE PlayAborts
  BY <1>19, PlayAbortsDoes DEF Adopting
<1>20. CASE PlayWrites
  <2>1. CASE pl'.pc = "finish"
    BY <1>20, WriteCounts, <2>1 DEF Adopting
  <2>2. CASE ~(pl'.pc = "finish")
    BY <1>20, WriteSpoils, <2>2 DEF Adopting
  <2> QED BY <2>1, <2>2
<1>21. CASE PlayDrained
  <2>1. CASE pl'.pc = "wait"
    BY <1>21, DrainReports, <2>1 DEF Adopting
  <2>2. CASE ~(pl'.pc = "wait")
    BY <1>21, DrainWaits, <2>2 DEF Adopting
  <2> QED BY <2>1, <2>2
<1>22. CASE med' = med /\ session' = session /\ gate' = gate
  BY <1>22 DEF Adopting
<1> QED BY WhoWrites, <1>1, <1>2, <1>3, <1>4, <1>5, <1>6, <1>7, <1>8, <1>9, <1>10, <1>11, <1>12,
  <1>13, <1>14, <1>15, <1>16, <1>17, <1>18, <1>19, <1>20, <1>21, <1>22 DEF Shapes, MedShape,
  SessionShape, GateShape

LEMMA PlayHoldsStep ==
  ASSUME [Next]_vars, TypeOK, PlayHolds, Adopting
  PROVE  PlayHolds'
<1>1. CASE PlayAudioReserves
  BY <1>1, PlayAudioReservesDoes DEF PlayHolds, Adopting
<1>2. CASE PlayAudioOverflows
  BY <1>2, PlayAudioOverflowsDoes DEF PlayHolds, Adopting
<1>3. CASE ResetRequest
  BY <1>3, ResetRequestDoes DEF PlayHolds, Adopting
<1>4. CASE ResetReleases
  BY <1>4, ResetReleasesDoes DEF PlayHolds, Adopting
<1>5. CASE AdoptPlayback
  <2>1. CASE med'.pc = "idle"
    BY <1>5, AdoptionBegins, <2>1 DEF PlayHolds, Adopting
  <2>2. CASE ~(med'.pc = "idle")
    BY <1>5, AdoptionFails, <2>2 DEF PlayHolds, Adopting
  <2> QED BY <2>1, <2>2
<1>6. CASE ApplyAudioEnd
  BY <1>6, ApplyAudioEndDoes DEF PlayHolds, Adopting
<1>7. CASE PlayWakes
  BY <1>7, PlayWakesDoes DEF PlayHolds, Adopting
<1>8. CASE PlayStartsReset
  BY <1>8, PlayStartsResetDoes DEF PlayHolds, Adopting
<1>9. CASE PlayResetLocks
  BY <1>9, PlayResetLocksDoes DEF PlayHolds, Adopting
<1>10. CASE PlayResetLocksBuffer
  BY <1>10, PlayResetLocksBufferDoes DEF PlayHolds, Adopting
<1>11. CASE PlayAborts
  BY <1>11, PlayAbortsDoes DEF PlayHolds, Adopting
<1>12. CASE PlayAcknowledges
  BY <1>12, PlayAcknowledgesDoes DEF PlayHolds, Adopting
<1>13. CASE PlayResetFails
  BY <1>13, PlayResetFailsDoes DEF PlayHolds, Adopting
<1>14. CASE PlayReads
  BY <1>14, PlayReadsDoes DEF PlayHolds, Adopting
<1>15. CASE PlayIncomplete
  BY <1>15, PlayIncompleteDoes DEF PlayHolds, Adopting
<1>16. CASE PlayReceives
  BY <1>16, PlayReceivesDoes DEF PlayHolds, Adopting
<1>17. CASE PlayLocks
  BY <1>17, PlayLocksDoes DEF PlayHolds, Adopting
<1>18. CASE PlayWrites
  <2>1. CASE pl'.pc = "finish"
    BY <1>18, WriteCounts, <2>1 DEF PlayHolds, Adopting
  <2>2. CASE ~(pl'.pc = "finish")
    BY <1>18, WriteSpoils, <2>2 DEF PlayHolds, Adopting
  <2> QED BY <2>1, <2>2
<1>19. CASE PlayWriteFails
  BY <1>19, PlayWriteFailsDoes DEF PlayHolds, Adopting
<1>20. CASE PlayFinishes
  BY <1>20, PlayFinishesDoes DEF PlayHolds, Adopting
<1>21. CASE PlayDrained
  <2>1. CASE pl'.pc = "wait"
    BY <1>21, DrainReports, <2>1 DEF PlayHolds, Adopting
  <2>2. CASE ~(pl'.pc = "wait")
    BY <1>21, DrainWaits, <2>2 DEF PlayHolds, Adopting
  <2> QED BY <2>1, <2>2
<1>22. CASE pl' = pl /\ session' = session /\ io' = io
  BY <1>22 DEF PlayHolds, Adopting
<1> QED BY WhoWrites, <1>1, <1>2, <1>3, <1>4, <1>5, <1>6, <1>7, <1>8, <1>9, <1>10, <1>11, <1>12,
  <1>13, <1>14, <1>15, <1>16, <1>17, <1>18, <1>19, <1>20, <1>21, <1>22 DEF Shapes, PlShape,
  SessionShape, IoShape

LEMMA ClearedStep ==
  ASSUME [Next]_vars, TypeOK, Cleared, LockInv, ResetInv
  PROVE  Cleared'
<1>0. Numbers /\ Numbers'
  BY NumbersAre, TypesStep
<1>1. CASE PlayAudioReserves
  BY <1>0, <1>1, PlayAudioReservesDoes DEF Cleared, LockInv, PlayLocksBuffer, CallbackLocks, Numbers
<1>2. CASE PlayAudioOverflows
  BY <1>0, <1>2, PlayAudioOverflowsDoes DEF Cleared, Numbers
<1>3. CASE ResetReleases
  BY <1>0, <1>3, ResetReleasesDoes DEF Cleared, Numbers
<1>4. CASE ApplyAudioStart
  <2>1. pl.pc = "clear" => ~ResetConfirmed
    BY <1>0 DEF ResetInv, PlayResets, ResetConfirmed, Numbers
  <2>2. session' = session /\ pl' = pl
    BY <1>4, ApplyAudioStartDoes
  <2>3. ~ResetConfirmed => ingress'.armed = ingress.armed
    BY <1>4, ApplyAudioStartDoes
  <2> QED BY <2>1, <2>2, <2>3 DEF Cleared
<1>5. CASE AdoptPlayback
  <2>1. CASE med'.pc = "idle"
    BY <1>0, <1>5, AdoptionBegins, <2>1 DEF Cleared, ResetInv, PlayResets, ResetConfirmed, Numbers
  <2>2. CASE ~(med'.pc = "idle")
    BY <1>0, <1>5, AdoptionFails, <2>2 DEF Cleared, ResetInv, PlayResets, ResetConfirmed, Numbers
  <2> QED BY <2>1, <2>2
<1>6. CASE ApplyAudioEnd
  BY <1>0, <1>6, ApplyAudioEndDoes DEF Cleared, Numbers
<1>7. CASE PlayWakes
  BY <1>0, <1>7, PlayWakesDoes DEF Cleared, Numbers
<1>8. CASE PlayStartsReset
  BY <1>0, <1>8, PlayStartsResetDoes DEF Cleared, Numbers
<1>9. CASE PlayResetLocks
  BY <1>0, <1>9, PlayResetLocksDoes DEF Cleared, Numbers
<1>10. CASE PlayResetLocksBuffer
  BY <1>0, <1>10, PlayResetLocksBufferDoes DEF Cleared, Numbers
<1>11. CASE PlayAborts
  BY <1>0, <1>11, PlayAbortsDoes DEF Cleared, Numbers
<1>12. CASE PlayAcknowledges
  BY <1>0, <1>12, PlayAcknowledgesDoes DEF Cleared, Numbers
<1>13. CASE PlayResetFails
  BY <1>0, <1>13, PlayResetFailsDoes DEF Cleared, Numbers
<1>14. CASE PlayReads
  BY <1>0, <1>14, PlayReadsDoes DEF Cleared, Numbers
<1>15. CASE PlayIncomplete
  BY <1>0, <1>15, PlayIncompleteDoes DEF Cleared, Numbers
<1>16. CASE PlayReceives
  BY <1>0, <1>16, PlayReceivesDoes DEF Cleared, Numbers
<1>17. CASE PlayLocks
  BY <1>0, <1>17, PlayLocksDoes DEF Cleared, Numbers
<1>18. CASE PlayWrites
  <2>1. CASE pl'.pc = "finish"
    BY <1>0, <1>18, WriteCounts, <2>1 DEF Cleared, Numbers
  <2>2. CASE ~(pl'.pc = "finish")
    BY <1>0, <1>18, WriteSpoils, <2>2 DEF Cleared, Numbers
  <2> QED BY <2>1, <2>2
<1>19. CASE PlayWriteFails
  BY <1>0, <1>19, PlayWriteFailsDoes DEF Cleared, Numbers
<1>20. CASE PlayFinishes
  BY <1>0, <1>20, PlayFinishesDoes DEF Cleared, Numbers
<1>21. CASE PlayDrained
  <2>1. CASE pl'.pc = "wait"
    BY <1>0, <1>21, DrainReports, <2>1 DEF Cleared, Numbers
  <2>2. CASE ~(pl'.pc = "wait")
    BY <1>0, <1>21, DrainWaits, <2>2 DEF Cleared, Numbers
  <2> QED BY <2>1, <2>2
<1>22. CASE pl' = pl /\ session' = session /\ ingress' = ingress
  BY <1>22 DEF Cleared
<1> QED BY WhoWrites, <1>1, <1>2, <1>3, <1>4, <1>5, <1>6, <1>7, <1>8, <1>9, <1>10, <1>11, <1>12,
  <1>13, <1>14, <1>15, <1>16, <1>17, <1>18, <1>19, <1>20, <1>21, <1>22 DEF Shapes, PlShape,
  SessionShape, IngressShape

LEMMA UnarmedStep ==
  ASSUME [Next]_vars, TypeOK, Unarmed
  PROVE  Unarmed'
<1>1. CASE PlayAudioReserves
  BY <1>1, PlayAudioReservesDoes DEF Unarmed
<1>2. CASE PlayAudioOverflows
  BY <1>2, PlayAudioOverflowsDoes DEF Unarmed
<1>3. CASE ApplyAudioStart
  BY <1>3, ApplyAudioStartDoes DEF Unarmed
<1>4. CASE AdoptPlayback
  <2>1. CASE med'.pc = "idle"
    BY <1>4, AdoptionBegins, <2>1 DEF Unarmed
  <2>2. CASE ~(med'.pc = "idle")
    BY <1>4, AdoptionFails, <2>2 DEF Unarmed
  <2> QED BY <2>1, <2>2
<1>5. CASE PlayAborts
  BY <1>5, PlayAbortsDoes DEF Unarmed
<1>6. CASE ingress' = ingress
  BY <1>6 DEF Unarmed
<1> QED BY WhoWrites, <1>1, <1>2, <1>3, <1>4, <1>5, <1>6 DEF Shapes, IngressShape

LEMMA OneReservationStep ==
  ASSUME [Next]_vars, TypeOK, OneReservation
  PROVE  OneReservation'
<1>1. CASE PlayAudioReserves
  BY <1>1, PlayAudioReservesDoes DEF OneReservation
<1>2. CASE PlayAudioOverflows
  BY <1>2, PlayAudioOverflowsDoes DEF OneReservation
<1>3. CASE ApplyAudioStart
  BY <1>3, ApplyAudioStartDoes DEF OneReservation
<1>4. CASE AdoptPlayback
  <2>1. CASE med'.pc = "idle"
    BY <1>4, AdoptionBegins, <2>1 DEF OneReservation
  <2>2. CASE ~(med'.pc = "idle")
    BY <1>4, AdoptionFails, <2>2 DEF OneReservation
  <2> QED BY <2>1, <2>2
<1>5. CASE ApplyAudioEnd
  BY <1>5, ApplyAudioEndDoes DEF OneReservation
<1>6. CASE PlayAborts
  BY <1>6, PlayAbortsDoes DEF OneReservation
<1>7. CASE PlayWrites
  <2>1. CASE pl'.pc = "finish"
    BY <1>7, WriteCounts, <2>1 DEF OneReservation
  <2>2. CASE ~(pl'.pc = "finish")
    BY <1>7, WriteSpoils, <2>2 DEF OneReservation
  <2> QED BY <2>1, <2>2
<1>8. CASE PlayDrained
  <2>1. CASE pl'.pc = "wait"
    BY <1>8, DrainReports, <2>1 DEF OneReservation
  <2>2. CASE ~(pl'.pc = "wait")
    BY <1>8, DrainWaits, <2>2 DEF OneReservation
  <2> QED BY <2>1, <2>2
<1>9. CASE ingress' = ingress /\ session' = session
  BY <1>9 DEF OneReservation
<1> QED BY WhoWrites, <1>1, <1>2, <1>3, <1>4, <1>5, <1>6, <1>7, <1>8, <1>9 DEF Shapes, IngressShape,
  SessionShape

LEMMA ArmedCurrentStep ==
  ASSUME [Next]_vars, TypeOK, ArmedCurrent, Cleared, Closed, ResetInv, OneReservation, CallbackInv
  PROVE  ArmedCurrent'
<1>0. Numbers /\ Numbers'
  BY NumbersAre, TypesStep
<1>1. CASE PlayAudioReserves
  BY <1>0, <1>1, PlayAudioReservesDoes DEF ArmedCurrent, ResetConfirmed, Current, AcceptCallback,
    Accepts, Numbers
<1>2. CASE PlayAudioOverflows
  BY <1>0, <1>2, PlayAudioOverflowsDoes DEF ArmedCurrent, ResetConfirmed, Numbers
<1>3. CASE ResetGate
  BY <1>0, <1>3, ResetGateDoes DEF ArmedCurrent, ResetConfirmed, Numbers
<1>4. CASE ResetRequest
  BY <1>0, <1>4, ResetRequestDoes DEF ArmedCurrent, ResetConfirmed, ResetInv, Acknowledged, Numbers
<1>5. CASE LinkReady
  BY <1>0, <1>5, LinkReadyDoes DEF ArmedCurrent, ResetConfirmed, Closed, Clean, Numbers
<1>6. CASE ApplyAudioStart
  BY <1>0, <1>6, ApplyAudioStartDoes DEF ArmedCurrent, ResetConfirmed, Numbers
<1>7. CASE AdoptPlayback
  <2>1. CASE med'.pc = "idle"
    BY <1>0, <1>7, AdoptionBegins, <2>1 DEF ArmedCurrent, ResetConfirmed, Numbers
  <2>2. CASE ~(med'.pc = "idle")
    BY <1>0, <1>7, AdoptionFails, <2>2 DEF ArmedCurrent, ResetConfirmed, Numbers
  <2> QED BY <2>1, <2>2
<1>8. CASE PlayAborts
  BY <1>0, <1>8, PlayAbortsDoes DEF ArmedCurrent, ResetConfirmed, Numbers
<1>9. CASE PlayAcknowledges
  BY <1>0, <1>9, PlayAcknowledgesDoes DEF ArmedCurrent, ResetConfirmed, Cleared, Numbers
<1>10. CASE PlayIncomplete
  BY <1>0, <1>10, PlayIncompleteDoes DEF ArmedCurrent, ResetConfirmed, ResetInv, Acknowledged,
    Numbers
<1>11. CASE PlayWrites
  <2>1. CASE pl'.pc = "finish"
    BY <1>0, <1>11, WriteCounts, <2>1 DEF ArmedCurrent, ResetConfirmed, ResetInv, Acknowledged,
      Numbers
  <2>2. CASE ~(pl'.pc = "finish")
    BY <1>0, <1>11, WriteSpoils, <2>2 DEF ArmedCurrent, ResetConfirmed, ResetInv, Acknowledged,
      Numbers
  <2> QED BY <2>1, <2>2
<1>12. CASE PlayWriteFails
  BY <1>0, <1>12, PlayWriteFailsDoes DEF ArmedCurrent, ResetConfirmed, ResetInv, Acknowledged,
    Numbers
<1>13. CASE PlayDrained
  <2>1. CASE pl'.pc = "wait"
    BY <1>0, <1>13, DrainReports, <2>1 DEF ArmedCurrent, ResetConfirmed, ResetInv, Acknowledged,
      Numbers
  <2>2. CASE ~(pl'.pc = "wait")
    BY <1>0, <1>13, DrainWaits, <2>2 DEF ArmedCurrent, ResetConfirmed, ResetInv, Acknowledged,
      Numbers
  <2> QED BY <2>1, <2>2
<1>14. CASE gate' = gate /\ io' = io /\ ingress' = ingress
  BY <1>14 DEF ArmedCurrent, ResetConfirmed
<1> QED BY WhoWrites, <1>1, <1>2, <1>3, <1>4, <1>5, <1>6, <1>7, <1>8, <1>9, <1>10, <1>11, <1>12,
  <1>13, <1>14 DEF Shapes, GateShape, IoShape, IngressShape

LEMMA LeaseStep ==
  ASSUME [Next]_vars, TypeOK, Lease, Cleared, Closed, ResetInv, ArmedCurrent, Adopting
  PROVE  Lease'
<1>0. Numbers /\ Numbers'
  BY NumbersAre, TypesStep
<1>1. CASE PlayAudioReserves
  BY <1>0, <1>1, PlayAudioReservesDoes DEF Lease, ResetConfirmed, Numbers
<1>2. CASE PlayAudioOverflows
  BY <1>0, <1>2, PlayAudioOverflowsDoes DEF Lease, ResetConfirmed, Numbers
<1>3. CASE ResetGate
  BY <1>0, <1>3, ResetGateDoes DEF Lease, ResetConfirmed, Numbers
<1>4. CASE ResetRequest
  BY <1>0, <1>4, ResetRequestDoes DEF Lease, ResetConfirmed, ResetInv, Acknowledged, Numbers
<1>5. CASE LinkReady
  BY <1>0, <1>5, LinkReadyDoes DEF Lease, ResetConfirmed, Closed, Clean, Numbers
<1>6. CASE AdoptPlayback
  <2>1. CASE med'.pc = "idle"
    BY <1>0, <1>6, AdoptionBegins, <2>1 DEF Lease, ResetConfirmed, ArmedCurrent, Adopting, Numbers
  <2>2. CASE ~(med'.pc = "idle")
    BY <1>0, <1>6, AdoptionFails, <2>2 DEF Lease, ResetConfirmed, ArmedCurrent, Adopting, Numbers
  <2> QED BY <2>1, <2>2
<1>7. CASE ApplyAudioEnd
  BY <1>0, <1>7, ApplyAudioEndDoes DEF Lease, ResetConfirmed, Numbers
<1>8. CASE PlayAborts
  BY <1>0, <1>8, PlayAbortsDoes DEF Lease, ResetConfirmed, Numbers
<1>9. CASE PlayAcknowledges
  BY <1>0, <1>9, PlayAcknowledgesDoes DEF Lease, ResetConfirmed, Cleared, Numbers
<1>10. CASE PlayIncomplete
  BY <1>0, <1>10, PlayIncompleteDoes DEF Lease, ResetConfirmed, ResetInv, Acknowledged, Numbers
<1>11. CASE PlayWrites
  <2>1. CASE pl'.pc = "finish"
    <3>1. io' = io /\ session'.active = session.active /\ gate' = gate /\ med' = med
      BY <1>11, <2>1, WriteCounts
    <3> QED BY <3>1 DEF Lease, ResetConfirmed
  <2>2. CASE ~(pl'.pc = "finish")
    <3>1. /\ io'.requested = io.requested + 1 /\ io'.acknowledged = io.acknowledged
          /\ io'.epoch = io.epoch /\ io'.session = io.session
          /\ session'.active = session.active
      BY <1>11, <2>2, WriteSpoils
    <3>2. ~ResetConfirmed'
      BY <1>0, <3>1 DEF ResetInv, Acknowledged, ResetConfirmed, Numbers
    <3> QED BY <3>1, <3>2 DEF Lease
  <2> QED BY <2>1, <2>2
<1>12. CASE PlayWriteFails
  BY <1>0, <1>12, PlayWriteFailsDoes DEF Lease, ResetConfirmed, ResetInv, Acknowledged, Numbers
<1>13. CASE PlayDrained
  <2>1. CASE pl'.pc = "wait"
    BY <1>0, <1>13, DrainReports, <2>1 DEF Lease, ResetConfirmed, ResetInv, Acknowledged, Numbers
  <2>2. CASE ~(pl'.pc = "wait")
    BY <1>0, <1>13, DrainWaits, <2>2 DEF Lease, ResetConfirmed, ResetInv, Acknowledged, Numbers
  <2> QED BY <2>1, <2>2
<1>14. CASE gate' = gate /\ io' = io /\ session' = session
  BY <1>14 DEF Lease, ResetConfirmed
<1> QED BY WhoWrites, <1>1, <1>2, <1>3, <1>4, <1>5, <1>6, <1>7, <1>8, <1>9, <1>10, <1>11, <1>12,
  <1>13, <1>14 DEF Shapes, GateShape, IoShape, SessionShape

LEMMA ClosedStep ==
  ASSUME [Next]_vars, TypeOK, Closed, Cleared, ResetInv, LockInv, Adopting, CallbackInv
  PROVE  Closed'
<1>0. Numbers /\ Numbers'
  BY NumbersAre, TypesStep
<1>1. CASE HandleCustom
  BY <1>0, <1>1, HandleCustomDoes DEF Closed, Clean, ResetConfirmed, Numbers
<1>2. CASE PlayAudio
  BY <1>0, <1>2, PlayAudioDoes DEF Closed, Clean, ResetConfirmed, Numbers
<1>3. CASE PlayAudioReadsReset
  BY <1>0, <1>3, PlayAudioReadsResetDoes DEF Closed, Clean, ResetConfirmed, Numbers
<1>4. CASE PlayAudioReadsFault
  BY <1>0, <1>4, PlayAudioReadsFaultDoes DEF Closed, Clean, ResetConfirmed, Numbers
<1>5. CASE PlayAudioLocks
  BY <1>0, <1>5, PlayAudioLocksDoes DEF Closed, Clean, ResetConfirmed, Numbers
<1>6. CASE PlayAudioReserves
  BY <1>0, <1>6, PlayAudioReservesDoes DEF Closed, Clean, ResetConfirmed, Current, AcceptCallback,
    Accepts, Numbers
<1>7. CASE PlayAudioRefused
  BY <1>0, <1>7, PlayAudioRefusedDoes DEF Closed, Clean, ResetConfirmed, Numbers
<1>8. CASE PlayAudioSends
  BY <1>0, <1>8, PlayAudioSendsDoes DEF Closed, Clean, ResetConfirmed, Numbers
<1>9. CASE PlayAudioOverflows
  BY <1>0, <1>9, PlayAudioOverflowsDoes DEF Closed, Clean, ResetConfirmed, Numbers
<1>10. CASE ResetLocks
  BY <1>0, <1>10, ResetLocksDoes DEF Closed, Clean, ResetConfirmed, Numbers
<1>11. CASE ResetDoesNotLock
  BY <1>0, <1>11, ResetDoesNotLockDoes DEF Closed, Clean, ResetConfirmed, Numbers
<1>12. CASE ResetGate
  BY <1>0, <1>12, ResetGateDoes DEF Closed, Clean, ResetConfirmed, Numbers
<1>13. CASE ResetRequest
  BY <1>0, <1>13, ResetRequestDoes DEF Closed, Clean, ResetConfirmed, ResetInv, Acknowledged,
    Numbers
<1>14. CASE ResetReleases
  BY <1>0, <1>14, ResetReleasesDoes DEF Closed, Clean, ResetConfirmed, Numbers
<1>15. CASE ResetReturns
  BY <1>0, <1>15, ResetReturnsDoes DEF Closed, Clean, ResetConfirmed, Numbers
<1>16. CASE DrainBridgeIngressFault
  BY <1>0, <1>16, DrainBridgeIngressFaultDoes DEF Closed, Clean, ResetConfirmed, Numbers
<1>17. CASE CleanupObservedDisconnect
  BY <1>0, <1>17, CleanupObservedDisconnectDoes DEF Closed, Clean, ResetConfirmed, Numbers
<1>18. CASE LinkReady
  BY <1>0, <1>18, LinkReadyDoes DEF Closed, Clean, ResetConfirmed, Numbers
<1>19. CASE Request
  BY <1>0, <1>19, RequestDoes DEF Closed, Clean, ResetConfirmed, Numbers
<1>20. CASE DropMessages
  BY <1>0, <1>20, DropMessagesDoes DEF Closed, Clean, ResetConfirmed, Numbers
<1>21. CASE ApplyAudioStart
  BY <1>0, <1>21, ApplyAudioStartDoes DEF Closed, Clean, ResetConfirmed, Numbers
<1>22. CASE AdoptPlayback
  <2>1. CASE med'.pc = "idle"
    BY <1>0, <1>22, AdoptionBegins, <2>1 DEF Closed, Clean, ResetConfirmed, Adopting, Numbers
  <2>2. CASE ~(med'.pc = "idle")
    BY <1>0, <1>22, AdoptionFails, <2>2 DEF Closed, Clean, ResetConfirmed, Adopting, Numbers
  <2> QED BY <2>1, <2>2
<1>23. CASE ApplyAudioEnd
  BY <1>0, <1>23, ApplyAudioEndDoes DEF Closed, Clean, ResetConfirmed, Numbers
<1>24. CASE DrainPlaybackNotices
  BY <1>0, <1>24, DrainPlaybackNoticesDoes DEF Closed, Clean, ResetConfirmed, Numbers
<1>25. CASE PlayAborts
  BY <1>0, <1>25, PlayAbortsDoes DEF Closed, Clean, ResetConfirmed, Numbers
<1>26. CASE PlayAcknowledges
  BY <1>0, <1>26, PlayAcknowledgesDoes DEF Closed, Clean, ResetConfirmed, Cleared, LockInv,
    PlayLocksBuffer, CallbackLocks, Numbers
<1>27. CASE PlayIncomplete
  BY <1>0, <1>27, PlayIncompleteDoes DEF Closed, Clean, ResetConfirmed, ResetInv, Acknowledged,
    Numbers
<1>28. CASE PlayReceives
  BY <1>0, <1>28, PlayReceivesDoes DEF Closed, Clean, ResetConfirmed, Numbers
<1>29. CASE PlayWrites
  <2>1. CASE pl'.pc = "finish"
    BY <1>0, <1>29, WriteCounts, <2>1 DEF Closed, Clean, ResetConfirmed, ResetInv, Acknowledged,
      Numbers
  <2>2. CASE ~(pl'.pc = "finish")
    BY <1>0, <1>29, WriteSpoils, <2>2 DEF Closed, Clean, ResetConfirmed, ResetInv, Acknowledged,
      Numbers
  <2> QED BY <2>1, <2>2
<1>30. CASE PlayWriteFails
  BY <1>0, <1>30, PlayWriteFailsDoes DEF Closed, Clean, ResetConfirmed, ResetInv, Acknowledged,
    Numbers
<1>31. CASE PlayDrained
  <2>1. CASE pl'.pc = "wait"
    BY <1>0, <1>31, DrainReports, <2>1 DEF Closed, Clean, ResetConfirmed
  <2>2. CASE ~(pl'.pc = "wait")
    <3>1. /\ io'.acknowledged = io.acknowledged /\ io'.requested \in {io.requested, io.requested + 1}
          /\ gate' = gate /\ med' = med /\ session' = session /\ ingress' = ingress /\ buffer' = buffer
          /\ cb' = cb
      BY <1>31, <2>2, DrainWaits
    <3>2. ResetConfirmed' => ResetConfirmed
      BY <1>0, <3>1 DEF ResetInv, Acknowledged, ResetConfirmed, Numbers
    <3> QED BY <3>1, <3>2 DEF Closed, Clean
  <2> QED BY <2>1, <2>2
<1>32. CASE gate' = gate /\ io' = io /\ med' = med /\ session' = session /\ ingress' = ingress /\
  buffer' = buffer /\ cb' = cb
  BY <1>32 DEF Closed, Clean, ResetConfirmed
<1> QED BY WhoWrites, <1>1, <1>2, <1>3, <1>4, <1>5, <1>6, <1>7, <1>8, <1>9, <1>10, <1>11, <1>12,
  <1>13, <1>14, <1>15, <1>16, <1>17, <1>18, <1>19, <1>20, <1>21, <1>22, <1>23, <1>24, <1>25, <1>26,
  <1>27, <1>28, <1>29, <1>30, <1>31, <1>32 DEF Shapes, GateShape, IoShape, MedShape, SessionShape,
  IngressShape, BufferShape, CbShape

LEMMA PlayingStep ==
  ASSUME [Next]_vars, TypeOK, Playing, Cleared, ResetInv, Adopting, Noticed
  PROVE  Playing'
<1>0. Numbers /\ Numbers'
  BY NumbersAre, TypesStep
<1>1. CASE HandleCustom
  BY <1>0, <1>1, HandleCustomDoes DEF Playing, ResetConfirmed, Numbers
<1>2. CASE PlayAudioReserves
  BY <1>0, <1>2, PlayAudioReservesDoes DEF Playing, ResetConfirmed, Numbers
<1>3. CASE PlayAudioOverflows
  BY <1>0, <1>3, PlayAudioOverflowsDoes DEF Playing, ResetConfirmed, Numbers
<1>4. CASE ResetLocks
  BY <1>0, <1>4, ResetLocksDoes DEF Playing, ResetConfirmed, Numbers
<1>5. CASE ResetDoesNotLock
  BY <1>0, <1>5, ResetDoesNotLockDoes DEF Playing, ResetConfirmed, Numbers
<1>6. CASE ResetGate
  BY <1>0, <1>6, ResetGateDoes DEF Playing, ResetConfirmed, Numbers
<1>7. CASE ResetRequest
  BY <1>0, <1>7, ResetRequestDoes DEF Playing, ResetConfirmed, ResetInv, Acknowledged, Numbers
<1>8. CASE ResetReleases
  BY <1>0, <1>8, ResetReleasesDoes DEF Playing, ResetConfirmed, Numbers
<1>9. CASE ResetReturns
  BY <1>0, <1>9, ResetReturnsDoes DEF Playing, ResetConfirmed, Numbers
<1>10. CASE DrainBridgeIngressFault
  BY <1>0, <1>10, DrainBridgeIngressFaultDoes DEF Playing, ResetConfirmed, Numbers
<1>11. CASE CleanupObservedDisconnect
  BY <1>0, <1>11, CleanupObservedDisconnectDoes DEF Playing, ResetConfirmed, Numbers
<1>12. CASE Request
  BY <1>0, <1>12, RequestDoes DEF Playing, ResetConfirmed, Numbers
<1>13. CASE DropMessages
  BY <1>0, <1>13, DropMessagesDoes DEF Playing, ResetConfirmed, Numbers
<1>14. CASE ApplyAudioStart
  BY <1>0, <1>14, ApplyAudioStartDoes DEF Playing, ResetConfirmed, Numbers
<1>15. CASE AdoptPlayback
  <2>1. CASE med'.pc = "idle"
    BY <1>0, <1>15, AdoptionBegins, <2>1 DEF Playing, ResetConfirmed, Numbers
  <2>2. CASE ~(med'.pc = "idle")
    BY <1>0, <1>15, AdoptionFails, <2>2 DEF Playing, ResetConfirmed, Numbers
  <2> QED BY <2>1, <2>2
<1>16. CASE ApplyAudioEnd
  BY <1>0, <1>16, ApplyAudioEndDoes DEF Playing, ResetConfirmed, Numbers
<1>17. CASE DrainPlaybackNotices
  <2>1. 1 \in DOMAIN notices /\ Head(notices) = notices[1]
    BY <1>17, DrainPlaybackNoticesDoes, HeadTailProperties DEF TypeOK, NoticesType
  <2> QED BY <1>0, <1>17, <2>1, DrainPlaybackNoticesDoes DEF Playing, ResetConfirmed, Noticed, Numbers
<1>18. CASE PlayAborts
  BY <1>0, <1>18, PlayAbortsDoes DEF Playing, ResetConfirmed, Numbers
<1>19. CASE PlayAcknowledges
  BY <1>0, <1>19, PlayAcknowledgesDoes DEF Playing, ResetConfirmed, Cleared, Numbers
<1>20. CASE PlayIncomplete
  BY <1>0, <1>20, PlayIncompleteDoes DEF Playing, ResetConfirmed, ResetInv, Acknowledged, Numbers
<1>21. CASE PlayWrites
  <2>1. CASE pl'.pc = "finish"
    <3>1. io' = io /\ session'.active = session.active /\ gate' = gate /\ med' = med
      BY <1>21, <2>1, WriteCounts
    <3> QED BY <3>1 DEF Playing, ResetConfirmed
  <2>2. CASE ~(pl'.pc = "finish")
    <3>1. /\ io'.requested = io.requested + 1 /\ io'.acknowledged = io.acknowledged
          /\ io'.epoch = io.epoch /\ io'.session = io.session
          /\ session'.active = session.active
      BY <1>21, <2>2, WriteSpoils
    <3>2. ~ResetConfirmed'
      BY <1>0, <3>1 DEF ResetInv, Acknowledged, ResetConfirmed, Numbers
    <3> QED BY <3>1, <3>2 DEF Playing
  <2> QED BY <2>1, <2>2
<1>22. CASE PlayWriteFails
  BY <1>0, <1>22, PlayWriteFailsDoes DEF Playing, ResetConfirmed, ResetInv, Acknowledged, Numbers
<1>23. CASE PlayDrained
  <2>1. CASE pl'.pc = "wait"
    BY <1>0, <1>23, DrainReports, <2>1 DEF Playing, ResetConfirmed, ResetInv, Acknowledged, Numbers
  <2>2. CASE ~(pl'.pc = "wait")
    BY <1>0, <1>23, DrainWaits, <2>2 DEF Playing, ResetConfirmed, ResetInv, Acknowledged, Numbers
  <2> QED BY <2>1, <2>2
<1>24. CASE io' = io /\ med' = med /\ session' = session
  BY <1>24 DEF Playing, ResetConfirmed
<1> QED BY WhoWrites, <1>1, <1>2, <1>3, <1>4, <1>5, <1>6, <1>7, <1>8, <1>9, <1>10, <1>11, <1>12,
  <1>13, <1>14, <1>15, <1>16, <1>17, <1>18, <1>19, <1>20, <1>21, <1>22, <1>23, <1>24 DEF Shapes,
  IoShape, MedShape, SessionShape

LEMMA SessionsStep ==
  ASSUME [Next]_vars, TypeOK, Sessions, PlayHolds
  PROVE  Sessions'
<1>0. Numbers /\ Numbers'
  BY NumbersAre, TypesStep
<1>1. CASE HandleCustom
  BY <1>0, <1>1, HandleCustomDoes DEF Sessions, Numbers
<1>2. CASE PlayAudioOverflows
  BY <1>0, <1>2, PlayAudioOverflowsDoes DEF Sessions, Numbers
<1>3. CASE ResetLocks
  BY <1>0, <1>3, ResetLocksDoes DEF Sessions, Numbers
<1>4. CASE ResetDoesNotLock
  BY <1>0, <1>4, ResetDoesNotLockDoes DEF Sessions, Numbers
<1>5. CASE ResetGate
  BY <1>0, <1>5, ResetGateDoes DEF Sessions, Numbers
<1>6. CASE ResetRequest
  BY <1>0, <1>6, ResetRequestDoes DEF Sessions, Numbers
<1>7. CASE ResetReleases
  BY <1>0, <1>7, ResetReleasesDoes DEF Sessions, Numbers
<1>8. CASE ResetReturns
  BY <1>0, <1>8, ResetReturnsDoes DEF Sessions, Numbers
<1>9. CASE DrainBridgeIngressFault
  BY <1>0, <1>9, DrainBridgeIngressFaultDoes DEF Sessions, Numbers
<1>10. CASE CleanupObservedDisconnect
  BY <1>0, <1>10, CleanupObservedDisconnectDoes DEF Sessions, Numbers
<1>11. CASE Request
  BY <1>0, <1>11, RequestDoes DEF Sessions, Numbers
<1>12. CASE DropMessages
  BY <1>0, <1>12, DropMessagesDoes DEF Sessions, Numbers
<1>13. CASE ApplyAudioStart
  BY <1>0, <1>13, ApplyAudioStartDoes DEF Sessions, Numbers
<1>14. CASE AdoptPlayback
  <2>1. CASE med'.pc = "idle"
    BY <1>0, <1>14, AdoptionBegins, <2>1 DEF Sessions, Numbers
  <2>2. CASE ~(med'.pc = "idle")
    BY <1>0, <1>14, AdoptionFails, <2>2 DEF Sessions, Numbers
  <2> QED BY <2>1, <2>2
<1>15. CASE ApplyAudioEnd
  BY <1>0, <1>15, ApplyAudioEndDoes DEF Sessions, Numbers
<1>16. CASE DrainPlaybackNotices
  BY <1>0, <1>16, DrainPlaybackNoticesDoes DEF Sessions, Numbers
<1>17. CASE PlayWakes
  BY <1>0, <1>17, PlayWakesDoes DEF Sessions, Numbers
<1>18. CASE PlayStartsReset
  BY <1>0, <1>18, PlayStartsResetDoes DEF Sessions, Numbers
<1>19. CASE PlayResetLocks
  BY <1>0, <1>19, PlayResetLocksDoes DEF Sessions, Numbers
<1>20. CASE PlayResetLocksBuffer
  BY <1>0, <1>20, PlayResetLocksBufferDoes DEF Sessions, Numbers
<1>21. CASE PlayAborts
  BY <1>0, <1>21, PlayAbortsDoes DEF Sessions, Numbers
<1>22. CASE PlayAcknowledges
  <2>1. /\ io'.session = io.session /\ pl'.session = 0 /\ pl'.pc = "wait" /\ med' = med
        /\ abort' = abort
    BY <1>22, PlayAcknowledgesDoes
  <2> QED BY <1>0, <2>1 DEF Sessions, Numbers
<1>23. CASE PlayResetFails
  BY <1>0, <1>23, PlayResetFailsDoes DEF Sessions, Numbers
<1>24. CASE PlayReads
  BY <1>0, <1>24, PlayReadsDoes DEF Sessions, Numbers
<1>25. CASE PlayIncomplete
  BY <1>0, <1>25, PlayIncompleteDoes DEF Sessions, Numbers
<1>26. CASE PlayReceives
  BY <1>0, <1>26, PlayReceivesDoes DEF Sessions, Numbers
<1>27. CASE PlayLocks
  BY <1>0, <1>27, PlayLocksDoes DEF Sessions, Numbers
<1>28. CASE PlayWrites
  <2>1. CASE pl'.pc = "finish"
    BY <1>0, <1>28, WriteCounts, <2>1 DEF Sessions, Numbers
  <2>2. CASE ~(pl'.pc = "finish")
    BY <1>0, <1>28, WriteSpoils, <2>2 DEF Sessions, Numbers
  <2> QED BY <2>1, <2>2
<1>29. CASE PlayWriteFails
  BY <1>0, <1>29, PlayWriteFailsDoes DEF Sessions, Numbers
<1>30. CASE PlayFinishes
  BY <1>0, <1>30, PlayFinishesDoes DEF Sessions, Numbers
<1>31. CASE PlayDrained
  <2>1. CASE pl'.pc = "wait"
    <3>1. /\ io'.session = io.session + 1 /\ pl'.session = 0 /\ pl'.pc = "wait" /\ med' = med
          /\ abort' = abort
      BY <1>31, <2>1, DrainReports
    <3> QED BY <1>0, <3>1 DEF Sessions, Numbers
  <2>2. CASE ~(pl'.pc = "wait")
    <3>1. /\ io'.session = io.session /\ pl'.session = 0 /\ pl'.pc = "top" /\ med' = med
          /\ abort' \in {abort, pl.session}
      BY <1>31, <2>2, DrainWaits
    <3> QED BY <1>0, <3>1 DEF Sessions, Numbers
  <2> QED BY <2>1, <2>2
<1>32. CASE io' = io /\ med' = med /\ pl' = pl /\ abort' = abort
  BY <1>32 DEF Sessions
<1> QED BY WhoWrites, <1>1, <1>2, <1>3, <1>4, <1>5, <1>6, <1>7, <1>8, <1>9, <1>10, <1>11, <1>12,
  <1>13, <1>14, <1>15, <1>16, <1>17, <1>18, <1>19, <1>20, <1>21, <1>22, <1>23, <1>24, <1>25, <1>26,
  <1>27, <1>28, <1>29, <1>30, <1>31, <1>32 DEF Shapes, IoShape, MedShape, PlShape, AbortShape

LEMMA NoticesNumbered == NoticesType => \A i \in DOMAIN notices : notices[i].session \in Nat
<1>1. NoticesType => \A i \in DOMAIN notices : notices[i] \in Notices
  BY ElementOfSeq, LenProperties DEF NoticesType
<1> QED BY <1>1 DEF Notices

LEMMA NoticesShrink ==
  ASSUME NoticesType, notices # <<>>
  PROVE  /\ 1 \in DOMAIN notices /\ Head(notices) = notices[1]
         /\ \A i \in DOMAIN Tail(notices) : i + 1 \in DOMAIN notices /\ Tail(notices)[i] = notices[i + 1]
<1>1. Len(notices) \in Nat /\ Len(notices) # 0 /\ DOMAIN notices = 1..Len(notices)
  BY EmptySeq, LenProperties DEF NoticesType
<1>2. /\ Head(notices) = notices[1] /\ Len(Tail(notices)) = Len(notices) - 1
      /\ DOMAIN Tail(notices) = 1..(Len(notices) - 1)
      /\ \A i \in 1..(Len(notices) - 1) : Tail(notices)[i] = notices[i + 1]
  BY HeadTailProperties, LenProperties DEF NoticesType
<1> QED BY <1>1, <1>2

LEMMA NoticesExtend ==
  ASSUME NoticesType, NEW s \in Nat, NEW d \in BOOLEAN
  PROVE  LET n == Append(notices, [session |-> s, drained |-> d])
         IN \A i \in DOMAIN n : \/ i \in DOMAIN notices /\ n[i] = notices[i]
                               \/ n[i] = [session |-> s, drained |-> d]
<1> DEFINE m == [session |-> s, drained |-> d]
           n == Append(notices, m)
<1>1. m \in Notices
  BY DEF Notices
<1> HIDE DEF m
<1>2. /\ Len(n) = Len(notices) + 1 /\ DOMAIN n = 1..Len(n)
      /\ \A i \in 1..Len(notices) : n[i] = notices[i]
      /\ n[Len(notices) + 1] = m
  BY <1>1, AppendProperties, LenProperties DEF NoticesType
<1>3. Len(notices) \in Nat /\ DOMAIN notices = 1..Len(notices)
  BY LenProperties DEF NoticesType
<1>4. \A i \in DOMAIN n : (i \in DOMAIN notices /\ n[i] = notices[i]) \/ n[i] = m
  BY <1>2, <1>3
<1> QED BY <1>4 DEF m

LEMMA NoticedStep ==
  ASSUME [Next]_vars, TypeOK, Noticed, Sessions
  PROVE  Noticed'
<1>0. Numbers /\ Numbers'
  BY NumbersAre, TypesStep
<1>1. CASE ResetRequest
  BY <1>0, <1>1, ResetRequestDoes DEF Noticed, Sessions, Numbers
<1>2. CASE AdoptPlayback
  <2>1. notices' = notices /\ io'.session >= io.session
    BY <1>0, <1>2, AdoptPlaybackDoes DEF Numbers
  <2>2. \A i \in DOMAIN notices : notices[i].session \in Nat
    BY NoticesNumbered DEF TypeOK
  <2> QED BY <1>0, <2>1, <2>2 DEF Noticed, Numbers
<1>3. CASE DrainPlaybackNotices
  <2>1. notices' = Tail(notices) /\ notices # <<>> /\ io' = io
    BY <1>3, DrainPlaybackNoticesDoes
  <2>2. \A i \in DOMAIN Tail(notices) : i + 1 \in DOMAIN notices /\ Tail(notices)[i] = notices[i + 1]
    BY <2>1, NoticesShrink DEF TypeOK
  <2> QED BY <2>1, <2>2 DEF Noticed
<1>4. CASE PlayAborts
  <2>1. notices' = notices /\ io'.session >= io.session
    BY <1>0, <1>4, PlayAbortsDoes DEF Numbers
  <2>2. \A i \in DOMAIN notices : notices[i].session \in Nat
    BY NoticesNumbered DEF TypeOK
  <2> QED BY <1>0, <2>1, <2>2 DEF Noticed, Numbers
<1>5. CASE PlayAcknowledges
  <2> DEFINE s == pl.report
  <2>1. s \in Nat /\ s < io'.session /\ io.session <= io'.session
    BY <1>0, <1>5, PlayAcknowledgesDoes DEF Sessions, Numbers, PlayHolds
  <2>2. notices' = notices \/ notices' = Append(notices, [session |-> s, drained |-> FALSE])
    BY <1>5, PlayAcknowledgesDoes
  <2> HIDE DEF s
  <2>3. \A i \in DOMAIN notices : notices[i].session \in Nat
    BY NoticesNumbered DEF TypeOK
  <2>4. \A i \in DOMAIN notices' : \/ i \in DOMAIN notices /\ notices'[i] = notices[i]
                                   \/ notices'[i] = [session |-> s, drained |-> FALSE]
    BY <2>1, <2>2, NoticesExtend DEF TypeOK
  <2>5. \A i \in DOMAIN notices' : notices'[i].session < io'.session
    BY <1>0, <2>1, <2>3, <2>4 DEF Noticed, Numbers
  <2> QED BY <2>5 DEF Noticed
<1>6. CASE PlayIncomplete
  BY <1>0, <1>6, PlayIncompleteDoes DEF Noticed, Sessions, Numbers
<1>7. CASE PlayWrites
  <2>1. CASE pl'.pc = "finish"
    BY <1>0, <1>7, WriteCounts, <2>1 DEF Noticed, Sessions, Numbers
  <2>2. CASE ~(pl'.pc = "finish")
    BY <1>0, <1>7, WriteSpoils, <2>2 DEF Noticed, Sessions, Numbers
  <2> QED BY <2>1, <2>2
<1>8. CASE PlayWriteFails
  BY <1>0, <1>8, PlayWriteFailsDoes DEF Noticed, Sessions, Numbers
<1>9. CASE PlayDrained
  <2>1. CASE pl'.pc = "wait"
    <3> DEFINE s == pl.session
    <3>1. s \in Nat /\ s < io'.session /\ io.session <= io'.session
      <4>1. io'.session = io.session + 1
        BY <1>9, <2>1, DrainReports
      <4> QED BY <1>0, <4>1 DEF Sessions, Numbers
    <3>2. notices' = Append(notices, [session |-> s, drained |-> TRUE])
      BY <1>9, <2>1, PlayDrainedDoes
    <3> HIDE DEF s
    <3>3. \A i \in DOMAIN notices : notices[i].session \in Nat
      BY NoticesNumbered DEF TypeOK
    <3>4. \A i \in DOMAIN notices' : \/ i \in DOMAIN notices /\ notices'[i] = notices[i]
                                     \/ notices'[i] = [session |-> s, drained |-> TRUE]
      BY <3>1, <3>2, NoticesExtend DEF TypeOK
    <3>5. \A i \in DOMAIN notices' : notices'[i].session < io'.session
      BY <1>0, <3>1, <3>3, <3>4 DEF Noticed, Numbers
    <3> QED BY <3>5 DEF Noticed
  <2>2. CASE ~(pl'.pc = "wait")
    <3>1. notices' = notices /\ io'.session = io.session
      BY <1>9, <2>2, DrainWaits
    <3> QED BY <3>1 DEF Noticed
  <2> QED BY <2>1, <2>2
<1>10. CASE io' = io /\ notices' = notices
  BY <1>10 DEF Noticed, Sessions
<1> QED BY WhoWrites, <1>1, <1>2, <1>3, <1>4, <1>5, <1>6, <1>7, <1>8, <1>9, <1>10 DEF Shapes,
  IoShape, NoticesShape

LEMMA ControlStep == ASSUME [Next]_vars, TypeOK, ControlInv PROVE ControlInv'
BY LockStep, AcknowledgedStep, PlayResetsStep, CallbackResetsStep, LinkUpStep, CallbackInvStep, AdoptingStep,
   PlayHoldsStep, ClearedStep, UnarmedStep, OneReservationStep, ArmedCurrentStep, LeaseStep,
   ClosedStep, PlayingStep, SessionsStep, NoticedStep DEF ControlInv, ResetInv

----------------------------------------------------------------------------
(* The tape: what has been written in this session, the chunk in hand, the *)
(* buffer and the chunk that comes.                                        *)

Played == IF session.active THEN Len(heard) ELSE 0
InHand == IF pl.pc \in {"locked", "write"} THEN 1 ELSE 0
Coming == IF cb.pc = "send" THEN 1 ELSE 0
Length == Played + InHand + Len(buffer) + Coming

\* The playback has failed already, or nothing is admitted to it.
Spoiled ==
  \/ ~ResetConfirmed \/ ~gate.open
  \/ session.active /\ session.incomplete
  \/ ~session.active /\ (ingress.incomplete \/ med.pc \in {"lock", "gate", "request"})

LEMMA Parts ==
  /\ TypeOK => /\ Len(heard) \in Nat /\ Len(buffer) \in Nat
               /\ Played \in Nat /\ InHand \in {0, 1} /\ Coming \in {0, 1} /\ Length \in Nat
  /\ TypeOK' => /\ Len(heard') \in Nat /\ Len(buffer') \in Nat
                /\ Played' \in Nat /\ InHand' \in {0, 1} /\ Coming' \in {0, 1} /\ Length' \in Nat
<1>1. TypeOK => Len(heard) \in Nat /\ Len(buffer) \in Nat
  BY LenProperties DEF TypeOK, HeardType, BufferType
<1>2. TypeOK' => Len(heard') \in Nat /\ Len(buffer') \in Nat
  BY LenProperties DEF TypeOK, HeardType, BufferType
<1>3. TypeOK => Played \in Nat /\ InHand \in {0, 1} /\ Coming \in {0, 1}
  BY <1>1 DEF Played, InHand, Coming
<1>4. TypeOK' => Played' \in Nat /\ InHand' \in {0, 1} /\ Coming' \in {0, 1}
  BY <1>2 DEF Played, InHand, Coming
<1>5. TypeOK => Length \in Nat
  BY <1>1, <1>3 DEF Length
<1>6. TypeOK' => Length' \in Nat
  BY <1>2, <1>4 DEF Length
<1> QED BY <1>1, <1>2, <1>3, <1>4, <1>5, <1>6

LEMMA BufferShrinks ==
  ASSUME BufferType, buffer # <<>>
  PROVE  /\ Len(Tail(buffer)) = Len(buffer) - 1 /\ Head(buffer) = buffer[1] /\ 1 \in DOMAIN buffer
         /\ \A i \in DOMAIN Tail(buffer) : /\ i \in Nat /\ i + 1 \in DOMAIN buffer
                                           /\ Tail(buffer)[i] = buffer[i + 1]
<1>1. Len(buffer) \in Nat /\ Len(buffer) # 0 /\ DOMAIN buffer = 1..Len(buffer)
  BY EmptySeq, LenProperties DEF BufferType
<1>2. /\ Head(buffer) = buffer[1] /\ Len(Tail(buffer)) = Len(buffer) - 1
      /\ DOMAIN Tail(buffer) = 1..(Len(buffer) - 1)
      /\ \A i \in 1..(Len(buffer) - 1) : Tail(buffer)[i] = buffer[i + 1]
  BY HeadTailProperties, LenProperties DEF BufferType
<1> QED BY <1>1, <1>2

LEMMA BufferGrows ==
  ASSUME BufferType, CbType
  PROVE  LET b == Append(buffer, cb.chunk)
         IN /\ Len(b) = Len(buffer) + 1
            /\ \A i \in DOMAIN b : \/ i \in DOMAIN buffer /\ b[i] = buffer[i]
                                   \/ i = Len(buffer) + 1 /\ b[i] = cb.chunk
<1>1. cb.chunk \in ChunkSet
  BY DEF CbType
<1> DEFINE b == Append(buffer, cb.chunk)
<1>2. /\ Len(b) = Len(buffer) + 1 /\ DOMAIN b = 1..Len(b)
      /\ \A i \in 1..Len(buffer) : b[i] = buffer[i]
      /\ b[Len(buffer) + 1] = cb.chunk
  BY <1>1, AppendProperties, LenProperties DEF BufferType
<1>3. Len(buffer) \in Nat /\ DOMAIN buffer = 1..Len(buffer)
  BY LenProperties DEF BufferType
<1> QED BY <1>2, <1>3

LEMMA HeardGrows ==
  ASSUME HeardType, PlType
  PROVE  LET h == Append(heard, pl.chunk)
         IN /\ Len(h) = Len(heard) + 1
            /\ \A i \in DOMAIN h : \/ i \in DOMAIN heard /\ h[i] = heard[i]
                                   \/ i = Len(heard) + 1 /\ h[i] = pl.chunk
<1>1. pl.chunk \in ChunkSet
  BY DEF PlType
<1> DEFINE h == Append(heard, pl.chunk)
<1>2. /\ Len(h) = Len(heard) + 1 /\ DOMAIN h = 1..Len(h)
      /\ \A i \in 1..Len(heard) : h[i] = heard[i]
      /\ h[Len(heard) + 1] = pl.chunk
  BY <1>1, AppendProperties, LenProperties DEF HeardType
<1>3. Len(heard) \in Nat /\ DOMAIN heard = 1..Len(heard)
  BY LenProperties DEF HeardType
<1> QED BY <1>2, <1>3

LEMMA PlayAudioTape ==
  ASSUME TypeOK, ControlInv, PlayAudio
  PROVE  /\ Played' = Played
         /\ InHand' = InHand
         /\ Len(buffer') = Len(buffer)
         /\ Coming' = Coming
BY PlayAudioDoes DEF Played, InHand, Coming

LEMMA PlayAudioReadsResetTape ==
  ASSUME TypeOK, ControlInv, PlayAudioReadsReset
  PROVE  /\ Played' = Played
         /\ InHand' = InHand
         /\ Len(buffer') = Len(buffer)
         /\ Coming' = Coming
BY PlayAudioReadsResetDoes DEF Played, InHand, Coming

LEMMA PlayAudioReadsFaultTape ==
  ASSUME TypeOK, ControlInv, PlayAudioReadsFault
  PROVE  /\ Played' = Played
         /\ InHand' = InHand
         /\ Len(buffer') = Len(buffer)
         /\ Coming' = Coming
BY PlayAudioReadsFaultDoes DEF Played, InHand, Coming

LEMMA PlayAudioLocksTape ==
  ASSUME TypeOK, ControlInv, PlayAudioLocks
  PROVE  /\ Played' = Played
         /\ InHand' = InHand
         /\ Len(buffer') = Len(buffer)
         /\ Coming' = Coming
BY PlayAudioLocksDoes DEF Played, InHand, Coming

LEMMA PlayAudioReservesTape ==
  ASSUME TypeOK, ControlInv, PlayAudioReserves
  PROVE  /\ Played' = Played
         /\ InHand' = InHand
         /\ Len(buffer') = Len(buffer)
         /\ Coming = 0 /\ Coming' = IF cb'.pc = "send" THEN 1 ELSE 0
BY PlayAudioReservesDoes DEF Played, InHand, Coming

LEMMA PlayAudioRefusedTape ==
  ASSUME TypeOK, ControlInv, PlayAudioRefused
  PROVE  /\ Played' = Played
         /\ InHand' = InHand
         /\ Len(buffer') = Len(buffer)
         /\ Coming' = Coming
BY PlayAudioRefusedDoes DEF Played, InHand, Coming

LEMMA PlayAudioSendsTape ==
  ASSUME TypeOK, ControlInv, PlayAudioSends
  PROVE  /\ Played' = Played
         /\ InHand' = InHand
         /\ Len(buffer') = Len(buffer) + 1
         /\ Coming = 1 /\ Coming' = 0
<1>1. Len(buffer') = Len(buffer) + 1
  BY PlayAudioSendsDoes, BufferGrows DEF TypeOK
<1> QED BY <1>1, PlayAudioSendsDoes DEF Played, InHand, Coming

LEMMA PlayAudioOverflowsTape ==
  ASSUME TypeOK, ControlInv, PlayAudioOverflows
  PROVE  /\ Played' = Played
         /\ InHand' = InHand
         /\ Len(buffer') = Len(buffer)
         /\ Coming = 1 /\ Coming' = 0
BY PlayAudioOverflowsDoes DEF Played, InHand, Coming

LEMMA ResetReleasesTape ==
  ASSUME TypeOK, ControlInv, ResetReleases
  PROVE  /\ Played' = Played
         /\ InHand' = InHand
         /\ Len(buffer') = Len(buffer)
         /\ Coming' = Coming
BY ResetReleasesDoes DEF Played, InHand, Coming

LEMMA AdoptPlaybackTape ==
  ASSUME TypeOK, ControlInv, AdoptPlayback
  PROVE  /\ Played' = 0 /\ Played = 0
         /\ InHand' = InHand
         /\ Len(buffer') = Len(buffer)
         /\ Coming' = Coming
<1>1. pl'.pc = pl.pc /\ buffer' = buffer /\ cb' = cb
  BY AdoptPlaybackDoes
<1>2. ~session.active
  BY AdoptPlaybackDoes DEF ControlInv, Adopting
<1>3. Len(heard') = 0 \/ ~session'.active
  <2>1. CASE med'.pc = "idle"
    BY <2>1, AdoptPlaybackDoes
  <2>2. CASE ~(med'.pc = "idle")
    BY <1>2, <2>2, AdoptionFails
  <2> QED BY <2>1, <2>2
<1> QED BY <1>1, <1>2, <1>3 DEF Played, InHand, Coming

LEMMA ApplyAudioEndTape ==
  ASSUME TypeOK, ControlInv, ApplyAudioEnd
  PROVE  /\ Played' = Played
         /\ InHand' = InHand
         /\ Len(buffer') = Len(buffer)
         /\ Coming' = Coming
BY ApplyAudioEndDoes DEF Played, InHand, Coming

LEMMA PlayWakesTape ==
  ASSUME TypeOK, ControlInv, PlayWakes
  PROVE  /\ Played' = Played
         /\ InHand' = InHand
         /\ Len(buffer') = Len(buffer)
         /\ Coming' = Coming
BY PlayWakesDoes DEF Played, InHand, Coming

LEMMA PlayStartsResetTape ==
  ASSUME TypeOK, ControlInv, PlayStartsReset
  PROVE  /\ Played' = Played
         /\ InHand' = InHand
         /\ Len(buffer') = Len(buffer)
         /\ Coming' = Coming
BY PlayStartsResetDoes DEF Played, InHand, Coming

LEMMA PlayResetLocksTape ==
  ASSUME TypeOK, ControlInv, PlayResetLocks
  PROVE  /\ Played' = Played
         /\ InHand' = InHand
         /\ Len(buffer') = Len(buffer)
         /\ Coming' = Coming
BY PlayResetLocksDoes DEF Played, InHand, Coming

LEMMA PlayResetLocksBufferTape ==
  ASSUME TypeOK, ControlInv, PlayResetLocksBuffer
  PROVE  /\ Played' = Played
         /\ InHand' = InHand
         /\ Len(buffer') = Len(buffer)
         /\ Coming' = Coming
BY PlayResetLocksBufferDoes DEF Played, InHand, Coming

LEMMA PlayAbortsTape ==
  ASSUME TypeOK, ControlInv, PlayAborts
  PROVE  /\ Played' = 0
         /\ InHand' = InHand
         /\ Len(buffer') = Len(buffer)
         /\ Coming' = Coming
BY PlayAbortsDoes DEF Played, InHand, Coming

LEMMA PlayAcknowledgesTape ==
  ASSUME TypeOK, ControlInv, PlayAcknowledges
  PROVE  /\ Played' = Played
         /\ InHand' = InHand
         /\ Len(buffer') = 0
         /\ Coming' = Coming
BY PlayAcknowledgesDoes DEF Played, InHand, Coming

LEMMA PlayResetFailsTape ==
  ASSUME TypeOK, ControlInv, PlayResetFails
  PROVE  /\ Played' = Played
         /\ InHand' = InHand
         /\ Len(buffer') = Len(buffer)
         /\ Coming' = Coming
BY PlayResetFailsDoes DEF Played, InHand, Coming

LEMMA PlayReadsTape ==
  ASSUME TypeOK, ControlInv, PlayReads
  PROVE  /\ Played' = Played
         /\ InHand' = InHand
         /\ Len(buffer') = Len(buffer)
         /\ Coming' = Coming
BY PlayReadsDoes DEF Played, InHand, Coming

LEMMA PlayIncompleteTape ==
  ASSUME TypeOK, ControlInv, PlayIncomplete
  PROVE  /\ Played' = Played
         /\ InHand' = InHand
         /\ Len(buffer') = Len(buffer)
         /\ Coming' = Coming
BY PlayIncompleteDoes DEF Played, InHand, Coming

LEMMA PlayReceivesTape ==
  ASSUME TypeOK, ControlInv, PlayReceives
  PROVE  /\ Played' = Played
         /\ InHand = 0
         /\ \/ buffer # <<>> /\ InHand' = 1 /\ Len(buffer') = Len(buffer) - 1
            \/ InHand' = 0 /\ buffer' = buffer
         /\ Coming' = Coming
<1>1. pl.pc = "receive" /\ UNCHANGED <<session, heard, cb>>
  BY PlayReceivesDoes
<1>2. \/ buffer # <<>> /\ pl'.pc = "locked" /\ buffer' = Tail(buffer)
      \/ pl'.pc = "finish" /\ buffer' = buffer
  BY PlayReceivesDoes
<1>3. buffer # <<>> => Len(Tail(buffer)) = Len(buffer) - 1
  BY BufferShrinks DEF TypeOK
<1> QED BY <1>1, <1>2, <1>3 DEF Played, InHand, Coming

LEMMA PlayLocksTape ==
  ASSUME TypeOK, ControlInv, PlayLocks
  PROVE  /\ Played' = Played
         /\ InHand = 1
         /\ Len(buffer') = Len(buffer)
         /\ Coming' = Coming
         /\ InHand' = IF pl'.pc = "write" THEN 1 ELSE 0
BY PlayLocksDoes DEF Played, InHand, Coming

LEMMA PlayWritesTape ==
  ASSUME TypeOK, ControlInv, PlayWrites
  PROVE  /\ Played' = Played + 1 /\ Played = Len(heard)
         /\ InHand = 1 /\ InHand' = 0
         /\ Len(buffer') = Len(buffer)
         /\ Coming' = Coming
<1>1. Len(heard') = Len(heard) + 1 /\ session'.active = session.active /\ UNCHANGED <<buffer, cb>>
  BY PlayWritesDoes, HeardGrows DEF TypeOK
<1>2. pl.pc = "write" /\ pl'.pc \in {"finish", "top"}
  BY PlayWritesDoes
<1>3. session.active
  BY <1>2 DEF ControlInv, PlayHolds
<1> QED BY <1>1, <1>2, <1>3 DEF Played, InHand, Coming

LEMMA PlayWriteFailsTape ==
  ASSUME TypeOK, ControlInv, PlayWriteFails
  PROVE  /\ Played' = Played
         /\ InHand = 1 /\ InHand' = 0
         /\ Len(buffer') = Len(buffer)
         /\ Coming' = Coming
BY PlayWriteFailsDoes DEF Played, InHand, Coming

LEMMA PlayFinishesTape ==
  ASSUME TypeOK, ControlInv, PlayFinishes
  PROVE  /\ Played' = Played
         /\ InHand' = InHand
         /\ Len(buffer') = Len(buffer)
         /\ Coming' = Coming
BY PlayFinishesDoes DEF Played, InHand, Coming

LEMMA PlayDrainedTape ==
  ASSUME TypeOK, ControlInv, PlayDrained
  PROVE  /\ Played' = IF pl'.pc = "wait" THEN 0 ELSE Played
         /\ InHand = 0 /\ InHand' = 0
         /\ Len(buffer') = Len(buffer)
         /\ Coming' = Coming
<1>1. pl.pc = "drain" /\ UNCHANGED <<heard, buffer, cb>>
  BY PlayDrainedDoes
<1>2. CASE pl'.pc = "wait"
  BY <1>1, <1>2, DrainReports DEF Played, InHand, Coming
<1>3. CASE ~(pl'.pc = "wait")
  BY <1>1, <1>3, DrainWaits DEF Played, InHand, Coming
<1> QED BY <1>2, <1>3

LEMMA TapeShrinks ==
  ASSUME [Next]_vars, TypeOK, ControlInv
  PROVE  Length' <= Length \/ (PlayAudioReserves /\ cb'.pc = "send")
<1>0. /\ Len(buffer) \in Nat /\ Played \in Nat /\ InHand \in {0, 1} /\ Coming \in {0, 1}
      /\ Len(buffer') \in Nat /\ Played' \in Nat /\ InHand' \in {0, 1} /\ Coming' \in {0, 1}
  BY Parts, TypesStep
<1>1. CASE PlayAudio
  BY <1>0, <1>1, PlayAudioTape DEF Length
<1>2. CASE PlayAudioReadsReset
  BY <1>0, <1>2, PlayAudioReadsResetTape DEF Length
<1>3. CASE PlayAudioReadsFault
  BY <1>0, <1>3, PlayAudioReadsFaultTape DEF Length
<1>4. CASE PlayAudioLocks
  BY <1>0, <1>4, PlayAudioLocksTape DEF Length
<1>5. CASE PlayAudioReserves
  BY <1>0, <1>5, PlayAudioReservesTape DEF Length
<1>6. CASE PlayAudioRefused
  BY <1>0, <1>6, PlayAudioRefusedTape DEF Length
<1>7. CASE PlayAudioSends
  BY <1>0, <1>7, PlayAudioSendsTape DEF Length
<1>8. CASE PlayAudioOverflows
  BY <1>0, <1>8, PlayAudioOverflowsTape DEF Length
<1>9. CASE ResetReleases
  BY <1>0, <1>9, ResetReleasesTape DEF Length
<1>10. CASE AdoptPlayback
  BY <1>0, <1>10, AdoptPlaybackTape DEF Length
<1>11. CASE ApplyAudioEnd
  BY <1>0, <1>11, ApplyAudioEndTape DEF Length
<1>12. CASE PlayWakes
  BY <1>0, <1>12, PlayWakesTape DEF Length
<1>13. CASE PlayStartsReset
  BY <1>0, <1>13, PlayStartsResetTape DEF Length
<1>14. CASE PlayResetLocks
  BY <1>0, <1>14, PlayResetLocksTape DEF Length
<1>15. CASE PlayResetLocksBuffer
  BY <1>0, <1>15, PlayResetLocksBufferTape DEF Length
<1>16. CASE PlayAborts
  BY <1>0, <1>16, PlayAbortsTape DEF Length
<1>17. CASE PlayAcknowledges
  BY <1>0, <1>17, PlayAcknowledgesTape DEF Length
<1>18. CASE PlayResetFails
  BY <1>0, <1>18, PlayResetFailsTape DEF Length
<1>19. CASE PlayReads
  BY <1>0, <1>19, PlayReadsTape DEF Length
<1>20. CASE PlayIncomplete
  BY <1>0, <1>20, PlayIncompleteTape DEF Length
<1>21. CASE PlayReceives
  BY <1>0, <1>21, PlayReceivesTape DEF Length
<1>22. CASE PlayLocks
  BY <1>0, <1>22, PlayLocksTape DEF Length
<1>23. CASE PlayWrites
  BY <1>0, <1>23, PlayWritesTape DEF Length
<1>24. CASE PlayWriteFails
  BY <1>0, <1>24, PlayWriteFailsTape DEF Length
<1>25. CASE PlayFinishes
  BY <1>0, <1>25, PlayFinishesTape DEF Length
<1>26. CASE PlayDrained
  BY <1>0, <1>26, PlayDrainedTape DEF Length
<1>27. CASE UNCHANGED <<session, heard, pl, buffer, cb>>
  BY <1>0, <1>27 DEF Length, Played, InHand, Coming
<1> QED BY WhoWrites, <1>1, <1>2, <1>3, <1>4, <1>5, <1>6, <1>7, <1>8, <1>9, <1>10, <1>11, <1>12,
  <1>13, <1>14, <1>15, <1>16, <1>17, <1>18, <1>19, <1>20, <1>21, <1>22, <1>23, <1>24, <1>25, <1>26,
  <1>27 DEF Shapes, SessionShape, HeardShape, PlShape, BufferShape, CbShape

LEMMA Recovered ==
  ASSUME [Next]_vars, TypeOK, ControlInv, ~Spoiled'
  PROVE  \/ ~Spoiled
         \/ ~session'.active /\ Length' = 0 /\ ingress'.got = 0
<1>0. Numbers /\ Numbers'
  BY NumbersAre, TypesStep
<1>1. CASE HandleCustom
  BY <1>0, <1>1, HandleCustomDoes DEF Spoiled, ResetConfirmed, Numbers
<1>2. CASE PlayAudioReserves
  BY <1>0, <1>2, PlayAudioReservesDoes DEF Spoiled, ResetConfirmed, ControlInv, Unarmed,
    ArmedCurrent, Current, AcceptCallback, Accepts, Numbers
<1>3. CASE PlayAudioOverflows
  BY <1>0, <1>3, PlayAudioOverflowsDoes DEF Spoiled, ResetConfirmed, Numbers
<1>4. CASE ResetLocks
  BY <1>0, <1>4, ResetLocksDoes DEF Spoiled, ResetConfirmed, Numbers
<1>5. CASE ResetDoesNotLock
  BY <1>0, <1>5, ResetDoesNotLockDoes DEF Spoiled, ResetConfirmed, Numbers
<1>6. CASE ResetGate
  BY <1>0, <1>6, ResetGateDoes DEF Spoiled, ResetConfirmed, Numbers
<1>7. CASE ResetRequest
  BY <1>0, <1>7, ResetRequestDoes DEF Spoiled, ResetConfirmed, ControlInv, ResetInv, Acknowledged,
    Numbers
<1>8. CASE ResetReleases
  BY <1>0, <1>8, ResetReleasesDoes DEF Spoiled, ResetConfirmed, Numbers
<1>9. CASE ResetReturns
  BY <1>0, <1>9, ResetReturnsDoes DEF Spoiled, ResetConfirmed, Numbers
<1>10. CASE DrainBridgeIngressFault
  BY <1>0, <1>10, DrainBridgeIngressFaultDoes DEF Spoiled, ResetConfirmed, Numbers
<1>11. CASE CleanupObservedDisconnect
  BY <1>0, <1>11, CleanupObservedDisconnectDoes DEF Spoiled, ResetConfirmed, Numbers
<1>12. CASE LinkReady
  <2>1. CASE gate' = gate
    BY <1>12, <2>1, LinkReadyDoes DEF Spoiled, ResetConfirmed
  <2>2. CASE ~(gate' = gate)
    <3>1. /\ ~gate.open /\ ResetConfirmed /\ med.pc = "idle"
          /\ UNCHANGED <<io, session, ingress, buffer, cb, pl, heard>>
      BY <1>12, <2>2, LinkReadyDoes
    <3>2. Clean
      BY <3>1 DEF ControlInv, Closed
    <3>3. pl.pc \notin {"locked", "write"} /\ ingress.got = 0
      BY <3>2 DEF ControlInv, PlayHolds, Clean, Unarmed
    <3>4. Len(buffer') = 0 /\ Played' = 0 /\ InHand' = 0 /\ Coming' = 0
      BY <3>1, <3>2, <3>3 DEF Clean, Played, InHand, Coming
    <3> QED BY <3>1, <3>2, <3>3, <3>4 DEF Length, Clean
  <2> QED BY <2>1, <2>2
<1>13. CASE Request
  BY <1>0, <1>13, RequestDoes DEF Spoiled, ResetConfirmed, Numbers
<1>14. CASE DropMessages
  BY <1>0, <1>14, DropMessagesDoes DEF Spoiled, ResetConfirmed, Numbers
<1>15. CASE ApplyAudioStart
  BY <1>0, <1>15, ApplyAudioStartDoes DEF Spoiled, ResetConfirmed, ControlInv, Unarmed, Numbers
<1>16. CASE AdoptPlayback
  <2>1. CASE med'.pc = "idle"
    BY <1>0, <1>16, AdoptionBegins, <2>1 DEF Spoiled, ResetConfirmed, ControlInv, Adopting, Numbers
  <2>2. CASE ~(med'.pc = "idle")
    BY <1>0, <1>16, AdoptionFails, <2>2 DEF Spoiled, ResetConfirmed, ControlInv, Adopting, Numbers
  <2> QED BY <2>1, <2>2
<1>17. CASE ApplyAudioEnd
  BY <1>0, <1>17, ApplyAudioEndDoes DEF Spoiled, ResetConfirmed, Numbers
<1>18. CASE DrainPlaybackNotices
  BY <1>0, <1>18, DrainPlaybackNoticesDoes DEF Spoiled, ResetConfirmed, Numbers
<1>19. CASE PlayAborts
  BY <1>0, <1>19, PlayAbortsDoes DEF Spoiled, ResetConfirmed, ControlInv, ResetInv, PlayResets,
    Numbers
<1>20. CASE PlayAcknowledges
  <2>1. ~session'.active /\ ingress'.got = 0 /\ cb'.pc # "send" /\ pl'.pc = "wait"
    BY <1>20, PlayAcknowledgesDoes DEF ControlInv, Cleared, Unarmed, LockInv, PlayLocksBuffer, CallbackLocks
  <2>2. Len(buffer') = 0 /\ Played' = 0 /\ InHand' = 0 /\ Coming' = 0
    BY <1>20, <2>1, PlayAcknowledgesDoes DEF Played, InHand, Coming
  <2> QED BY <2>1, <2>2 DEF Length
<1>21. CASE PlayIncomplete
  BY <1>0, <1>21, PlayIncompleteDoes DEF Spoiled, ResetConfirmed, ControlInv, ResetInv,
    Acknowledged, Numbers
<1>22. CASE PlayWrites
  <2>1. CASE pl'.pc = "finish"
    BY <1>0, <1>22, WriteCounts, <2>1 DEF Spoiled, ResetConfirmed, ControlInv, ResetInv,
      Acknowledged, Numbers
  <2>2. CASE ~(pl'.pc = "finish")
    BY <1>0, <1>22, WriteSpoils, <2>2 DEF Spoiled, ResetConfirmed, ControlInv, ResetInv,
      Acknowledged, Numbers
  <2> QED BY <2>1, <2>2
<1>23. CASE PlayWriteFails
  BY <1>0, <1>23, PlayWriteFailsDoes DEF Spoiled, ResetConfirmed, ControlInv, ResetInv,
    Acknowledged, Numbers
<1>24. CASE PlayDrained
  <2>1. CASE pl'.pc = "wait"
    BY <1>0, <1>24, DrainReports, <2>1 DEF Spoiled, ResetConfirmed, ControlInv, ResetInv,
      Acknowledged, Numbers
  <2>2. CASE ~(pl'.pc = "wait")
    BY <1>0, <1>24, DrainWaits, <2>2 DEF Spoiled, ResetConfirmed, ControlInv, ResetInv,
      Acknowledged, Numbers
  <2> QED BY <2>1, <2>2
<1>25. CASE io' = io /\ gate' = gate /\ session' = session /\ ingress' = ingress /\ med' = med
  BY <1>25 DEF Spoiled, ResetConfirmed
<1> QED BY WhoWrites, <1>1, <1>2, <1>3, <1>4, <1>5, <1>6, <1>7, <1>8, <1>9, <1>10, <1>11, <1>12,
  <1>13, <1>14, <1>15, <1>16, <1>17, <1>18, <1>19, <1>20, <1>21, <1>22, <1>23, <1>24, <1>25 DEF
  Shapes, IoShape, GateShape, SessionShape, IngressShape, MedShape

----------------------------------------------------------------------------
(* What is in the tape has been counted.                                   *)

Counted ==
  IF session.active THEN session.got = Length /\ session.wrote = Len(heard)
  ELSE ingress.got = Length
CountInv == ~Spoiled => Counted

\* What was refused came before a reset, which has emptied the tape.
FreshInv ==
  cb.pc \in {"fault", "lock", "reserve", "refused"} /\ cb.reset < io.acknowledged => Length = 0

LEMMA StillReset ==
  ASSUME TypeOK, ControlInv, pl.pc \in {"lockBuffer", "abort", "clear"}
  PROVE  Spoiled
<1>1. Numbers
  BY NumbersAre
<1>2. io.acknowledged # io.requested
  BY <1>1 DEF ControlInv, ResetInv, PlayResets, Numbers
<1> QED BY <1>2 DEF Spoiled, ResetConfirmed

LEMMA Requested ==
  ASSUME TypeOK, ControlInv, io'.requested = io.requested + 1, io'.acknowledged = io.acknowledged
  PROVE  Spoiled'
<1>1. Numbers
  BY NumbersAre
<1>2. io'.acknowledged # io'.requested
  BY <1>1 DEF ControlInv, ResetInv, Acknowledged, Numbers
<1> QED BY <1>2 DEF Spoiled, ResetConfirmed

LEMMA MayWriteOn ==
  ASSUME TypeOK, ControlInv, ~Spoiled, pl.pc = "locked"
  PROVE  MayWrite
BY DEF Spoiled, ControlInv, PlayHolds, Lease, MayWrite, AcceptWrite, Accepts

LEMMA SendIsCurrent ==
  ASSUME TypeOK, ControlInv, ~Spoiled, cb.pc = "send"
  PROVE  Current
BY DEF Spoiled, ControlInv, ResetInv, CallbackResets, CallbackInv, Current, AcceptCallback, Accepts, ResetConfirmed

LEMMA OverflowSpoils ==
  ASSUME TypeOK, ControlInv, Counted, ~Spoiled, PlayAudioOverflows
  PROVE  Spoiled'
<1>1. Current /\ session'.active = session.active
  BY PlayAudioOverflowsDoes, SendIsCurrent
<1>2. CASE ingress.armed
  BY <1>1, <1>2, PlayAudioOverflowsDoes DEF ControlInv, OneReservation, Spoiled
<1>3. CASE ~ingress.armed /\ session.active
  BY <1>1, <1>3, PlayAudioOverflowsDoes DEF Spoiled
<1>4. CASE ~ingress.armed /\ ~session.active
  <2>1. Length = 0 /\ Coming = 1
    BY <1>4, PlayAudioOverflowsTape DEF ControlInv, Unarmed, Counted
  <2> QED BY <2>1, Parts DEF Length
<1> QED BY <1>2, <1>3, <1>4

LEMMA RefusalIsStale ==
  ASSUME TypeOK, ControlInv, ~Spoiled, ~Spoiled', PlayAudioReserves, cb'.pc = "refused"
  PROVE  cb.reset < io.acknowledged /\ session' = session /\ ingress' = ingress
<1>0. Numbers
  BY NumbersAre
<1>1. ~Current
  <2> SUFFICES ASSUME Current PROVE FALSE
    OBVIOUS
  <2>1. gate.open /\ ResetConfirmed /\ cb.epoch = gate.epoch
    BY DEF Current, AcceptCallback, Accepts
  <2>2. CASE session.active
    BY <2>2, PlayAudioReservesDoes DEF Spoiled
  <2>3. CASE ~session.active
    BY <2>1, <2>3, PlayAudioReservesDoes DEF Spoiled, ControlInv, ArmedCurrent
  <2> QED BY <2>2, <2>3
<1>2. gate.open /\ ResetConfirmed
  BY DEF Spoiled
<1>3. cb.epoch = gate.epoch /\ cb.reset <= io.requested
  BY <1>2, PlayAudioReservesDoes DEF ControlInv, CallbackInv, ResetInv, CallbackResets
<1>4. cb.reset # io.requested
  BY <1>1, <1>2, <1>3 DEF Current, AcceptCallback, Accepts
<1>5. cb.reset < io.acknowledged
  BY <1>0, <1>2, <1>3, <1>4 DEF ResetConfirmed, Numbers
<1> QED BY <1>1, <1>5, PlayAudioReservesDoes

LEMMA ReportIsWhole ==
  ASSUME TypeOK, Counted, PlayDrained, pl'.pc = "wait"
  PROVE  /\ Len(heard) = Chunks /\ Length = Chunks /\ session.active
         /\ InHand = 0 /\ Len(buffer) = 0 /\ Coming = 0
<1>1. session.active /\ session.wrote = Chunks /\ session.got = Chunks
  BY DrainReports
<1>2. Len(heard) = Chunks /\ Length = Chunks /\ Played = Chunks
  BY <1>1 DEF Counted, Played
<1> QED BY <1>1, <1>2, ChunksNat, Parts DEF Length

LEMMA CountKept ==
  ASSUME [Next]_vars, TypeOK, ControlInv, Counted, ~Spoiled, ~Spoiled'
  PROVE  Counted'
<1>0. /\ Len(heard) \in Nat /\ Len(buffer) \in Nat /\ Played \in Nat /\ InHand \in {0, 1}
      /\ Coming \in {0, 1} /\ Len(heard') \in Nat /\ Len(buffer') \in Nat /\ Played' \in Nat
      /\ InHand' \in {0, 1} /\ Coming' \in {0, 1} /\ Length \in Nat /\ Length' \in Nat
  BY Parts, TypesStep
<1>00. Numbers /\ Numbers'
  BY NumbersAre, TypesStep
<1>1. CASE PlayAudio
  <2>1. Length' = Length
    BY <1>0, <1>1, PlayAudioTape DEF Length
  <2> QED BY <2>1, <1>1, PlayAudioDoes DEF Counted
<1>2. CASE PlayAudioReadsReset
  <2>1. Length' = Length
    BY <1>0, <1>2, PlayAudioReadsResetTape DEF Length
  <2> QED BY <2>1, <1>2, PlayAudioReadsResetDoes DEF Counted
<1>3. CASE PlayAudioReadsFault
  <2>1. Length' = Length
    BY <1>0, <1>3, PlayAudioReadsFaultTape DEF Length
  <2> QED BY <2>1, <1>3, PlayAudioReadsFaultDoes DEF Counted
<1>4. CASE PlayAudioLocks
  <2>1. Length' = Length
    BY <1>0, <1>4, PlayAudioLocksTape DEF Length
  <2> QED BY <2>1, <1>4, PlayAudioLocksDoes DEF Counted
<1>5. CASE PlayAudioReserves
  <2>1. CASE cb'.pc = "refused"
    <3>1. session' = session /\ ingress' = ingress /\ heard' = heard
      BY <1>5, <2>1, RefusalIsStale, PlayAudioReservesDoes
    <3>2. Length' = Length
      BY <1>0, <1>5, <2>1, PlayAudioReservesTape DEF Length
    <3> QED BY <3>1, <3>2 DEF Counted
  <2>2. CASE cb'.pc = "send"
    <3>1. Length' = Length + 1 /\ heard' = heard /\ Current
      BY <1>0, <1>5, <2>2, PlayAudioReservesTape, PlayAudioReservesDoes DEF Length
    <3>2. CASE session.active
      BY <2>2, <3>1, <3>2, <1>5, PlayAudioReservesDoes DEF Counted
    <3>3. CASE ~session.active
      BY <2>2, <3>1, <3>3, <1>5, PlayAudioReservesDoes DEF Counted, ControlInv, Unarmed
    <3> QED BY <3>2, <3>3
  <2> QED BY <1>5, <2>1, <2>2, PlayAudioReservesDoes
<1>6. CASE PlayAudioRefused
  <2>1. Length' = Length
    BY <1>0, <1>6, PlayAudioRefusedTape DEF Length
  <2> QED BY <2>1, <1>6, PlayAudioRefusedDoes DEF Counted
<1>7. CASE PlayAudioSends
  <2>1. Length' = Length
    BY <1>0, <1>7, PlayAudioSendsTape DEF Length
  <2> QED BY <2>1, <1>7, PlayAudioSendsDoes DEF Counted
<1>8. CASE PlayAudioOverflows
  BY <1>8, OverflowSpoils
<1>9. CASE ResetReleases
  <2>1. Length' = Length
    BY <1>0, <1>9, ResetReleasesTape DEF Length
  <2> QED BY <2>1, <1>9, ResetReleasesDoes DEF Counted
<1>10. CASE ApplyAudioStart
  <2>1. session' = session /\ UNCHANGED <<heard, pl, buffer, cb>>
    BY <1>10, ApplyAudioStartDoes
  <2>2. ingress'.got = ingress.got
    BY <1>10, ApplyAudioStartDoes DEF ControlInv, Unarmed
  <2> QED BY <2>1, <2>2 DEF Counted, Length, Played, InHand, Coming
<1>11. CASE AdoptPlayback
  <2>1. CASE med'.pc = "idle"
    <3>1. Length' = Length /\ ~session.active
      BY <1>0, <1>11, AdoptPlaybackTape, AdoptPlaybackDoes DEF Length, ControlInv, Adopting
    <3>2. session'.active /\ session'.got = ingress.got /\ session'.wrote = 0
      BY <1>11, <2>1, AdoptionBegins
    <3>3. Len(heard') = 0
      BY <1>11, <2>1, AdoptPlaybackDoes
    <3> QED BY <3>1, <3>2, <3>3 DEF Counted
  <2>2. CASE ~(med'.pc = "idle")
    BY <1>11, <2>2, AdoptionFails DEF Spoiled, ControlInv, Adopting
  <2> QED BY <2>1, <2>2
<1>12. CASE ApplyAudioEnd
  <2>1. Length' = Length
    BY <1>0, <1>12, ApplyAudioEndTape DEF Length
  <2> QED BY <2>1, <1>12, ApplyAudioEndDoes DEF Counted
<1>13. CASE PlayWakes
  <2>1. Length' = Length
    BY <1>0, <1>13, PlayWakesTape DEF Length
  <2> QED BY <2>1, <1>13, PlayWakesDoes DEF Counted
<1>14. CASE PlayStartsReset
  <2>1. Length' = Length
    BY <1>0, <1>14, PlayStartsResetTape DEF Length
  <2> QED BY <2>1, <1>14, PlayStartsResetDoes DEF Counted
<1>15. CASE PlayResetLocks
  <2>1. Length' = Length
    BY <1>0, <1>15, PlayResetLocksTape DEF Length
  <2> QED BY <2>1, <1>15, PlayResetLocksDoes DEF Counted
<1>16. CASE PlayResetLocksBuffer
  <2>1. Length' = Length
    BY <1>0, <1>16, PlayResetLocksBufferTape DEF Length
  <2> QED BY <2>1, <1>16, PlayResetLocksBufferDoes DEF Counted
<1>17. CASE PlayAborts
  BY <1>17, StillReset, PlayAbortsDoes
<1>18. CASE PlayAcknowledges
  BY <1>18, StillReset, PlayAcknowledgesDoes
<1>19. CASE PlayResetFails
  BY <1>19, StillReset, PlayResetFailsDoes
<1>20. CASE PlayReads
  <2>1. Length' = Length
    BY <1>0, <1>20, PlayReadsTape DEF Length
  <2> QED BY <2>1, <1>20, PlayReadsDoes DEF Counted
<1>21. CASE PlayIncomplete
  BY <1>21, Requested, PlayIncompleteDoes
<1>22. CASE PlayReceives
  <2>1. Length' = Length
    BY <1>0, <1>22, PlayReceivesTape DEF Length
  <2> QED BY <2>1, <1>22, PlayReceivesDoes DEF Counted
<1>23. CASE PlayLocks
  <2>1. Length' = Length
    BY <1>0, <1>23, PlayLocksTape, PlayLocksDoes, MayWriteOn DEF Length
  <2> QED BY <2>1, <1>23, PlayLocksDoes DEF Counted
<1>24. CASE PlayWrites
  <2>1. pl'.pc = "finish"
    BY <1>24, WriteSpoils, Requested
  <2>2. Length' = Length
    BY <1>0, <1>24, PlayWritesTape DEF Length
  <2>3. Len(heard') = Len(heard) + 1
    BY <1>24, PlayWritesDoes, HeardGrows DEF TypeOK
  <2>4. /\ session.active /\ session'.active /\ session'.got = session.got
        /\ session'.wrote = session.wrote + 1
    BY <1>24, <2>1, WriteCounts
  <2> QED BY <2>2, <2>3, <2>4 DEF Counted
<1>25. CASE PlayWriteFails
  BY <1>25, Requested, PlayWriteFailsDoes
<1>26. CASE PlayFinishes
  <2>1. Length' = Length
    BY <1>0, <1>26, PlayFinishesTape DEF Length
  <2> QED BY <2>1, <1>26, PlayFinishesDoes DEF Counted
<1>27. CASE PlayDrained
  <2>1. CASE pl'.pc = "wait"
    <3>1. Length' = 0
      BY <1>0, <1>27, <2>1, ReportIsWhole, PlayDrainedTape, PlayDrainedDoes DEF Length
    <3>2. ~session'.active /\ ingress' = ingress /\ session.active
      BY <1>27, <2>1, DrainReports
    <3> QED BY <3>1, <3>2 DEF Counted, ControlInv, OneReservation, Unarmed
  <2>2. CASE ~(pl'.pc = "wait")
    <3>1. session' = session /\ ingress' = ingress /\ UNCHANGED <<heard, buffer, cb>>
      BY <1>27, <2>2, DrainWaits
    <3>2. Length' = Length
      BY <1>0, <1>27, <2>2, <3>1, PlayDrainedTape DEF Length
    <3> QED BY <3>1, <3>2 DEF Counted
  <2> QED BY <2>1, <2>2
<1>28. CASE session' = session /\ ingress' = ingress /\ heard' = heard /\ pl' = pl /\ buffer' =
  buffer /\ cb' = cb
  BY <1>28 DEF Counted, Length, Played, InHand, Coming
<1> QED BY WhoWrites, <1>1, <1>2, <1>3, <1>4, <1>5, <1>6, <1>7, <1>8, <1>9, <1>10, <1>11, <1>12,
  <1>13, <1>14, <1>15, <1>16, <1>17, <1>18, <1>19, <1>20, <1>21, <1>22, <1>23, <1>24, <1>25, <1>26,
  <1>27, <1>28 DEF Shapes, SessionShape, IngressShape, HeardShape, PlShape, BufferShape, CbShape

LEMMA CountStep == ASSUME [Next]_vars, TypeOK, ControlInv, CountInv PROVE CountInv'
<1>1. SUFFICES ASSUME ~Spoiled' PROVE Counted'
  BY DEF CountInv
<1>2. CASE ~Spoiled
  BY <1>1, <1>2, CountKept DEF CountInv
<1>3. CASE Spoiled
  BY <1>1, <1>3, Recovered DEF Counted
<1> QED BY <1>2, <1>3

LEMMA LengthKept ==
  ASSUME [Next]_vars, TypeOK, ControlInv, Counted, ~Spoiled, ~Spoiled'
  PROVE  \/ Length' = Length \/ Length' = 0
         \/ PlayAudioReserves /\ cb'.pc = "send" /\ Length' = Length + 1
<1>0. /\ Len(heard) \in Nat /\ Len(buffer) \in Nat /\ Played \in Nat /\ InHand \in {0, 1}
      /\ Coming \in {0, 1} /\ Len(heard') \in Nat /\ Len(buffer') \in Nat /\ Played' \in Nat
      /\ InHand' \in {0, 1} /\ Coming' \in {0, 1} /\ Length \in Nat /\ Length' \in Nat
  BY Parts, TypesStep
<1>00. Numbers /\ Numbers'
  BY NumbersAre, TypesStep
<1>1. CASE PlayAudio
  BY <1>0, <1>1, PlayAudioTape DEF Length
<1>2. CASE PlayAudioReadsReset
  BY <1>0, <1>2, PlayAudioReadsResetTape DEF Length
<1>3. CASE PlayAudioReadsFault
  BY <1>0, <1>3, PlayAudioReadsFaultTape DEF Length
<1>4. CASE PlayAudioLocks
  BY <1>0, <1>4, PlayAudioLocksTape DEF Length
<1>5. CASE PlayAudioReserves
  BY <1>0, <1>5, PlayAudioReservesTape, PlayAudioReservesDoes DEF Length
<1>6. CASE PlayAudioRefused
  BY <1>0, <1>6, PlayAudioRefusedTape DEF Length
<1>7. CASE PlayAudioSends
  BY <1>0, <1>7, PlayAudioSendsTape DEF Length
<1>8. CASE PlayAudioOverflows
  BY <1>8, OverflowSpoils
<1>9. CASE ResetReleases
  BY <1>0, <1>9, ResetReleasesTape DEF Length
<1>10. CASE AdoptPlayback
  BY <1>0, <1>10, AdoptPlaybackTape DEF Length
<1>11. CASE ApplyAudioEnd
  BY <1>0, <1>11, ApplyAudioEndTape DEF Length
<1>12. CASE PlayWakes
  BY <1>0, <1>12, PlayWakesTape DEF Length
<1>13. CASE PlayStartsReset
  BY <1>0, <1>13, PlayStartsResetTape DEF Length
<1>14. CASE PlayResetLocks
  BY <1>0, <1>14, PlayResetLocksTape DEF Length
<1>15. CASE PlayResetLocksBuffer
  BY <1>0, <1>15, PlayResetLocksBufferTape DEF Length
<1>16. CASE PlayAborts
  BY <1>16, StillReset, PlayAbortsDoes
<1>17. CASE PlayAcknowledges
  BY <1>17, StillReset, PlayAcknowledgesDoes
<1>18. CASE PlayResetFails
  BY <1>18, StillReset, PlayResetFailsDoes
<1>19. CASE PlayReads
  BY <1>0, <1>19, PlayReadsTape DEF Length
<1>20. CASE PlayIncomplete
  BY <1>20, Requested, PlayIncompleteDoes
<1>21. CASE PlayReceives
  BY <1>0, <1>21, PlayReceivesTape DEF Length
<1>22. CASE PlayLocks
  BY <1>0, <1>22, PlayLocksTape, PlayLocksDoes, MayWriteOn DEF Length
<1>23. CASE PlayWrites
  BY <1>0, <1>23, PlayWritesTape DEF Length
<1>24. CASE PlayWriteFails
  BY <1>24, Requested, PlayWriteFailsDoes
<1>25. CASE PlayFinishes
  BY <1>0, <1>25, PlayFinishesTape DEF Length
<1>26. CASE PlayDrained
  <2>1. CASE pl'.pc = "wait"
    BY <1>0, <1>26, <2>1, ReportIsWhole, PlayDrainedTape, PlayDrainedDoes DEF Length
  <2>2. CASE ~(pl'.pc = "wait")
    BY <1>0, <1>26, <2>2, DrainWaits, PlayDrainedTape DEF Length
  <2> QED BY <2>1, <2>2
<1>27. CASE UNCHANGED <<session, heard, pl, buffer, cb>>
  BY <1>27 DEF Length, Played, InHand, Coming
<1> QED BY WhoWrites, <1>1, <1>2, <1>3, <1>4, <1>5, <1>6, <1>7, <1>8, <1>9, <1>10, <1>11, <1>12,
  <1>13, <1>14, <1>15, <1>16, <1>17, <1>18, <1>19, <1>20, <1>21, <1>22, <1>23, <1>24, <1>25, <1>26,
  <1>27 DEF Shapes, SessionShape, HeardShape, PlShape, BufferShape, CbShape

LEMMA StaysEmpty ==
  ASSUME [Next]_vars, TypeOK, ControlInv, Length = 0, cb'.pc # "send"
  PROVE  Length' = 0
<1>1. Length' \in Nat
  BY Parts, TypesStep
<1> QED BY <1>1, TapeShrinks

LEMMA FreshStep ==
  ASSUME [Next]_vars, TypeOK, ControlInv, FreshInv
  PROVE  FreshInv'
<1>0. Numbers /\ Numbers'
  BY NumbersAre, TypesStep
<1>1. CASE PlayAudio
  BY <1>0, <1>1, PlayAudioDoes, StaysEmpty DEF FreshInv, Numbers
<1>2. CASE PlayAudioReadsReset
  BY <1>0, <1>2, PlayAudioReadsResetDoes, StaysEmpty DEF FreshInv, ControlInv, ResetInv,
    Acknowledged, Numbers
<1>3. CASE PlayAudioReadsFault
  BY <1>0, <1>3, PlayAudioReadsFaultDoes, StaysEmpty DEF FreshInv, Numbers
<1>4. CASE PlayAudioLocks
  BY <1>0, <1>4, PlayAudioLocksDoes, StaysEmpty DEF FreshInv, Numbers
<1>5. CASE PlayAudioReserves
  BY <1>0, <1>5, PlayAudioReservesDoes, StaysEmpty DEF FreshInv, Numbers
<1>6. CASE PlayAudioRefused
  BY <1>0, <1>6, PlayAudioRefusedDoes, StaysEmpty DEF FreshInv, Numbers
<1>7. CASE PlayAudioSends
  BY <1>0, <1>7, PlayAudioSendsDoes, StaysEmpty DEF FreshInv, Numbers
<1>8. CASE PlayAudioOverflows
  BY <1>0, <1>8, PlayAudioOverflowsDoes, StaysEmpty DEF FreshInv, Numbers
<1>9. CASE ResetRequest
  BY <1>0, <1>9, ResetRequestDoes, StaysEmpty DEF FreshInv, Numbers
<1>10. CASE AdoptPlayback
  <2>1. CASE med'.pc = "idle"
    BY <1>0, <1>10, AdoptionBegins, StaysEmpty, <2>1 DEF FreshInv, Numbers
  <2>2. CASE ~(med'.pc = "idle")
    BY <1>0, <1>10, AdoptionFails, StaysEmpty, <2>2 DEF FreshInv, Numbers
  <2> QED BY <2>1, <2>2
<1>11. CASE PlayAborts
  BY <1>0, <1>11, PlayAbortsDoes, StaysEmpty DEF FreshInv, Numbers
<1>12. CASE PlayAcknowledges
  <2>1. ~session.active /\ session' = session /\ heard' = heard /\ cb' = cb /\ pl.pc = "clear" /\ pl'.pc = "wait"
    BY <1>12, PlayAcknowledgesDoes DEF ControlInv, Cleared
  <2>2. cb.pc # "send" /\ Len(buffer') = 0
    BY <1>12, PlayAcknowledgesTape, PlayAcknowledgesDoes DEF ControlInv, LockInv, PlayLocksBuffer, CallbackLocks
  <2> QED BY <2>1, <2>2 DEF FreshInv, Length, Played, InHand, Coming
<1>13. CASE PlayIncomplete
  BY <1>0, <1>13, PlayIncompleteDoes, StaysEmpty DEF FreshInv, Numbers
<1>14. CASE PlayWrites
  <2>1. CASE pl'.pc = "finish"
    BY <1>0, <1>14, WriteCounts, StaysEmpty, <2>1 DEF FreshInv, Numbers
  <2>2. CASE ~(pl'.pc = "finish")
    BY <1>0, <1>14, WriteSpoils, StaysEmpty, <2>2 DEF FreshInv, Numbers
  <2> QED BY <2>1, <2>2
<1>15. CASE PlayWriteFails
  BY <1>0, <1>15, PlayWriteFailsDoes, StaysEmpty DEF FreshInv, Numbers
<1>16. CASE PlayDrained
  <2>1. CASE pl'.pc = "wait"
    BY <1>0, <1>16, DrainReports, StaysEmpty, <2>1 DEF FreshInv, Numbers
  <2>2. CASE ~(pl'.pc = "wait")
    BY <1>0, <1>16, DrainWaits, StaysEmpty, <2>2 DEF FreshInv, Numbers
  <2> QED BY <2>1, <2>2
<1>17. CASE cb' = cb /\ io' = io
  BY <1>17, StaysEmpty DEF FreshInv
<1> QED BY WhoWrites, <1>1, <1>2, <1>3, <1>4, <1>5, <1>6, <1>7, <1>8, <1>9, <1>10, <1>11, <1>12,
  <1>13, <1>14, <1>15, <1>16, <1>17 DEF Shapes, CbShape, IoShape

----------------------------------------------------------------------------
(* What has been sent is in the tape, in the order in which it was sent.   *)

\* The chunks of this answer that the callback worker has dealt with.
Sent ==
  IF net.at = 0 THEN Chunks
  ELSE IF cb.pc \in {"reset", "fault", "lock", "reserve"} THEN net.at - 3 ELSE net.at - 2

RunsFrom(base, c) == \A i \in DOMAIN heard : heard[i] = [conn |-> c, at |-> base + i]

InPlace(base, c) ==
  /\ session.active => RunsFrom(base, c)
  /\ InHand = 1 => pl.chunk = [conn |-> c, at |-> base + Played + 1]
  /\ \A i \in DOMAIN buffer : buffer[i] = [conn |-> c, at |-> base + Played + InHand + i]
  /\ Coming = 1 => cb.chunk = [conn |-> c, at |-> base + Length]

Fits(base, c) ==
  /\ base + Length <= Chunks
  /\ net.link # "down" /\ Length # 0 => c = net.conn /\ base + Length = Sent

TapeInv == ~Spoiled => \E base \in 0..Chunks, c \in Nat : InPlace(base, c) /\ Fits(base, c)

\* An answer that has been sent but not adopted has its audio.end to come.
EndIsComing == \E i \in DOMAIN med.msgs : med.msgs[i].t = "end" /\ med.msgs[i].epoch = gate.epoch
EndInv ==
  ~Spoiled /\ ~session.active /\ Length # 0 /\ net.link # "down" /\ net.at = 0 => EndIsComing

LEMMA MessagesShrink ==
  ASSUME MedType, med.msgs # <<>>
  PROVE  \A i \in DOMAIN med.msgs :
           \/ med.msgs[i] = Head(med.msgs)
           \/ i - 1 \in DOMAIN Tail(med.msgs) /\ Tail(med.msgs)[i - 1] = med.msgs[i]
<1> DEFINE s == med.msgs
<1>1. s \in Seq(Messages)
  BY MedRecord
<1>2. s # <<>>
  OBVIOUS
<1> HIDE DEF s
<1>3. Len(s) \in Nat /\ Len(s) # 0 /\ DOMAIN s = 1..Len(s)
  BY <1>1, <1>2, EmptySeq, LenProperties
<1>4. /\ Head(s) = s[1] /\ Len(Tail(s)) = Len(s) - 1 /\ DOMAIN Tail(s) = 1..(Len(s) - 1)
      /\ \A i \in 1..(Len(s) - 1) : Tail(s)[i] = s[i + 1]
  BY <1>1, <1>2, HeadTailProperties, LenProperties
<1>5. \A i \in DOMAIN s : s[i] = Head(s) \/ (i - 1 \in DOMAIN Tail(s) /\ Tail(s)[i - 1] = s[i])
  <2>1. TAKE i \in DOMAIN s
  <2>2. CASE i = 1
    BY <1>4, <2>2
  <2>3. CASE i # 1
    <3>1. i - 1 \in 1..(Len(s) - 1) /\ (i - 1) + 1 = i
      BY <1>3, <2>1, <2>3
    <3> QED BY <1>4, <3>1
  <2> QED BY <2>2, <2>3
<1> QED BY <1>5 DEF s

LEMMA MessagesExtend ==
  ASSUME MedType, GateType, NEW t \in {"start", "end"}
  PROVE  LET m == Append(med.msgs, [t |-> t, epoch |-> gate.epoch])
         IN /\ \A i \in DOMAIN med.msgs : i \in DOMAIN m /\ m[i] = med.msgs[i]
            /\ \E i \in DOMAIN m : m[i] = [t |-> t, epoch |-> gate.epoch]
<1> DEFINE s == med.msgs
           e == [t |-> t, epoch |-> gate.epoch]
<1>1. s \in Seq(Messages) /\ e \in Messages
  BY MedRecord, GateEpoch DEF Messages
<1> HIDE DEF s, e
<1>2. Len(s) \in Nat /\ DOMAIN s = 1..Len(s)
  BY <1>1, LenProperties
<1>3. /\ DOMAIN Append(s, e) = 1..(Len(s) + 1)
      /\ \A i \in 1..Len(s) : Append(s, e)[i] = s[i]
      /\ Append(s, e)[Len(s) + 1] = e
  BY <1>1, AppendProperties, LenProperties
<1>4. Len(s) + 1 \in DOMAIN Append(s, e)
  BY <1>2, <1>3
<1>5. \A i \in DOMAIN s : i \in DOMAIN Append(s, e) /\ Append(s, e)[i] = s[i]
  BY <1>2, <1>3
<1> QED BY <1>3, <1>4, <1>5 DEF s, e

LEMMA EndKept ==
  ASSUME [Next]_vars, TypeOK, ControlInv, EndIsComing, ~Spoiled, ~Spoiled', ~session.active,
         ~session'.active, net'.link # "down"
  PROVE  EndIsComing'
<1>0. MedType /\ GateType
  BY DEF TypeOK
<1>1. PICK i \in DOMAIN med.msgs : med.msgs[i].t = "end" /\ med.msgs[i].epoch = gate.epoch
  BY DEF EndIsComing
<1>2. gate' = gate
  <2>1. CASE ResetGate
    BY <2>1, ResetGateDoes DEF Spoiled
  <2>2. CASE LinkReady
    BY <2>2, LinkReadyDoes DEF Spoiled
  <2> QED BY <2>1, <2>2, WhoWrites DEF Shapes, GateShape
<1>3. CASE med'.msgs = med.msgs
  BY <1>1, <1>2, <1>3 DEF EndIsComing
<1>4. ASSUME med.msgs # <<>>, med'.msgs = Tail(med.msgs), Head(med.msgs) # med.msgs[i]
      PROVE  EndIsComing'
  <2>1. i - 1 \in DOMAIN Tail(med.msgs) /\ Tail(med.msgs)[i - 1] = med.msgs[i]
    BY <1>0, <1>4, MessagesShrink
  <2> QED BY <1>1, <1>2, <1>4, <2>1 DEF EndIsComing
<1>5. CASE HandleCustom
  <2>1. CASE med'.msgs = med.msgs
    BY <1>3, <2>1
  <2>2. CASE med'.msgs = Append(med.msgs, [t |-> IF net.at = 1 THEN "start" ELSE "end", epoch |-> gate.epoch])
    <3> DEFINE t == IF net.at = 1 THEN "start" ELSE "end"
    <3>1. t \in {"start", "end"}
      OBVIOUS
    <3>2. med'.msgs = Append(med.msgs, [t |-> t, epoch |-> gate.epoch])
      BY <2>2
    <3> HIDE DEF t
    <3>3. i \in DOMAIN med'.msgs /\ med'.msgs[i] = med.msgs[i]
      BY <1>0, <3>1, <3>2, MessagesExtend
    <3> QED BY <1>1, <1>2, <3>3 DEF EndIsComing
  <2> QED BY <1>5, <2>1, <2>2, HandleCustomDoes
<1>6. CASE ResetReturns
  BY <1>3, <1>6, ResetReturnsDoes DEF Spoiled
<1>7. CASE DrainBridgeIngressFault
  BY <1>3, <1>7, DrainBridgeIngressFaultDoes DEF Spoiled
<1>8. CASE DropMessages
  <2>1. gate.open
    BY DEF Spoiled
  <2>2. Head(med.msgs).epoch # gate.epoch /\ med'.msgs = Tail(med.msgs) /\ med.msgs # <<>>
    BY <1>8, <2>1, DropMessagesDoes
  <2> QED BY <1>1, <1>4, <2>2
<1>9. CASE ApplyAudioStart
  <2>1. Head(med.msgs).t = "start" /\ med'.msgs = Tail(med.msgs) /\ med.msgs # <<>>
    BY <1>9, ApplyAudioStartDoes
  <2> QED BY <1>1, <1>4, <2>1
<1>10. CASE ApplyAudioEnd
  BY <1>10, ApplyAudioEndDoes DEF Spoiled
<1>11. CASE ResetLocks
  BY <1>3, <1>11, ResetLocksDoes
<1>12. CASE ResetDoesNotLock
  BY <1>3, <1>12, ResetDoesNotLockDoes
<1>13. CASE ResetGate
  BY <1>3, <1>13, ResetGateDoes
<1>14. CASE ResetRequest
  BY <1>3, <1>14, ResetRequestDoes
<1>15. CASE ResetReleases
  BY <1>3, <1>15, ResetReleasesDoes
<1>16. CASE CleanupObservedDisconnect
  BY <1>3, <1>16, CleanupObservedDisconnectDoes
<1>17. CASE Request
  BY <1>3, <1>17, RequestDoes
<1>18. CASE AdoptPlayback
  BY <1>3, <1>18, AdoptPlaybackDoes
<1>19. CASE DrainPlaybackNotices
  BY <1>3, <1>19, DrainPlaybackNoticesDoes
<1>20. CASE med' = med
  BY <1>3, <1>20
<1> QED BY WhoWrites, <1>5, <1>6, <1>7, <1>8, <1>9, <1>10, <1>11, <1>12, <1>13, <1>14, <1>15, <1>16,
  <1>17, <1>18, <1>19, <1>20 DEF Shapes, MedShape

LEMMA EndStep ==
  ASSUME [Next]_vars, TypeOK, ControlInv, CountInv, EndInv
  PROVE  EndInv'
<1>0. /\ Len(heard) \in Nat /\ Len(buffer) \in Nat /\ Played \in Nat /\ InHand \in {0, 1}
      /\ Coming \in {0, 1} /\ Len(heard') \in Nat /\ Len(buffer') \in Nat /\ Played' \in Nat
      /\ InHand' \in {0, 1} /\ Coming' \in {0, 1} /\ Length \in Nat /\ Length' \in Nat
  BY Parts, TypesStep
<1>00. Numbers /\ Numbers'
  BY NumbersAre, TypesStep
<1>1. SUFFICES ASSUME ~Spoiled', ~session'.active, Length' # 0, net'.link # "down", net'.at = 0
               PROVE  EndIsComing'
  BY DEF EndInv
<1>2. ~Spoiled
  BY <1>1, Recovered
<1>3. Counted
  BY <1>2 DEF CountInv
<1>4. ~session.active
  <2> SUFFICES ASSUME session.active PROVE FALSE
    OBVIOUS
  <2>1. CASE AdoptPlayback
    BY <2>1, AdoptPlaybackDoes DEF ControlInv, Adopting
  <2>2. CASE PlayAborts
    BY <1>2, <2>2, PlayAbortsDoes, StillReset
  <2>3. CASE PlayDrained
    <3>1. pl'.pc = "wait"
      BY <1>1, <2>3, DrainWaits
    <3>2. Length' = 0
      BY <1>0, <1>3, <2>3, <3>1, ReportIsWhole, PlayDrainedTape, PlayDrainedDoes DEF Length
    <3> QED BY <1>1, <3>2
  <2>4. CASE PlayAudioReserves
    BY <1>1, <2>4, PlayAudioReservesDoes
  <2>5. CASE PlayAudioOverflows
    BY <1>1, <2>5, PlayAudioOverflowsDoes
  <2>6. CASE ApplyAudioEnd
    BY <1>1, <2>6, ApplyAudioEndDoes
  <2>7. CASE PlayWrites
    BY <1>1, <2>7, PlayWritesDoes
  <2>8. CASE session' = session
    BY <1>1, <2>8
  <2> QED BY <2>1, <2>2, <2>3, <2>4, <2>5, <2>6, <2>7, <2>8, WhoWrites DEF Shapes, SessionShape
<1>5. Length # 0
  <2>1. CASE PlayAudioReserves
    <3>1. net' = net /\ cb.pc = "reserve"
      BY <2>1, PlayAudioReservesDoes
    <3> QED BY <1>1, <1>00, <3>1 DEF ControlInv, CallbackInv, Numbers
  <2> QED BY <1>0, <1>1, <1>2, <1>3, <2>1, LengthKept
<1>6. CASE net.at = 0 /\ net.link # "down"
  BY <1>1, <1>2, <1>4, <1>5, <1>6, EndKept DEF EndInv
<1>7. CASE HandleCustom
  <2>1. net.at = LastItem /\ net.at # 1 /\ net.link # "down"
    BY <1>1, <1>7, HandleCustomDoes, ChunksNat DEF LastItem
  <2>2. gate.open /\ gate' = gate
    BY <1>2, <1>7, HandleCustomDoes DEF Spoiled
  <2>3. med'.msgs = Append(med.msgs, [t |-> "end", epoch |-> gate.epoch])
    BY <1>7, <2>1, <2>2, HandleCustomDoes
  <2>4. \E i \in DOMAIN med'.msgs : med'.msgs[i] = [t |-> "end", epoch |-> gate.epoch]
    BY <2>3, MessagesExtend DEF TypeOK
  <2> QED BY <2>2, <2>4 DEF EndIsComing
<1>8. CASE PlayAudio
  BY <1>1, <1>00, <1>8, PlayAudioDoes DEF Numbers
<1>9. CASE ResetReturns
  BY <1>1, <1>6, <1>9, ResetReturnsDoes
<1>10. CASE CleanupObservedDisconnect
  BY <1>1, <1>6, <1>10, CleanupObservedDisconnectDoes
<1>11. CASE Request
  BY <1>1, <1>11, RequestDoes
<1>12. CASE Connect
  BY <1>2, <1>12, ConnectDoes DEF Spoiled
<1>13. CASE Lose
  BY <1>1, <1>6, <1>13, LoseDoes
<1>14. CASE LossSeen
  BY <1>1, <1>14, LossSeenDoes
<1>15. CASE net' = net
  BY <1>1, <1>6, <1>15
<1> QED BY <1>7, <1>8, <1>9, <1>10, <1>11, <1>12, <1>13, <1>14, <1>15, WhoWrites DEF Shapes, NetShape

LEMMA Untouched ==
  ASSUME NEW base \in Nat, NEW c \in Nat, InPlace(base, c), session'.active = session.active,
         UNCHANGED <<heard, buffer>>, Played' = Played, InHand' = InHand, Coming' = Coming,
         Length' = Length, InHand = 1 => pl'.chunk = pl.chunk, Coming = 1 => cb'.chunk = cb.chunk
  PROVE  InPlace(base, c)'
<1>1. RunsFrom(base, c)' <=> RunsFrom(base, c)
  BY DEF RunsFrom
<1> QED BY <1>1 DEF InPlace

LEMMA InPlaceKept ==
  ASSUME [Next]_vars, TypeOK, ControlInv, Counted, ~Spoiled, ~Spoiled',
         NEW base \in Nat, NEW c \in Nat, InPlace(base, c),
         ~(PlayAudioReserves /\ cb'.pc = "send")
  PROVE  InPlace(base, c)'
<1>0. /\ Len(heard) \in Nat /\ Len(buffer) \in Nat /\ Played \in Nat /\ InHand \in {0, 1}
      /\ Coming \in {0, 1} /\ Len(heard') \in Nat /\ Len(buffer') \in Nat /\ Played' \in Nat
      /\ InHand' \in {0, 1} /\ Coming' \in {0, 1} /\ Length \in Nat /\ Length' \in Nat
  BY Parts, TypesStep
<1>00. Numbers /\ Numbers'
  BY NumbersAre, TypesStep
<1>1. CASE PlayAudio
  <2>1. session'.active = session.active /\ UNCHANGED <<heard, buffer>>
    BY <1>1, PlayAudioDoes
  <2>2. Played' = Played /\ InHand' = InHand /\ Len(buffer') = Len(buffer) /\ Coming' = Coming
    BY <1>1, PlayAudioTape
  <2>3. InHand = 1 => pl'.chunk = pl.chunk
    BY <1>1, PlayAudioDoes DEF InHand
  <2>4. Coming = 1 => cb'.chunk = cb.chunk
    BY <1>1, PlayAudioDoes DEF Coming
  <2>5. Length' = Length
    BY <2>2 DEF Length
  <2> QED BY <2>1, <2>2, <2>3, <2>4, <2>5, Untouched
<1>2. CASE PlayAudioReadsReset
  <2>1. session'.active = session.active /\ UNCHANGED <<heard, buffer>>
    BY <1>2, PlayAudioReadsResetDoes
  <2>2. Played' = Played /\ InHand' = InHand /\ Len(buffer') = Len(buffer) /\ Coming' = Coming
    BY <1>2, PlayAudioReadsResetTape
  <2>3. InHand = 1 => pl'.chunk = pl.chunk
    BY <1>2, PlayAudioReadsResetDoes DEF InHand
  <2>4. Coming = 1 => cb'.chunk = cb.chunk
    BY <1>2, PlayAudioReadsResetDoes DEF Coming
  <2>5. Length' = Length
    BY <2>2 DEF Length
  <2> QED BY <2>1, <2>2, <2>3, <2>4, <2>5, Untouched
<1>3. CASE PlayAudioReadsFault
  <2>1. session'.active = session.active /\ UNCHANGED <<heard, buffer>>
    BY <1>3, PlayAudioReadsFaultDoes
  <2>2. Played' = Played /\ InHand' = InHand /\ Len(buffer') = Len(buffer) /\ Coming' = Coming
    BY <1>3, PlayAudioReadsFaultTape
  <2>3. InHand = 1 => pl'.chunk = pl.chunk
    BY <1>3, PlayAudioReadsFaultDoes DEF InHand
  <2>4. Coming = 1 => cb'.chunk = cb.chunk
    BY <1>3, PlayAudioReadsFaultDoes DEF Coming
  <2>5. Length' = Length
    BY <2>2 DEF Length
  <2> QED BY <2>1, <2>2, <2>3, <2>4, <2>5, Untouched
<1>4. CASE PlayAudioLocks
  <2>1. session'.active = session.active /\ UNCHANGED <<heard, buffer>>
    BY <1>4, PlayAudioLocksDoes
  <2>2. Played' = Played /\ InHand' = InHand /\ Len(buffer') = Len(buffer) /\ Coming' = Coming
    BY <1>4, PlayAudioLocksTape
  <2>3. InHand = 1 => pl'.chunk = pl.chunk
    BY <1>4, PlayAudioLocksDoes DEF InHand
  <2>4. Coming = 1 => cb'.chunk = cb.chunk
    BY <1>4, PlayAudioLocksDoes DEF Coming
  <2>5. Length' = Length
    BY <2>2 DEF Length
  <2> QED BY <2>1, <2>2, <2>3, <2>4, <2>5, Untouched
<1>5. CASE PlayAudioReserves
  <2>1. cb'.pc = "refused"
    BY <1>5, PlayAudioReservesDoes
  <2>2. session' = session /\ UNCHANGED <<heard, buffer, pl>>
    BY <1>5, <2>1, RefusalIsStale, PlayAudioReservesDoes
  <2>3. Coming = 0 /\ Coming' = 0
    BY <1>5, <2>1, PlayAudioReservesTape
  <2>4. Played' = Played /\ InHand' = InHand
    BY <2>2 DEF Played, InHand
  <2>5. Length' = Length
    BY <2>2, <2>3, <2>4 DEF Length
  <2> QED BY <2>2, <2>3, <2>4, <2>5, Untouched
<1>6. CASE PlayAudioRefused
  <2>1. session'.active = session.active /\ UNCHANGED <<heard, buffer>>
    BY <1>6, PlayAudioRefusedDoes
  <2>2. Played' = Played /\ InHand' = InHand /\ Len(buffer') = Len(buffer) /\ Coming' = Coming
    BY <1>6, PlayAudioRefusedTape
  <2>3. InHand = 1 => pl'.chunk = pl.chunk
    BY <1>6, PlayAudioRefusedDoes DEF InHand
  <2>4. Coming = 1 => cb'.chunk = cb.chunk
    BY <1>6, PlayAudioRefusedDoes DEF Coming
  <2>5. Length' = Length
    BY <2>2 DEF Length
  <2> QED BY <2>1, <2>2, <2>3, <2>4, <2>5, Untouched
<1>7. CASE PlayAudioSends
  <2>1. /\ Played' = Played /\ InHand' = InHand /\ Len(buffer') = Len(buffer) + 1
        /\ Coming = 1 /\ Coming' = 0
    BY <1>7, PlayAudioSendsTape
  <2>2. buffer' = Append(buffer, cb.chunk) /\ UNCHANGED <<session, heard, pl>>
    BY <1>7, PlayAudioSendsDoes
  <2>3. \A i \in DOMAIN buffer' : \/ i \in DOMAIN buffer /\ buffer'[i] = buffer[i]
                                  \/ i = Len(buffer) + 1 /\ buffer'[i] = cb.chunk
    BY <2>2, BufferGrows DEF TypeOK
  <2>4. cb.chunk = [conn |-> c, at |-> base + Length]
    BY <2>1 DEF InPlace
  <2>5. base + Length = base + Played + InHand + (Len(buffer) + 1)
    BY <1>0, <2>1 DEF Length
  <2>6. \A i \in DOMAIN buffer' : buffer'[i] = [conn |-> c, at |-> base + Played' + InHand' + i]
    BY <2>1, <2>3, <2>4, <2>5 DEF InPlace
  <2>7. RunsFrom(base, c)' <=> RunsFrom(base, c)
    BY <2>2 DEF RunsFrom
  <2> QED BY <2>1, <2>2, <2>6, <2>7 DEF InPlace
<1>8. CASE PlayAudioOverflows
  BY <1>8, OverflowSpoils
<1>9. CASE ResetReleases
  <2>1. session'.active = session.active /\ UNCHANGED <<heard, buffer>>
    BY <1>9, ResetReleasesDoes
  <2>2. Played' = Played /\ InHand' = InHand /\ Len(buffer') = Len(buffer) /\ Coming' = Coming
    BY <1>9, ResetReleasesTape
  <2>3. InHand = 1 => pl'.chunk = pl.chunk
    BY <1>9, ResetReleasesDoes DEF InHand
  <2>4. Coming = 1 => cb'.chunk = cb.chunk
    BY <1>9, ResetReleasesDoes DEF Coming
  <2>5. Length' = Length
    BY <2>2 DEF Length
  <2> QED BY <2>1, <2>2, <2>3, <2>4, <2>5, Untouched
<1>10. CASE AdoptPlayback
  <2>1. med'.pc = "idle" /\ ~session.active
    BY <1>10, AdoptionFails, AdoptPlaybackDoes DEF Spoiled, ControlInv, Adopting
  <2>2. heard' = <<>> /\ UNCHANGED <<buffer, cb>> /\ pl'.chunk = pl.chunk
    BY <1>10, <2>1, AdoptPlaybackDoes
  <2>3. Played' = 0 /\ Played = 0 /\ InHand' = InHand /\ Coming' = Coming
    BY <1>10, AdoptPlaybackTape
  <2>4. Length' = Length
    BY <2>2, <2>3 DEF Length
  <2>5. RunsFrom(base, c)'
    BY <2>2 DEF RunsFrom
  <2> QED BY <2>2, <2>3, <2>4, <2>5 DEF InPlace
<1>11. CASE ApplyAudioEnd
  <2>1. session'.active = session.active /\ UNCHANGED <<heard, buffer>>
    BY <1>11, ApplyAudioEndDoes
  <2>2. Played' = Played /\ InHand' = InHand /\ Len(buffer') = Len(buffer) /\ Coming' = Coming
    BY <1>11, ApplyAudioEndTape
  <2>3. InHand = 1 => pl'.chunk = pl.chunk
    BY <1>11, ApplyAudioEndDoes DEF InHand
  <2>4. Coming = 1 => cb'.chunk = cb.chunk
    BY <1>11, ApplyAudioEndDoes DEF Coming
  <2>5. Length' = Length
    BY <2>2 DEF Length
  <2> QED BY <2>1, <2>2, <2>3, <2>4, <2>5, Untouched
<1>12. CASE PlayWakes
  <2>1. session'.active = session.active /\ UNCHANGED <<heard, buffer>>
    BY <1>12, PlayWakesDoes
  <2>2. Played' = Played /\ InHand' = InHand /\ Len(buffer') = Len(buffer) /\ Coming' = Coming
    BY <1>12, PlayWakesTape
  <2>3. InHand = 1 => pl'.chunk = pl.chunk
    BY <1>12, PlayWakesDoes DEF InHand
  <2>4. Coming = 1 => cb'.chunk = cb.chunk
    BY <1>12, PlayWakesDoes DEF Coming
  <2>5. Length' = Length
    BY <2>2 DEF Length
  <2> QED BY <2>1, <2>2, <2>3, <2>4, <2>5, Untouched
<1>13. CASE PlayStartsReset
  <2>1. session'.active = session.active /\ UNCHANGED <<heard, buffer>>
    BY <1>13, PlayStartsResetDoes
  <2>2. Played' = Played /\ InHand' = InHand /\ Len(buffer') = Len(buffer) /\ Coming' = Coming
    BY <1>13, PlayStartsResetTape
  <2>3. InHand = 1 => pl'.chunk = pl.chunk
    BY <1>13, PlayStartsResetDoes DEF InHand
  <2>4. Coming = 1 => cb'.chunk = cb.chunk
    BY <1>13, PlayStartsResetDoes DEF Coming
  <2>5. Length' = Length
    BY <2>2 DEF Length
  <2> QED BY <2>1, <2>2, <2>3, <2>4, <2>5, Untouched
<1>14. CASE PlayResetLocks
  <2>1. session'.active = session.active /\ UNCHANGED <<heard, buffer>>
    BY <1>14, PlayResetLocksDoes
  <2>2. Played' = Played /\ InHand' = InHand /\ Len(buffer') = Len(buffer) /\ Coming' = Coming
    BY <1>14, PlayResetLocksTape
  <2>3. InHand = 1 => pl'.chunk = pl.chunk
    BY <1>14, PlayResetLocksDoes DEF InHand
  <2>4. Coming = 1 => cb'.chunk = cb.chunk
    BY <1>14, PlayResetLocksDoes DEF Coming
  <2>5. Length' = Length
    BY <2>2 DEF Length
  <2> QED BY <2>1, <2>2, <2>3, <2>4, <2>5, Untouched
<1>15. CASE PlayResetLocksBuffer
  <2>1. session'.active = session.active /\ UNCHANGED <<heard, buffer>>
    BY <1>15, PlayResetLocksBufferDoes
  <2>2. Played' = Played /\ InHand' = InHand /\ Len(buffer') = Len(buffer) /\ Coming' = Coming
    BY <1>15, PlayResetLocksBufferTape
  <2>3. InHand = 1 => pl'.chunk = pl.chunk
    BY <1>15, PlayResetLocksBufferDoes DEF InHand
  <2>4. Coming = 1 => cb'.chunk = cb.chunk
    BY <1>15, PlayResetLocksBufferDoes DEF Coming
  <2>5. Length' = Length
    BY <2>2 DEF Length
  <2> QED BY <2>1, <2>2, <2>3, <2>4, <2>5, Untouched
<1>16. CASE PlayAborts
  BY <1>16, StillReset, PlayAbortsDoes
<1>17. CASE PlayAcknowledges
  BY <1>17, StillReset, PlayAcknowledgesDoes
<1>18. CASE PlayResetFails
  BY <1>18, StillReset, PlayResetFailsDoes
<1>19. CASE PlayReads
  <2>1. session'.active = session.active /\ UNCHANGED <<heard, buffer>>
    BY <1>19, PlayReadsDoes
  <2>2. Played' = Played /\ InHand' = InHand /\ Len(buffer') = Len(buffer) /\ Coming' = Coming
    BY <1>19, PlayReadsTape
  <2>3. InHand = 1 => pl'.chunk = pl.chunk
    BY <1>19, PlayReadsDoes DEF InHand
  <2>4. Coming = 1 => cb'.chunk = cb.chunk
    BY <1>19, PlayReadsDoes DEF Coming
  <2>5. Length' = Length
    BY <2>2 DEF Length
  <2> QED BY <2>1, <2>2, <2>3, <2>4, <2>5, Untouched
<1>20. CASE PlayIncomplete
  BY <1>20, Requested, PlayIncompleteDoes
<1>21. CASE PlayReceives
  <2>1. CASE buffer' = buffer /\ InHand' = 0
    <3>1. /\ UNCHANGED <<session, heard, cb>> /\ Played' = Played /\ InHand = 0 /\ Coming' = Coming
      BY <1>21, PlayReceivesDoes, PlayReceivesTape
    <3>2. Length' = Length
      BY <2>1, <3>1 DEF Length
    <3> QED BY <2>1, <3>1, <3>2, Untouched
  <2>2. CASE ~(buffer' = buffer /\ InHand' = 0)
    <3>1. /\ buffer # <<>> /\ pl'.pc = "locked" /\ pl'.chunk = Head(buffer) /\ buffer' = Tail(buffer)
          /\ UNCHANGED <<session, heard, cb>>
      BY <1>21, <2>2, PlayReceivesDoes DEF InHand
    <3>2. /\ Played' = Played /\ InHand = 0 /\ InHand' = 1 /\ Coming' = Coming
          /\ Len(buffer') = Len(buffer) - 1
      BY <1>21, <2>2, PlayReceivesTape
    <3>3. Length' = Length
      BY <1>0, <3>2 DEF Length
    <3>4. /\ pl'.chunk = buffer[1] /\ 1 \in DOMAIN buffer
          /\ \A i \in DOMAIN buffer' : /\ i \in Nat /\ i + 1 \in DOMAIN buffer
                                       /\ buffer'[i] = buffer[i + 1]
      BY <3>1, BufferShrinks DEF TypeOK
    <3>5. \A i \in DOMAIN buffer : buffer[i] = [conn |-> c, at |-> base + Played + InHand + i]
      BY DEF InPlace
    <3>6. pl'.chunk = [conn |-> c, at |-> base + Played' + 1]
      <4>1. base + Played + InHand + 1 = base + Played' + 1
        BY <1>0, <3>2
      <4> QED BY <3>4, <3>5, <4>1
    <3>7. \A i \in DOMAIN buffer' : buffer'[i] = [conn |-> c, at |-> base + Played' + InHand' + i]
      <4>1. TAKE i \in DOMAIN buffer'
      <4>2. i \in Nat /\ i + 1 \in DOMAIN buffer /\ buffer'[i] = buffer[i + 1]
        BY <3>4, <4>1
      <4>3. base + Played + InHand + (i + 1) = base + Played' + InHand' + i
        BY <1>0, <3>2, <4>2
      <4> QED BY <3>5, <4>2, <4>3
    <3>8. RunsFrom(base, c)' <=> RunsFrom(base, c)
      BY <3>1 DEF RunsFrom
    <3> QED BY <3>1, <3>2, <3>3, <3>6, <3>7, <3>8 DEF InPlace
  <2> QED BY <2>1, <2>2
<1>22. CASE PlayLocks
  <2>1. pl.pc = "locked"
    BY <1>22, PlayLocksDoes
  <2>2. MayWrite
    BY <2>1, MayWriteOn
  <2>3. pl'.pc = "write" /\ pl'.chunk = pl.chunk /\ UNCHANGED <<session, heard, buffer, cb>>
    BY <1>22, <2>2, PlayLocksDoes
  <2>4. Played' = Played /\ InHand' = InHand /\ Coming' = Coming
    BY <1>22, <2>3, PlayLocksTape
  <2>5. Length' = Length
    BY <2>3, <2>4 DEF Length
  <2> QED BY <2>3, <2>4, <2>5, Untouched
<1>23. CASE PlayWrites
  <2>1. /\ Played' = Played + 1 /\ Played = Len(heard) /\ InHand = 1 /\ InHand' = 0 /\ Coming' = Coming
        /\ Len(buffer') = Len(buffer)
    BY <1>23, PlayWritesTape
  <2>2. heard' = Append(heard, pl.chunk) /\ UNCHANGED <<buffer, cb>> /\ pl.pc = "write"
    BY <1>23, PlayWritesDoes
  <2>3. Length' = Length
    BY <1>0, <2>1 DEF Length
  <2>4. session.active
    BY <2>2 DEF ControlInv, PlayHolds
  <2>5. \A i \in DOMAIN heard' : \/ i \in DOMAIN heard /\ heard'[i] = heard[i]
                                 \/ i = Len(heard) + 1 /\ heard'[i] = pl.chunk
    BY <2>2, HeardGrows DEF TypeOK
  <2>6. /\ \A i \in DOMAIN heard : heard[i] = [conn |-> c, at |-> base + i]
        /\ pl.chunk = [conn |-> c, at |-> base + Played + 1]
    BY <2>1, <2>4 DEF InPlace, RunsFrom
  <2>7. base + Played + 1 = base + (Len(heard) + 1)
    BY <1>0, <2>1
  <2>8. RunsFrom(base, c)'
    BY <2>5, <2>6, <2>7 DEF RunsFrom
  <2>9. base + Played + InHand = base + Played' + InHand'
    BY <1>0, <2>1
  <2>10. \A i \in DOMAIN buffer' : buffer'[i] = [conn |-> c, at |-> base + Played' + InHand' + i]
    BY <2>2, <2>9 DEF InPlace
  <2>11. Coming' = 1 => cb'.chunk = [conn |-> c, at |-> base + Length']
    BY <2>1, <2>2, <2>3 DEF InPlace
  <2> QED BY <2>1, <2>8, <2>10, <2>11 DEF InPlace
<1>24. CASE PlayWriteFails
  BY <1>24, Requested, PlayWriteFailsDoes
<1>25. CASE PlayFinishes
  <2>1. session'.active = session.active /\ UNCHANGED <<heard, buffer>>
    BY <1>25, PlayFinishesDoes
  <2>2. Played' = Played /\ InHand' = InHand /\ Len(buffer') = Len(buffer) /\ Coming' = Coming
    BY <1>25, PlayFinishesTape
  <2>3. InHand = 1 => pl'.chunk = pl.chunk
    BY <1>25, PlayFinishesDoes DEF InHand
  <2>4. Coming = 1 => cb'.chunk = cb.chunk
    BY <1>25, PlayFinishesDoes DEF Coming
  <2>5. Length' = Length
    BY <2>2 DEF Length
  <2> QED BY <2>1, <2>2, <2>3, <2>4, <2>5, Untouched
<1>26. CASE PlayDrained
  <2>1. CASE pl'.pc = "wait"
    <3>1. /\ InHand' = 0 /\ Coming' = 0 /\ ~session'.active /\ buffer' = <<>>
      BY <1>26, <2>1, ReportIsWhole, PlayDrainedTape, DrainReports
    <3> QED BY <3>1 DEF InPlace
  <2>2. CASE ~(pl'.pc = "wait")
    <3>1. session' = session /\ UNCHANGED <<heard, buffer, cb>>
      BY <1>26, <2>2, DrainWaits
    <3>2. Played' = Played /\ InHand = 0 /\ InHand' = 0 /\ Coming' = Coming
      BY <1>26, <2>2, PlayDrainedTape
    <3>3. Length' = Length
      BY <3>1, <3>2 DEF Length
    <3> QED BY <3>1, <3>2, <3>3, Untouched
  <2> QED BY <2>1, <2>2
<1>27. CASE UNCHANGED <<session, heard, pl, buffer, cb>>
  <2>1. Played' = Played /\ InHand' = InHand /\ Coming' = Coming /\ Length' = Length
    BY <1>27 DEF Length, Played, InHand, Coming
  <2> QED BY <1>27, <2>1, Untouched
<1> QED BY WhoWrites, <1>1, <1>2, <1>3, <1>4, <1>5, <1>6, <1>7, <1>8, <1>9, <1>10, <1>11, <1>12,
  <1>13, <1>14, <1>15, <1>16, <1>17, <1>18, <1>19, <1>20, <1>21, <1>22, <1>23, <1>24, <1>25, <1>26,
  <1>27 DEF Shapes, SessionShape, HeardShape, PlShape, BufferShape, CbShape

LEMMA FitsKept ==
  ASSUME [Next]_vars, TypeOK, ControlInv, Counted, FreshInv, EndInv, Prompt, ~Spoiled, ~Spoiled',
         NEW base \in 0..Chunks, NEW c \in Nat, Fits(base, c),
         ~(PlayAudioReserves /\ cb'.pc = "send")
  PROVE  Fits(base, c)'
<1>0. /\ Len(heard) \in Nat /\ Len(buffer) \in Nat /\ Played \in Nat /\ InHand \in {0, 1}
      /\ Coming \in {0, 1} /\ Len(heard') \in Nat /\ Len(buffer') \in Nat /\ Played' \in Nat
      /\ InHand' \in {0, 1} /\ Coming' \in {0, 1} /\ Length \in Nat /\ Length' \in Nat
  BY Parts, TypesStep
<1>00. Numbers /\ Numbers'
  BY NumbersAre, TypesStep
<1>1. Length' = Length \/ Length' = 0
  BY LengthKept
<1>2. base + Length' <= Chunks
  <2>1. base \in Nat /\ Chunks \in Nat /\ base <= Chunks
    BY ChunksNat
  <2>2. base + Length <= Chunks
    BY DEF Fits
  <2>3. CASE Length' = Length
    BY <2>2, <2>3
  <2>4. CASE Length' = 0
    BY <2>1, <2>4
  <2> QED BY <1>1, <2>3, <2>4
<1>3. SUFFICES ASSUME net'.link # "down", Length' # 0
               PROVE  c = net'.conn /\ base + Length' = Sent'
  BY <1>2 DEF Fits
<1>4. Length' = Length /\ Length # 0
  BY <1>1, <1>3
<1>5. ASSUME net.link # "down", Sent' = Sent, net'.conn = net.conn
      PROVE  c = net'.conn /\ base + Length' = Sent'
  BY <1>4, <1>5 DEF Fits
<1>6. CASE HandleCustom
  <2>1. cb.pc = "idle" /\ cb' = cb /\ net'.conn = net.conn /\ net'.link = net.link
    BY <1>6, HandleCustomDoes
  <2>2. CASE net.at = 1
    <3>1. Sent = -1
      BY <2>1, <2>2 DEF Sent
    <3>2. base + Length = Sent
      BY <1>3, <1>4, <2>1 DEF Fits
    <3> QED BY <1>0, <3>1, <3>2
  <2>3. CASE net.at = LastItem /\ net'.at = 0
    <3>1. Sent = Chunks /\ Sent' = Chunks
      BY <2>1, <2>3, ChunksNat DEF Sent, LastItem
    <3> QED BY <1>3, <1>5, <2>1, <3>1
  <2> QED BY <1>6, <2>2, <2>3, HandleCustomDoes
<1>7. CASE PlayAudio
  <2>1. gate.open
    BY DEF Spoiled
  <2>2. /\ cb.pc = "idle" /\ cb'.pc = "reset" /\ net'.at = net.at + 1 /\ net.at >= 2
        /\ net'.link = net.link /\ net'.conn = net.conn
    BY <1>00, <1>7, <2>1, PlayAudioDoes, ChunksNat DEF Numbers
  <2>3. Sent' = Sent
    BY <1>00, <2>2 DEF Sent, Numbers
  <2> QED BY <1>3, <1>5, <2>2, <2>3
<1>8. CASE net' = net /\ cb.pc # "idle"
  <2>1. net.at \in 3..LastItem /\ net.at # 0
    BY <1>8, <1>00 DEF ControlInv, CallbackInv, Numbers
  <2>2. CASE cb' = cb
    BY <1>3, <1>5, <1>8, <2>2 DEF Sent
  <2>3. CASE PlayAudioReadsReset
    BY <1>3, <1>5, <1>8, <2>3, PlayAudioReadsResetDoes DEF Sent
  <2>4. CASE PlayAudioReadsFault
    BY <1>3, <1>5, <1>8, <2>4, PlayAudioReadsFaultDoes DEF Sent
  <2>5. CASE PlayAudioLocks
    <3>1. lock.buffer = "none"
      <4>1. lock.buffer \in {"none", "callback", "play"} /\ cb.pc = "lock"
        BY <2>5, PlayAudioLocksDoes DEF TypeOK, LockType
      <4>2. lock.buffer # "callback"
        BY <4>1 DEF ControlInv, LockInv, CallbackLocks
      <4>3. lock.buffer # "play"
        BY StillReset DEF ControlInv, LockInv, PlayLocksBuffer
      <4> QED BY <4>1, <4>2, <4>3
    <3> QED BY <1>3, <1>5, <1>8, <2>5, <3>1, PlayAudioLocksDoes DEF Sent
  <2>6. CASE PlayAudioReserves
    <3>1. cb'.pc = "refused" /\ cb.pc = "reserve"
      BY <2>6, PlayAudioReservesDoes
    <3>2. cb.reset < io.acknowledged
      BY <2>6, <3>1, RefusalIsStale
    <3> QED BY <1>4, <3>1, <3>2 DEF FreshInv
  <2>7. CASE PlayAudioRefused
    BY <1>3, <1>5, <1>8, <2>7, PlayAudioRefusedDoes DEF Sent
  <2>8. CASE PlayAudioSends
    BY <1>3, <1>5, <1>8, <2>8, PlayAudioSendsDoes DEF Sent
  <2>9. CASE PlayAudioOverflows
    BY <2>9, OverflowSpoils
  <2>10. CASE PlayAudio
    BY <1>7, <2>10
  <2> QED BY <2>2, <2>3, <2>4, <2>5, <2>6, <2>7, <2>8, <2>9, <2>10, WhoWrites DEF Shapes, CbShape
<1>9. CASE net' = net /\ cb.pc = "idle"
  <2>1. CASE cb' = cb
    BY <1>3, <1>5, <1>9, <2>1 DEF Sent
  <2>2. CASE PlayAudio
    BY <1>7, <2>2
  <2>3. CASE ~(cb' = cb) /\ ~PlayAudio
    BY <1>9, <2>3, WhoWrites, PlayAudioReadsResetDoes, PlayAudioReadsFaultDoes, PlayAudioLocksDoes,
       PlayAudioReservesDoes, PlayAudioRefusedDoes, PlayAudioSendsDoes, PlayAudioOverflowsDoes
       DEF Shapes, CbShape
  <2> QED BY <2>1, <2>2, <2>3
<1>10. CASE ResetReturns
  <2>1. net' = net /\ cb' = cb
    BY <1>3, <1>10, ResetReturnsDoes
  <2> QED BY <1>8, <1>9, <2>1
<1>11. CASE CleanupObservedDisconnect
  <2>1. net'.link = net.link /\ net'.at = net.at /\ net'.conn = net.conn /\ cb' = cb
    BY <1>11, CleanupObservedDisconnectDoes
  <2> QED BY <1>3, <1>5, <2>1 DEF Sent
<1>12. CASE Request
  <2>1. /\ Settled /\ med.pc = "idle" /\ med.phase = "wanted" /\ gate.open /\ net.link = "up"
        /\ net.at = 0
    BY <1>12, RequestDoes
  <2>2. ~session.active
    BY <2>1 DEF Spoiled, ControlInv, Playing
  <2>3. EndIsComing
    BY <1>4, <2>1, <2>2 DEF EndInv
  <2>4. med.msgs = <<>>
    BY <2>1 DEF Settled
  <2> QED BY <2>3, <2>4 DEF EndIsComing
<1>13. CASE Connect
  BY <1>13, ConnectDoes DEF Spoiled
<1>14. CASE Lose
  <2>1. net.link = "up" /\ net'.at = net.at /\ net'.conn = net.conn /\ cb' = cb
    BY <1>14, LoseDoes
  <2> QED BY <1>5, <2>1 DEF Sent
<1>15. CASE LossSeen
  BY <1>3, <1>15, LossSeenDoes
<1> QED BY <1>6, <1>7, <1>8, <1>9, <1>10, <1>11, <1>12, <1>13, <1>14, <1>15, WhoWrites
        DEF Shapes, NetShape

LEMMA SendPlaced ==
  ASSUME [Next]_vars, TypeOK, ControlInv, Counted, PlayAudioReserves, cb'.pc = "send",
         NEW base \in 0..Chunks, NEW c \in Nat, InPlace(base, c), Fits(base, c)
  PROVE  \E b \in 0..Chunks, d \in Nat : InPlace(b, d)' /\ Fits(b, d)'
<1>0. /\ Len(heard) \in Nat /\ Len(buffer) \in Nat /\ Played \in Nat /\ InHand \in {0, 1}
      /\ Coming \in {0, 1} /\ Len(heard') \in Nat /\ Len(buffer') \in Nat /\ Played' \in Nat
      /\ InHand' \in {0, 1} /\ Coming' \in {0, 1} /\ Length \in Nat /\ Length' \in Nat
  BY Parts, TypesStep
<1>00. Numbers /\ Numbers'
  BY NumbersAre, TypesStep
<1>1. /\ cb.pc = "reserve" /\ cb'.chunk = cb.chunk /\ session'.active = session.active
      /\ UNCHANGED <<heard, buffer, pl, net>>
  <2>1. Current
    BY PlayAudioReservesDoes
  <2> QED BY <2>1, PlayAudioReservesDoes
<1>2. /\ net.at \in 3..LastItem /\ net.link # "down"
      /\ cb.chunk = [conn |-> net.conn, at |-> net.at - 2]
  BY <1>1 DEF ControlInv, CallbackInv
<1>3. /\ Played' = Played /\ InHand' = InHand /\ Len(buffer') = Len(buffer)
      /\ Coming = 0 /\ Coming' = 1
  BY PlayAudioReservesTape
<1>4. Length' = Length + 1
  BY <1>0, <1>3 DEF Length
<1>5. Sent = net.at - 3 /\ Sent' = net.at - 2
  BY <1>1, <1>2, <1>00 DEF Sent, Numbers
<1>6. net.at - 2 <= Chunks
  BY <1>2, <1>00, ChunksNat DEF LastItem, Numbers
<1>7. CASE Length # 0
  <2>1. c = net.conn /\ base + Length = net.at - 3
    BY <1>2, <1>5, <1>7 DEF Fits
  <2>2. base + Length' = net.at - 2
    <3>1. base \in Nat /\ Length \in Nat /\ net.at \in Nat
      BY <1>0, <1>00, ChunksNat DEF Numbers
    <3> QED BY <1>4, <2>1, <3>1
  <2>3. Fits(base, c)'
    BY <1>1, <1>5, <1>6, <2>1, <2>2 DEF Fits
  <2>4. RunsFrom(base, c)' <=> RunsFrom(base, c)
    BY <1>1 DEF RunsFrom
  <2>5. InPlace(base, c)'
    BY <1>1, <1>2, <1>3, <2>1, <2>2, <2>4 DEF InPlace
  <2> QED BY <2>3, <2>5
<1>8. CASE Length = 0
  <2>1. PICK b \in 0..Chunks, d \in Nat : b = net.at - 3 /\ d = net.conn
    BY <1>2, <1>6, <1>00, ChunksNat DEF LastItem, Numbers
  <2>2. Played = 0 /\ InHand = 0 /\ Len(buffer) = 0
    BY <1>0, <1>8 DEF Length
  <2>3. DOMAIN buffer = {} /\ (session.active => DOMAIN heard = {})
    <3>1. \A s \in Seq(ChunkSet) : Len(s) = 0 => DOMAIN s = {}
      BY LenProperties
    <3> QED BY <2>2, <3>1 DEF Played, TypeOK, HeardType, BufferType
  <2>4. b + Length' = net.at - 2
    <3>1. net.at \in Nat
      BY <1>00 DEF Numbers
    <3> QED BY <1>4, <1>8, <2>1, <3>1
  <2>5. session'.active => RunsFrom(b, d)'
    BY <1>1, <2>3 DEF RunsFrom
  <2>6. cb'.chunk = [conn |-> d, at |-> b + Length']
    BY <1>1, <1>2, <2>1, <2>4
  <2>7. InPlace(b, d)'
    BY <1>1, <1>3, <2>2, <2>3, <2>5, <2>6 DEF InPlace
  <2>8. Fits(b, d)'
    BY <1>1, <1>5, <1>6, <2>1, <2>4 DEF Fits
  <2> QED BY <2>7, <2>8
<1> QED BY <1>7, <1>8

LEMMA TapeStep ==
  ASSUME [Next]_vars, TypeOK, ControlInv, CountInv, FreshInv, EndInv, TapeInv, Prompt
  PROVE  TapeInv'
<1>1. SUFFICES ASSUME ~Spoiled' PROVE \E b \in 0..Chunks, d \in Nat : InPlace(b, d)' /\ Fits(b, d)'
  BY DEF TapeInv
<1>2. CASE Spoiled
  <2>1. ~session'.active /\ Length' = 0
    BY <1>1, <1>2, Recovered
  <2>2. InHand' = 0 /\ Len(buffer') = 0 /\ Coming' = 0
    BY <2>1, Parts, TypesStep DEF Length
  <2>3. DOMAIN buffer' = {}
    <3>1. BufferType'
      BY TypesStep DEF TypeOK
    <3>2. \A s \in Seq(ChunkSet) : Len(s) = 0 => DOMAIN s = {}
      BY LenProperties
    <3> QED BY <2>2, <3>1, <3>2 DEF BufferType
  <2>4. InPlace(0, 0)'
    BY <2>1, <2>2, <2>3 DEF InPlace
  <2>5. Fits(0, 0)'
    BY <2>1, ChunksNat DEF Fits
  <2>6. 0 \in 0..Chunks /\ 0 \in Nat
    BY ChunksNat
  <2> QED BY <2>4, <2>5, <2>6
<1>3. CASE ~Spoiled
  <2>1. Counted
    BY <1>3 DEF CountInv
  <2>2. PICK base \in 0..Chunks, c \in Nat : InPlace(base, c) /\ Fits(base, c)
    BY <1>3 DEF TapeInv
  <2>3. CASE PlayAudioReserves /\ cb'.pc = "send"
    BY <2>1, <2>2, <2>3, SendPlaced
  <2>4. CASE ~(PlayAudioReserves /\ cb'.pc = "send")
    <3>1. base \in Nat
      BY <2>2, ChunksNat
    <3>2. InPlace(base, c)'
      BY <1>1, <1>3, <2>1, <2>2, <2>4, <3>1, InPlaceKept
    <3>3. Fits(base, c)'
      BY <1>1, <1>3, <2>1, <2>2, <2>4, FitsKept
    <3> QED BY <3>2, <3>3
  <2> QED BY <2>3, <2>4
<1> QED BY <1>2, <1>3

----------------------------------------------------------------------------
(* What is written, and when it is reported as heard.                      *)

\* What has been written is a run of one answer, and so is the chunk about to be written.
HeardRun ==
  \E base \in Nat, c \in Nat :
    /\ RunsFrom(base, c)
    /\ pl.pc = "write" => pl.chunk = [conn |-> c, at |-> base + Len(heard) + 1]

Whole == Len(heard) = Chunks /\ \A i \in DOMAIN heard : heard[i].at = i

\* The mediation task has been told, or is about to be, that the answer has been heard.
Reported ==
  /\ med.session # 0
  /\ \E i \in DOMAIN notices : notices[i].drained /\ notices[i].session = med.session

WholeInv == med.phase = "heard" \/ Reported => ~session.active /\ Whole

LEMMA RunKept ==
  ASSUME HeardRun, heard' = heard, pl'.pc = "write" => pl.pc = "write" /\ pl'.chunk = pl.chunk
  PROVE  HeardRun'
<1>1. PICK base \in Nat, c \in Nat :
        /\ RunsFrom(base, c)
        /\ pl.pc = "write" => pl.chunk = [conn |-> c, at |-> base + Len(heard) + 1]
  BY DEF HeardRun
<1>2. RunsFrom(base, c)'
  BY <1>1 DEF RunsFrom
<1> QED BY <1>1, <1>2 DEF HeardRun

LEMMA RunStep ==
  ASSUME [Next]_vars, TypeOK, ControlInv, TapeInv, HeardRun
  PROVE  HeardRun'

<1>1. CASE PlayAudioOverflows
  BY <1>1, PlayAudioOverflowsDoes, RunKept
<1>2. CASE ResetReleases
  BY <1>2, ResetReleasesDoes, RunKept
<1>3. CASE AdoptPlayback
  <2>1. CASE med'.pc = "idle"
    <3>1. heard' = <<>> /\ pl'.pc = pl.pc /\ ~session.active
      BY <1>3, <2>1, AdoptPlaybackDoes DEF ControlInv, Adopting
    <3>2. pl'.pc # "write"
      BY <3>1 DEF ControlInv, PlayHolds
    <3>3. DOMAIN <<>> = {}
      OBVIOUS
    <3>4. RunsFrom(0, 0)'
      BY <3>1, <3>3 DEF RunsFrom
    <3> QED BY <3>2, <3>4 DEF HeardRun
  <2>2. CASE ~(med'.pc = "idle")
    BY <1>3, <2>2, AdoptionFails, RunKept
  <2> QED BY <2>1, <2>2
<1>4. CASE ApplyAudioEnd
  BY <1>4, ApplyAudioEndDoes, RunKept
<1>5. CASE PlayWakes
  BY <1>5, PlayWakesDoes, RunKept
<1>6. CASE PlayStartsReset
  BY <1>6, PlayStartsResetDoes, RunKept
<1>7. CASE PlayResetLocks
  BY <1>7, PlayResetLocksDoes, RunKept
<1>8. CASE PlayResetLocksBuffer
  BY <1>8, PlayResetLocksBufferDoes, RunKept
<1>9. CASE PlayAborts
  BY <1>9, PlayAbortsDoes, RunKept
<1>10. CASE PlayAcknowledges
  BY <1>10, PlayAcknowledgesDoes, RunKept
<1>11. CASE PlayResetFails
  BY <1>11, PlayResetFailsDoes, RunKept
<1>12. CASE PlayReads
  BY <1>12, PlayReadsDoes, RunKept
<1>13. CASE PlayIncomplete
  BY <1>13, PlayIncompleteDoes, RunKept
<1>14. CASE PlayReceives
  BY <1>14, PlayReceivesDoes, RunKept
<1>15. CASE PlayLocks
  <2>1. CASE pl'.pc # "write"
    BY <1>15, <2>1, PlayLocksDoes, RunKept
  <2>2. CASE pl'.pc = "write"
    <3>1. MayWrite /\ pl.pc = "locked" /\ pl'.chunk = pl.chunk /\ heard' = heard
      BY <1>15, <2>2, PlayLocksDoes
    <3>2. ~Spoiled /\ session.active
      BY <3>1 DEF MayWrite, AcceptWrite, Accepts, Spoiled
    <3>3. PICK base \in 0..Chunks, c \in Nat : InPlace(base, c)
      BY <3>2 DEF TapeInv
    <3>4. RunsFrom(base, c) /\ InHand = 1 /\ Played = Len(heard)
      BY <3>1, <3>2, <3>3 DEF InPlace, InHand, Played
    <3>5. pl.chunk = [conn |-> c, at |-> base + Len(heard) + 1]
      BY <3>3, <3>4 DEF InPlace
    <3>6. RunsFrom(base, c)'
      BY <3>1, <3>4 DEF RunsFrom
    <3>7. base \in Nat
      BY <3>3, ChunksNat
    <3> QED BY <3>1, <3>5, <3>6, <3>7 DEF HeardRun
  <2> QED BY <2>1, <2>2
<1>16. CASE PlayWrites
  <2>1. pl.pc = "write" /\ heard' = Append(heard, pl.chunk) /\ pl'.pc # "write"
    BY <1>16, PlayWritesDoes
  <2>2. PICK base \in Nat, c \in Nat :
          /\ RunsFrom(base, c)
          /\ pl.chunk = [conn |-> c, at |-> base + Len(heard) + 1]
    BY <2>1 DEF HeardRun
  <2>3. \A i \in DOMAIN heard' : \/ i \in DOMAIN heard /\ heard'[i] = heard[i]
                                 \/ i = Len(heard) + 1 /\ heard'[i] = pl.chunk
    BY <2>1, HeardGrows DEF TypeOK
  <2>4. base + Len(heard) + 1 = base + (Len(heard) + 1)
    BY <2>2, Parts
  <2>5. RunsFrom(base, c)'
    BY <2>2, <2>3, <2>4 DEF RunsFrom
  <2> QED BY <2>1, <2>5 DEF HeardRun
<1>17. CASE PlayWriteFails
  BY <1>17, PlayWriteFailsDoes, RunKept
<1>18. CASE PlayFinishes
  BY <1>18, PlayFinishesDoes, RunKept
<1>19. CASE PlayDrained
  BY <1>19, PlayDrainedDoes, RunKept
<1>20. CASE UNCHANGED <<heard, pl>>
  BY <1>20, RunKept
<1> QED BY WhoWrites, <1>1, <1>2, <1>3, <1>4, <1>5, <1>6, <1>7, <1>8, <1>9, <1>10, <1>11, <1>12,
  <1>13, <1>14, <1>15, <1>16, <1>17, <1>18, <1>19, <1>20 DEF Shapes, HeardShape, PlShape

LEMMA WholeKept ==
  ASSUME WholeInv, heard' = heard, session'.active => session.active,
         med'.phase = "heard" => med.phase = "heard" \/ Reported, Reported' => Reported
  PROVE  WholeInv'
<1>1. Whole' <=> Whole
  BY DEF Whole
<1> QED BY <1>1 DEF WholeInv

LEMMA WholeStep ==
  ASSUME [Next]_vars, TypeOK, ControlInv, CountInv, TapeInv, WholeInv
  PROVE  WholeInv'
<1>0. Numbers
  BY NumbersAre
<1>1. CASE HandleCustom
  BY <1>1, HandleCustomDoes, WholeKept DEF Reported
<1>2. CASE PlayAudioReserves
  BY <1>2, PlayAudioReservesDoes, WholeKept DEF Reported
<1>3. CASE PlayAudioOverflows
  BY <1>3, PlayAudioOverflowsDoes, WholeKept DEF Reported
<1>4. CASE ResetLocks
  BY <1>4, ResetLocksDoes, WholeKept DEF Reported
<1>5. CASE ResetDoesNotLock
  BY <1>5, ResetDoesNotLockDoes, WholeKept DEF Reported
<1>6. CASE ResetGate
  BY <1>6, ResetGateDoes, WholeKept DEF Reported
<1>7. CASE ResetRequest
  BY <1>7, ResetRequestDoes, WholeKept DEF Reported
<1>8. CASE ResetReleases
  BY <1>8, ResetReleasesDoes, WholeKept DEF Reported
<1>9. CASE ResetReturns
  BY <1>9, ResetReturnsDoes, WholeKept DEF Reported
<1>10. CASE DrainBridgeIngressFault
  BY <1>10, DrainBridgeIngressFaultDoes, WholeKept DEF Reported
<1>11. CASE CleanupObservedDisconnect
  BY <1>11, CleanupObservedDisconnectDoes, WholeKept DEF Reported
<1>12. CASE Request
  BY <1>12, RequestDoes, WholeKept DEF Reported
<1>13. CASE DropMessages
  BY <1>13, DropMessagesDoes, WholeKept DEF Reported
<1>14. CASE ApplyAudioStart
  BY <1>14, ApplyAudioStartDoes, WholeKept DEF Reported
<1>15. CASE AdoptPlayback
  <2>1. CASE med'.pc = "idle"
    <3>1. med'.phase = "playing" /\ med'.session = io.session + 1 /\ notices' = notices
      BY <1>15, <2>1, AdoptionBegins
    <3>2. \A i \in DOMAIN notices : notices[i].session \in Nat /\ notices[i].session < io.session
      BY NoticesNumbered DEF TypeOK, ControlInv, Noticed
    <3>3. ~Reported'
      BY <1>0, <3>1, <3>2 DEF Reported, Numbers
    <3> QED BY <3>1, <3>3 DEF WholeInv
  <2>2. CASE ~(med'.pc = "idle")
    BY <1>15, <2>2, AdoptionFails, WholeKept DEF Reported
  <2> QED BY <2>1, <2>2
<1>16. CASE ApplyAudioEnd
  BY <1>16, ApplyAudioEndDoes, WholeKept DEF Reported
<1>17. CASE DrainPlaybackNotices
  <2>1. /\ notices # <<>> /\ notices' = Tail(notices) /\ UNCHANGED <<session, heard>>
        /\ \/ med' = med
           \/ /\ med.session # 0 /\ Head(notices).session = med.session /\ Head(notices).drained
              /\ med'.session = 0
           \/ med'.session = 0 /\ (med'.phase = "heard" => med.phase = "heard")
    BY <1>17, DrainPlaybackNoticesDoes
  <2>2. /\ 1 \in DOMAIN notices /\ Head(notices) = notices[1]
        /\ \A i \in DOMAIN notices' : i + 1 \in DOMAIN notices /\ notices'[i] = notices[i + 1]
    BY <2>1, NoticesShrink DEF TypeOK
  <2>3. Reported' => Reported
    BY <2>1, <2>2 DEF Reported
  <2>4. med'.phase = "heard" => med.phase = "heard" \/ Reported
    BY <2>1, <2>2 DEF Reported
  <2> QED BY <2>1, <2>3, <2>4, WholeKept
<1>18. CASE PlayAborts
  BY <1>18, PlayAbortsDoes, WholeKept DEF Reported
<1>19. CASE PlayAcknowledges
  <2>1. UNCHANGED <<session, heard, med>>
    BY <1>19, PlayAcknowledgesDoes
  <2>2. CASE notices' = notices
    BY <2>1, <2>2, WholeKept DEF Reported
  <2>3. CASE notices' = Append(notices, [session |-> pl.report, drained |-> FALSE])
    <3>1. \A i \in DOMAIN notices' :
            \/ i \in DOMAIN notices /\ notices'[i] = notices[i]
            \/ notices'[i] = [session |-> pl.report, drained |-> FALSE]
      BY <1>0, <2>3, NoticesExtend DEF TypeOK, Numbers
    <3>2. Reported' => Reported
      BY <2>1, <3>1 DEF Reported
    <3> QED BY <2>1, <3>2, WholeKept
  <2> QED BY <1>19, <2>2, <2>3, PlayAcknowledgesDoes
<1>20. CASE PlayWrites
  <2>1. /\ pl.pc = "write" /\ UNCHANGED <<med, notices>>
    BY <1>20, PlayWritesDoes
  <2>2. session.active
    BY <2>1 DEF ControlInv, PlayHolds
  <2> QED BY <2>1, <2>2 DEF WholeInv, Reported
<1>21. CASE PlayDrained
  <2>1. CASE pl'.pc = "wait"
    <3>1. /\ session.active /\ ~session.incomplete /\ gate.open /\ ResetConfirmed
          /\ heard' = heard /\ ~session'.active
      BY <1>21, <2>1, DrainReports
    <3>2. ~Spoiled
      BY <3>1 DEF Spoiled
    <3>3. Len(heard) = Chunks /\ Length = Chunks
      BY <1>21, <2>1, <3>2, ReportIsWhole DEF CountInv
    <3>4. PICK base \in 0..Chunks, c \in Nat : InPlace(base, c) /\ Fits(base, c)
      BY <3>2 DEF TapeInv
    <3>5. base = 0
      <4>1. base \in Nat /\ base + Chunks <= Chunks
        BY <3>3, <3>4, ChunksNat DEF Fits
      <4> QED BY <4>1, ChunksNat
    <3>6. \A i \in DOMAIN heard : i \in Nat /\ heard[i] = [conn |-> c, at |-> 0 + i]
      <4>1. DOMAIN heard = 1..Len(heard) /\ Len(heard) \in Nat
        BY LenProperties DEF TypeOK, HeardType
      <4> QED BY <3>1, <3>4, <3>5, <4>1 DEF InPlace, RunsFrom
    <3>7. Whole
      BY <3>3, <3>6 DEF Whole
    <3> QED BY <3>1, <3>7 DEF WholeInv, Whole
  <2>2. CASE ~(pl'.pc = "wait")
    BY <1>21, <2>2, DrainWaits, WholeKept DEF Reported
  <2> QED BY <2>1, <2>2
<1>22. CASE UNCHANGED <<session, heard, med, notices>>
  BY <1>22, WholeKept DEF Reported
<1> QED BY WhoWrites, <1>1, <1>2, <1>3, <1>4, <1>5, <1>6, <1>7, <1>8, <1>9, <1>10, <1>11, <1>12,
  <1>13, <1>14, <1>15, <1>16, <1>17, <1>18, <1>19, <1>20, <1>21, <1>22 DEF Shapes, SessionShape,
  HeardShape, MedShape, NoticesShape

----------------------------------------------------------------------------
(* The theorems.                                                           *)

PlaybackInv == TypeOK /\ ControlInv /\ CountInv /\ FreshInv
PromptInv == EndInv /\ TapeInv /\ HeardRun /\ WholeInv

LEMMA InitTypes == Init => TypeOK
<1> SUFFICES ASSUME Init PROVE TypeOK
  OBVIOUS
<1>1. GateType /\ IoType /\ LockType /\ AbortType /\ FaultType /\ NetType
  BY DEF Init, GateType, IoType, IoSet, LockType, AbortType, FaultType, NetType, NetSet
<1>2. SessionType /\ IngressType
  BY DEF Init, SessionType, SessionSet, IngressType, IngressSet, Inactive, Disarmed
<1>3. NoChunk \in ChunkSet
  BY DEF NoChunk, ChunkSet
<1>4. PlType /\ CbType
  BY <1>3 DEF Init, PlType, CbType, PlayAsleep, CallbackIdle
<1>5. MedType /\ ThenInv
  <2>1. <<>> \in Seq(Messages)
    OBVIOUS
  <2> QED BY <2>1 DEF Init, MedType, MedSet, ThenInv
<1>6. BufferType /\ HeardType /\ NoticesType
  BY DEF Init, BufferType, HeardType, NoticesType
<1> QED BY <1>1, <1>2, <1>4, <1>5, <1>6 DEF TypeOK

LEMMA InitControl == Init => ControlInv
<1> SUFFICES ASSUME Init PROVE ControlInv
  OBVIOUS
<1>1. LockInv
  BY DEF Init, LockInv, MediationLocks, PlayLocksIo, PlayLocksBuffer, CallbackLocks, PlayAsleep,
     CallbackIdle
<1>2. ResetInv /\ CallbackInv /\ LinkUp
  BY DEF Init, ResetInv, Acknowledged, PlayResets, CallbackResets, CallbackInv, LinkUp, PlayAsleep,
     CallbackIdle
<1>3. PlayHolds /\ Cleared /\ Unarmed /\ OneReservation /\ ArmedCurrent /\ Lease
  BY DEF Init, PlayHolds, Cleared, Unarmed, OneReservation, ArmedCurrent, Lease, PlayAsleep,
     Inactive, Disarmed
<1>4. Adopting /\ Closed /\ Playing
  BY DEF Init, Adopting, Closed, Clean, Playing, CallbackIdle, Inactive, Disarmed
<1>5. Sessions /\ Noticed
  BY DEF Init, Sessions, Noticed, PlayAsleep
<1> QED BY <1>1, <1>2, <1>3, <1>4, <1>5 DEF ControlInv

LEMMA InitPrompt == Init => PromptInv
<1> SUFFICES ASSUME Init PROVE PromptInv
  OBVIOUS
<1>1. Spoiled
  BY DEF Init, Spoiled
<1>2. HeardRun
  <2>1. DOMAIN heard = {} /\ pl.pc # "write"
    BY DEF Init, PlayAsleep
  <2>2. RunsFrom(0, 0)
    BY <2>1 DEF RunsFrom
  <2> QED BY <2>1, <2>2 DEF HeardRun
<1>3. WholeInv
  BY DEF Init, WholeInv, Reported
<1> QED BY <1>1, <1>2, <1>3 DEF PromptInv, EndInv, TapeInv

\* The types hold and the three tasks agree: who holds the two mutexes, which reset is being
\* served, whose lease the play task has, and that what has been received and written is
\* counted as it is, until something has gone wrong.  However late a reset is served.
THEOREM PlaybackIsOrderly == Spec => []PlaybackInv
<1>1. Init => PlaybackInv
  <2> SUFFICES ASSUME Init PROVE PlaybackInv
    OBVIOUS
  <2>1. Spoiled /\ cb.pc = "idle"
    BY DEF Init, Spoiled, CallbackIdle
  <2> QED BY <2>1, InitTypes, InitControl DEF PlaybackInv, CountInv, FreshInv
<1>2. PlaybackInv /\ [Next]_vars => PlaybackInv'
  BY TypesStep, ControlStep, CountStep, FreshStep DEF PlaybackInv
<1> QED BY <1>1, <1>2, PTL DEF Spec

\* What the tasks hold between them is a run of one answer, when what was cancelled has been
\* cleared before the next answer is asked for.
THEOREM TapeIsOneAnswer == Prompt => (Spec => []PromptInv)
<1> SUFFICES ASSUME Prompt PROVE Spec => []PromptInv
  OBVIOUS
<1>1. Init => PromptInv
  BY InitPrompt
<1>2. PlaybackInv /\ PromptInv /\ [Next]_vars => PromptInv'
  BY EndStep, TapeStep, RunStep, WholeStep DEF PlaybackInv, PromptInv
<1>3. Spec => []PlaybackInv
  BY PlaybackIsOrderly
<1> QED BY <1>1, <1>2, <1>3, PTL DEF Spec

\* PlayLoop: what the loudspeaker plays in a session is a run of chunks of one answer,
\* without a gap, whatever was cancelled, lost or refused before.
THEOREM WrittenWithoutGap == Prompt => (Spec => []HeardWithoutGap)
<1> SUFFICES ASSUME Prompt PROVE Spec => []HeardWithoutGap
  OBVIOUS
<1>1. PlaybackInv /\ PromptInv => HeardWithoutGap
  <2> SUFFICES ASSUME PlaybackInv, PromptInv, NEW i \in DOMAIN heard
               PROVE  heard[i] = [heard[1] EXCEPT !.at = @ + i - 1]
    BY DEF HeardWithoutGap
  <2>1. PICK base \in Nat, c \in Nat : RunsFrom(base, c)
    BY DEF PromptInv, HeardRun
  <2>2. i \in Nat /\ 1 \in DOMAIN heard
    <3>1. DOMAIN heard = 1..Len(heard) /\ Len(heard) \in Nat
      BY LenProperties DEF PlaybackInv, TypeOK, HeardType
    <3> QED BY <3>1
  <2>3. /\ heard[i] = [conn |-> c, at |-> base + i]
        /\ heard[1] = [conn |-> c, at |-> base + 1]
    BY <2>1, <2>2 DEF RunsFrom
  <2>4. (base + 1) + i - 1 = base + i
    BY <2>1, <2>2
  <2> QED BY <2>3, <2>4
<1>2. Spec => []PromptInv
  BY TapeIsOneAnswer
<1> QED BY <1>1, <1>2, PlaybackIsOrderly, PTL

\* DrainPlaybackNotices: an answer counts as heard only when all of it has been written, from
\* its first chunk to its last and in order.
THEOREM ReceiptIsWhole == Prompt => (Spec => []HeardIsWhole)
<1> SUFFICES ASSUME Prompt PROVE Spec => []HeardIsWhole
  OBVIOUS
<1>1. PromptInv => HeardIsWhole
  BY DEF PromptInv, WholeInv, Whole, HeardIsWhole
<1>2. Spec => []PromptInv
  BY TapeIsOneAnswer
<1> QED BY <1>1, <1>2, PTL
=============================================================================
