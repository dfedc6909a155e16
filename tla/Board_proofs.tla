---------------------------- MODULE Board_proofs ----------------------------
(***************************************************************************)
(* What Board promises when the mediation task keeps up with the link      *)
(* (Prompt), for any slots, recordings, capacities of the queues and       *)
(* bounds.                                                                 *)
(*                                                                         *)
(* The invariant relates a device d and a Bridge b.  Its centre is the     *)
(* stream: what waits to be sent leads, message by message, from the place *)
(* the Bridge has reached to the place the device has reached (PathOK).    *)
(* Around it: the two slots and the recording that is being sent (StoreOK, *)
(* ReplayOK), what the core of the link, its callbacks and the task know   *)
(* of the connection (LinkOK, ReadyOK), of which recordings an end or an   *)
(* ACK is on its way (SentOK), and that the Bridge is never in a later     *)
(* case than the device and never acknowledges what it has not (CaseOK).   *)
(*                                                                         *)
(* A handler of the mediation task is a composition of small steps on the  *)
(* value d.  Good(z, d, b) is what each of them preserves: d is as it      *)
(* should be, and of the device z that the handler began with it has lost  *)
(* no recording that the Bridge has not stored (Keeps).  A handler of the  *)
(* Bridge is one of a few reactions (Reacts), which the device hears of    *)
(* (AnswersHeard).                                                         *)
(***************************************************************************)
EXTENDS Board, SequenceTheorems, FiniteSetTheorems, WellFoundedInduction, TLAPS

----------------------------------------------------------------------------
(* Sequences of any elements.                                              *)

IsSeq(s) == Len(s) \in Nat /\ s = [i \in 1..Len(s) |-> s[i]]

Elements(s) == {s[i] : i \in 1..Len(s)}

LEMMA SeqOfElements == ASSUME NEW s, IsSeq(s) PROVE s \in Seq(Elements(s))
  BY DEF IsSeq, Elements

LEMMA SeqIsSeq == ASSUME NEW S, NEW s \in Seq(S) PROVE IsSeq(s)
  BY DEF IsSeq

LEMMA SeqDomain == ASSUME NEW s, IsSeq(s) PROVE DOMAIN s = 1..Len(s) /\ Len(s) \in Nat
  BY DEF IsSeq

LEMMA SeqEmpty == IsSeq(<<>>) /\ Len(<<>>) = 0 /\ DOMAIN <<>> = {} /\ Seq({}) # {}
<1>1. <<>> \in Seq({})
  BY EmptySeq
<1>2. IsSeq(<<>>)
  BY <1>1, SeqIsSeq
<1>3. Len(<<>>) = 0 /\ DOMAIN <<>> = {}
  OBVIOUS
<1> QED BY <1>1, <1>2, <1>3

LEMMA SeqNotEmpty ==
  ASSUME NEW s, IsSeq(s), s # <<>>
  PROVE  Len(s) # 0 /\ 1 \in 1..Len(s) /\ Len(s) \in 1..Len(s) /\ Len(s) - 1 \in Nat
<1>1. Len(s) # 0
  <2>1. s \in Seq(Elements(s))
    BY SeqOfElements
  <2> QED BY <2>1, EmptySeq
<1> QED BY <1>1 DEF IsSeq

LEMMA SeqAppend ==
  ASSUME NEW s, NEW e, IsSeq(s)
  PROVE  /\ IsSeq(Append(s, e)) /\ Len(Append(s, e)) = Len(s) + 1
         /\ \A i \in 1..Len(s) : Append(s, e)[i] = s[i]
         /\ Append(s, e)[Len(s) + 1] = e
<1>1. s \in Seq(Elements(s) \cup {e})
  <2>1. s \in Seq(Elements(s))
    BY SeqOfElements
  <2> QED BY <2>1
<1>2. /\ Append(s, e) \in Seq(Elements(s) \cup {e})
      /\ Len(Append(s, e)) = Len(s) + 1
      /\ \A i \in 1..Len(s) : Append(s, e)[i] = s[i]
      /\ Append(s, e)[Len(s) + 1] = e
  BY <1>1, AppendProperties
<1> QED BY <1>2, SeqIsSeq

LEMMA SeqTail ==
  ASSUME NEW s, IsSeq(s), s # <<>>
  PROVE  /\ IsSeq(Tail(s)) /\ Len(Tail(s)) = Len(s) - 1
         /\ \A i \in 1..(Len(s) - 1) : Tail(s)[i] = s[i + 1]
         /\ Head(s) = s[1]
<1>1. s \in Seq(Elements(s))
  BY SeqOfElements
<1>2. /\ Head(s) = s[1] /\ Tail(s) \in Seq(Elements(s))
      /\ Len(Tail(s)) = Len(s) - 1
      /\ \A i \in 1..Len(Tail(s)) : Tail(s)[i] = s[i + 1]
  BY <1>1, HeadTailProperties
<1>3. IsSeq(Tail(s))
  BY <1>2, SeqIsSeq
<1> QED BY <1>2, <1>3

LEMMA SeqConcat ==
  ASSUME NEW s, NEW t, IsSeq(s), IsSeq(t)
  PROVE  /\ IsSeq(s \o t) /\ Len(s \o t) = Len(s) + Len(t)
         /\ \A i \in 1..Len(s) : (s \o t)[i] = s[i]
         /\ \A i \in 1..Len(t) : (s \o t)[Len(s) + i] = t[i]
         /\ \A i \in 1..Len(s \o t) : i \notin 1..Len(s) =>
              /\ i - Len(s) \in 1..Len(t) /\ (s \o t)[i] = t[i - Len(s)]
<1> DEFINE E == Elements(s) \cup Elements(t)
<1>1. s \in Seq(E) /\ t \in Seq(E)
  <2>1. s \in Seq(Elements(s)) /\ t \in Seq(Elements(t))
    BY SeqOfElements
  <2> QED BY <2>1
<1>2. Len(s) \in Nat /\ Len(t) \in Nat
  BY DEF IsSeq
<1>3. /\ s \o t \in Seq(E)
      /\ Len(s \o t) = Len(s) + Len(t)
      /\ \A i \in 1..(Len(s) + Len(t)) :
           (s \o t)[i] = IF i <= Len(s) THEN s[i] ELSE t[i - Len(s)]
  <2> HIDE DEF E
  <2> QED BY <1>1, ConcatProperties
<1>4. IsSeq(s \o t)
  BY <1>3, SeqIsSeq
<1>5. \A i \in 1..Len(s) : (s \o t)[i] = s[i]
  BY <1>2, <1>3
<1>6. \A i \in 1..Len(t) : (s \o t)[Len(s) + i] = t[i]
  <2> TAKE i \in 1..Len(t)
  <2>1. Len(s) + i \in 1..(Len(s) + Len(t)) /\ ~(Len(s) + i <= Len(s)) /\ (Len(s) + i) - Len(s) = i
    BY <1>2
  <2> HIDE DEF E
  <2> QED BY <1>3, <2>1
<1>7. \A i \in 1..Len(s \o t) : i \notin 1..Len(s) =>
        /\ i - Len(s) \in 1..Len(t) /\ (s \o t)[i] = t[i - Len(s)]
  <2> SUFFICES ASSUME NEW i \in 1..Len(s \o t), i \notin 1..Len(s)
               PROVE  /\ i - Len(s) \in 1..Len(t) /\ (s \o t)[i] = t[i - Len(s)]
    OBVIOUS
  <2> HIDE DEF E
  <2>1. i \in 1..(Len(s) + Len(t)) /\ ~(i <= Len(s))
    BY <1>2, <1>3
  <2> QED BY <1>2, <1>3, <2>1
<1> QED BY <1>3, <1>4, <1>5, <1>6, <1>7

LEMMA SeqPrefix ==
  ASSUME NEW s, IsSeq(s), NEW n \in 0..Len(s)
  PROVE  /\ IsSeq(SubSeq(s, 1, n)) /\ Len(SubSeq(s, 1, n)) = n
         /\ \A i \in 1..n : SubSeq(s, 1, n)[i] = s[i]
<1>1. s \in Seq(Elements(s)) /\ Len(s) \in Nat
  BY SeqOfElements DEF IsSeq
<1>2. /\ SubSeq(s, 1, n) \in Seq(Elements(s))
      /\ Len(SubSeq(s, 1, n)) = IF 1 <= n THEN n - 1 + 1 ELSE 0
      /\ \A i \in 1..(n - 1 + 1) : SubSeq(s, 1, n)[i] = s[1 + i - 1]
  BY <1>1, SubSeqProperties
<1>3. Len(SubSeq(s, 1, n)) = n
  BY <1>1, <1>2
<1>4. \A i \in 1..n : SubSeq(s, 1, n)[i] = s[i]
  BY <1>1, <1>2
<1> QED BY <1>2, <1>3, <1>4, SeqIsSeq

\* The least of a set of numbers.
LEMMA LeastOfNaturals ==
  ASSUME NEW S \in SUBSET Nat, S # {}
  PROVE  \E x \in S : \A y \in S : x <= y
<1>1. IsWellFoundedOn(OpToRel(<, Nat), Nat)
  BY NatLessThanWellFounded
<1>2. PICK x \in S : \A y \in S : ~(<<y, x>> \in OpToRel(<, Nat))
  BY <1>1, WFMin
<1>3. \E c \in S : \A d \in S : ~(d < c)
  BY <1>2 DEF OpToRel
<1> QED BY <1>3

----------------------------------------------------------------------------
(* The invariant, of a device d and a Bridge b.                            *)

\* The fields that matter; the others are left open.
HasFields(d) ==
  /\ {"m", "store", "gen", "ready", "last", "open", "inbox", "replay", "ledger", "active",
      "begun", "asked", "link"} \subseteq DOMAIN d
  /\ "gen" \in DOMAIN d.m
  /\ {"usable", "announced", "core", "asr", "stream", "tx", "callbacks", "told", "seen",
      "fresh"} \subseteq DOMAIN d.link
  /\ {"active", "slot", "ordinal", "offset", "total"} \subseteq DOMAIN d.replay
  /\ {"slots", "next"} \subseteq DOMAIN d.store
  /\ DOMAIN d.store.slots = SlotIds /\ DOMAIN d.ledger = SlotIds
  /\ \A x \in SlotIds :
       {"state", "ordinal", "bytes", "meta", "quarantined"} \subseteq DOMAIN d.store.slots[x]

InUse(d, x) == Slot(d, x).state # "free"
Seg(d, x) == Slot(d, x).meta.seg

SlotOK(d, x) ==
  /\ Slot(d, x).bytes \in Nat
  /\ InUse(d, x) =>
       /\ Slot(d, x).state \in {"recording", "complete"}
       /\ Slot(d, x).ordinal \in Nat \ {0}
       /\ Seg(d, x) \in Segments /\ Seg(d, x) \in Nat /\ Seg(d, x) <= d.begun
  /\ Slot(d, x).state = "complete" => Slot(d, x).bytes # 0

\* The slots hold different recordings, and the active one is being made.
StoreOK(d) ==
  /\ d.begun \in Nat /\ d.store.next \in Nat \ {0}
  /\ \A x \in SlotIds : SlotOK(d, x)
  /\ \A x, y \in SlotIds : InUse(d, x) /\ InUse(d, y) /\ Seg(d, x) = Seg(d, y) => x = y
  /\ d.active # NoSlot => d.active \in SlotIds /\ Slot(d, d.active).state = "recording"

\* The recording that is being sent is whole, has not been sent on this
\* connection, and is the one that the stream was opened for.
Replaying(d) ==
  /\ d.ready = TRUE /\ d.active = NoSlot
  /\ d.replay.slot \in SlotIds /\ Slot(d, d.replay.slot).state = "complete"
  /\ Slot(d, d.replay.slot).ordinal = d.replay.ordinal
  /\ Slot(d, d.replay.slot).bytes = d.replay.total
  /\ d.replay.offset \in Nat /\ d.replay.offset <= d.replay.total
  /\ d.ledger[d.replay.slot] # d.replay.ordinal
  /\ d.link.usable => /\ d.link.asr = TRUE
                      /\ d.link.stream = [seg |-> Seg(d, d.replay.slot),
                                          frames |-> d.replay.offset]

ReplayOK(d) ==
  /\ d.replay.active \in BOOLEAN
  /\ d.replay.active => Replaying(d)
  /\ ~d.replay.active => ~(d.link.usable /\ d.link.asr)

IsLink(m, level) == m.t = "link" /\ m.level = level

LinkType(l) ==
  /\ IsSeq(l.callbacks) /\ IsSeq(l.tx)
  /\ {l.usable, l.announced, l.asr, l.seen, l.fresh} \subseteq BOOLEAN
  /\ l.core \in {"ready", "disconnected"} /\ l.told \in {"none", "ready", "disconnected"}

\* A disconnection is the last thing a connection says, and has been seen
\* before the next one begins.
LinkOK(l) ==
  /\ l.usable => l.announced
  /\ l.announced => /\ ~l.seen /\ l.told # "disconnected"
                    /\ \A i \in 1..Len(l.callbacks) : ~IsLink(l.callbacks[i], "disconnected")
  /\ ~l.usable => l.tx = <<>> /\ l.stream = NoStream
  /\ \A i \in 1..Len(l.callbacks) :
       /\ IsLink(l.callbacks[i], "disconnected") => i = Len(l.callbacks)
       /\ IsLink(l.callbacks[i], "ready") => i = 1 /\ l.core = "disconnected" /\ l.told = "none"
       /\ l.callbacks[i].t = "link" => l.callbacks[i].level \in {"ready", "disconnected"}
  /\ ~l.announced /\ l.callbacks # <<>> => IsLink(l.callbacks[Len(l.callbacks)], "disconnected")
  /\ ~l.announced /\ l.callbacks = <<>> => l.core = "disconnected"
  /\ l.told = "disconnected" \/ l.seen => l.callbacks = <<>>
  /\ l.seen => l.told = "none"
  /\ l.asr => l.core = "ready"
  /\ ~l.asr => l.stream = NoStream

\* The task knows the state of the link, or is about to be told.
ReadyOK(d) ==
  /\ d.ready \in BOOLEAN /\ d.open = d.ready /\ IsSeq(d.inbox)
  /\ ~d.ready => /\ d.inbox = <<>> /\ d.link.tx = <<>> /\ ~d.link.asr
                 /\ \A i \in 1..Len(d.link.callbacks) : d.link.callbacks[i].t # "durable"
  /\ d.ready =>
       /\ \A i \in 1..Len(d.link.callbacks) : ~IsLink(d.link.callbacks[i], "ready")
       /\ \/ /\ d.link.core = "ready" /\ d.link.told = "none"
             /\ ~d.link.fresh /\ ~d.link.seen /\ d.last = "ready"
          \/ /\ d.link.core = "disconnected" /\ ~d.link.announced
             /\ d.link.told = "disconnected" \/ d.link.seen

\* What is to be sent makes whole streams, from the one the Bridge is in to
\* the one the device is in.
Cursors == [seg : Nat, frames : Nat]

After(c, m) ==
  CASE m.t = "start" -> [seg |-> m.seg, frames |-> 0]
    [] m.t = "chunk" -> [seg |-> c.seg, frames |-> c.frames + 1]
    [] m.t = "end"   -> NoStream
    [] OTHER -> c

Allowed(c, m) ==
  /\ m.t \in {"case", "start", "chunk", "end", "mediate", "played"}
  /\ m.t = "start" => c = NoStream /\ m.seg \in Recordings /\ m.seg \in Nat \ {0}
  /\ m.t = "chunk" => /\ c.seg # 0 /\ m.seq = c.frames
                      /\ m.pcm = [seg |-> c.seg, at |-> c.frames]
  /\ m.t = "end"   => c.seg # 0 /\ m.seg = c.seg /\ m.frames = c.frames

Fits(cur, tx, c) ==
  /\ cur \in [1..(Len(tx) + 1) -> Cursors] /\ cur[Len(tx) + 1] = c
  /\ \A i \in 1..Len(tx) : Allowed(cur[i], tx[i]) /\ cur[i + 1] = After(cur[i], tx[i])

BridgeAt(b, c) ==
  /\ c = NoStream => b.owner = 0 \/ b.live = b.owner
  /\ c # NoStream => /\ b.live = 0 /\ c.seg # 0
                     /\ b.owner # 0 =>
                          /\ b.owner = c.seg
                          /\ ~b.cached => /\ b.rows[b.owner].st = "receiving"
                                          /\ Len(b.rows[b.owner].pcm) = c.frames

PathOK(d, b) ==
  d.link.usable =>
    \E cur \in [1..(Len(d.link.tx) + 1) -> Cursors] :
      Fits(cur, d.link.tx, d.link.stream) /\ BridgeAt(b, cur[1])

\* An end, and the ACK that answers it, are of a recording that has been
\* sent to the end on this connection.
IsDurable(m, s) == m.t = "durable" /\ m.seg = s
IsEnd(m, s) == m.t = "end" /\ m.seg = s

InFlight(d, b, s) ==
  \/ \E i \in 1..Len(d.link.callbacks) : IsDurable(d.link.callbacks[i], s)
  \/ \E i \in 1..Len(d.inbox) : IsDurable(d.inbox[i], s)
  \/ \E i \in 1..Len(d.link.tx) : IsEnd(d.link.tx[i], s)
  \/ d.link.usable /\ b.live = s

WasEnded(d, s) ==
  \A x \in SlotIds : InUse(d, x) /\ Seg(d, x) = s =>
    Slot(d, x).state = "complete" /\ d.ledger[x] = Slot(d, x).ordinal

SentOK(d, b) ==
  /\ \A s \in Segments : InFlight(d, b, s) => s <= d.begun /\ WasEnded(d, s)
  /\ d.link.usable /\ ~d.ready => b.live = 0

\* The Bridge is never ahead of the device, and its ACKs are true.
IsStored(b, s, n) == b.rows[s].st = "stored" /\ Len(b.rows[s].pcm) = n

Truthful(b, m) ==
  m.t = "durable" => /\ m.seg \in Recordings /\ m.case \in Nat /\ m.case <= b.case
                     /\ m.case = b.case => IsStored(b, m.seg, m.bytes)

AnswerTypes == {"caseAck", "playedAck", "durable", "saved", "state", "astart", "aend", "error"}

IsAnswer(b, m) == m.t \in AnswerTypes /\ Truthful(b, m)

IsCase(m) == m.t = "case"

CaseOK(d, b) ==
  /\ d.gen \in Nat /\ d.m.gen \in Nat /\ b.case \in Nat /\ b.case <= d.gen /\ d.gen <= d.m.gen
  /\ \A i \in 1..Len(d.link.tx) : IsCase(d.link.tx[i]) =>
       d.link.tx[i].case \in Nat /\ b.case <= d.link.tx[i].case /\ d.link.tx[i].case <= d.gen
  /\ \A i, j \in 1..Len(d.link.tx) : i < j /\ IsCase(d.link.tx[i]) /\ IsCase(d.link.tx[j]) =>
       d.link.tx[i].case <= d.link.tx[j].case
  /\ \A i \in 1..Len(d.link.callbacks) :
       d.link.callbacks[i].t = "link" \/ IsAnswer(b, d.link.callbacks[i])
  /\ \A i \in 1..Len(d.inbox) : IsAnswer(b, d.inbox[i])

DeviceOK(d, b) ==
  /\ HasFields(d) /\ StoreOK(d) /\ ReplayOK(d)
  /\ LinkType(d.link) /\ LinkOK(d.link) /\ ReadyOK(d)
  /\ PathOK(d, b) /\ SentOK(d, b) /\ CaseOK(d, b)

\* What a handler of the task may do between a device z and a device d: it
\* keeps each complete recording or knows that the Bridge has it, and it
\* leaves the case or asks for mediation only when the Bridge has them all.
Covered(b, z, x) == b.case = z.gen /\ IsStored(b, Seg(z, x), Slot(z, x).bytes)

AllCovered(b, z) == \A x \in CompleteSlots(z.store) : Covered(b, z, x)

StillHeld(z, d, x) ==
  /\ Slot(d, x).state = "complete"
  /\ Seg(d, x) = Seg(z, x) /\ Slot(d, x).bytes = Slot(z, x).bytes

Keeps(z, d, b) ==
  /\ \A x \in CompleteSlots(z.store) : StillHeld(z, d, x) \/ Covered(b, z, x)
  /\ d.gen # z.gen \/ d.asked # z.asked => AllCovered(b, z)

\* The device d, which a handler has made of z, is as it should be.
Good(z, d, b) == DeviceOK(d, b) /\ Keeps(z, d, b)

----------------------------------------------------------------------------
(* What a handler does to a device, one small step at a time.              *)

\* All but the named fields.
SameStore(d, e) == e.store = d.store /\ e.active = d.active /\ e.begun = d.begun
SameReplay(d, e) == e.replay = d.replay /\ e.ledger = d.ledger
SameConn(d, e) ==
  e.ready = d.ready /\ e.open = d.open /\ e.last = d.last /\ e.inbox = d.inbox
SameCase(d, e) == e.gen = d.gen /\ e.asked = d.asked /\ e.m.gen = d.m.gen
SameFields(d, e) == DOMAIN e = DOMAIN d /\ DOMAIN e.m = DOMAIN d.m

Same(d, e) ==
  /\ SameStore(d, e) /\ SameReplay(d, e) /\ SameConn(d, e) /\ SameFields(d, e)
  /\ e.gen = d.gen /\ e.asked = d.asked /\ e.link = d.link

LEMMA StaysSame ==
  ASSUME NEW z, NEW d, NEW e, NEW b, Good(z, d, b), Same(d, e),
         e.m.gen \in Nat, d.m.gen <= e.m.gen
  PROVE  Good(z, e, b)
<1>1. HasFields(e)
  BY DEF Same, SameStore, SameReplay, SameConn, SameFields, Good, DeviceOK, HasFields
<1>2. StoreOK(e)
  BY DEF Same, SameStore, Good, DeviceOK, StoreOK, SlotOK, InUse, Seg, Slot
<1>3. ReplayOK(e)
  BY DEF Same, SameStore, SameReplay, SameConn, Good, DeviceOK, ReplayOK, Replaying, Seg, Slot
<1>4. LinkType(e.link) /\ LinkOK(e.link) /\ ReadyOK(e)
  BY DEF Same, SameConn, Good, DeviceOK, ReadyOK
<1>5. PathOK(e, b)
  BY DEF Same, Good, DeviceOK, PathOK
<1>6. SentOK(e, b)
  BY DEF Same, SameStore, SameReplay, SameConn, Good, DeviceOK, SentOK, InFlight, WasEnded, InUse,
     Seg, Slot
<1>7. CaseOK(e, b)
  BY DEF Same, SameConn, Good, DeviceOK, CaseOK
<1>8. Keeps(z, e, b)
  BY DEF Same, SameStore, Good, Keeps, StillHeld, Seg, Slot
<1> QED BY <1>1, <1>2, <1>3, <1>4, <1>5, <1>6, <1>7, <1>8 DEF Good, DeviceOK

\* A recording that is being made may be dropped.
Shrinks(d, e) ==
  /\ {"slots", "next"} \subseteq DOMAIN e.store /\ DOMAIN e.store.slots = SlotIds
  /\ e.store.next = d.store.next /\ e.begun = d.begun
  /\ \A x \in SlotIds :
       \/ Slot(e, x) = Slot(d, x)
       \/ Slot(e, x) = FreeSlot /\ Slot(d, x).state = "recording"
  /\ e.active = NoSlot

Discards(d, e) ==
  /\ e.active = NoSlot /\ e.begun = d.begun
  /\ e.store = IF d.active = NoSlot THEN d.store ELSE AbortIncomplete(d.store, d.active)

LEMMA DiscardShrinks ==
  ASSUME NEW d, NEW e, HasFields(d), Discards(d, e)
  PROVE  Shrinks(d, e)
<1>1. CASE d.active = NoSlot
  BY <1>1 DEF Discards, Shrinks, HasFields, Slot
<1>2. CASE d.active # NoSlot /\ d.store.slots[d.active].state # "recording"
  BY <1>2 DEF Discards, Shrinks, HasFields, Slot, AbortIncomplete
<1>3. CASE d.active # NoSlot /\ d.store.slots[d.active].state = "recording"
  <2>1. e.store = [d.store EXCEPT !.slots[d.active] = FreeSlot]
    BY <1>3 DEF Discards, AbortIncomplete, Release
  <2>2. {"slots", "next"} \subseteq DOMAIN e.store /\ e.store.next = d.store.next
    BY <2>1 DEF HasFields
  <2>3. e.store.slots = [d.store.slots EXCEPT ![d.active] = FreeSlot]
    BY <2>1 DEF HasFields
  <2>4. \A x \in SlotIds : e.store.slots[x] = IF x = d.active THEN FreeSlot ELSE d.store.slots[x]
    BY <2>3 DEF HasFields
  <2> QED BY <1>3, <2>2, <2>3, <2>4 DEF Discards, Shrinks, Slot, HasFields
<1> QED BY <1>1, <1>2, <1>3

LEMMA StoreShrinks ==
  ASSUME NEW z, NEW d, NEW e, NEW b, StoreOK(d), Shrinks(d, e)
  PROVE  /\ StoreOK(e)
         /\ \A x \in SlotIds :
              {"state", "ordinal", "bytes", "meta", "quarantined"} \subseteq DOMAIN d.store.slots[x]
                => {"state", "ordinal", "bytes", "meta", "quarantined"} \subseteq DOMAIN e.store.slots[x]
         /\ \A x \in SlotIds : Slot(d, x).state = "complete" => Slot(e, x) = Slot(d, x)
         /\ \A x \in SlotIds : InUse(e, x) => Slot(e, x) = Slot(d, x) /\ InUse(d, x)
         /\ \A x \in CompleteSlots(z.store) : StillHeld(z, d, x) => StillHeld(z, e, x)
<1>1. FreeSlot.state = "free" /\ FreeSlot.bytes = 0
  BY DEF FreeSlot
<1>2. \A x \in SlotIds : Slot(d, x).state = "complete" => Slot(e, x) = Slot(d, x)
  BY DEF Shrinks
<1>3. \A x \in SlotIds : InUse(e, x) => Slot(e, x) = Slot(d, x) /\ InUse(d, x)
  BY <1>1 DEF Shrinks, InUse
<1>4. \A x \in SlotIds :
        {"state", "ordinal", "bytes", "meta", "quarantined"} \subseteq DOMAIN d.store.slots[x]
          => {"state", "ordinal", "bytes", "meta", "quarantined"} \subseteq DOMAIN e.store.slots[x]
  BY DEF Shrinks, Slot, FreeSlot
<1>5. StoreOK(e)
  <2>1. \A x \in SlotIds : SlotOK(e, x)
    <3> TAKE x \in SlotIds
    <3>1. CASE Slot(e, x) = Slot(d, x)
      BY <3>1 DEF StoreOK, SlotOK, InUse, Seg, Shrinks
    <3>2. CASE Slot(e, x) = FreeSlot
      BY <3>2, <1>1 DEF SlotOK, InUse
    <3> QED BY <3>1, <3>2 DEF Shrinks
  <2>2. \A x, y \in SlotIds : InUse(e, x) /\ InUse(e, y) /\ Seg(e, x) = Seg(e, y) => x = y
    BY <1>3 DEF StoreOK, Seg
  <2> QED BY <2>1, <2>2 DEF StoreOK, Shrinks
<1>6. \A x \in CompleteSlots(z.store) : StillHeld(z, d, x) => StillHeld(z, e, x)
  BY <1>2 DEF StillHeld, Seg, CompleteSlots
<1> QED BY <1>2, <1>3, <1>4, <1>5, <1>6

\* agent_link_stop leaves nothing of the connection.
LEMMA LinkStops ==
  ASSUME NEW d, HasFields(d), LinkType(d.link)
  PROVE  LET l == StopLink(d.link) IN
         /\ DOMAIN l = DOMAIN d.link /\ LinkType(l) /\ LinkOK(l)
         /\ l.usable = FALSE /\ l.tx = <<>> /\ l.callbacks = <<>> /\ l.asr = FALSE
<1> DEFINE k == d.link
           q == IF k.told = "none" THEN k ELSE Notify(k, k.told)
           l == StopLink(k)
<1>1. /\ DOMAIN q = DOMAIN k /\ q.told = "none"
      /\ {q.seen, q.fresh} \subseteq BOOLEAN
  <2>1. CASE k.told = "none"
    BY <2>1 DEF LinkType
  <2>2. CASE k.told # "none"
    <3>1. q = Notify(k, k.told)
      BY <2>2
    <3>2. DOMAIN q = DOMAIN k /\ q.told = "none" /\ q.fresh = TRUE
      BY <3>1 DEF Notify, HasFields
    <3>3. q.seen = (k.seen \/ k.told = "disconnected")
      BY <3>1 DEF Notify, HasFields
    <3> QED BY <3>2, <3>3
  <2> QED BY <2>1, <2>2
<1>2. l = [LostLink(q) EXCEPT !.callbacks = <<>>, !.announced = FALSE, !.asr = FALSE,
                               !.core = "disconnected"]
  BY DEF StopLink
<1> HIDE DEF q
<1>3. /\ DOMAIN l = DOMAIN k /\ l.usable = FALSE /\ l.stream = NoStream /\ l.tx = <<>>
      /\ l.callbacks = <<>> /\ l.announced = FALSE /\ l.asr = FALSE /\ l.core = "disconnected"
      /\ l.told = q.told /\ l.seen = q.seen /\ l.fresh = q.fresh
  BY <1>1, <1>2 DEF LostLink, HasFields
<1> HIDE DEF l
<1>4. LinkType(l)
  BY <1>1, <1>3, SeqEmpty DEF LinkType
<1>5. LinkOK(l)
  BY <1>1, <1>3, SeqEmpty DEF LinkOK
<1> QED BY <1>3, <1>4, <1>5 DEF l

Restarts(d, e) ==
  /\ Discards(d, e) /\ SameCase(d, e) /\ SameFields(d, e)
  /\ e.replay = NoReplay /\ e.ledger = EmptyLedger
  /\ e.ready = FALSE /\ e.open = FALSE /\ e.inbox = <<>>
  /\ e.link = StopLink(d.link)

\* Nothing is on its way once the link has been stopped.
LEMMA LinkRestarts ==
  ASSUME NEW z, NEW d, NEW e, NEW b, Good(z, d, b), Restarts(d, e)
  PROVE  Good(z, e, b)
<1> USE DEF Restarts
<1>0. HasFields(d) /\ StoreOK(d) /\ LinkType(d.link) /\ CaseOK(d, b) /\ Keeps(z, d, b)
  BY DEF Good, DeviceOK
<1>1. Shrinks(d, e)
  BY <1>0, DiscardShrinks
<1>2. /\ StoreOK(e)
      /\ \A x \in SlotIds : {"state", "ordinal", "bytes", "meta", "quarantined"} \subseteq DOMAIN e.store.slots[x]
      /\ \A x \in CompleteSlots(z.store) : StillHeld(z, d, x) => StillHeld(z, e, x)
  BY <1>0, <1>1, StoreShrinks DEF HasFields
<1>3. /\ DOMAIN e.link = DOMAIN d.link /\ LinkType(e.link) /\ LinkOK(e.link)
      /\ e.link.usable = FALSE /\ e.link.tx = <<>> /\ e.link.callbacks = <<>> /\ e.link.asr = FALSE
  BY <1>0, LinkStops
<1>4. e.replay.active = FALSE /\ {"active", "slot", "ordinal", "offset", "total"} \subseteq DOMAIN e.replay
  BY DEF NoReplay
<1>5. HasFields(e)
  BY <1>0, <1>1, <1>2, <1>3, <1>4 DEF HasFields, SameFields, Shrinks, EmptyLedger
<1>6. ReplayOK(e)
  BY <1>3, <1>4 DEF ReplayOK
<1>7. ReadyOK(e)
  <2>1. e.ready = FALSE /\ e.open = e.ready /\ IsSeq(e.inbox) /\ e.inbox = <<>>
    BY SeqEmpty
  <2>2. \A i \in 1..Len(e.link.callbacks) : e.link.callbacks[i].t # "durable"
    BY <1>3, SeqEmpty
  <2> QED BY <2>1, <2>2, <1>3 DEF ReadyOK
<1>8. PathOK(e, b)
  BY <1>3 DEF PathOK
<1>9. SentOK(e, b)
  BY <1>3, SeqEmpty DEF SentOK, InFlight
<1>10. CaseOK(e, b)
  BY <1>0, <1>3, SeqEmpty DEF CaseOK, SameCase
<1>11. Keeps(z, e, b)
  BY <1>0, <1>2 DEF Keeps, SameCase
<1> QED BY <1>2, <1>3, <1>5, <1>6, <1>7, <1>8, <1>9, <1>10, <1>11 DEF Good, DeviceOK

\* A recording that is being made is dropped.
Drops(d, e) ==
  /\ Shrinks(d, e) /\ SameReplay(d, e) /\ SameConn(d, e) /\ SameCase(d, e) /\ SameFields(d, e)
  /\ e.link = d.link

LEMMA RecordingDrops ==
  ASSUME NEW z, NEW d, NEW e, NEW b, Good(z, d, b), Drops(d, e)
  PROVE  Good(z, e, b)
<1> USE DEF Drops
<1>0. DeviceOK(d, b) /\ Keeps(z, d, b) /\ HasFields(d) /\ StoreOK(d)
  BY DEF Good, DeviceOK
<1>1. Shrinks(d, e)
  OBVIOUS
<1>2. /\ StoreOK(e)
      /\ \A x \in SlotIds : {"state", "ordinal", "bytes", "meta", "quarantined"} \subseteq DOMAIN e.store.slots[x]
      /\ \A x \in SlotIds : Slot(d, x).state = "complete" => Slot(e, x) = Slot(d, x)
      /\ \A x \in SlotIds : InUse(e, x) => Slot(e, x) = Slot(d, x) /\ InUse(d, x)
      /\ \A x \in CompleteSlots(z.store) : StillHeld(z, d, x) => StillHeld(z, e, x)
  BY <1>0, <1>1, StoreShrinks DEF HasFields
<1>5. HasFields(e)
  BY <1>0, <1>1, <1>2 DEF HasFields, SameFields, SameReplay, Shrinks
<1>6. ReplayOK(e)
  BY <1>0, <1>1, <1>2 DEF DeviceOK, ReplayOK, Replaying, SameReplay, SameConn, Shrinks, Seg
<1>7. LinkType(e.link) /\ LinkOK(e.link) /\ ReadyOK(e)
  BY <1>0 DEF DeviceOK, ReadyOK, SameConn
<1>8. PathOK(e, b)
  BY <1>0 DEF DeviceOK, PathOK
<1>9. SentOK(e, b)
  <2>1. \A s \in Segments : InFlight(e, b, s) => InFlight(d, b, s)
    BY DEF InFlight, SameConn
  <2>2. \A s : WasEnded(d, s) => WasEnded(e, s)
    BY <1>2 DEF WasEnded, SameReplay, Seg
  <2> QED BY <2>1, <2>2, <1>0, <1>1 DEF DeviceOK, SentOK, SameConn, Shrinks
<1>10. CaseOK(e, b)
  BY <1>0 DEF DeviceOK, CaseOK, SameCase, SameConn
<1>11. Keeps(z, e, b)
  BY <1>0, <1>2 DEF Keeps, SameCase
<1> QED BY <1>2, <1>5, <1>6, <1>7, <1>8, <1>9, <1>10, <1>11 DEF Good, DeviceOK

\* MarkLocallyComplete: nothing of the new recording has been sent.
Completes(d, e) ==
  /\ d.active # NoSlot /\ CanComplete(d.store, d.active)
  /\ e.store = MarkLocallyComplete(d.store, d.active) /\ e.active = NoSlot /\ e.begun = d.begun
  /\ SameReplay(d, e) /\ SameConn(d, e) /\ SameCase(d, e) /\ SameFields(d, e)
  /\ e.link = d.link

LEMMA RecordingCompletes ==
  ASSUME NEW z, NEW d, NEW e, NEW b, Good(z, d, b), Completes(d, e)
  PROVE  Good(z, e, b)
<1> USE DEF Completes
<1>0. DeviceOK(d, b) /\ Keeps(z, d, b) /\ HasFields(d) /\ StoreOK(d) /\ ReplayOK(d)
  BY DEF Good, DeviceOK
<1>1. d.active \in SlotIds /\ Slot(d, d.active).state = "recording" /\ Slot(d, d.active).bytes # 0
  BY <1>0 DEF StoreOK, CanComplete, Slot
<1>2. /\ {"slots", "next"} \subseteq DOMAIN e.store /\ DOMAIN e.store.slots = SlotIds
      /\ e.store.next = d.store.next
      /\ \A x \in SlotIds \ {d.active} : Slot(e, x) = Slot(d, x)
      /\ Slot(e, d.active) = [Slot(d, d.active) EXCEPT !.state = "complete", !.quarantined = FALSE]
  BY <1>0, <1>1 DEF HasFields, MarkLocallyComplete, Slot
<1>3. LET y == Slot(e, d.active) IN
      /\ y.state = "complete" /\ y.bytes = Slot(d, d.active).bytes
      /\ y.ordinal = Slot(d, d.active).ordinal /\ y.meta = Slot(d, d.active).meta
      /\ DOMAIN y = DOMAIN Slot(d, d.active)
  BY <1>0, <1>1, <1>2 DEF HasFields, Slot
<1>4. \A x \in SlotIds : /\ Seg(e, x) = Seg(d, x) /\ Slot(e, x).bytes = Slot(d, x).bytes
                         /\ Slot(e, x).ordinal = Slot(d, x).ordinal
                         /\ InUse(e, x) <=> InUse(d, x)
                         /\ DOMAIN Slot(e, x) = DOMAIN Slot(d, x)
                         /\ Slot(d, x).state = "complete" => Slot(e, x).state = "complete"
  BY <1>1, <1>2, <1>3 DEF Seg, InUse
<1>5. HasFields(e)
  BY <1>0, <1>2, <1>4 DEF HasFields, SameFields, SameReplay, Slot
<1>6. StoreOK(e)
  <2>1. \A x \in SlotIds : SlotOK(e, x)
    <3> TAKE x \in SlotIds
    <3>1. CASE x = d.active
      BY <3>1, <1>0, <1>1, <1>3, <1>4 DEF StoreOK, SlotOK, InUse
    <3>2. CASE x # d.active
      BY <3>2, <1>0, <1>2, <1>4 DEF StoreOK, SlotOK, InUse
    <3> QED BY <3>1, <3>2
  <2> QED BY <2>1, <1>0, <1>2, <1>4 DEF StoreOK
<1>7. ReplayOK(e)
  BY <1>0 DEF ReplayOK, Replaying, SameReplay
<1>8. LinkType(e.link) /\ LinkOK(e.link) /\ ReadyOK(e)
  BY <1>0 DEF DeviceOK, ReadyOK, SameConn
<1>9. PathOK(e, b)
  BY <1>0 DEF DeviceOK, PathOK
<1>10. SentOK(e, b)
  <2>1. \A s : InFlight(e, b, s) => InFlight(d, b, s)
    BY DEF InFlight, SameConn
  <2>2. \A s : WasEnded(d, s) => WasEnded(e, s)
    BY <1>1, <1>4 DEF WasEnded, SameReplay
  <2> QED BY <2>1, <2>2, <1>0 DEF DeviceOK, SentOK, SameConn
<1>11. CaseOK(e, b)
  BY <1>0 DEF DeviceOK, CaseOK, SameCase, SameConn
<1>12. Keeps(z, e, b)
  <2>1. \A x \in CompleteSlots(z.store) : StillHeld(z, d, x) => StillHeld(z, e, x)
    BY <1>4 DEF StillHeld, CompleteSlots
  <2> QED BY <2>1, <1>0 DEF Keeps, SameCase
<1> QED BY <1>5, <1>6, <1>7, <1>8, <1>9, <1>10, <1>11, <1>12 DEF Good, DeviceOK

\* Append: a frame more of the recording that is being made.
Captures(d, e) ==
  /\ d.active # NoSlot
  /\ e.store = AppendFrame(d.store, d.active) /\ e.active = d.active /\ e.begun = d.begun
  /\ SameReplay(d, e) /\ SameConn(d, e) /\ SameCase(d, e) /\ SameFields(d, e)
  /\ e.link = d.link

LEMMA FrameCaptured ==
  ASSUME NEW z, NEW d, NEW e, NEW b, Good(z, d, b), Captures(d, e)
  PROVE  Good(z, e, b)
<1> USE DEF Captures
<1>0. DeviceOK(d, b) /\ Keeps(z, d, b) /\ HasFields(d) /\ StoreOK(d) /\ ReplayOK(d)
  BY DEF Good, DeviceOK
<1>1. d.active \in SlotIds /\ Slot(d, d.active).state = "recording"
  BY <1>0 DEF StoreOK, Slot
<1>2. /\ {"slots", "next"} \subseteq DOMAIN e.store /\ DOMAIN e.store.slots = SlotIds
      /\ e.store.next = d.store.next
      /\ \A x \in SlotIds \ {d.active} : Slot(e, x) = Slot(d, x)
      /\ Slot(e, d.active) = [Slot(d, d.active) EXCEPT !.bytes = @ + 1]
  BY <1>0, <1>1 DEF HasFields, AppendFrame, Slot
<1>3. LET y == Slot(e, d.active) IN
      /\ y.state = "recording" /\ y.bytes = Slot(d, d.active).bytes + 1
      /\ y.ordinal = Slot(d, d.active).ordinal /\ y.meta = Slot(d, d.active).meta
      /\ DOMAIN y = DOMAIN Slot(d, d.active)
  BY <1>0, <1>1, <1>2 DEF HasFields, Slot
<1>4. \A x \in SlotIds : /\ Seg(e, x) = Seg(d, x) /\ Slot(e, x).state = Slot(d, x).state
                         /\ Slot(e, x).ordinal = Slot(d, x).ordinal
                         /\ DOMAIN Slot(e, x) = DOMAIN Slot(d, x)
                         /\ Slot(d, x).state = "complete" => Slot(e, x) = Slot(d, x)
                         /\ Slot(e, x).bytes \in Nat
                         /\ InUse(e, x) <=> InUse(d, x)
  <2> TAKE x \in SlotIds
  <2>0. Slot(d, x).bytes \in Nat
    BY <1>0 DEF StoreOK, SlotOK
  <2>1. CASE x = d.active
    BY <2>0, <2>1, <1>1, <1>3 DEF Seg, InUse
  <2>2. CASE x # d.active
    BY <2>0, <2>2, <1>2 DEF Seg, InUse
  <2> QED BY <2>1, <2>2
<1>5. HasFields(e)
  BY <1>0, <1>2, <1>4 DEF HasFields, SameFields, SameReplay, Slot
<1>6. StoreOK(e)
  <2>1. \A x \in SlotIds : SlotOK(e, x)
    BY <1>0, <1>4 DEF StoreOK, SlotOK
  <2> QED BY <2>1, <1>0, <1>2, <1>4 DEF StoreOK
<1>7. ReplayOK(e)
  BY <1>0 DEF ReplayOK, Replaying, SameReplay
<1>8. LinkType(e.link) /\ LinkOK(e.link) /\ ReadyOK(e)
  BY <1>0 DEF DeviceOK, ReadyOK, SameConn
<1>9. PathOK(e, b)
  BY <1>0 DEF DeviceOK, PathOK
<1>10. SentOK(e, b)
  <2>1. \A s : InFlight(e, b, s) => InFlight(d, b, s)
    BY DEF InFlight, SameConn
  <2>2. \A s : WasEnded(d, s) => WasEnded(e, s)
    BY <1>4 DEF WasEnded, SameReplay
  <2> QED BY <2>1, <2>2, <1>0 DEF DeviceOK, SentOK, SameConn
<1>11. CaseOK(e, b)
  BY <1>0 DEF DeviceOK, CaseOK, SameCase, SameConn
<1>12. Keeps(z, e, b)
  <2>1. \A x \in CompleteSlots(z.store) : StillHeld(z, d, x) => StillHeld(z, e, x)
    BY <1>4 DEF StillHeld, CompleteSlots, Seg
  <2> QED BY <2>1, <1>0 DEF Keeps, SameCase
<1> QED BY <1>5, <1>6, <1>7, <1>8, <1>9, <1>10, <1>11, <1>12 DEF Good, DeviceOK

\* A recording takes its number before it takes a slot.
Numbers(d, e) ==
  /\ e.store = d.store /\ e.active = d.active /\ e.begun = d.begun + 1
  /\ SameReplay(d, e) /\ SameConn(d, e) /\ SameCase(d, e) /\ SameFields(d, e)
  /\ e.link = d.link

LEMMA RecordingNumbered ==
  ASSUME NEW z, NEW d, NEW e, NEW b, Good(z, d, b), Numbers(d, e)
  PROVE  Good(z, e, b)
<1> USE DEF Numbers
<1>0. DeviceOK(d, b) /\ Keeps(z, d, b) /\ HasFields(d) /\ StoreOK(d) /\ ReplayOK(d)
  BY DEF Good, DeviceOK
<1>1. HasFields(e)
  BY <1>0 DEF HasFields, SameFields, SameReplay
<1>2. StoreOK(e)
  <2>1. \A x \in SlotIds : SlotOK(e, x)
    BY <1>0 DEF StoreOK, SlotOK, Slot, InUse, Seg
  <2> QED BY <2>1, <1>0 DEF StoreOK, Slot, InUse, Seg
<1>3. ReplayOK(e)
  BY <1>0 DEF ReplayOK, Replaying, SameReplay, SameConn, Slot, Seg
<1>4. LinkType(e.link) /\ LinkOK(e.link) /\ ReadyOK(e)
  BY <1>0 DEF DeviceOK, ReadyOK, SameConn
<1>5. PathOK(e, b)
  BY <1>0 DEF DeviceOK, PathOK
<1>6. SentOK(e, b)
  <2>1. \A s : InFlight(e, b, s) => InFlight(d, b, s)
    BY DEF InFlight, SameConn
  <2>2. \A s : WasEnded(d, s) => WasEnded(e, s)
    BY DEF WasEnded, SameReplay, Slot, InUse, Seg
  <2>3. \A s \in Segments : s \in Nat
    BY SegmentsAssumption
  <2>4. \A s \in Segments : s <= d.begun => s <= e.begun
    BY <1>0, <2>3 DEF StoreOK
  <2> QED BY <2>1, <2>2, <2>4, <1>0 DEF DeviceOK, SentOK, SameConn
<1>7. CaseOK(e, b)
  BY <1>0 DEF DeviceOK, CaseOK, SameCase, SameConn
<1>8. Keeps(z, e, b)
  BY <1>0 DEF Keeps, SameCase, StillHeld, Slot, Seg
<1> QED BY <1>1, <1>2, <1>3, <1>4, <1>5, <1>6, <1>7, <1>8 DEF Good, DeviceOK

LEMMA FirstFreeIsFree ==
  ASSUME NEW d, HasFreeSlot(d.store)
  PROVE  FirstFree(d.store) \in SlotIds /\ Slot(d, FirstFree(d.store)).state = "free"
<1>1. FreeSlots(d.store) \in SUBSET Nat /\ FreeSlots(d.store) # {}
  BY SlotsAssumption DEF FreeSlots, HasFreeSlot
<1>2. \E s \in FreeSlots(d.store) : \A t \in FreeSlots(d.store) : s <= t
  BY <1>1, LeastOfNaturals
<1>3. FirstFree(d.store) \in FreeSlots(d.store)
  BY <1>2 DEF FirstFree
<1> QED BY <1>3 DEF FreeSlots, Slot

\* Begin: the recording is new, so nothing of it is on its way.
Begins(d, e, meta) ==
  /\ HasFreeSlot(d.store) /\ d.active = NoSlot /\ ~d.replay.active
  /\ meta.seg = d.begun + 1 /\ meta.seg \in Segments
  /\ e.store = BeginSlot(d.store, meta) /\ e.begun = d.begun + 1
  /\ e.active \in {NoSlot, FirstFree(d.store)}
  /\ SameReplay(d, e) /\ SameConn(d, e) /\ SameCase(d, e) /\ SameFields(d, e)
  /\ e.link = d.link

LEMMA RecordingBegins ==
  ASSUME NEW z, NEW d, NEW e, NEW b, NEW meta, Good(z, d, b), Begins(d, e, meta)
  PROVE  Good(z, e, b) /\ Slot(e, FirstFree(d.store)).state = "recording"
<1> DEFINE f == FirstFree(d.store)
<1> USE DEF Begins
<1>0. /\ DeviceOK(d, b) /\ Keeps(z, d, b) /\ HasFields(d) /\ StoreOK(d) /\ ReplayOK(d)
      /\ SentOK(d, b) /\ d.begun \in Nat /\ d.store.next \in Nat \ {0}
  BY DEF Good, DeviceOK, StoreOK
<1>1. f \in SlotIds /\ Slot(d, f).state = "free"
  BY FirstFreeIsFree
<1>2. /\ {"slots", "next"} \subseteq DOMAIN e.store /\ DOMAIN e.store.slots = SlotIds
      /\ e.store.next = d.store.next + 1
      /\ \A x \in SlotIds \ {f} : Slot(e, x) = Slot(d, x)
      /\ Slot(e, f) = [Slot(d, f) EXCEPT !.state = "recording", !.bytes = 0, !.meta = meta,
                                         !.ordinal = d.store.next]
  <2>1. /\ DOMAIN e.store = {"slots", "next"} /\ e.store.next = d.store.next + 1
        /\ e.store.slots = [d.store.slots EXCEPT ![f] =
             [@ EXCEPT !.state = "recording", !.bytes = 0, !.meta = meta, !.ordinal = d.store.next]]
    BY DEF BeginSlot
  <2>2. DOMAIN d.store.slots = SlotIds /\ f \in SlotIds
    BY <1>0, <1>1 DEF HasFields
  <2> HIDE DEF f, Begins
  <2> QED BY <2>1, <2>2 DEF Slot
<1>3. /\ Slot(e, f).state = "recording" /\ Slot(e, f).bytes = 0
      /\ Slot(e, f).ordinal = d.store.next /\ Slot(e, f).meta = meta
      /\ DOMAIN Slot(e, f) = DOMAIN Slot(d, f)
  BY <1>0, <1>1, <1>2 DEF HasFields, Slot
<1> HIDE DEF f
<1>4. \A x \in SlotIds : DOMAIN Slot(e, x) = DOMAIN Slot(d, x)
  BY <1>2, <1>3
<1>5. HasFields(e)
  BY <1>0, <1>2, <1>4 DEF HasFields, SameFields, SameReplay, Slot
<1>6. \A x \in SlotIds \ {f} : InUse(d, x) => Seg(d, x) \in Nat /\ Seg(d, x) <= d.begun
  BY <1>0 DEF StoreOK, SlotOK
<1>7. StoreOK(e)
  <2>1. \A x \in SlotIds : SlotOK(e, x)
    <3> TAKE x \in SlotIds
    <3>1. CASE x = f
      BY <3>1, <1>0, <1>3 DEF SlotOK, InUse, Seg
    <3>2. CASE x # f
      <4>1. SlotOK(d, x) /\ Slot(e, x) = Slot(d, x)
        BY <3>2, <1>0, <1>2 DEF StoreOK
      <4> QED BY <4>1, <1>0 DEF SlotOK, InUse, Seg
    <3> QED BY <3>1, <3>2
  <2>2. \A x, y \in SlotIds : InUse(e, x) /\ InUse(e, y) /\ Seg(e, x) = Seg(e, y) => x = y
    <3>1. \A x \in SlotIds \ {f} : InUse(e, x) => InUse(d, x) /\ Seg(e, x) = Seg(d, x)
                                                  /\ Seg(e, x) # d.begun + 1
      BY <1>0, <1>2, <1>6 DEF InUse, Seg
    <3>2. Seg(e, f) = d.begun + 1
      BY <1>3 DEF Seg
    <3> QED BY <3>1, <3>2, <1>0 DEF StoreOK
  <2>3. e.active # NoSlot => e.active \in SlotIds /\ Slot(e, e.active).state = "recording"
    BY <1>1, <1>3 DEF f
  <2>4. e.store.next \in Nat \ {0} /\ e.begun \in Nat
    BY <1>0, <1>2
  <2> QED BY <2>1, <2>2, <2>3, <2>4 DEF StoreOK
<1>8. ReplayOK(e)
  BY <1>0 DEF ReplayOK, SameReplay
<1>9. LinkType(e.link) /\ LinkOK(e.link) /\ ReadyOK(e)
  BY <1>0 DEF DeviceOK, ReadyOK, SameConn
<1>10. PathOK(e, b)
  BY <1>0 DEF DeviceOK, PathOK
<1>11. SentOK(e, b)
  <2> SUFFICES ASSUME NEW s \in Segments, InFlight(e, b, s)
               PROVE  s <= e.begun /\ WasEnded(e, s)
    BY <1>0 DEF SentOK, SameConn
  <2>1. InFlight(d, b, s)
    BY DEF InFlight, SameConn
  <2>2. s \in Nat /\ s <= d.begun /\ WasEnded(d, s)
    BY <2>1, <1>0, SegmentsAssumption DEF SentOK
  <2>3. Seg(e, f) # s
    BY <2>2, <1>0, <1>3 DEF Seg
  <2>4. WasEnded(e, s)
    <3> SUFFICES ASSUME NEW x \in SlotIds, InUse(e, x), Seg(e, x) = s
                 PROVE  Slot(e, x).state = "complete" /\ e.ledger[x] = Slot(e, x).ordinal
      BY DEF WasEnded
    <3>1. x # f /\ Slot(e, x) = Slot(d, x)
      BY <2>3, <1>2
    <3>2. InUse(d, x) /\ Seg(d, x) = s
      BY <3>1 DEF InUse, Seg
    <3> QED BY <3>1, <3>2, <2>2 DEF WasEnded, SameReplay
  <2> QED BY <2>2, <2>4, <1>0
<1>12. CaseOK(e, b)
  BY <1>0 DEF DeviceOK, CaseOK, SameCase, SameConn
<1>13. Keeps(z, e, b)
  <2>1. \A x \in CompleteSlots(z.store) : StillHeld(z, d, x) => StillHeld(z, e, x)
    BY <1>1, <1>2 DEF StillHeld, CompleteSlots, Seg
  <2> QED BY <2>1, <1>0 DEF Keeps, SameCase
<1> QED BY <1>3, <1>5, <1>7, <1>8, <1>9, <1>10, <1>11, <1>12, <1>13 DEF Good, DeviceOK, f

\* QuarantineComplete: the slot, if it is one, holds what it held.
Shelves(d, e, x) ==
  /\ e.store = QuarantineComplete(d.store, x) /\ e.active = d.active /\ e.begun = d.begun
  /\ SameReplay(d, e) /\ SameConn(d, e) /\ SameCase(d, e) /\ SameFields(d, e)
  /\ e.link = d.link

LEMMA RecordingShelved ==
  ASSUME NEW z, NEW d, NEW e, NEW b, NEW x, Good(z, d, b), Shelves(d, e, x)
  PROVE  Good(z, e, b)
<1> USE DEF Shelves
<1>0. /\ DeviceOK(d, b) /\ Keeps(z, d, b) /\ HasFields(d) /\ StoreOK(d) /\ ReplayOK(d)
  BY DEF Good, DeviceOK, StoreOK
<1>1. /\ {"slots", "next"} \subseteq DOMAIN e.store /\ DOMAIN e.store.slots = SlotIds
      /\ e.store.next = d.store.next
      /\ \A y \in SlotIds : \/ Slot(e, y) = Slot(d, y)
                            \/ Slot(e, y) = [Slot(d, y) EXCEPT !.quarantined = TRUE]
  BY <1>0 DEF HasFields, QuarantineComplete, Slot
<1>2. \A y \in SlotIds : /\ Slot(e, y).state = Slot(d, y).state
                         /\ Slot(e, y).bytes = Slot(d, y).bytes
                         /\ Slot(e, y).ordinal = Slot(d, y).ordinal
                         /\ Slot(e, y).meta = Slot(d, y).meta
                         /\ DOMAIN Slot(e, y) = DOMAIN Slot(d, y)
  BY <1>0, <1>1 DEF HasFields, Slot
<1>3. HasFields(e)
  BY <1>0, <1>1, <1>2 DEF HasFields, SameFields, SameReplay, Slot
<1>4. StoreOK(e)
  <2>1. \A y \in SlotIds : SlotOK(e, y)
    BY <1>0, <1>2 DEF StoreOK, SlotOK, InUse, Seg
  <2> QED BY <2>1, <1>0, <1>1, <1>2 DEF StoreOK, InUse, Seg
<1>5. ReplayOK(e)
  BY <1>0, <1>2 DEF ReplayOK, Replaying, SameReplay, SameConn, Seg
<1>6. LinkType(e.link) /\ LinkOK(e.link) /\ ReadyOK(e)
  BY <1>0 DEF DeviceOK, ReadyOK, SameConn
<1>7. PathOK(e, b)
  BY <1>0 DEF DeviceOK, PathOK
<1>8. SentOK(e, b)
  <2>1. \A s : InFlight(e, b, s) => InFlight(d, b, s)
    BY DEF InFlight, SameConn
  <2>2. \A s : WasEnded(d, s) => WasEnded(e, s)
    BY <1>2 DEF WasEnded, SameReplay, InUse, Seg
  <2> QED BY <2>1, <2>2, <1>0 DEF DeviceOK, SentOK, SameConn
<1>9. CaseOK(e, b)
  BY <1>0 DEF DeviceOK, CaseOK, SameCase, SameConn
<1>10. Keeps(z, e, b)
  <2>1. \A y \in CompleteSlots(z.store) : StillHeld(z, d, y) => StillHeld(z, e, y)
    BY <1>2 DEF StillHeld, CompleteSlots, Seg
  <2> QED BY <2>1, <1>0 DEF Keeps, SameCase
<1> QED BY <1>3, <1>4, <1>5, <1>6, <1>7, <1>8, <1>9, <1>10 DEF Good, DeviceOK

\* Release: what is freed is what the Bridge says it has.
Frees(d, e, b, x) ==
  /\ x \in SlotIds /\ Slot(d, x).state = "complete"
  /\ WasEnded(d, Seg(d, x)) /\ Covered(b, d, x)
  /\ e.store = Release(d.store, x) /\ e.active = d.active /\ e.begun = d.begun
  /\ SameReplay(d, e) /\ SameConn(d, e) /\ SameCase(d, e) /\ SameFields(d, e)
  /\ e.link = d.link

LEMMA RecordingFreed ==
  ASSUME NEW z, NEW d, NEW e, NEW b, NEW x, Good(z, d, b), Frees(d, e, b, x)
  PROVE  Good(z, e, b)
<1> USE DEF Frees
<1>0. /\ DeviceOK(d, b) /\ Keeps(z, d, b) /\ HasFields(d) /\ StoreOK(d) /\ ReplayOK(d)
  BY DEF Good, DeviceOK, StoreOK
<1>1. /\ {"slots", "next"} \subseteq DOMAIN e.store /\ DOMAIN e.store.slots = SlotIds
      /\ e.store.next = d.store.next
      /\ \A y \in SlotIds \ {x} : Slot(e, y) = Slot(d, y)
      /\ Slot(e, x) = FreeSlot
  BY <1>0 DEF HasFields, Release, Slot
<1>2. /\ ~InUse(e, x) /\ Slot(e, x).state = "free" /\ Slot(e, x).bytes = 0
      /\ {"state", "ordinal", "bytes", "meta", "quarantined"} \subseteq DOMAIN Slot(e, x)
  BY <1>1 DEF FreeSlot, InUse
<1>3. d.replay.active => d.replay.slot # x
  BY <1>0 DEF ReplayOK, Replaying, WasEnded, InUse
<1>4. HasFields(e)
  BY <1>0, <1>1, <1>2 DEF HasFields, SameFields, SameReplay, Slot
<1>5. StoreOK(e)
  <2>1. \A y \in SlotIds : SlotOK(e, y)
    <3> TAKE y \in SlotIds
    <3>1. CASE y = x
      BY <3>1, <1>2 DEF SlotOK
    <3>2. CASE y # x
      BY <3>2, <1>0, <1>1 DEF StoreOK, SlotOK, InUse, Seg
    <3> QED BY <3>1, <3>2
  <2>2. \A y \in SlotIds : InUse(e, y) => InUse(d, y) /\ Seg(e, y) = Seg(d, y)
    BY <1>1, <1>2 DEF InUse, Seg
  <2>3. d.active # NoSlot => d.active # x
    BY <1>0 DEF StoreOK
  <2> QED BY <2>1, <2>2, <2>3, <1>0, <1>1 DEF StoreOK
<1>6. ReplayOK(e)
  BY <1>0, <1>1, <1>3 DEF ReplayOK, Replaying, SameReplay, SameConn, Seg
<1>7. LinkType(e.link) /\ LinkOK(e.link) /\ ReadyOK(e)
  BY <1>0 DEF DeviceOK, ReadyOK, SameConn
<1>8. PathOK(e, b)
  BY <1>0 DEF DeviceOK, PathOK
<1>9. SentOK(e, b)
  <2>1. \A s : InFlight(e, b, s) => InFlight(d, b, s)
    BY DEF InFlight, SameConn
  <2>2. \A s : WasEnded(d, s) => WasEnded(e, s)
    BY <1>1, <1>2 DEF WasEnded, SameReplay, InUse, Seg
  <2> QED BY <2>1, <2>2, <1>0 DEF DeviceOK, SentOK, SameConn
<1>10. CaseOK(e, b)
  BY <1>0 DEF DeviceOK, CaseOK, SameCase, SameConn
<1>11. Keeps(z, e, b)
  <2>1. \A y \in CompleteSlots(z.store) : StillHeld(z, d, y) => StillHeld(z, e, y) \/ Covered(b, z, y)
    <3> SUFFICES ASSUME NEW y \in CompleteSlots(z.store), StillHeld(z, d, y)
                 PROVE  StillHeld(z, e, y) \/ Covered(b, z, y)
      OBVIOUS
    <3>1. CASE y # x
      BY <3>1, <1>1 DEF StillHeld, CompleteSlots, Seg
    <3>2. CASE y = x /\ d.gen = z.gen
      BY <3>2 DEF StillHeld, Covered
    <3>3. CASE d.gen # z.gen
      BY <3>3, <1>0 DEF Keeps, AllCovered
    <3> QED BY <3>1, <3>2, <3>3
  <2> QED BY <2>1, <1>0 DEF Keeps, SameCase
<1> QED BY <1>4, <1>5, <1>6, <1>7, <1>8, <1>9, <1>10, <1>11 DEF Good, DeviceOK

----------------------------------------------------------------------------
(* What is sent.                                                           *)

LEMMA PathGrows ==
  ASSUME NEW tx, NEW m, NEW c, NEW cur, IsSeq(tx), Fits(cur, tx, c), Allowed(c, m),
         After(c, m) \in Cursors
  PROVE  \E new : Fits(new, Append(tx, m), After(c, m)) /\ new[1] = cur[1]
<1> DEFINE n == Len(tx)
           new == [i \in 1..(n + 2) |-> IF i = n + 2 THEN After(c, m) ELSE cur[i]]
           longer == Append(tx, m)
<1>1. /\ n \in Nat /\ Len(longer) = n + 1 /\ \A i \in 1..n : longer[i] = tx[i]
      /\ longer[n + 1] = m
  BY SeqAppend DEF IsSeq
<1>2. /\ cur \in [1..(n + 1) -> Cursors] /\ cur[n + 1] = c
      /\ \A i \in 1..n : Allowed(cur[i], tx[i]) /\ cur[i + 1] = After(cur[i], tx[i])
  BY DEF Fits
<1> HIDE DEF n, longer
<1>3. \A i \in 1..(n + 1) : new[i] = cur[i] /\ i \in 1..(n + 2) /\ cur[i] \in Cursors
  <2> TAKE i \in 1..(n + 1)
  <2>1. i \in 1..(n + 2) /\ i # n + 2
    BY <1>1
  <2> QED BY <1>2, <2>1
<1>4. new[n + 2] = After(c, m) /\ n + 2 \in 1..(n + 2) /\ (n + 1) + 1 = n + 2 /\ n + 1 \in 1..(n + 1)
  BY <1>1
<1>5. \A i \in 1..(n + 2) : i = n + 2 \/ i \in 1..(n + 1)
  BY <1>1
<1>6. new \in [1..(n + 2) -> Cursors]
  <2>1. \A i \in 1..(n + 2) : new[i] \in Cursors
    BY <1>3, <1>4, <1>5
  <2>2. new = [i \in 1..(n + 2) |-> new[i]]
    OBVIOUS
  <2> HIDE DEF new
  <2> QED BY <2>1, <2>2
<1> HIDE DEF new
<1>7. \A i \in 1..(n + 1) : Allowed(new[i], longer[i]) /\ new[i + 1] = After(new[i], longer[i])
  <2> TAKE i \in 1..(n + 1)
  <2>1. CASE i = n + 1
    BY <2>1, <1>1, <1>2, <1>3, <1>4
  <2>2. CASE i # n + 1
    <3>1. i \in 1..n /\ i + 1 \in 1..(n + 1)
      BY <2>2, <1>1
    <3> QED BY <3>1, <1>1, <1>2, <1>3
  <2> QED BY <2>1, <2>2
<1>8. new[1] = cur[1]
  BY <1>1, <1>3
<1>9. (n + 1) + 1 = n + 2
  BY <1>1
<1>10. Fits(new, longer, After(c, m))
  BY <1>1, <1>4, <1>6, <1>7, <1>9 DEF Fits
<1> QED BY <1>8, <1>10 DEF longer

LEMMA PathPops ==
  ASSUME NEW tx, NEW c, NEW cur, IsSeq(tx), tx # <<>>, Fits(cur, tx, c)
  PROVE  /\ Allowed(cur[1], Head(tx)) /\ cur[1] \in Cursors
         /\ \E new : Fits(new, Tail(tx), c) /\ new[1] = After(cur[1], Head(tx))
<1> DEFINE n == Len(tx)
           new == [i \in 1..n |-> cur[i + 1]]
           rest == Tail(tx)
<1>1. n \in Nat /\ 1 \in 1..n /\ n \in 1..n /\ n - 1 \in Nat
  BY SeqNotEmpty DEF IsSeq
<1>2. Len(rest) = n - 1 /\ Head(tx) = tx[1] /\ \A i \in 1..(n - 1) : rest[i] = tx[i + 1]
  BY SeqTail
<1>3. /\ cur \in [1..(n + 1) -> Cursors] /\ cur[n + 1] = c
      /\ \A i \in 1..n : Allowed(cur[i], tx[i]) /\ cur[i + 1] = After(cur[i], tx[i])
  BY DEF Fits
<1> HIDE DEF n, rest
<1>4. \A i \in 1..n : new[i] = cur[i + 1] /\ i + 1 \in 1..(n + 1) /\ cur[i + 1] \in Cursors
  BY <1>1, <1>3
<1>5. new \in [1..n -> Cursors]
  BY <1>4
<1>6. new[n] = c /\ new[1] = After(cur[1], Head(tx))
  BY <1>1, <1>2, <1>3, <1>4
<1>7. \A i \in 1..(n - 1) : Allowed(new[i], rest[i]) /\ new[i + 1] = After(new[i], rest[i])
  <2> TAKE i \in 1..(n - 1)
  <2>1. i \in 1..n /\ i + 1 \in 1..n
    BY <1>1
  <2> QED BY <2>1, <1>2, <1>3, <1>4
<1> HIDE DEF new
<1>8. (n - 1) + 1 = n
  BY <1>1
<1>9. Fits(new, rest, c)
  BY <1>2, <1>5, <1>6, <1>7, <1>8 DEF Fits
<1> QED BY <1>1, <1>2, <1>3, <1>6, <1>9 DEF rest

LEMMA CursorIsOne ==
  /\ NoStream \in Cursors
  /\ \A s, n \in Nat : [seg |-> s, frames |-> n] \in Cursors
  BY DEF NoStream, Cursors

\* Nothing complete is left of what the handler found, unless it is covered.
LEMMA NothingLeft ==
  ASSUME NEW z, NEW d, NEW b, Keeps(z, d, b), CompleteSlots(d.store) = {}
  PROVE  AllCovered(b, z)
<1> SUFFICES ASSUME NEW x \in CompleteSlots(z.store) PROVE Covered(b, z, x)
  BY DEF AllCovered
<1>1. ~StillHeld(z, d, x)
  BY DEF StillHeld, CompleteSlots, Slot
<1> QED BY <1>1 DEF Keeps

\* agent_link_push_event: a message that is not of a stream.
Posts(d, e, m) ==
  /\ d.ready = TRUE /\ CanPushEvent(d.link)
  /\ m.t \in {"case", "mediate", "played"}
  /\ m.t = "case" => m.case = d.gen
  /\ e.link = PushEvent(d.link, m)
  /\ SameStore(d, e) /\ SameReplay(d, e) /\ SameConn(d, e) /\ SameFields(d, e)
  /\ e.gen = d.gen /\ e.m.gen = d.m.gen
  /\ e.asked # d.asked => CompleteSlots(d.store) = {}

LEMMA MessagePosted ==
  ASSUME NEW z, NEW d, NEW e, NEW b, NEW m, Good(z, d, b), Posts(d, e, m)
  PROVE  Good(z, e, b)
<1> USE DEF Posts
<1>0. /\ DeviceOK(d, b) /\ Keeps(z, d, b) /\ HasFields(d) /\ StoreOK(d) /\ ReplayOK(d)
      /\ LinkType(d.link) /\ LinkOK(d.link) /\ ReadyOK(d) /\ PathOK(d, b) /\ SentOK(d, b)
      /\ CaseOK(d, b)
  BY DEF Good, DeviceOK
<1>1. /\ DOMAIN e.link = DOMAIN d.link /\ e.link.tx = Append(d.link.tx, m)
      /\ e.link.usable = d.link.usable /\ e.link.announced = d.link.announced
      /\ e.link.core = d.link.core /\ e.link.asr = d.link.asr /\ e.link.stream = d.link.stream
      /\ e.link.callbacks = d.link.callbacks /\ e.link.told = d.link.told
      /\ e.link.seen = d.link.seen /\ e.link.fresh = d.link.fresh
  BY <1>0 DEF PushEvent, HasFields
<1>2. d.link.usable
  BY DEF CanPushEvent
<1>3. /\ IsSeq(e.link.tx) /\ Len(e.link.tx) = Len(d.link.tx) + 1 /\ Len(d.link.tx) \in Nat
      /\ \A i \in 1..Len(d.link.tx) : e.link.tx[i] = d.link.tx[i]
      /\ e.link.tx[Len(d.link.tx) + 1] = m
  BY <1>0, <1>1, SeqAppend DEF LinkType, IsSeq
<1>4. \A i \in 1..Len(e.link.tx) :
        \/ i \in 1..Len(d.link.tx) /\ e.link.tx[i] = d.link.tx[i]
        \/ i = Len(d.link.tx) + 1 /\ e.link.tx[i] = m
  BY <1>3
<1>5. HasFields(e)
  BY <1>0, <1>1 DEF HasFields, SameFields, SameStore, SameReplay
<1>6. StoreOK(e)
  BY <1>0 DEF StoreOK, SlotOK, InUse, Seg, Slot, SameStore
<1>7. ReplayOK(e)
  BY <1>0, <1>1 DEF ReplayOK, Replaying, SameStore, SameReplay, SameConn, Seg, Slot
<1>8. LinkType(e.link) /\ LinkOK(e.link)
  BY <1>0, <1>1, <1>2, <1>3 DEF LinkType, LinkOK
<1>9. ReadyOK(e)
  BY <1>0, <1>1 DEF ReadyOK, SameConn
<1>10. PathOK(e, b)
  <2>1. PICK cur : Fits(cur, d.link.tx, d.link.stream) /\ BridgeAt(b, cur[1])
    BY <1>0, <1>2 DEF PathOK
  <2>2. Allowed(d.link.stream, m) /\ After(d.link.stream, m) = d.link.stream
    <3>1. m.t # "start" /\ m.t # "chunk" /\ m.t # "end"
      OBVIOUS
    <3> QED BY <3>1 DEF Allowed, After
  <2>3. d.link.stream \in Cursors
    BY <2>1, <1>3 DEF Fits
  <2>4. PICK new : Fits(new, e.link.tx, d.link.stream) /\ new[1] = cur[1]
    BY <2>1, <2>2, <2>3, <1>0, <1>1, PathGrows DEF LinkType
  <2> QED BY <2>1, <2>4, <1>1 DEF PathOK, Fits
<1>11. SentOK(e, b)
  <2>1. \A s : InFlight(e, b, s) => InFlight(d, b, s)
    BY <1>1, <1>4 DEF InFlight, IsEnd, SameConn
  <2>2. \A s : WasEnded(d, s) => WasEnded(e, s)
    BY DEF WasEnded, SameStore, SameReplay, InUse, Seg, Slot
  <2> QED BY <2>1, <2>2, <1>0, <1>1 DEF SentOK, SameConn, SameStore
<1>12. CaseOK(e, b)
  <2>1. \A i \in 1..Len(e.link.tx) : IsCase(e.link.tx[i]) =>
          e.link.tx[i].case \in Nat /\ b.case <= e.link.tx[i].case /\ e.link.tx[i].case <= e.gen
    <3>1. /\ \A i \in 1..Len(d.link.tx) : IsCase(d.link.tx[i]) =>
               /\ d.link.tx[i].case \in Nat /\ b.case <= d.link.tx[i].case
               /\ d.link.tx[i].case <= d.gen
          /\ d.gen \in Nat /\ b.case <= d.gen
      BY <1>0 DEF CaseOK
    <3>2. IsCase(m) => m.case = d.gen
      BY DEF IsCase
    <3> QED BY <3>1, <3>2, <1>4
  <2>2. \A i, j \in 1..Len(e.link.tx) : i < j /\ IsCase(e.link.tx[i]) /\ IsCase(e.link.tx[j]) =>
          e.link.tx[i].case <= e.link.tx[j].case
    <3> SUFFICES ASSUME NEW i \in 1..Len(e.link.tx), NEW j \in 1..Len(e.link.tx), i < j,
                        IsCase(e.link.tx[i]), IsCase(e.link.tx[j])
                 PROVE  e.link.tx[i].case <= e.link.tx[j].case
      OBVIOUS
    <3>1. CASE j = Len(d.link.tx) + 1
      <4>1. e.link.tx[j].case = e.gen
        BY <3>1, <1>3 DEF IsCase
      <4> QED BY <4>1, <2>1
    <3>2. CASE j \in 1..Len(d.link.tx)
      <4>1. i \in 1..Len(d.link.tx)
        BY <3>2, <1>3
      <4> QED BY <3>2, <4>1, <1>0, <1>3 DEF CaseOK
    <3> QED BY <3>1, <3>2, <1>4
  <2> QED BY <2>1, <2>2, <1>0, <1>1 DEF CaseOK, SameConn
<1>13. Keeps(z, e, b)
  <2>1. \A y \in CompleteSlots(z.store) : StillHeld(z, d, y) => StillHeld(z, e, y)
    BY DEF StillHeld, SameStore, Seg, Slot
  <2>2. CompleteSlots(d.store) = {} => AllCovered(b, z)
    BY <1>0, NothingLeft
  <2> QED BY <2>1, <2>2, <1>0 DEF Keeps
<1> QED BY <1>5, <1>6, <1>7, <1>8, <1>9, <1>10, <1>11, <1>12, <1>13 DEF Good, DeviceOK
\* A message of the stream of the recording that is being sent.
LinkMoves(k, l, m) ==
  /\ DOMAIN l = DOMAIN k /\ l.tx = Append(k.tx, m) /\ l.stream = After(k.stream, m)
  /\ l.asr \in BOOLEAN
  /\ ~l.asr => l.stream = NoStream
  /\ l.usable = k.usable /\ l.announced = k.announced /\ l.core = k.core
  /\ l.callbacks = k.callbacks /\ l.told = k.told /\ l.seen = k.seen /\ l.fresh = k.fresh

Moves(d, e, m) ==
  /\ d.ready = TRUE /\ d.link.usable
  /\ m.t \in {"start", "chunk", "end"}
  /\ Allowed(d.link.stream, m) /\ After(d.link.stream, m) \in Cursors
  /\ LinkMoves(d.link, e.link, m)
  /\ m.t = "end" => m.seg \in Nat /\ m.seg <= d.begun /\ WasEnded(e, m.seg)
  /\ \A s : WasEnded(d, s) => WasEnded(e, s)
  /\ SameStore(d, e) /\ SameConn(d, e) /\ SameCase(d, e) /\ SameFields(d, e)
  /\ DOMAIN e.ledger = SlotIds
  /\ {"active", "slot", "ordinal", "offset", "total"} \subseteq DOMAIN e.replay
  /\ ReplayOK(e)

LEMMA StreamMoves ==
  ASSUME NEW z, NEW d, NEW e, NEW b, NEW m, Good(z, d, b), Moves(d, e, m)
  PROVE  Good(z, e, b)
<1> USE DEF Moves
<1>0. /\ DeviceOK(d, b) /\ Keeps(z, d, b) /\ HasFields(d) /\ StoreOK(d) /\ ReplayOK(d)
      /\ LinkType(d.link) /\ LinkOK(d.link) /\ ReadyOK(d) /\ PathOK(d, b) /\ SentOK(d, b)
      /\ CaseOK(d, b)
  BY DEF Good, DeviceOK
<1>1. /\ DOMAIN e.link = DOMAIN d.link /\ e.link.tx = Append(d.link.tx, m)
      /\ e.link.usable = d.link.usable /\ e.link.announced = d.link.announced
      /\ e.link.core = d.link.core /\ e.link.stream = After(d.link.stream, m)
      /\ e.link.asr \in BOOLEAN
      /\ ~e.link.asr => e.link.stream = NoStream
      /\ e.link.callbacks = d.link.callbacks /\ e.link.told = d.link.told
      /\ e.link.seen = d.link.seen /\ e.link.fresh = d.link.fresh
  BY DEF LinkMoves
<1>2. /\ d.link.usable = TRUE /\ d.link.announced = TRUE /\ d.link.core = "ready"
  BY <1>0 DEF LinkType, LinkOK, ReadyOK
<1>3. /\ IsSeq(e.link.tx) /\ Len(e.link.tx) = Len(d.link.tx) + 1 /\ Len(d.link.tx) \in Nat
      /\ \A i \in 1..Len(d.link.tx) : e.link.tx[i] = d.link.tx[i]
      /\ e.link.tx[Len(d.link.tx) + 1] = m
  BY <1>0, <1>1, SeqAppend DEF LinkType, IsSeq
<1>4. \A i \in 1..Len(e.link.tx) :
        \/ i \in 1..Len(d.link.tx) /\ e.link.tx[i] = d.link.tx[i]
        \/ i = Len(d.link.tx) + 1 /\ e.link.tx[i] = m
  BY <1>3
<1>5. HasFields(e)
  BY <1>0, <1>1 DEF HasFields, SameFields, SameStore
<1>6. StoreOK(e)
  BY <1>0 DEF StoreOK, SlotOK, InUse, Seg, Slot, SameStore
<1>7. ReplayOK(e)
  OBVIOUS
<1>8. LinkType(e.link) /\ LinkOK(e.link)
  BY <1>0, <1>1, <1>2, <1>3 DEF LinkType, LinkOK
<1>9. ReadyOK(e)
  BY <1>0, <1>1 DEF ReadyOK, SameConn
<1>10. PathOK(e, b)
  <2>1. PICK cur : Fits(cur, d.link.tx, d.link.stream) /\ BridgeAt(b, cur[1])
    BY <1>0, <1>2 DEF PathOK
  <2>2. PICK new : Fits(new, e.link.tx, e.link.stream) /\ new[1] = cur[1]
    BY <2>1, <1>0, <1>1, PathGrows DEF LinkType
  <2> QED BY <2>1, <2>2, <1>1 DEF PathOK, Fits
<1>11. SentOK(e, b)
  <2>1. \A s : InFlight(e, b, s) => InFlight(d, b, s) \/ IsEnd(m, s)
    BY <1>1, <1>4 DEF InFlight, IsEnd, SameConn
  <2>2. \A s : IsEnd(m, s) => s <= e.begun /\ WasEnded(e, s)
    BY DEF IsEnd, SameStore
  <2> QED BY <2>1, <2>2, <1>0, <1>1 DEF SentOK, SameConn, SameStore
<1>12. CaseOK(e, b)
  <2>1. ~IsCase(m)
    BY DEF IsCase
  <2>2. \A i \in 1..Len(e.link.tx) : IsCase(e.link.tx[i]) =>
          i \in 1..Len(d.link.tx) /\ e.link.tx[i] = d.link.tx[i]
    BY <2>1, <1>4
  <2>3. \A i \in 1..Len(e.link.tx) : IsCase(e.link.tx[i]) =>
          e.link.tx[i].case \in Nat /\ b.case <= e.link.tx[i].case /\ e.link.tx[i].case <= e.gen
    BY <2>2, <1>0 DEF CaseOK, SameCase
  <2>4. \A i, j \in 1..Len(e.link.tx) : i < j /\ IsCase(e.link.tx[i]) /\ IsCase(e.link.tx[j]) =>
          e.link.tx[i].case <= e.link.tx[j].case
    BY <2>2, <1>0 DEF CaseOK
  <2> QED BY <2>3, <2>4, <1>0, <1>1 DEF CaseOK, SameConn, SameCase
<1>13. Keeps(z, e, b)
  <2>1. \A y \in CompleteSlots(z.store) : StillHeld(z, d, y) => StillHeld(z, e, y)
    BY DEF StillHeld, SameStore, Seg, Slot
  <2> QED BY <2>1, <1>0 DEF Keeps, SameCase
<1> QED BY <1>5, <1>6, <1>7, <1>8, <1>9, <1>10, <1>11, <1>12, <1>13 DEF Good, DeviceOK

\* StartReplayIfPossible: the oldest recording that is still to be sent.
Starts(d, e, x) ==
  /\ ~d.replay.active /\ d.active = NoSlot /\ d.ready = TRUE
  /\ x \in SlotIds /\ Slot(d, x).state = "complete"
  /\ ~WasSent(d.ledger, x, Slot(d, x).ordinal) /\ CanAsrStart(d.link)
  /\ e.link = AsrStart(d.link, Seg(d, x), Slot(d, x).meta.speaker)
  /\ e.replay = Replay(x, Slot(d, x).ordinal, Slot(d, x).bytes) /\ e.ledger = d.ledger
  /\ SameStore(d, e) /\ SameConn(d, e) /\ SameCase(d, e) /\ SameFields(d, e)

LEMMA StreamStarts ==
  ASSUME NEW z, NEW d, NEW e, NEW b, NEW x, Good(z, d, b), Starts(d, e, x)
  PROVE  Good(z, e, b)
<1> DEFINE m == [t |-> "start", seg |-> Seg(d, x), speaker |-> Slot(d, x).meta.speaker]
<1> USE DEF Starts
<1>0. /\ HasFields(d) /\ StoreOK(d) /\ ReplayOK(d)
      /\ LinkType(d.link) /\ LinkOK(d.link) /\ ReadyOK(d)
  BY DEF Good, DeviceOK
<1>1. d.link.usable = TRUE /\ d.link.asr = FALSE /\ d.link.stream = NoStream
  BY <1>0 DEF CanAsrStart, ReplayOK, LinkOK, LinkType
<1>2. /\ Seg(d, x) \in Segments /\ Seg(d, x) \in Recordings /\ Seg(d, x) \in Nat \ {0}
      /\ Slot(d, x).ordinal \in Nat \ {0} /\ Slot(d, x).bytes \in Nat
  BY <1>0, SegmentsAssumption, BoundsAssumption DEF StoreOK, SlotOK, InUse
<1>3. e.link = [d.link EXCEPT !.asr = TRUE, !.stream = [seg |-> Seg(d, x), frames |-> 0],
                              !.tx = Append(@, m)]
  BY <1>1 DEF AsrStart
<1>4. m.t = "start" /\ m.seg = Seg(d, x)
  OBVIOUS
<1> HIDE DEF m
<1>5. /\ Allowed(d.link.stream, m)
      /\ After(d.link.stream, m) = [seg |-> Seg(d, x), frames |-> 0]
  BY <1>1, <1>2, <1>4 DEF Allowed, After
<1>6. /\ LinkMoves(d.link, e.link, m)
      /\ e.link.asr = TRUE /\ e.link.stream = [seg |-> Seg(d, x), frames |-> 0]
      /\ e.link.usable = TRUE
  BY <1>0, <1>1, <1>3, <1>5 DEF LinkMoves, HasFields
<1>7. /\ DOMAIN e.replay = {"active", "slot", "ordinal", "offset", "total"}
      /\ e.replay.active = TRUE /\ e.replay.slot = x /\ e.replay.ordinal = Slot(d, x).ordinal
      /\ e.replay.offset = 0 /\ e.replay.total = Slot(d, x).bytes
  BY DEF Replay
<1>8. ReplayOK(e)
  <2>1. d.ledger[x] # Slot(d, x).ordinal
    BY <1>2 DEF WasSent
  <2>2. Slot(e, x) = Slot(d, x) /\ e.active = d.active /\ e.ready = d.ready
    BY DEF SameStore, SameConn, Slot
  <2>3. Replaying(e)
    BY <1>2, <1>6, <1>7, <2>1, <2>2 DEF Replaying, Seg
  <2> QED BY <1>7, <2>3 DEF ReplayOK
<1>9. \A s : WasEnded(d, s) => WasEnded(e, s)
  BY DEF WasEnded, SameStore, InUse, Seg, Slot
<1>10. After(d.link.stream, m) \in Cursors
  BY <1>2, <1>5, CursorIsOne
<1>11. Moves(d, e, m)
  BY <1>0, <1>1, <1>4, <1>5, <1>6, <1>7, <1>8, <1>9, <1>10 DEF Moves, HasFields
<1> QED BY <1>11, StreamMoves

\* A captured frame of it.
Streams(d, e) ==
  /\ d.replay.active /\ PushResult(d.link) = "ok" /\ ~CursorDone(d.replay)
  /\ e.link = AsrPush(d.link, Pcm(Slot(d, d.replay.slot), d.replay.offset))
  /\ e.replay = [d.replay EXCEPT !.offset = @ + 1] /\ e.ledger = d.ledger
  /\ SameStore(d, e) /\ SameConn(d, e) /\ SameCase(d, e) /\ SameFields(d, e)

LEMMA StreamGoesOn ==
  ASSUME NEW z, NEW d, NEW e, NEW b, Good(z, d, b), Streams(d, e)
  PROVE  Good(z, e, b)
<1> DEFINE x == d.replay.slot
           m == [t |-> "chunk", seq |-> d.link.stream.frames,
                 pcm |-> Pcm(Slot(d, x), d.replay.offset)]
<1> USE DEF Streams
<1>0. /\ HasFields(d) /\ StoreOK(d) /\ ReplayOK(d)
      /\ LinkType(d.link) /\ LinkOK(d.link) /\ ReadyOK(d)
  BY DEF Good, DeviceOK
<1>1. d.link.usable = TRUE /\ d.link.asr = TRUE
  BY <1>0 DEF PushResult, LinkType
<1>2. Replaying(d)
  BY <1>0 DEF ReplayOK
<1>3. /\ d.ready = TRUE /\ d.active = NoSlot /\ x \in SlotIds /\ Slot(d, x).state = "complete"
      /\ Slot(d, x).ordinal = d.replay.ordinal /\ Slot(d, x).bytes = d.replay.total
      /\ d.replay.offset \in Nat /\ d.replay.offset <= d.replay.total
      /\ d.replay.total \in Nat
      /\ d.ledger[x] # d.replay.ordinal
      /\ d.link.stream = [seg |-> Seg(d, x), frames |-> d.replay.offset]
  BY <1>0, <1>1, <1>2 DEF Replaying, StoreOK, SlotOK
<1>4. Seg(d, x) \in Nat \ {0}
  BY <1>0, <1>3, SegmentsAssumption DEF StoreOK, SlotOK, InUse
<1>5. d.replay.offset + 1 \in Nat /\ d.replay.offset + 1 <= d.replay.total
  BY <1>3 DEF CursorDone
<1>6. e.link = [d.link EXCEPT !.tx = Append(@, m), !.stream.frames = @ + 1]
  BY DEF AsrPush
<1>7. /\ m.t = "chunk" /\ m.seq = d.replay.offset
      /\ m.pcm = [seg |-> Seg(d, x), at |-> d.replay.offset]
  BY <1>3 DEF Pcm, Seg
<1> HIDE DEF m
<1>8. d.link.stream.seg = Seg(d, x) /\ d.link.stream.frames = d.replay.offset
  BY <1>3
<1>9. /\ Allowed(d.link.stream, m)
      /\ After(d.link.stream, m) = [seg |-> Seg(d, x), frames |-> d.replay.offset + 1]
  BY <1>4, <1>7, <1>8 DEF Allowed, After
<1>10. [d.link.stream EXCEPT !.frames = @ + 1] = [seg |-> Seg(d, x), frames |-> d.replay.offset + 1]
  BY <1>3
<1>11. /\ LinkMoves(d.link, e.link, m)
       /\ e.link.asr = TRUE /\ e.link.usable = TRUE
       /\ e.link.stream = [seg |-> Seg(d, x), frames |-> d.replay.offset + 1]
  <2>1. e.link.stream = [d.link.stream EXCEPT !.frames = @ + 1]
    BY <1>0, <1>6 DEF HasFields
  <2>2. /\ DOMAIN e.link = DOMAIN d.link /\ e.link.tx = Append(d.link.tx, m)
        /\ e.link.asr = d.link.asr
        /\ e.link.usable = d.link.usable /\ e.link.announced = d.link.announced
        /\ e.link.core = d.link.core
        /\ e.link.callbacks = d.link.callbacks /\ e.link.told = d.link.told
        /\ e.link.seen = d.link.seen /\ e.link.fresh = d.link.fresh
    BY <1>0, <1>6 DEF HasFields
  <2> QED BY <2>1, <2>2, <1>1, <1>9, <1>10 DEF LinkMoves
<1>12. /\ DOMAIN e.replay = DOMAIN d.replay
       /\ e.replay.active = d.replay.active /\ e.replay.slot = x
       /\ e.replay.ordinal = d.replay.ordinal
       /\ e.replay.offset = d.replay.offset + 1 /\ e.replay.total = d.replay.total
  BY <1>0 DEF HasFields
<1>13. ReplayOK(e)
  <2>1. Slot(e, x) = Slot(d, x) /\ e.active = d.active /\ e.ready = d.ready
    BY DEF SameStore, SameConn, Slot
  <2>2. Replaying(e)
    BY <1>3, <1>5, <1>11, <1>12, <2>1 DEF Replaying, Seg
  <2> QED BY <1>0, <1>12, <2>2 DEF ReplayOK
<1>14. \A s : WasEnded(d, s) => WasEnded(e, s)
  BY DEF WasEnded, SameStore, InUse, Seg, Slot
<1>15. After(d.link.stream, m) \in Cursors
  BY <1>4, <1>5, <1>9, CursorIsOne
<1>16. Moves(d, e, m)
  BY <1>0, <1>1, <1>3, <1>7, <1>9, <1>11, <1>12, <1>13, <1>14, <1>15 DEF Moves, HasFields
<1> QED BY <1>16, StreamMoves

\* The end of it: it has been sent on this connection.
Ends(d, e) ==
  /\ d.replay.active /\ CanAsrEnd(d.link, TRUE)
  /\ e.link = AsrEnd(d.link, TRUE) /\ e.replay = NoReplay
  /\ e.ledger = MarkSent(d.ledger, d.replay.slot, d.replay.ordinal)
  /\ SameStore(d, e) /\ SameConn(d, e) /\ SameCase(d, e) /\ SameFields(d, e)

LEMMA StreamEnds ==
  ASSUME NEW z, NEW d, NEW e, NEW b, Good(z, d, b), Ends(d, e), d.link.usable
  PROVE  Good(z, e, b)
<1> DEFINE x == d.replay.slot
           m == [t |-> "end", seg |-> d.link.stream.seg, frames |-> d.link.stream.frames,
                 complete |-> TRUE]
<1> USE DEF Ends
<1>0. /\ HasFields(d) /\ StoreOK(d) /\ ReplayOK(d) /\ Replaying(d)
      /\ LinkType(d.link) /\ LinkOK(d.link) /\ ReadyOK(d)
  BY DEF Good, DeviceOK, ReplayOK
<1>1. d.link.usable = TRUE /\ d.link.asr = TRUE
  BY <1>0 DEF Replaying, LinkType
<1>2. /\ d.ready = TRUE /\ x \in SlotIds /\ Slot(d, x).state = "complete"
      /\ Slot(d, x).ordinal = d.replay.ordinal
      /\ d.replay.offset \in Nat
      /\ d.link.stream.seg = Seg(d, x) /\ d.link.stream.frames = d.replay.offset
  BY <1>0, <1>1 DEF Replaying
<1>3. Seg(d, x) \in Nat \ {0} /\ Seg(d, x) <= d.begun
  BY <1>0, <1>2, SegmentsAssumption DEF StoreOK, SlotOK, InUse
<1>4. e.link = [d.link EXCEPT !.asr = FALSE, !.stream = NoStream, !.tx = Append(@, m)]
  BY <1>1 DEF AsrEnd
<1>5. m.t = "end" /\ m.seg = Seg(d, x) /\ m.frames = d.link.stream.frames
  BY <1>2
<1> HIDE DEF m
<1>6. Allowed(d.link.stream, m) /\ After(d.link.stream, m) = NoStream
  BY <1>2, <1>3, <1>5 DEF Allowed, After
<1>7. LinkMoves(d.link, e.link, m) /\ e.link.asr = FALSE
  <2>1. /\ DOMAIN e.link = DOMAIN d.link /\ e.link.tx = Append(d.link.tx, m)
        /\ e.link.asr = FALSE /\ e.link.stream = NoStream
        /\ e.link.usable = d.link.usable /\ e.link.announced = d.link.announced
        /\ e.link.core = d.link.core
        /\ e.link.callbacks = d.link.callbacks /\ e.link.told = d.link.told
        /\ e.link.seen = d.link.seen /\ e.link.fresh = d.link.fresh
    <3> HIDE DEF Ends
    <3>1. HasFields(d)
      BY <1>0
    <3>2. DOMAIN e.link = DOMAIN d.link
      BY <1>4
    <3>3. {"usable", "announced", "core", "asr", "stream", "tx", "callbacks", "told", "seen",
      "fresh"} \subseteq DOMAIN d.link
      BY <3>1 DEF HasFields
    <3>4. e.link.tx = Append(d.link.tx, m)
      BY <1>4, <3>3
    <3>5. e.link.asr = FALSE
      BY <1>4, <3>3
    <3>6. e.link.stream = NoStream
      BY <1>4, <3>3
    <3>7. /\ e.link.usable = d.link.usable /\ e.link.announced = d.link.announced
        /\ e.link.core = d.link.core
        /\ e.link.callbacks = d.link.callbacks /\ e.link.told = d.link.told
        /\ e.link.seen = d.link.seen /\ e.link.fresh = d.link.fresh
      BY <1>4, <3>3
    <3> QED BY <3>2, <3>4, <3>5, <3>6, <3>7
  <2> QED BY <2>1, <1>6 DEF LinkMoves
<1>8. /\ DOMAIN e.replay = {"active", "slot", "ordinal", "offset", "total"}
      /\ e.replay.active = FALSE
  BY DEF NoReplay
<1>9. ReplayOK(e)
  BY <1>7, <1>8 DEF ReplayOK
<1>10. /\ DOMAIN e.ledger = SlotIds /\ e.ledger[x] = Slot(d, x).ordinal
       /\ \A y \in SlotIds \ {x} : e.ledger[y] = d.ledger[y]
  BY <1>0, <1>2 DEF MarkSent, HasFields
<1>11. \A y \in SlotIds : Slot(e, y) = Slot(d, y)
  BY DEF SameStore, Slot
<1>12. \A s : WasEnded(d, s) => WasEnded(e, s)
  BY <1>10, <1>11 DEF WasEnded, InUse, Seg
<1>13. WasEnded(e, m.seg)
  <2>1. \A y \in SlotIds : InUse(d, y) /\ Seg(d, y) = Seg(d, x) => y = x
    BY <1>0, <1>2 DEF StoreOK, InUse
  <2> QED BY <2>1, <1>2, <1>5, <1>10, <1>11 DEF WasEnded, InUse, Seg
<1>14. Moves(d, e, m)
  BY <1>1, <1>2, <1>3, <1>5, <1>6, <1>7, <1>8, <1>9, <1>10, <1>12, <1>13, CursorIsOne DEF Moves
<1> QED BY <1>14, StreamMoves

\* The upload stops, and nothing of its stream is left.
Stops(d, e) ==
  /\ e.replay = NoReplay /\ ~(d.link.usable /\ d.link.asr)
  /\ DOMAIN e.ledger = SlotIds
  /\ \A x \in SlotIds : \/ e.ledger[x] = d.ledger[x]
                        \/ ~d.link.usable /\ e.ledger[x] = Slot(d, x).ordinal
  /\ e.link = d.link
  /\ SameStore(d, e) /\ SameConn(d, e) /\ SameCase(d, e) /\ SameFields(d, e)

LEMMA ReplayStops ==
  ASSUME NEW z, NEW d, NEW e, NEW b, Good(z, d, b), Stops(d, e)
  PROVE  Good(z, e, b)
<1> USE DEF Stops
<1>0. /\ DeviceOK(d, b) /\ Keeps(z, d, b) /\ HasFields(d) /\ StoreOK(d)
  BY DEF Good, DeviceOK
<1>1. /\ DOMAIN e.replay = {"active", "slot", "ordinal", "offset", "total"}
      /\ e.replay.active = FALSE
  BY DEF NoReplay
<1>2. HasFields(e)
  BY <1>0, <1>1 DEF HasFields, SameFields, SameStore
<1>3. StoreOK(e)
  BY <1>0 DEF StoreOK, SlotOK, InUse, Seg, Slot, SameStore
<1>4. ReplayOK(e)
  BY <1>1 DEF ReplayOK
<1>5. LinkType(e.link) /\ LinkOK(e.link) /\ ReadyOK(e) /\ PathOK(e, b)
  BY <1>0 DEF DeviceOK, ReadyOK, SameConn, PathOK
<1>6. SentOK(e, b)
  <2>1. \A s : InFlight(e, b, s) => InFlight(d, b, s)
    BY DEF InFlight, SameConn
  <2>2. \A s : WasEnded(d, s) => WasEnded(e, s)
    BY DEF WasEnded, SameStore, InUse, Seg, Slot
  <2> QED BY <2>1, <2>2, <1>0 DEF DeviceOK, SentOK, SameConn, SameStore
<1>7. CaseOK(e, b)
  BY <1>0 DEF DeviceOK, CaseOK, SameCase, SameConn
<1>8. Keeps(z, e, b)
  BY <1>0 DEF Keeps, SameCase, StillHeld, Slot, Seg, SameStore
<1> QED BY <1>2, <1>3, <1>4, <1>5, <1>6, <1>7, <1>8 DEF Good, DeviceOK

\* A case begins when nothing complete is left of the one before.
NewCase(d, e) ==
  /\ CompleteSlots(d.store) = {} /\ e.gen \in Nat /\ d.gen <= e.gen /\ e.gen <= d.m.gen
  /\ e.replay = NoReplay /\ DOMAIN e.ledger = SlotIds /\ e.link = d.link
  /\ e.asked = d.asked /\ e.m.gen = d.m.gen
  /\ SameStore(d, e) /\ SameConn(d, e) /\ SameFields(d, e)

LEMMA CaseBegins ==
  ASSUME NEW z, NEW d, NEW e, NEW b, Good(z, d, b), NewCase(d, e)
  PROVE  Good(z, e, b)
<1> USE DEF NewCase
<1>0. /\ DeviceOK(d, b) /\ Keeps(z, d, b) /\ HasFields(d) /\ StoreOK(d) /\ ReplayOK(d)
      /\ CaseOK(d, b)
  BY DEF Good, DeviceOK
<1>1. /\ DOMAIN e.replay = {"active", "slot", "ordinal", "offset", "total"}
      /\ e.replay.active = FALSE
  BY DEF NoReplay
<1>2. \A x \in SlotIds : Slot(d, x).state # "complete"
  BY DEF CompleteSlots, Slot
<1>3. HasFields(e)
  BY <1>0, <1>1 DEF HasFields, SameFields, SameStore
<1>4. StoreOK(e)
  BY <1>0 DEF StoreOK, SlotOK, InUse, Seg, Slot, SameStore
<1>5. ReplayOK(e)
  BY <1>0, <1>1, <1>2 DEF ReplayOK, Replaying
<1>6. LinkType(e.link) /\ LinkOK(e.link) /\ ReadyOK(e) /\ PathOK(e, b)
  BY <1>0 DEF DeviceOK, ReadyOK, SameConn, PathOK
<1>7. SentOK(e, b)
  <2>1. \A s : InFlight(e, b, s) => InFlight(d, b, s)
    BY DEF InFlight, SameConn
  <2>2. \A s : WasEnded(d, s) => WasEnded(e, s)
    BY <1>2 DEF WasEnded, SameStore, InUse, Seg, Slot
  <2> QED BY <2>1, <2>2, <1>0 DEF DeviceOK, SentOK, SameConn, SameStore
<1>8. CaseOK(e, b)
  <2>1. \A n \in Nat : n <= d.gen => n <= e.gen
    BY <1>0 DEF CaseOK
  <2>2. d.gen \in Nat /\ b.case \in Nat /\ b.case <= e.gen
    BY <2>1, <1>0 DEF CaseOK
  <2> QED BY <2>1, <2>2, <1>0 DEF CaseOK, SameConn
<1>9. Keeps(z, e, b)
  <2>1. AllCovered(b, z)
    BY <1>0, NothingLeft
  <2> QED BY <2>1 DEF Keeps, AllCovered
<1> QED BY <1>3, <1>4, <1>5, <1>6, <1>7, <1>8, <1>9 DEF Good, DeviceOK

\* Messages are taken from the inbox.
Takes(d, e) ==
  /\ IsSeq(e.inbox)
  /\ d.inbox = <<>> => e.inbox = <<>>
  /\ \A i \in 1..Len(e.inbox) : \E j \in 1..Len(d.inbox) : e.inbox[i] = d.inbox[j]
  /\ e.ready = d.ready /\ e.open = d.open /\ e.last = d.last /\ e.link = d.link
  /\ SameStore(d, e) /\ SameReplay(d, e) /\ SameCase(d, e) /\ SameFields(d, e)

LEMMA InboxTaken ==
  ASSUME NEW z, NEW d, NEW e, NEW b, Good(z, d, b), Takes(d, e)
  PROVE  Good(z, e, b)
<1> USE DEF Takes
<1>0. DeviceOK(d, b) /\ Keeps(z, d, b)
  BY DEF Good
<1>1. HasFields(e)
  BY <1>0 DEF DeviceOK, HasFields, SameFields, SameStore, SameReplay
<1>2. StoreOK(e)
  BY <1>0 DEF DeviceOK, StoreOK, SlotOK, InUse, Seg, Slot, SameStore
<1>3. ReplayOK(e)
  BY <1>0 DEF DeviceOK, ReplayOK, Replaying, SameStore, SameReplay, Seg, Slot
<1>4. LinkType(e.link) /\ LinkOK(e.link) /\ ReadyOK(e) /\ PathOK(e, b)
  BY <1>0 DEF DeviceOK, ReadyOK, PathOK
<1>5. SentOK(e, b)
  <2>1. \A s : InFlight(e, b, s) => InFlight(d, b, s)
    BY DEF InFlight
  <2>2. \A s : WasEnded(d, s) => WasEnded(e, s)
    BY DEF WasEnded, SameStore, SameReplay, InUse, Seg, Slot
  <2> QED BY <2>1, <2>2, <1>0 DEF DeviceOK, SentOK, SameStore
<1>6. CaseOK(e, b)
  BY <1>0 DEF DeviceOK, CaseOK, SameCase
<1>7. Keeps(z, e, b)
  BY <1>0 DEF Keeps, SameCase, StillHeld, Slot, Seg, SameStore
<1> QED BY <1>1, <1>2, <1>3, <1>4, <1>5, <1>6, <1>7 DEF Good, DeviceOK
----------------------------------------------------------------------------
(* The link is looked at, opened, and given up.                            *)

\* LinkEdgeTracker::Take
Looked(l, k) ==
  /\ DOMAIN l = DOMAIN k /\ l.seen = FALSE /\ l.fresh = FALSE
  /\ l.usable = k.usable /\ l.announced = k.announced /\ l.core = k.core /\ l.asr = k.asr
  /\ l.stream = k.stream /\ l.tx = k.tx /\ l.callbacks = k.callbacks /\ l.told = k.told

LEMMA LinkLooked ==
  ASSUME NEW l, NEW k, LinkType(k), LinkOK(k), Looked(l, k)
  PROVE  LinkType(l) /\ LinkOK(l)
<1>1. LinkType(l)
  BY DEF LinkType, Looked
<1>2. LinkOK(l)
  BY DEF LinkType, LinkOK, Looked
<1> QED BY <1>1, <1>2

LEMMA TakenLooks ==
  ASSUME NEW d, HasFields(d) PROVE Looked(Taken(d.link), d.link)
  BY DEF HasFields, Looked, Taken

\* Nothing has changed, and nothing is done.
Glances(d, e) ==
  /\ Looked(e.link, d.link) /\ (d.ready => d.link.core = "ready")
  /\ SameStore(d, e) /\ SameReplay(d, e) /\ SameConn(d, e) /\ SameCase(d, e) /\ SameFields(d, e)

LEMMA LinkGlanced ==
  ASSUME NEW z, NEW d, NEW e, NEW b, Good(z, d, b), Glances(d, e)
  PROVE  Good(z, e, b)
<1> USE DEF Glances
<1>0. DeviceOK(d, b) /\ Keeps(z, d, b) /\ LinkType(d.link) /\ LinkOK(d.link)
  BY DEF Good, DeviceOK
<1>1. HasFields(e)
  BY <1>0 DEF DeviceOK, HasFields, SameFields, SameStore, SameReplay, Looked
<1>2. StoreOK(e)
  BY <1>0 DEF DeviceOK, StoreOK, SlotOK, InUse, Seg, Slot, SameStore
<1>3. ReplayOK(e)
  BY <1>0 DEF DeviceOK, ReplayOK, Replaying, SameStore, SameReplay, SameConn, Seg, Slot, Looked
<1>4. LinkType(e.link) /\ LinkOK(e.link)
  BY <1>0, LinkLooked
<1>5. ReadyOK(e)
  BY <1>0 DEF DeviceOK, ReadyOK, SameConn, Looked
<1>6. PathOK(e, b)
  BY <1>0 DEF DeviceOK, PathOK, Looked
<1>7. SentOK(e, b)
  <2>1. \A s : InFlight(e, b, s) => InFlight(d, b, s)
    BY DEF InFlight, SameConn, Looked
  <2>2. \A s : WasEnded(d, s) => WasEnded(e, s)
    BY DEF WasEnded, SameStore, SameReplay, InUse, Seg, Slot
  <2> QED BY <2>1, <2>2, <1>0 DEF DeviceOK, SentOK, SameStore, SameConn, Looked
<1>8. CaseOK(e, b)
  BY <1>0 DEF DeviceOK, CaseOK, SameCase, SameConn, Looked
<1>9. Keeps(z, e, b)
  BY <1>0 DEF Keeps, SameCase, StillHeld, Slot, Seg, SameStore
<1> QED BY <1>1, <1>2, <1>3, <1>4, <1>5, <1>6, <1>7, <1>8, <1>9 DEF Good, DeviceOK

\* READY: the gate opens, and nothing has been sent on this connection.
Opens(d, e) ==
  /\ ~d.ready /\ d.link.core = "ready" /\ d.link.told = "none"
  /\ Looked(e.link, d.link)
  /\ e.ready = TRUE /\ e.open = TRUE /\ e.last = "ready" /\ e.inbox = d.inbox
  /\ e.replay = NoReplay /\ DOMAIN e.ledger = SlotIds
  /\ SameStore(d, e) /\ SameCase(d, e) /\ SameFields(d, e)

LEMMA LinkOpens ==
  ASSUME NEW z, NEW d, NEW e, NEW b, Good(z, d, b), Opens(d, e)
  PROVE  Good(z, e, b)
<1> USE DEF Opens
<1>0. /\ DeviceOK(d, b) /\ Keeps(z, d, b) /\ LinkType(d.link) /\ LinkOK(d.link)
      /\ ReplayOK(d) /\ ReadyOK(d) /\ SentOK(d, b)
  BY DEF Good, DeviceOK
<1>1. /\ DOMAIN e.replay = {"active", "slot", "ordinal", "offset", "total"}
      /\ e.replay.active = FALSE
  BY DEF NoReplay
<1>2. d.ready = FALSE /\ d.inbox = <<>> /\ d.link.tx = <<>> /\ ~d.link.asr
  BY <1>0 DEF ReadyOK
<1>3. HasFields(e)
  BY <1>0, <1>1 DEF DeviceOK, HasFields, SameFields, SameStore, Looked
<1>4. StoreOK(e)
  BY <1>0 DEF DeviceOK, StoreOK, SlotOK, InUse, Seg, Slot, SameStore
<1>5. ReplayOK(e)
  BY <1>1, <1>2 DEF ReplayOK, Looked
<1>6. LinkType(e.link) /\ LinkOK(e.link)
  BY <1>0, LinkLooked
<1>7. ReadyOK(e)
  <2>1. \A i \in 1..Len(e.link.callbacks) : ~IsLink(e.link.callbacks[i], "ready")
    BY <1>0 DEF LinkOK, Looked
  <2>2. IsSeq(e.inbox)
    BY <1>0 DEF ReadyOK
  <2> QED BY <2>1, <2>2 DEF ReadyOK, Looked
<1>8. PathOK(e, b)
  BY <1>0 DEF DeviceOK, PathOK, Looked
<1>9. SentOK(e, b)
  <2>1. \A i \in 1..Len(d.link.callbacks) : d.link.callbacks[i].t # "durable"
    BY <1>2, <1>0 DEF ReadyOK
  <2>2. \A s \in Segments : s # 0
    BY SegmentsAssumption
  <2>3. \A s \in Segments : ~InFlight(e, b, s)
    BY <1>0, <1>2, <2>1, <2>2, SeqEmpty DEF InFlight, IsDurable, SentOK, Looked
  <2> QED BY <2>3 DEF SentOK
<1>10. CaseOK(e, b)
  BY <1>0 DEF DeviceOK, CaseOK, SameCase, Looked
<1>11. Keeps(z, e, b)
  BY <1>0 DEF Keeps, SameCase, StillHeld, Slot, Seg, SameStore
<1> QED BY <1>3, <1>4, <1>5, <1>6, <1>7, <1>8, <1>9, <1>10, <1>11 DEF Good, DeviceOK

\* CleanupDisconnect up to its error report: the gate is closed, the ledger
\* is left for the next connection to empty.
Cleans(d, e) ==
  /\ (d.ready => d.link.core = "disconnected") /\ d.link.told = "none"
  /\ Looked(e.link, d.link)
  /\ e.ready = FALSE /\ e.open = FALSE /\ e.inbox = <<>>
  /\ e.replay = NoReplay /\ e.ledger = d.ledger
  /\ Discards(d, e) /\ SameCase(d, e) /\ SameFields(d, e)

LEMMA LinkCleaned ==
  ASSUME NEW z, NEW d, NEW e, NEW b, Good(z, d, b), Cleans(d, e)
  PROVE  Good(z, e, b)
<1> USE DEF Cleans
<1>0. /\ DeviceOK(d, b) /\ Keeps(z, d, b) /\ LinkType(d.link) /\ LinkOK(d.link) /\ HasFields(d)
      /\ StoreOK(d) /\ ReplayOK(d) /\ ReadyOK(d) /\ SentOK(d, b)
  BY DEF Good, DeviceOK
<1>1. Shrinks(d, e)
  BY <1>0, DiscardShrinks
<1>2. /\ StoreOK(e)
      /\ \A x \in SlotIds : {"state", "ordinal", "bytes", "meta", "quarantined"} \subseteq DOMAIN e.store.slots[x]
      /\ \A x \in SlotIds : Slot(d, x).state = "complete" => Slot(e, x) = Slot(d, x)
      /\ \A x \in SlotIds : InUse(e, x) => Slot(e, x) = Slot(d, x) /\ InUse(d, x)
      /\ \A x \in CompleteSlots(z.store) : StillHeld(z, d, x) => StillHeld(z, e, x)
  BY <1>0, <1>1, StoreShrinks DEF HasFields
<1>3. /\ DOMAIN e.replay = {"active", "slot", "ordinal", "offset", "total"}
      /\ e.replay.active = FALSE
  BY DEF NoReplay
<1>4. /\ d.link.tx = <<>> /\ ~d.link.asr
      /\ \A i \in 1..Len(d.link.callbacks) : d.link.callbacks[i].t # "durable"
      /\ d.ready => ~d.link.usable
  <2>1. CASE ~d.ready
    BY <2>1, <1>0 DEF ReadyOK
  <2>2. CASE d.ready
    <3>1. d.link.core = "disconnected" /\ ~d.link.announced /\ d.link.seen
      BY <2>2, <1>0 DEF ReadyOK
    <3>2. ~d.link.usable /\ d.link.callbacks = <<>> /\ d.link.tx = <<>> /\ ~d.link.asr
      BY <3>1, <1>0 DEF LinkOK
    <3> QED BY <3>2, SeqEmpty
  <2> QED BY <2>1, <2>2
<1>5. HasFields(e)
  BY <1>0, <1>1, <1>2, <1>3 DEF HasFields, SameFields, Shrinks, Looked
<1>6. ReplayOK(e)
  BY <1>3, <1>4 DEF ReplayOK, Looked
<1>7. LinkType(e.link) /\ LinkOK(e.link)
  BY <1>0, LinkLooked
<1>8. ReadyOK(e)
  BY <1>4, SeqEmpty DEF ReadyOK, Looked
<1>9. PathOK(e, b)
  BY <1>0 DEF DeviceOK, PathOK, Looked
<1>10. SentOK(e, b)
  <2>1. \A s : InFlight(e, b, s) => InFlight(d, b, s)
    BY <1>4, SeqEmpty DEF InFlight, IsDurable, Looked
  <2>2. \A s : WasEnded(d, s) => WasEnded(e, s)
    BY <1>2 DEF WasEnded, Seg
  <2>3. e.link.usable /\ ~e.ready => b.live = 0
    BY <1>0, <1>4 DEF SentOK, Looked
  <2> QED BY <2>1, <2>2, <2>3, <1>0, <1>1 DEF SentOK, Shrinks
<1>11. CaseOK(e, b)
  BY <1>0, SeqEmpty DEF DeviceOK, CaseOK, SameCase, Looked
<1>12. Keeps(z, e, b)
  BY <1>0, <1>2 DEF Keeps, SameCase
<1> QED BY <1>2, <1>5, <1>6, <1>7, <1>8, <1>9, <1>10, <1>11, <1>12 DEF Good, DeviceOK

\* What was the link's last level does not matter while the gate is closed.
LEMMA LevelNoted ==
  ASSUME NEW z, NEW d, NEW level, NEW b, Good(z, d, b), ~d.ready
  PROVE  Good(z, [d EXCEPT !.last = level], b)
<1> DEFINE e == [d EXCEPT !.last = level]
<1>0. DeviceOK(d, b) /\ Keeps(z, d, b) /\ HasFields(d)
  BY DEF Good, DeviceOK
<1>1. /\ SameStore(d, e) /\ SameReplay(d, e) /\ SameCase(d, e) /\ SameFields(d, e)
      /\ e.ready = d.ready /\ e.open = d.open /\ e.inbox = d.inbox /\ e.link = d.link
  BY <1>0 DEF HasFields, SameStore, SameReplay, SameCase, SameFields
<1> HIDE DEF e
<1>2. HasFields(e)
  BY <1>0, <1>1 DEF HasFields, SameFields, SameStore, SameReplay
<1>3. StoreOK(e)
  BY <1>0, <1>1 DEF DeviceOK, StoreOK, SlotOK, InUse, Seg, Slot, SameStore
<1>4. ReplayOK(e)
  BY <1>0, <1>1 DEF DeviceOK, ReplayOK, Replaying, SameStore, SameReplay, Seg, Slot
<1>5. LinkType(e.link) /\ LinkOK(e.link) /\ PathOK(e, b) /\ ReadyOK(e)
  BY <1>0, <1>1 DEF DeviceOK, PathOK, ReadyOK
<1>6. SentOK(e, b)
  BY <1>0, <1>1 DEF DeviceOK, SentOK, InFlight, WasEnded, SameStore, SameReplay, InUse, Seg, Slot
<1>7. CaseOK(e, b)
  BY <1>0, <1>1 DEF DeviceOK, CaseOK, SameCase
<1>8. Keeps(z, e, b)
  BY <1>0, <1>1 DEF Keeps, SameCase, StillHeld, Slot, Seg, SameStore
<1> QED BY <1>2, <1>3, <1>4, <1>5, <1>6, <1>7, <1>8 DEF Good, DeviceOK, e

\* RestartLink, of a device that is like d but for its connection.
Agrees(d, x) ==
  /\ SameStore(d, x) /\ SameCase(d, x) /\ SameFields(d, x) /\ x.link = d.link

LEMMA RestartRestarts ==
  ASSUME NEW d, NEW x, HasFields(d), Agrees(d, x)
  PROVE  Restarts(d, RestartLink(x))
<1> DEFINE offline == [x EXCEPT !.receipt = ReceiptOffline(@), !.suppress = 0]
           epoch   == AdvanceBridgeCallbackEpoch(offline)
           closed  == DiscardActiveRecording(epoch)
           shut    == [closed EXCEPT !.ready = FALSE, !.registered = FALSE, !.inflight = FALSE]
           marked  == ResetReplayConnectionMarks(shut)
           e       == [marked EXCEPT !.link = StopLink(@), !.ackDue = ReceiptPending(marked.receipt)]
<1>0. {"m", "store", "gen", "ready", "last", "open", "inbox", "replay", "ledger", "active",
      "begun", "asked", "link"} \subseteq DOMAIN x
  BY DEF HasFields, Agrees, SameFields
<1>1. /\ DOMAIN epoch = DOMAIN x /\ epoch.m = x.m /\ epoch.gen = x.gen /\ epoch.asked = x.asked
      /\ epoch.store = x.store /\ epoch.active = x.active /\ epoch.begun = x.begun
      /\ epoch.link = x.link /\ epoch.open = FALSE /\ epoch.inbox = <<>>
  BY <1>0 DEF AdvanceBridgeCallbackEpoch, ResetPlayback
<1>2. RestartLink(x) = e
  BY DEF RestartLink
<1> HIDE DEF epoch, offline
<1>3. /\ DOMAIN closed = DOMAIN x /\ closed.m = x.m /\ closed.gen = x.gen
      /\ closed.asked = x.asked /\ closed.begun = x.begun /\ closed.active = NoSlot
      /\ closed.link = x.link /\ closed.open = FALSE /\ closed.inbox = <<>>
      /\ closed.store = IF x.active = NoSlot THEN x.store ELSE AbortIncomplete(x.store, x.active)
  BY <1>0, <1>1 DEF DiscardActiveRecording
<1> HIDE DEF closed
<1>4. /\ DOMAIN shut = DOMAIN x /\ shut.m = x.m /\ shut.gen = x.gen
      /\ shut.asked = x.asked /\ shut.begun = x.begun /\ shut.active = NoSlot
      /\ shut.link = x.link /\ shut.open = FALSE /\ shut.inbox = <<>> /\ shut.ready = FALSE
      /\ shut.store = closed.store
  BY <1>0, <1>3
<1> HIDE DEF shut
<1>5. /\ DOMAIN marked = DOMAIN x /\ marked.m = x.m /\ marked.gen = x.gen
      /\ marked.asked = x.asked /\ marked.begun = x.begun /\ marked.active = NoSlot
      /\ marked.link = x.link /\ marked.open = FALSE /\ marked.inbox = <<>>
      /\ marked.ready = FALSE /\ marked.store = closed.store
      /\ marked.ledger = EmptyLedger /\ marked.replay = NoReplay
  BY <1>0, <1>4 DEF ResetReplayConnectionMarks
<1> HIDE DEF marked
<1>6. /\ DOMAIN e = DOMAIN x /\ e.m = x.m /\ e.gen = x.gen
      /\ e.asked = x.asked /\ e.begun = x.begun /\ e.active = NoSlot
      /\ e.link = StopLink(x.link) /\ e.open = FALSE /\ e.inbox = <<>>
      /\ e.ready = FALSE /\ e.store = closed.store
      /\ e.ledger = EmptyLedger /\ e.replay = NoReplay
  BY <1>0, <1>5
<1> HIDE DEF e
<1>7. Discards(d, e)
  BY <1>3, <1>6 DEF Agrees, SameStore, Discards
<1>8. SameCase(d, e) /\ SameFields(d, e)
  BY <1>6 DEF Agrees, SameCase, SameFields
<1>9. Restarts(d, e)
  BY <1>6, <1>7, <1>8 DEF Restarts, Agrees
<1> QED BY <1>2, <1>9

LEMMA RestartGood ==
  ASSUME NEW z, NEW d, NEW x, NEW b, Good(z, d, b), Agrees(d, x)
  PROVE  /\ Good(z, RestartLink(x), b) /\ RestartLink(x).link.usable = FALSE
         /\ RestartLink(x).replay = NoReplay /\ RestartLink(x).active = NoSlot
         /\ RestartLink(x).m.gen = d.m.gen /\ RestartLink(x).gen = d.gen
<1>1. HasFields(d) /\ LinkType(d.link)
  BY DEF Good, DeviceOK
<1>2. Restarts(d, RestartLink(x))
  BY <1>1, RestartRestarts
<1>3. Good(z, RestartLink(x), b)
  BY <1>2, LinkRestarts
<1>4. RestartLink(x).link.usable = FALSE
  BY <1>1, <1>2, LinkStops DEF Restarts
<1> QED BY <1>2, <1>3, <1>4 DEF Restarts, Discards, SameCase

LEMMA AgreesWithItself == ASSUME NEW d PROVE Agrees(d, d) /\ Same(d, d)
  BY DEF Agrees, Same, SameStore, SameReplay, SameConn, SameCase, SameFields
----------------------------------------------------------------------------
(* The handlers of MediationTask, from the errors up.                      *)

\* The fields that no invariant reads.
Alike(d, e) ==
  /\ DOMAIN e = DOMAIN d /\ e.m = d.m /\ e.store = d.store /\ e.gen = d.gen
  /\ e.ready = d.ready /\ e.last = d.last /\ e.open = d.open /\ e.inbox = d.inbox
  /\ e.replay = d.replay /\ e.ledger = d.ledger /\ e.active = d.active /\ e.begun = d.begun
  /\ e.asked = d.asked /\ e.link = d.link

LEMMA Untouched ==
  ASSUME NEW z, NEW d, NEW e, NEW b, Good(z, d, b), Alike(d, e)
  PROVE  Good(z, e, b)
<1>1. Same(d, e)
  BY DEF Alike, Same, SameStore, SameReplay, SameConn, SameFields
<1>2. e.m.gen \in Nat /\ d.m.gen <= e.m.gen
  BY DEF Good, DeviceOK, CaseOK, Alike
<1> QED BY <1>1, <1>2, StaysSame

LEMMA MachineMoves ==
  ASSUME NEW z, NEW d, NEW m, NEW b, Good(z, d, b), DOMAIN m = DOMAIN d.m,
         m.gen \in Nat, d.m.gen <= m.gen
  PROVE  Good(z, [d EXCEPT !.m = m], b)
<1> DEFINE e == [d EXCEPT !.m = m]
<1>1. HasFields(d)
  BY DEF Good, DeviceOK
<1>2. Same(d, e) /\ e.m = m
  BY <1>1 DEF HasFields, Same, SameStore, SameReplay, SameConn, SameFields
<1> HIDE DEF e
<1>3. Good(z, e, b)
  BY <1>2, StaysSame
<1> QED BY <1>3 DEF e

LEMMA GenOfMachine ==
  ASSUME NEW z, NEW d, NEW b, Good(z, d, b)
  PROVE  "gen" \in DOMAIN d.m /\ d.m.gen \in Nat /\ d.m.gen <= d.m.gen /\ HasFields(d)
  BY DEF Good, DeviceOK, CaseOK, HasFields

\* No event but a new case moves the generation.
KeepsGen(m, n) == DOMAIN n = DOMAIN m /\ n.gen = m.gen

LEMMA MachineKeeps ==
  ASSUME NEW m, NEW s, NEW g, "gen" \in DOMAIN m
  PROVE  /\ KeepsGen(m, Faulted(m, g).machine) /\ KeepsGen(m, Recovered(m).machine)
         /\ KeepsGen(m, AudioStarted(m, g).machine) /\ KeepsGen(m, AudioEnded(m, g).machine)
         /\ KeepsGen(m, SegmentDurable(m, s, g).machine)
<1>1. KeepsGen(m, Faulted(m, g).machine)
  BY DEF KeepsGen, Faulted, Result
<1>2. KeepsGen(m, Recovered(m).machine)
  BY DEF KeepsGen, Recovered, Result
<1>3. KeepsGen(m, AudioStarted(m, g).machine)
  BY DEF KeepsGen, AudioStarted, Result
<1>4. KeepsGen(m, AudioEnded(m, g).machine)
  BY DEF KeepsGen, AudioEnded, Result
<1>5. KeepsGen(m, SegmentDurable(m, s, g).machine)
  BY DEF KeepsGen, SegmentDurable, Result
<1> QED BY <1>1, <1>2, <1>3, <1>4, <1>5

LEMMA MachineKept ==
  ASSUME NEW z, NEW d, NEW m, NEW b, Good(z, d, b), KeepsGen(d.m, m)
  PROVE  Good(z, [d EXCEPT !.m = m], b)
  BY GenOfMachine, MachineMoves DEF KeepsGen

LEMMA DiscardGood ==
  ASSUME NEW z, NEW d, NEW b, Good(z, d, b)
  PROVE  Good(z, DiscardActiveRecording(d), b) /\ DiscardActiveRecording(d).active = NoSlot
<1> DEFINE e == [d EXCEPT !.store = AbortIncomplete(@, d.active), !.active = NoSlot]
<1>1. CASE d.active = NoSlot
  BY <1>1 DEF DiscardActiveRecording
<1>2. CASE d.active # NoSlot
  <2>1. HasFields(d)
    BY DEF Good, DeviceOK
  <2>2. Discards(d, e)
    BY <1>2, <2>1 DEF Discards, HasFields
  <2>3. /\ SameReplay(d, e) /\ SameConn(d, e) /\ SameCase(d, e) /\ SameFields(d, e)
        /\ e.link = d.link
    BY <2>1 DEF HasFields, SameReplay, SameConn, SameCase, SameFields
  <2> HIDE DEF e
  <2>4. Drops(d, e)
    BY <2>1, <2>2, <2>3, DiscardShrinks DEF Drops
  <2>5. Good(z, e, b) /\ e.active = NoSlot
    BY <2>2, <2>4, RecordingDrops DEF Discards
  <2> QED BY <1>2, <2>5 DEF DiscardActiveRecording, e
<1> QED BY <1>1, <1>2

\* A live recording is not being sent: its end has no stream to close.
LEMMA LiveClosed ==
  ASSUME NEW z, NEW d, NEW b, Good(z, d, b), d.active # NoSlot
  PROVE  Good(z, CloseAsrStream(d, FALSE).d, b)
<1> DEFINE r == CloseAsrStream(d, FALSE)
           e == [d EXCEPT !.link = AsrEnd(@, FALSE)]
<1>1. HasFields(d) /\ LinkType(d.link) /\ ~(d.link.usable /\ d.link.asr)
  BY DEF Good, DeviceOK, ReplayOK, Replaying
<1>2. CASE CanAsrEnd(d.link, FALSE)
  <2>1. r.d = e
    BY <1>2 DEF CloseAsrStream, Done
  <2>2. ~d.link.asr
    BY <1>1, <1>2 DEF CanAsrEnd
  <2>3. AsrEnd(d.link, FALSE) = d.link
    BY <2>2 DEF AsrEnd
  <2>4. Alike(d, e)
    BY <1>1, <2>3 DEF HasFields, Alike
  <2> QED BY <2>1, <2>4, Untouched
<1>3. CASE ~CanAsrEnd(d.link, FALSE)
  <2>1. r.d = RestartLink(d)
    BY <1>3 DEF CloseAsrStream, Failed
  <2>2. Good(z, RestartLink(d), b)
    BY AgreesWithItself, RestartGood
  <2> HIDE DEF r
  <2>3. Good(z, r.d, b)
    BY <2>1, <2>2
  <2> QED BY <2>3 DEF r
<1> QED BY <1>2, <1>3

LEMMA AbortGood ==
  ASSUME NEW z, NEW d, NEW b, Good(z, d, b)
  PROVE  Good(z, AbortActiveRecording(d), b)
  BY LiveClosed, DiscardGood DEF AbortActiveRecording

LEMMA FinishGood ==
  ASSUME NEW z, NEW d, NEW b, Good(z, d, b), d.active # NoSlot
  PROVE  Good(z, FinishRecording(d).d, b)
<1> DEFINE e == [d EXCEPT !.store = MarkLocallyComplete(@, d.active), !.active = NoSlot]
<1>1. CASE CanComplete(d.store, d.active)
  <2>1. HasFields(d)
    BY DEF Good, DeviceOK
  <2>2. Completes(d, e)
    BY <1>1, <2>1 DEF Completes, HasFields, SameReplay, SameConn, SameCase, SameFields
  <2>3. FinishRecording(d).d = e
    BY <1>1 DEF FinishRecording, Done
  <2> QED BY <2>2, <2>3, RecordingCompletes
<1>2. CASE ~CanComplete(d.store, d.active)
  <2>1. FinishRecording(d).d = DiscardActiveRecording(CloseAsrStream(d, FALSE).d)
    BY <1>2 DEF FinishRecording, Failed
  <2> QED BY <2>1, LiveClosed, DiscardGood
<1> QED BY <1>1, <1>2

LEMMA FeedErrorGood ==
  ASSUME NEW z, NEW d, NEW b, NEW auto, Good(z, d, b)
  PROVE  Good(z, FeedError(d, auto), b)
<1> DEFINE r     == Faulted(d.m, d.gen)
           moved == [d EXCEPT !.m = r.machine]
           stops == Act("StopRecording") \in {r.acts[i] : i \in DOMAIN r.acts}
           after == IF stops /\ moved.active # NoSlot THEN FinishRecording(moved).d ELSE moved
           e     == [after EXCEPT !.errorDue = auto]
<1>1. Good(z, moved, b)
  BY GenOfMachine, MachineKeeps, MachineKept
<1> HIDE DEF moved, stops
<1>2. Good(z, after, b)
  BY <1>1, FinishGood
<1>3. FeedError(d, auto) = e
  BY DEF FeedError, after, moved, stops
<1> HIDE DEF after
<1>4. HasFields(after)
  BY <1>2 DEF Good, DeviceOK
<1>5. Alike(after, e)
  BY <1>4 DEF Alike, HasFields
<1> QED BY <1>2, <1>3, <1>5, Untouched

LEMMA FeedRecoveredGood ==
  ASSUME NEW z, NEW d, NEW b, Good(z, d, b)
  PROVE  Good(z, FeedRecovered(d), b)
<1> DEFINE n == [d EXCEPT !.errorDue = FALSE]
           e == [n EXCEPT !.m = Recovered(d.m).machine]
<1>1. HasFields(d)
  BY DEF Good, DeviceOK
<1>2. Alike(d, n)
  BY <1>1 DEF HasFields, Alike
<1>3. Good(z, n, b) /\ n.m = d.m
  BY <1>2, Untouched DEF Alike
<1>4. Good(z, e, b)
  <2> HIDE DEF n
  <2> QED BY <1>3, GenOfMachine, MachineKeeps, MachineKept
<1>5. FeedRecovered(d) = e
  BY <1>1 DEF FeedRecovered, HasFields
<1> QED BY <1>4, <1>5

LEMMA StopGood ==
  ASSUME NEW z, NEW d, NEW b, Good(z, d, b)
  PROVE  Good(z, StopRecordingNormally(d).d, b)
<1>1. CASE d.active = NoSlot
  BY <1>1 DEF StopRecordingNormally, Done
<1>2. CASE d.active # NoSlot
  BY <1>2, FinishGood, FeedErrorGood DEF StopRecordingNormally, Failed
<1> QED BY <1>1, <1>2
----------------------------------------------------------------------------
(* Cases, recordings and requests.                                         *)

LEMMA SendCaseGood ==
  ASSUME NEW z, NEW d, NEW b, Good(z, d, b)
  PROVE  Good(z, SendCaseStart(d).d, b)
<1> DEFINE n == [d EXCEPT !.registered = FALSE]
           m == [t |-> "case", case |-> d.gen]
           e == [n EXCEPT !.link = PushEvent(@, m)]
<1>1. HasFields(d) /\ d.ready \in BOOLEAN
  BY DEF Good, DeviceOK, ReadyOK
<1>2. CASE ~HasCase(d) \/ ~d.ready
  BY <1>2 DEF SendCaseStart, Failed
<1>3. CASE HasCase(d) /\ d.ready /\ CanPushEvent(d.link)
  <2>1. SendCaseStart(d).d = e
    BY <1>3 DEF SendCaseStart, Done
  <2>2. m.t = "case" /\ m.case = d.gen
    OBVIOUS
  <2> HIDE DEF m
  <2>3. Posts(d, e, m)
    BY <1>1, <1>3, <2>2
       DEF Posts, HasFields, SameStore, SameReplay, SameConn, SameFields
  <2> QED BY <2>1, <2>3, MessagePosted
<1>4. CASE HasCase(d) /\ d.ready /\ ~CanPushEvent(d.link)
  <2>1. SendCaseStart(d).d = n
    BY <1>4 DEF SendCaseStart, Failed
  <2>2. Alike(d, n)
    BY <1>1 DEF HasFields, Alike
  <2> QED BY <2>1, <2>2, Untouched
<1> QED BY <1>2, <1>3, <1>4

LEMMA StartCaseGood ==
  ASSUME NEW z, NEW d, NEW gen, NEW b, Good(z, d, b), gen = d.m.gen
  PROVE  Good(z, StartCase(d, gen).d, b)
<1> DEFINE k == [d EXCEPT !.gen = gen, !.registered = FALSE,
                          !.texts = NoTexts, !.wanted = FALSE,
                          !.inflight = FALSE, !.wantGen = 0,
                          !.probeDue = FALSE, !.probes = 0,
                          !.defer = NoFault]
           n == ResetReplayConnectionMarks(k)
           sent == SendCaseStart(n)
<1>1. HasFields(d) /\ CaseOK(d, b)
  BY DEF Good, DeviceOK
<1>2. CASE HasCompleteUnacked(d.store) \/ d.receipt # NoReceipt
  BY <1>2, FeedErrorGood DEF StartCase, Failed
<1>3. CASE ~(HasCompleteUnacked(d.store) \/ d.receipt # NoReceipt)
  <2>1. /\ DOMAIN k = DOMAIN d /\ k.m = d.m /\ k.store = d.store /\ k.gen = gen
        /\ k.ready = d.ready /\ k.last = d.last /\ k.open = d.open /\ k.inbox = d.inbox
        /\ k.active = d.active /\ k.begun = d.begun /\ k.asked = d.asked /\ k.link = d.link
    BY <1>1 DEF HasFields
  <2>2. StartCase(d, gen).d = IF sent.ok THEN sent.d ELSE FeedError(sent.d, FALSE)
    BY <1>3 DEF StartCase, Failed
  <2> HIDE DEF k
  <2>3. /\ DOMAIN n = DOMAIN d /\ n.m = d.m /\ n.store = d.store /\ n.gen = gen
        /\ n.ready = d.ready /\ n.last = d.last /\ n.open = d.open /\ n.inbox = d.inbox
        /\ n.active = d.active /\ n.begun = d.begun /\ n.asked = d.asked /\ n.link = d.link
        /\ n.replay = NoReplay /\ DOMAIN n.ledger = SlotIds
    BY <1>1, <2>1 DEF HasFields, ResetReplayConnectionMarks, EmptyLedger
  <2> HIDE DEF n
  <2>4. NewCase(d, n)
    BY <1>1, <1>3, <2>3 DEF NewCase, CaseOK, HasCompleteUnacked, SameStore, SameConn, SameFields
  <2>5. Good(z, sent.d, b)
    BY <2>4, CaseBegins, SendCaseGood
  <2> QED BY <2>2, <2>5, FeedErrorGood
<1> QED BY <1>2, <1>3

LEMMA StartRecordingGood ==
  ASSUME NEW z, NEW d, NEW speaker, NEW b, Good(z, d, b), d.begun + 1 \in Segments
  PROVE  Good(z, StartRecording(d, speaker).d, b)
<1> DEFINE meta  == [case |-> d.gen, seg |-> d.begun + 1, speaker |-> speaker, gen |-> d.gen]
           f     == FirstFree(d.store)
           begun == [d EXCEPT !.begun = @ + 1]
           kept  == [begun EXCEPT !.store = BeginSlot(@, meta)]
           A     == ~HasCase(d) \/ ~d.registered \/ ~d.ready \/ d.replay.active
                      \/ d.active # NoSlot \/ d.receipt # NoReceipt
<1>1. HasFields(d)
  BY DEF Good, DeviceOK
<1>2. CASE A
  BY <1>2, FeedErrorGood DEF StartRecording, Failed
<1>3. CASE ~A /\ ~HasFreeSlot(d.store)
  <2>1. StartRecording(d, speaker).d = FeedError(begun, FALSE)
    BY <1>3 DEF StartRecording, Failed
  <2>2. Numbers(d, begun)
    BY <1>1 DEF Numbers, HasFields, SameReplay, SameConn, SameCase, SameFields
  <2> QED BY <2>1, <2>2, RecordingNumbered, FeedErrorGood
<1>4. CASE ~A /\ HasFreeSlot(d.store)
  <2>1. meta.seg = d.begun + 1
    OBVIOUS
  <2>2. /\ DOMAIN kept = DOMAIN d /\ kept.m = d.m /\ kept.gen = d.gen
        /\ kept.ready = d.ready /\ kept.last = d.last /\ kept.open = d.open /\ kept.inbox = d.inbox
        /\ kept.replay = d.replay /\ kept.ledger = d.ledger
        /\ kept.active = d.active /\ kept.begun = d.begun + 1 /\ kept.asked = d.asked
        /\ kept.link = d.link /\ kept.store = BeginSlot(d.store, meta)
    BY <1>1 DEF HasFields
  <2>3. StartRecording(d, speaker).d =
          IF d.micOk THEN [kept EXCEPT !.active = f]
          ELSE FeedError([kept EXCEPT !.store = AbortIncomplete(@, f)], TRUE)
    BY <1>4 DEF StartRecording, Done, Failed
  <2> HIDE DEF kept, meta, f
  <2>4. Begins(d, kept, meta)
    BY <1>4, <2>1, <2>2 DEF Begins, SameReplay, SameConn, SameCase, SameFields
  <2>5. Good(z, kept, b) /\ Slot(kept, f).state = "recording" /\ f \in SlotIds
    BY <1>4, <2>4, RecordingBegins, FirstFreeIsFree DEF f
  <2>6. CASE d.micOk
    <3> DEFINE e == [kept EXCEPT !.active = f]
    <3>1. Begins(d, e, meta)
      BY <1>1, <1>4, <2>1, <2>2 DEF Begins, SameReplay, SameConn, SameCase, SameFields, HasFields, f
    <3> QED BY <2>3, <2>6, <3>1, RecordingBegins
  <2>7. CASE ~d.micOk
    <3> DEFINE e == [kept EXCEPT !.store = AbortIncomplete(@, f)]
    <3>1. HasFields(kept) /\ kept.active = NoSlot
      BY <1>4, <2>2, <2>5 DEF Good, DeviceOK
    <3>2. /\ DOMAIN e = DOMAIN kept /\ e.m = kept.m /\ e.gen = kept.gen
          /\ e.ready = kept.ready /\ e.last = kept.last /\ e.open = kept.open /\ e.inbox = kept.inbox
          /\ e.replay = kept.replay /\ e.ledger = kept.ledger
          /\ e.active = kept.active /\ e.begun = kept.begun /\ e.asked = kept.asked
          /\ e.link = kept.link /\ e.store = [kept.store EXCEPT !.slots[f] = FreeSlot]
      BY <2>5, <3>1 DEF HasFields, AbortIncomplete, Release, Slot
    <3> HIDE DEF e
    <3>3. /\ {"slots", "next"} \subseteq DOMAIN e.store /\ DOMAIN e.store.slots = SlotIds
          /\ e.store.next = kept.store.next
          /\ \A x \in SlotIds : Slot(e, x) = IF x = f THEN FreeSlot ELSE Slot(kept, x)
      BY <2>5, <3>1, <3>2 DEF HasFields, Slot
    <3>4. Shrinks(kept, e)
      BY <2>5, <3>1, <3>2, <3>3 DEF Shrinks
    <3>5. Drops(kept, e)
      BY <3>2, <3>4 DEF Drops, SameReplay, SameConn, SameCase, SameFields
    <3>6. Good(z, e, b)
      BY <2>5, <3>5, RecordingDrops
    <3>7. Good(z, FeedError(e, TRUE), b)
      BY <3>6, FeedErrorGood
    <3>8. StartRecording(d, speaker).d = FeedError(e, TRUE)
      BY <2>3, <2>7 DEF e
    <3> QED BY <3>7, <3>8
  <2> QED BY <2>6, <2>7
<1> QED BY <1>2, <1>3, <1>4

\* Everything made in this case has been confirmed.
LEMMA RequestGood ==
  ASSUME NEW z, NEW d, NEW b, Good(z, d, b), d.ready, CompleteSlots(d.store) = {}
  PROVE  Good(z, SendMediationRequest(d), b)
<1> DEFINE req == d.asked + 1
           m == [t |-> "mediate", case |-> d.gen, req |-> req]
           e == [d EXCEPT !.asked = req, !.reqId = req, !.inflight = TRUE, !.probeDue = TRUE,
                          !.link = PushEvent(@, m)]
<1>1. HasFields(d) /\ d.ready = TRUE
  BY DEF Good, DeviceOK, ReadyOK
<1>2. CASE CanPushEvent(d.link)
  <2>1. SendMediationRequest(d) = e
    BY <1>2 DEF SendMediationRequest
  <2>2. m.t = "mediate"
    OBVIOUS
  <2> HIDE DEF m
  <2>3. Posts(d, e, m)
    BY <1>1, <1>2, <2>2 DEF Posts, HasFields, SameStore, SameReplay, SameConn, SameFields
  <2> QED BY <2>1, <2>3, MessagePosted
<1>3. CASE ~CanPushEvent(d.link)
  BY <1>3, AgreesWithItself, RestartGood DEF SendMediationRequest
<1> QED BY <1>2, <1>3

LEMMA DispatchGood ==
  ASSUME NEW z, NEW d, NEW probe, NEW b, Good(z, d, b)
  PROVE  Good(z, Dispatch(d, probe), b)
<1>1. MayDispatch(d, probe) => d.ready /\ CompleteSlots(d.store) = {}
  BY DEF MayDispatch, Settled, HasCompleteUnacked
<1> QED BY <1>1, RequestGood DEF Dispatch

LEMMA RequestMediationGood ==
  ASSUME NEW z, NEW d, NEW gen, NEW b, Good(z, d, b)
  PROVE  Good(z, RequestMediation(d, gen).d, b)
<1> DEFINE asking == [d EXCEPT !.wanted = TRUE, !.inflight = FALSE, !.wantGen = gen,
                               !.probes = 0, !.probeDue = TRUE]
           hopeless == /\ d.active = NoSlot /\ ~d.replay.active
                       /\ ~HasCompleteUnacked(d.store)
                       /\ ~ReadyToMediate(d.texts) /\ ~HasPending(d.texts)
           A == ~HasCase(d) \/ gen # d.gen \/ d.receipt # NoReceipt
           given == [asking EXCEPT !.wanted = FALSE]
<1>1. HasFields(d)
  BY DEF Good, DeviceOK
<1>2. Alike(d, asking) /\ Alike(d, given)
  BY <1>1 DEF HasFields, Alike
<1>3. \/ A /\ RequestMediation(d, gen).d = FeedError(d, FALSE)
      \/ ~A /\ hopeless /\ RequestMediation(d, gen).d = FeedError(given, TRUE)
      \/ ~A /\ ~hopeless /\ RequestMediation(d, gen).d = Dispatch(asking, FALSE)
  <2> HIDE DEF asking, hopeless
  <2> QED BY DEF RequestMediation, Done, Failed, asking, hopeless
<1> HIDE DEF asking, hopeless, given
<1> QED BY <1>2, <1>3, Untouched, FeedErrorGood, DispatchGood

LEMMA PerformOneGood ==
  ASSUME NEW z, NEW r, NEW act, NEW b, Good(z, r.d, b),
         act.type = "NewCase" => act.gen = r.d.m.gen,
         act.type = "StartRecording" => r.d.begun + 1 \in Segments
  PROVE  Good(z, PerformOne(r, act).d, b)
<1>1. CASE ~r.ok
  BY <1>1 DEF PerformOne
<1>2. CASE r.ok /\ act.type = "NewCase"
  BY <1>2, StartCaseGood DEF PerformOne
<1>3. CASE r.ok /\ act.type = "StartRecording"
  BY <1>3, StartRecordingGood DEF PerformOne
<1>4. CASE r.ok /\ act.type = "StopRecording"
  BY <1>4, StopGood DEF PerformOne
<1>5. CASE r.ok /\ act.type = "RequestMediation"
  BY <1>5, RequestMediationGood DEF PerformOne
<1>6. CASE r.ok /\ act.type \notin {"NewCase", "StartRecording", "StopRecording", "RequestMediation"}
  BY <1>6 DEF PerformOne
<1> QED BY <1>1, <1>2, <1>3, <1>4, <1>5, <1>6

\* The actions of a step of the state machine: a case or a recording is
\* begun by the first of them only.
Orders(d, result) ==
  /\ DOMAIN result.machine = DOMAIN d.m
  /\ result.machine.gen \in Nat /\ d.m.gen <= result.machine.gen
  /\ \A i \in DOMAIN result.acts :
       /\ result.acts[i].type = "NewCase" => i = 1 /\ result.acts[i].gen = result.machine.gen
       /\ result.acts[i].type = "StartRecording" => i = 1 /\ d.begun + 1 \in Segments

LEMMA PerformGood ==
  ASSUME NEW z, NEW d, NEW result, NEW b, Good(z, d, b), Orders(d, result)
  PROVE  Good(z, Perform(d, result), b)
<1> DEFINE d0 == [d EXCEPT !.m = result.machine]
           then(r, i) == PerformNth(i, result.acts, r)
           r1 == then(Done(d0), 1)
           r2 == then(r1, 2)
           r3 == then(r2, 3)
<1>1. Good(z, d0, b) /\ d0.m = result.machine /\ d0.begun = d.begun
  <2>1. HasFields(d)
    BY DEF Good, DeviceOK
  <2> QED BY <2>1, MachineMoves DEF Orders, HasFields
<1> HIDE DEF d0
<1>2. Good(z, r1.d, b)
  BY <1>1, PerformOneGood DEF Orders, Done, PerformNth
<1> HIDE DEF r1
<1>3. \A r : Good(z, r.d, b) => Good(z, then(r, 2).d, b) /\ Good(z, then(r, 3).d, b)
  <2> SUFFICES ASSUME NEW r, Good(z, r.d, b), NEW i \in {2, 3}
               PROVE  Good(z, then(r, i).d, b)
    OBVIOUS
  <2>1. i \in DOMAIN result.acts =>
          result.acts[i].type # "NewCase" /\ result.acts[i].type # "StartRecording"
    BY DEF Orders
  <2> QED BY <2>1, PerformOneGood DEF PerformNth
<1>4. Good(z, r3.d, b)
  BY <1>2, <1>3
<1> QED BY <1>4 DEF Perform, d0, r1, r2
----------------------------------------------------------------------------
(* The upload of complete recordings.                                      *)

LEMMA CandidateIsOne ==
  ASSUME NEW d, StoreOK(d), ReplayCandidates(d) # {}
  PROVE  ReplayCandidate(d) \in ReplayCandidates(d)
<1> DEFINE S == {Slot(d, x).ordinal : x \in ReplayCandidates(d)}
<1>1. \A x \in ReplayCandidates(d) : Slot(d, x).ordinal \in Nat
  BY DEF StoreOK, SlotOK, InUse, ReplayCandidates, CompleteSlots, Slot
<1>2. S \in SUBSET Nat /\ S # {}
  BY <1>1
<1>3. PICK n \in S : \A k \in S : n <= k
  BY <1>2, LeastOfNaturals
<1>4. PICK x \in ReplayCandidates(d) : n = Slot(d, x).ordinal
  BY <1>3
<1>5. \A t \in ReplayCandidates(d) : Slot(d, x).ordinal <= Slot(d, t).ordinal
  BY <1>3, <1>4
<1> QED BY <1>5 DEF ReplayCandidate

LEMMA StartReplayGood ==
  ASSUME NEW z, NEW d, NEW b, Good(z, d, b)
  PROVE  Good(z, StartReplay(d), b)
<1> DEFINE s == ReplayCandidate(d)
           x == Slot(d, s)
           e == [d EXCEPT !.link = AsrStart(@, x.meta.seg, x.meta.speaker),
                          !.replay = Replay(s, x.ordinal, x.bytes)]
           A == \/ d.replay.active \/ d.active # NoSlot \/ ~d.ready \/ ~d.registered
                \/ ReplayCandidates(d) = {}
<1>1. HasFields(d) /\ StoreOK(d) /\ d.ready \in BOOLEAN
  BY DEF Good, DeviceOK, ReadyOK
<1>2. CASE A
  BY <1>2 DEF StartReplay
<1>3. CASE ~A /\ (x.meta.case # d.gen \/ ~CanAsrStart(d.link))
  BY <1>3 DEF StartReplay
<1>4. CASE ~A /\ x.meta.case = d.gen /\ CanAsrStart(d.link)
  <2>1. StartReplay(d) = e
    BY <1>4 DEF StartReplay
  <2>2. s \in ReplayCandidates(d)
    BY <1>1, <1>4, CandidateIsOne
  <2>3. s \in SlotIds /\ x.state = "complete" /\ ~WasSent(d.ledger, s, x.ordinal)
    BY <2>2 DEF ReplayCandidates, CompleteSlots, Slot
  <2>4. /\ DOMAIN e = DOMAIN d /\ e.m = d.m /\ e.store = d.store /\ e.gen = d.gen
        /\ e.ready = d.ready /\ e.last = d.last /\ e.open = d.open /\ e.inbox = d.inbox
        /\ e.ledger = d.ledger /\ e.active = d.active /\ e.begun = d.begun
        /\ e.asked = d.asked
        /\ e.link = AsrStart(d.link, Seg(d, s), Slot(d, s).meta.speaker)
        /\ e.replay = Replay(s, Slot(d, s).ordinal, Slot(d, s).bytes)
    BY <1>1 DEF HasFields, Seg
  <2>5. ~d.replay.active /\ d.active = NoSlot /\ d.ready = TRUE
    BY <1>1, <1>4
  <2> HIDE DEF e, s
  <2>6. Starts(d, e, s)
    BY <1>4, <2>3, <2>4, <2>5 DEF Starts, SameStore, SameConn, SameCase, SameFields
  <2> QED BY <2>1, <2>6, StreamStarts
<1> QED BY <1>2, <1>3, <1>4

LEMMA EndReplayGood ==
  ASSUME NEW z, NEW d, NEW b, Good(z, d, b), d.replay.active
  PROVE  Good(z, EndReplay(d), b)
<1> DEFINE ended == [d EXCEPT !.link = AsrEnd(@, TRUE)]
           e == [[ended EXCEPT !.replay = NoReplay] EXCEPT
                   !.ledger = MarkSent(@, d.replay.slot, d.replay.ordinal)]
           lost == [RestartLink(d) EXCEPT !.replay = NoReplay]
<1>1. HasFields(d) /\ Replaying(d) /\ LinkType(d.link)
  BY DEF Good, DeviceOK, ReplayOK
<1>2. CASE CanAsrEnd(d.link, TRUE)
  <2>1. EndReplay(d) = StartReplay(FeedRecovered(e))
    BY <1>2 DEF EndReplay, CloseAsrStream, Done
  <2>2. /\ DOMAIN e = DOMAIN d /\ e.m = d.m /\ e.store = d.store /\ e.gen = d.gen
        /\ e.ready = d.ready /\ e.last = d.last /\ e.open = d.open /\ e.inbox = d.inbox
        /\ e.active = d.active /\ e.begun = d.begun /\ e.asked = d.asked
        /\ e.replay = NoReplay /\ e.link = AsrEnd(d.link, TRUE)
        /\ e.ledger = MarkSent(d.ledger, d.replay.slot, d.replay.ordinal)
    BY <1>1 DEF HasFields
  <2> HIDE DEF e
  <2>3. CASE d.link.usable
    <3>1. Ends(d, e)
      BY <1>2, <2>2 DEF Ends, SameStore, SameConn, SameCase, SameFields
    <3> QED BY <2>1, <2>3, <3>1, StreamEnds, FeedRecoveredGood, StartReplayGood
  <2>4. CASE ~d.link.usable
    <3>1. ~d.link.asr
      BY <1>2, <2>4 DEF CanAsrEnd
    <3>2. e.link = d.link
      BY <2>2, <3>1 DEF AsrEnd
    <3>3. /\ DOMAIN e.ledger = SlotIds
          /\ \A x \in SlotIds : e.ledger[x] = d.ledger[x] \/ e.ledger[x] = Slot(d, x).ordinal
      BY <1>1, <2>2 DEF HasFields, Replaying, MarkSent
    <3>4. Stops(d, e)
      BY <2>2, <2>4, <3>1, <3>2, <3>3 DEF Stops, SameStore, SameConn, SameCase, SameFields
    <3> QED BY <2>1, <3>4, ReplayStops, FeedRecoveredGood, StartReplayGood
  <2> QED BY <2>3, <2>4
<1>3. CASE ~CanAsrEnd(d.link, TRUE)
  <2>1. EndReplay(d) = FeedError(lost, FALSE)
    BY <1>3 DEF EndReplay, CloseAsrStream, Failed
  <2>2. Good(z, RestartLink(d), b) /\ RestartLink(d).replay = NoReplay
    BY AgreesWithItself, RestartGood
  <2>3. HasFields(RestartLink(d))
    BY <2>2 DEF Good, DeviceOK
  <2>4. Alike(RestartLink(d), lost)
    BY <2>2, <2>3 DEF HasFields, Alike
  <2>5. Good(z, lost, b)
    BY <2>2, <2>4, Untouched
  <2> QED BY <2>1, <2>5, FeedErrorGood
<1> QED BY <1>2, <1>3

LEMMA PumpGood ==
  ASSUME NEW z, NEW d, NEW b, Good(z, d, b)
  PROVE  Good(z, PumpReplay(d), b)
<1> DEFINE x == Slot(d, d.replay.slot)
           cut == [d EXCEPT !.replay = NoReplay]
           lost == [RestartLink(d) EXCEPT !.replay = NoReplay]
           more == [d EXCEPT !.link = AsrPush(@, Pcm(x, d.replay.offset)), !.replay.offset = @ + 1]
           A == d.replay.active
           B == ~d.ready \/ d.link.core # "ready"
           C == x.state # "complete" \/ x.ordinal # d.replay.ordinal
<1>1. HasFields(d) /\ ReplayOK(d) /\ LinkType(d.link) /\ LinkOK(d.link) /\ ReadyOK(d)
  BY DEF Good, DeviceOK
<1>2. CASE ~A
  BY <1>2 DEF PumpReplay
<1>3. CASE A /\ B
  <2>1. PumpReplay(d) = cut
    BY <1>3 DEF PumpReplay
  <2>2. ~d.link.usable
    <3>1. d.ready = TRUE
      BY <1>1, <1>3 DEF ReplayOK, Replaying
    <3> QED BY <1>1, <1>3, <3>1 DEF ReadyOK, LinkOK
  <2>3. Stops(d, cut)
    BY <1>1, <2>2 DEF HasFields, Stops, SameStore, SameConn, SameCase, SameFields
  <2> QED BY <2>1, <2>3, ReplayStops
<1>4. CASE A /\ ~B /\ C
  <2>1. PumpReplay(d) = StartReplay(lost)
    BY <1>4 DEF PumpReplay
  <2>2. Good(z, RestartLink(d), b) /\ RestartLink(d).replay = NoReplay
    BY AgreesWithItself, RestartGood
  <2>3. HasFields(RestartLink(d))
    BY <2>2 DEF Good, DeviceOK
  <2>4. Alike(RestartLink(d), lost)
    BY <2>2, <2>3 DEF HasFields, Alike
  <2>5. Good(z, lost, b)
    BY <2>2, <2>4, Untouched
  <2> QED BY <2>1, <2>5, StartReplayGood
<1>5. CASE A /\ ~B /\ ~C /\ CursorDone(d.replay)
  <2>1. PumpReplay(d) = EndReplay(d)
    BY <1>5 DEF PumpReplay
  <2> QED BY <1>5, <2>1, EndReplayGood
<1>6. CASE A /\ ~B /\ ~C /\ ~CursorDone(d.replay)
  <2>1. PumpReplay(d) = CASE PushResult(d.link) = "ok" -> more
                          [] PushResult(d.link) = "timeout" -> d
                          [] PushResult(d.link) = "fail" -> FeedError(RestartLink(d), FALSE)
    BY <1>6 DEF PumpReplay
  <2>2. PushResult(d.link) \in {"ok", "timeout", "fail"}
    BY DEF PushResult
  <2>3. CASE PushResult(d.link) = "ok"
    <3>1. /\ DOMAIN more = DOMAIN d /\ more.m = d.m /\ more.store = d.store /\ more.gen = d.gen
          /\ more.ready = d.ready /\ more.last = d.last /\ more.open = d.open
          /\ more.inbox = d.inbox /\ more.active = d.active /\ more.begun = d.begun
          /\ more.asked = d.asked /\ more.ledger = d.ledger
          /\ more.link = AsrPush(d.link, Pcm(x, d.replay.offset))
          /\ more.replay = [d.replay EXCEPT !.offset = @ + 1]
      BY <1>1 DEF HasFields
    <3> HIDE DEF more
    <3>2. Streams(d, more)
      BY <1>6, <2>3, <3>1 DEF Streams, SameStore, SameConn, SameCase, SameFields
    <3>3. PumpReplay(d) = more
      BY <2>1, <2>3
    <3> QED BY <3>2, <3>3, StreamGoesOn
  <2>4. CASE PushResult(d.link) = "timeout"
    BY <2>1, <2>4
  <2>5. CASE PushResult(d.link) = "fail"
    <3>1. PumpReplay(d) = FeedError(RestartLink(d), FALSE)
      BY <2>1, <2>5
    <3>2. Good(z, RestartLink(d), b)
      BY AgreesWithItself, RestartGood
    <3> QED BY <3>1, <3>2, FeedErrorGood
  <2> QED BY <2>2, <2>3, <2>4, <2>5
<1> QED BY <1>2, <1>3, <1>4, <1>5, <1>6

\* What an error of the Bridge does to a complete recording.
LEMMA FaultGood ==
  ASSUME NEW z, NEW d, NEW fault, NEW b, Good(z, d, b)
  PROVE  Good(z, ApplyCompleteFault(d, fault), b)
<1> DEFINE x == Slot(d, fault.slot)
           replayed == /\ d.replay.active /\ d.replay.slot = fault.slot
                       /\ d.replay.ordinal = fault.ordinal
           shelved == [d EXCEPT !.store = QuarantineComplete(@, fault.slot),
                                !.texts = NoteFailed(@, x.meta.seg)]
           forgot == [d EXCEPT !.ledger = Forget(@, fault.slot, fault.ordinal)]
           A == CanQuarantine(d.store, fault.slot, fault.ordinal)
<1>1. HasFields(d)
  BY DEF Good, DeviceOK
<1>2. CASE ~A
  BY <1>2 DEF ApplyCompleteFault
<1>3. CASE A /\ fault.retryable
  <2>1. ApplyCompleteFault(d, fault) = FeedError(RestartLink(forgot), FALSE)
    BY <1>3 DEF ApplyCompleteFault
  <2>2. Agrees(d, forgot)
    BY <1>1 DEF HasFields, Agrees, SameStore, SameCase, SameFields
  <2> HIDE DEF forgot
  <2>3. Good(z, RestartLink(forgot), b)
    BY <2>2, RestartGood
  <2> QED BY <2>1, <2>3, FeedErrorGood
<1>4. CASE A /\ ~fault.retryable
  <2>1. ApplyCompleteFault(d, fault)
          = FeedError(IF replayed THEN RestartLink(shelved) ELSE shelved, FALSE)
    BY <1>4 DEF ApplyCompleteFault
  <2>2. Shelves(d, shelved, fault.slot)
    BY <1>1 DEF HasFields, Shelves, SameReplay, SameConn, SameCase, SameFields
  <2> HIDE DEF shelved, replayed
  <2>3. Good(z, shelved, b)
    BY <2>2, RecordingShelved
  <2>4. Good(z, RestartLink(shelved), b)
    BY <2>3, AgreesWithItself, RestartGood
  <2>5. Good(z, IF replayed THEN RestartLink(shelved) ELSE shelved, b)
    BY <2>3, <2>4
  <2> QED BY <2>1, <2>5, FeedErrorGood
<1> QED BY <1>2, <1>3, <1>4

LEMMA DeferredGood ==
  ASSUME NEW z, NEW d, NEW b, Good(z, d, b)
  PROVE  Good(z, ApplyDeferredFault(d), b)
<1> DEFINE e == [d EXCEPT !.defer = NoFault]
<1>1. HasFields(d)
  BY DEF Good, DeviceOK
<1>2. Alike(d, e)
  BY <1>1 DEF HasFields, Alike
<1> HIDE DEF e
<1>3. Good(z, ApplyCompleteFault(e, d.defer), b)
  BY <1>2, Untouched, FaultGood
<1> QED BY <1>3 DEF ApplyDeferredFault, e
----------------------------------------------------------------------------
(* Playback, and the state of the link.                                    *)

LEMMA SendPlayedGood ==
  ASSUME NEW z, NEW d, NEW b, Good(z, d, b)
  PROVE  Good(z, SendPlayed(d).d, b) /\ Good(z, SendPlayedOrRestart(d), b)
<1> DEFINE m == [t |-> "played", case |-> d.gen, req |-> d.receipt.req]
           e == [d EXCEPT !.link = PushEvent(@, m), !.receipt.sent = TRUE, !.ackDue = TRUE]
           A == d.ready /\ NeedsSend(d.receipt) /\ CanPushEvent(d.link)
<1>1. HasFields(d) /\ d.ready \in BOOLEAN
  BY DEF Good, DeviceOK, ReadyOK
<1>2. Good(z, SendPlayed(d).d, b)
  <2>1. CASE A
    <3>1. SendPlayed(d).d = e
      BY <2>1 DEF SendPlayed, Done
    <3>2. m.t = "played"
      OBVIOUS
    <3> HIDE DEF m
    <3>3. Posts(d, e, m)
      BY <1>1, <2>1, <3>2 DEF Posts, HasFields, SameStore, SameReplay, SameConn, SameFields
    <3> QED BY <3>1, <3>3, MessagePosted
  <2>2. CASE ~A
    BY <2>2 DEF SendPlayed, Failed
  <2> QED BY <2>1, <2>2
<1>3. Good(z, RestartLink(SendPlayed(d).d), b)
  BY <1>2, AgreesWithItself, RestartGood
<1> QED BY <1>2, <1>3 DEF SendPlayedOrRestart

LEMMA PlaybackGood ==
  ASSUME NEW z, NEW d, NEW b, NEW req, Good(z, d, b)
  PROVE  /\ Good(z, CancelPlaybackIngress(d), b) /\ Good(z, CancelAndFault(d), b)
         /\ Good(z, ResendPlayed(d, req), b)
<1>1. Good(z, CancelPlaybackIngress(d), b)
  <2>1. HasFields(d)
    BY DEF Good, DeviceOK
  <2>2. Alike(d, CancelPlaybackIngress(d))
    BY <2>1 DEF CancelPlaybackIngress, ResetPlayback, HasFields, Alike
  <2> QED BY <2>2, Untouched
<1>2. Good(z, CancelAndFault(d), b)
  <2> DEFINE c == CancelPlaybackIngress(d)
  <2> HIDE DEF c
  <2>1. Good(z, c, b) /\ HasFields(c)
    BY <1>1 DEF c, Good, DeviceOK
  <2>2. Alike(c, SignalFault(c))
    BY <2>1 DEF SignalFault, HasFields, Alike
  <2>3. Good(z, SignalFault(c), b)
    BY <2>1, <2>2, Untouched
  <2> QED BY <2>3 DEF CancelAndFault, c
<1>3. Good(z, ResendPlayed(d, req), b)
  <2> DEFINE e == [d EXCEPT !.receipt = Unsent(@)]
  <2>1. HasFields(d)
    BY DEF Good, DeviceOK
  <2>2. Alike(d, e)
    BY <2>1 DEF HasFields, Alike
  <2> HIDE DEF e
  <2>3. Good(z, SendPlayedOrRestart(e), b)
    BY <2>2, Untouched, SendPlayedGood
  <2> QED BY <2>3 DEF ResendPlayed, e
<1> QED BY <1>1, <1>2, <1>3

LEMMA AudioStartGood ==
  ASSUME NEW z, NEW d, NEW msg, NEW b, Good(z, d, b)
  PROVE  Good(z, ApplyAudioStart(d, msg), b)
<1> DEFINE quiet == [d EXCEPT !.suppress = 0]
           marked == [d EXCEPT !.suppress = msg.req]
           req == msg.req
           n == [d EXCEPT !.sessions = @ + 1, !.session = d.sessions + 1,
                          !.playing = d.sessions + 1, !.receipt = BeginReceipt(req),
                          !.wanted = FALSE, !.inflight = FALSE, !.reqId = 0, !.probeDue = FALSE]
           begun == [n EXCEPT !.m = AudioStarted(d.m, d.gen).machine]
<1>1. HasFields(d)
  BY DEF Good, DeviceOK
<1>2. Alike(d, quiet) /\ Alike(d, marked) /\ Alike(d, n)
  BY <1>1 DEF HasFields, Alike
<1> HIDE DEF quiet, marked, n
<1>3. Good(z, quiet, b) /\ Good(z, marked, b) /\ Good(z, n, b)
  BY <1>2, Untouched
<1>4. Good(z, begun, b)
  <2>1. n.m = d.m
    BY <1>2 DEF Alike
  <2> QED BY <1>3, <2>1, GenOfMachine, MachineKeeps, MachineKept
<1>5. BeginPlayback(d, req) = begun
  BY <1>1 DEF BeginPlayback, HasFields, n
<1> DEFINE first == CancelAndFault(d)
           second == ResendPlayed(CancelPlaybackIngress(d), req)
           third == CancelAndFault(quiet)
           fourth == ResendPlayed(CancelPlaybackIngress(marked), req)
           fifth == FeedError(CancelAndFault(d), TRUE)
<1>6. Good(z, first, b) /\ Good(z, second, b) /\ Good(z, third, b) /\ Good(z, fourth, b)
      /\ Good(z, begun, b)
  BY <1>3, <1>4, PlaybackGood
<1>7. Good(z, fifth, b)
  BY <1>6, FeedErrorGood
<1>8. ApplyAudioStart(d, msg) \in {first, second, third, fourth, fifth, BeginPlayback(d, req)}
  BY DEF ApplyAudioStart, quiet, marked
<1> HIDE DEF first, second, third, fourth, fifth, begun
<1> QED BY <1>5, <1>6, <1>7, <1>8

LEMMA AudioEndGood ==
  ASSUME NEW z, NEW d, NEW msg, NEW b, Good(z, d, b)
  PROVE  Good(z, ApplyAudioEnd(d, msg), b)
<1> DEFINE req == msg.req
           quiet == [d EXCEPT !.suppress = 0]
           c == CancelPlaybackIngress(d)
           calm == [c EXCEPT !.suppress = 0]
           ended == [d EXCEPT !.receipt.ended = TRUE]
           first == ResendPlayed(calm, req)
           second == CancelAndFault(quiet)
           third == ResendPlayed(c, req)
           fourth == FeedError(CancelAndFault(d), TRUE)
<1>1. Good(z, c, b) /\ HasFields(d)
  BY PlaybackGood DEF Good, DeviceOK
<1>2. HasFields(c)
  BY <1>1 DEF Good, DeviceOK
<1> HIDE DEF c
<1>3. Alike(d, quiet) /\ Alike(c, calm) /\ Alike(d, ended)
  BY <1>1, <1>2 DEF HasFields, Alike
<1> HIDE DEF quiet, calm, ended
<1>4. Good(z, quiet, b) /\ Good(z, calm, b) /\ Good(z, ended, b)
  BY <1>1, <1>3, Untouched
<1>5. Good(z, first, b) /\ Good(z, second, b) /\ Good(z, third, b)
  BY <1>1, <1>4, PlaybackGood
<1>6. Good(z, fourth, b)
  BY PlaybackGood, FeedErrorGood
<1>7. ApplyAudioEnd(d, msg) \in {d, first, second, third, fourth, ended}
  BY DEF ApplyAudioEnd, quiet, calm, ended, c
<1> HIDE DEF first, second, third, fourth
<1> QED BY <1>4, <1>5, <1>6, <1>7

LEMMA NoticeGood ==
  ASSUME NEW z, NEW d, NEW b, Good(z, d, b)
  PROVE  Good(z, DrainNotice(d), b)
<1> DEFINE taken == [d EXCEPT !.notice = NoNotice]
           over == [taken EXCEPT !.session = 0]
           part == [over EXCEPT !.receipt = Drained(@)]
           drained == [over EXCEPT !.receipt = Drained(@), !.m = AudioEnded(@, d.gen).machine]
           aborted == [over EXCEPT !.receipt = AbortPlayback(@)]
           sent == SendPlayedOrRestart(drained)
           failed == FeedError(aborted, TRUE)
<1>1. HasFields(d)
  BY DEF Good, DeviceOK
<1>2. Alike(d, taken) /\ Alike(d, part) /\ Alike(d, aborted)
  BY <1>1 DEF HasFields, Alike
<1>3. drained = [part EXCEPT !.m = AudioEnded(d.m, d.gen).machine]
  BY <1>1 DEF HasFields
<1>4. DrainNotice(d) \in {taken, sent, failed}
  BY DEF DrainNotice
<1> HIDE DEF taken, part, aborted, over
<1>5. Good(z, taken, b) /\ Good(z, part, b) /\ Good(z, aborted, b) /\ part.m = d.m
  BY <1>2, Untouched DEF Alike
<1>6. Good(z, drained, b)
  BY <1>3, <1>5, GenOfMachine, MachineKeeps, MachineKept
<1> HIDE DEF drained
<1>7. Good(z, sent, b) /\ Good(z, failed, b)
  BY <1>5, <1>6, SendPlayedGood, FeedErrorGood
<1> HIDE DEF sent, failed
<1> QED BY <1>4, <1>5, <1>7

LEMMA DrainFaultGood ==
  ASSUME NEW z, NEW d, NEW b, Good(z, d, b)
  PROVE  Good(z, DrainFault(d), b)
<1> DEFINE e == [d EXCEPT !.fault = FALSE, !.inbox = <<>>]
<1>1. HasFields(d)
  BY DEF Good, DeviceOK
<1>2. Agrees(d, e)
  BY <1>1 DEF HasFields, Agrees, SameStore, SameCase, SameFields
<1> HIDE DEF e
<1>3. Good(z, RestartLink(e), b)
  BY <1>2, RestartGood
<1> QED BY <1>3 DEF DrainFault, e

LEMMA ProbeGood ==
  ASSUME NEW z, NEW d, NEW b, Good(z, d, b)
  PROVE  Good(z, Probe(d), b)
<1> DEFINE asking == [d EXCEPT !.inflight = FALSE, !.probeDue = FALSE, !.probes = @ + 1]
           sent   == Dispatch(asking, TRUE)
           again  == [sent EXCEPT !.probeDue = TRUE]
           given  == [d EXCEPT !.inflight = FALSE, !.probeDue = FALSE, !.wanted = FALSE,
                               !.wantGen = 0]
           failed == FeedError(given, TRUE)
<1>1. HasFields(d)
  BY DEF Good, DeviceOK
<1>2. Alike(d, asking) /\ Alike(d, given)
  BY <1>1 DEF HasFields, Alike
<1>3. Probe(d) \in {d, failed, again, sent}
  BY DEF Probe
<1> HIDE DEF asking, given
<1>4. Good(z, sent, b) /\ Good(z, failed, b)
  BY <1>2, Untouched, DispatchGood, FeedErrorGood
<1> HIDE DEF sent, failed
<1>5. HasFields(sent)
  BY <1>4 DEF Good, DeviceOK
<1>6. Alike(sent, again)
  BY <1>5 DEF HasFields, Alike
<1>7. Good(z, again, b)
  BY <1>4, <1>6, Untouched
<1> HIDE DEF again
<1> QED BY <1>3, <1>4, <1>7
LEMMA CleanupGood ==
  ASSUME NEW z, NEW d, NEW x, NEW b, Good(z, d, b),
         d.ready => d.link.core = "disconnected", d.link.told = "none",
         Looked(x.link, d.link), SameStore(d, x), x.ledger = d.ledger, SameCase(d, x),
         SameFields(d, x)
  PROVE  Good(z, CleanupDisconnect(x), b) /\ CleanupDisconnect(x).ready = FALSE
<1> DEFINE offline == [x EXCEPT !.receipt = ReceiptOffline(@), !.suppress = 0]
           epoch   == AdvanceBridgeCallbackEpoch(offline)
           closed  == [epoch EXCEPT !.ready = FALSE, !.registered = FALSE, !.inflight = FALSE]
           left    == [DiscardActiveRecording(closed) EXCEPT !.replay = NoReplay]
           idle    == CancelPlaybackIngress(left)
           armed   == [idle EXCEPT !.ackDue = ReceiptPending(idle.receipt)]
<1>0. {"m", "store", "gen", "ready", "last", "open", "inbox", "replay", "ledger", "active",
      "begun", "asked", "link"} \subseteq DOMAIN x
  BY DEF Good, DeviceOK, HasFields, SameFields
<1>1. /\ DOMAIN epoch = DOMAIN x /\ epoch.m = x.m /\ epoch.gen = x.gen /\ epoch.asked = x.asked
      /\ epoch.store = x.store /\ epoch.active = x.active /\ epoch.begun = x.begun
      /\ epoch.link = x.link /\ epoch.open = FALSE /\ epoch.inbox = <<>>
      /\ epoch.ledger = x.ledger
  BY <1>0 DEF AdvanceBridgeCallbackEpoch, ResetPlayback
<1> HIDE DEF epoch
<1>2. /\ DOMAIN closed = DOMAIN x /\ closed.m = x.m /\ closed.gen = x.gen
      /\ closed.asked = x.asked /\ closed.store = x.store /\ closed.active = x.active
      /\ closed.begun = x.begun /\ closed.link = x.link /\ closed.open = FALSE
      /\ closed.inbox = <<>> /\ closed.ledger = x.ledger /\ closed.ready = FALSE
  BY <1>0, <1>1
<1> HIDE DEF closed
<1>3. /\ DOMAIN left = DOMAIN x /\ left.m = x.m /\ left.gen = x.gen
      /\ left.asked = x.asked /\ left.begun = x.begun /\ left.active = NoSlot
      /\ left.link = x.link /\ left.open = FALSE /\ left.inbox = <<>>
      /\ left.ledger = x.ledger /\ left.ready = FALSE /\ left.replay = NoReplay
      /\ left.store = IF x.active = NoSlot THEN x.store ELSE AbortIncomplete(x.store, x.active)
  BY <1>0, <1>2 DEF DiscardActiveRecording
<1> HIDE DEF left
<1>4. /\ DOMAIN armed = DOMAIN x /\ armed.m = x.m /\ armed.gen = x.gen
      /\ armed.asked = x.asked /\ armed.begun = x.begun /\ armed.active = NoSlot
      /\ armed.link = x.link /\ armed.open = FALSE /\ armed.inbox = <<>>
      /\ armed.ledger = x.ledger /\ armed.ready = FALSE /\ armed.replay = NoReplay
      /\ armed.store = left.store
  BY <1>0, <1>3 DEF CancelPlaybackIngress, ResetPlayback
<1>5. CleanupDisconnect(x) = IF x.wanted THEN armed ELSE FeedError(armed, FALSE)
  BY DEF CleanupDisconnect, left, closed, epoch
<1> HIDE DEF armed
<1>6. Discards(d, armed)
  BY <1>3, <1>4 DEF SameStore, Discards
<1>7. Cleans(d, armed)
  BY <1>4, <1>6 DEF Cleans, SameCase, SameFields
<1>8. Good(z, armed, b)
  BY <1>7, LinkCleaned
<1>9. FeedError(armed, FALSE).ready = FALSE
  BY <1>0, <1>4 DEF FeedError
<1> QED BY <1>4, <1>5, <1>8, <1>9, FeedErrorGood

LEMMA LinkReadyGood ==
  ASSUME NEW z, NEW d, NEW x, NEW b, Good(z, d, b),
         ~d.ready, d.link.core = "ready", d.link.told = "none", x.last = "ready",
         Looked(x.link, d.link), SameStore(d, x), SameCase(d, x), x.inbox = d.inbox,
         SameFields(d, x)
  PROVE  Good(z, LinkReady(x), b)
<1> DEFINE n      == [x EXCEPT !.open = TRUE, !.ready = TRUE, !.inflight = FALSE]
           opened == ResetReplayConnectionMarks(n)
           case   == IF HasCase(opened) THEN SendCaseStart(opened)
                     ELSE Done(FeedRecovered(opened))
           played == IF case.ok /\ NeedsSend(case.d.receipt) THEN SendPlayed(case.d) ELSE case
<1>0. {"m", "store", "gen", "ready", "last", "open", "inbox", "replay", "ledger", "active",
      "begun", "asked", "link"} \subseteq DOMAIN x
  BY DEF Good, DeviceOK, HasFields, SameFields
<1>1. /\ DOMAIN n = DOMAIN x /\ n.m = x.m /\ n.gen = x.gen /\ n.asked = x.asked
      /\ n.begun = x.begun /\ n.active = x.active /\ n.store = x.store
      /\ n.link = x.link /\ n.open = TRUE /\ n.inbox = x.inbox
      /\ n.ready = TRUE /\ n.last = x.last
  BY <1>0
<1> HIDE DEF n
<1>2. /\ DOMAIN opened = DOMAIN x /\ opened.m = x.m /\ opened.gen = x.gen
      /\ opened.asked = x.asked /\ opened.begun = x.begun /\ opened.active = x.active
      /\ opened.store = x.store /\ opened.link = x.link /\ opened.open = TRUE
      /\ opened.inbox = x.inbox /\ opened.ready = TRUE /\ opened.last = x.last
      /\ opened.replay = NoReplay /\ DOMAIN opened.ledger = SlotIds
  BY <1>0, <1>1 DEF ResetReplayConnectionMarks, EmptyLedger
<1>3. LinkReady(x) = IF played.ok THEN played.d ELSE RestartLink(played.d)
  BY DEF LinkReady, n
<1> HIDE DEF opened
<1>4. Opens(d, opened)
  BY <1>2 DEF Opens, SameStore, SameCase, SameFields
<1>5. Good(z, case.d, b)
  <2>1. Good(z, opened, b)
    BY <1>4, LinkOpens
  <2>2. Good(z, FeedRecovered(opened), b) /\ Good(z, SendCaseStart(opened).d, b)
    BY <2>1, FeedRecoveredGood, SendCaseGood
  <2> QED BY <2>2 DEF Done
<1> HIDE DEF case
<1>6. Good(z, played.d, b)
  BY <1>5, SendPlayedGood
<1> HIDE DEF played
<1>7. Good(z, RestartLink(played.d), b)
  BY <1>6, AgreesWithItself, RestartGood
<1> QED BY <1>3, <1>6, <1>7

\* Under Prompt the task takes the edge and the state of the link at once.
LEMMA ReconcileGood ==
  ASSUME NEW z, NEW d, NEW b, Good(z, d, b), d.link.told = "none"
  PROVE  Good(z, Reconcile([d EXCEPT !.link = Taken(@)], EdgeOf(d.link)), b)
<1> DEFINE k == [d EXCEPT !.link = Taken(@)]
           level == k.link.core
           edg == EdgeOf(d.link)
           noted == [k EXCEPT !.last = level]
           cleaned == [CleanupDisconnect(k) EXCEPT !.last = level]
<1>0. HasFields(d) /\ LinkType(d.link) /\ LinkOK(d.link) /\ ReadyOK(d)
  BY DEF Good, DeviceOK
<1>1. /\ DOMAIN k = DOMAIN d /\ k.m = d.m /\ k.store = d.store /\ k.gen = d.gen
      /\ k.ready = d.ready /\ k.last = d.last /\ k.open = d.open /\ k.inbox = d.inbox
      /\ k.replay = d.replay /\ k.ledger = d.ledger /\ k.active = d.active
      /\ k.begun = d.begun /\ k.asked = d.asked /\ k.link = Taken(d.link)
  BY <1>0 DEF HasFields
<1>2. Looked(k.link, d.link) /\ level = d.link.core
  BY <1>0, <1>1, TakenLooks DEF Looked
<1>3. edg.seen = d.link.seen /\ edg.fresh = d.link.fresh
  BY DEF EdgeOf
<1>4. Reconcile(k, edg) =
        IF ~edg.seen /\ ~edg.fresh /\ level = k.last THEN k
        ELSE IF level = "ready" THEN LinkReady(IF edg.seen THEN cleaned ELSE noted)
        ELSE IF edg.seen THEN cleaned ELSE CleanupDisconnect(noted)
  <2> HIDE DEF k, edg
  <2>1. CASE edg.seen
    BY <2>1 DEF Reconcile
  <2>2. CASE ~edg.seen
    BY <2>2 DEF Reconcile
  <2> QED BY <2>1, <2>2
<1> HIDE DEF k, edg
<1>5. /\ DOMAIN noted = DOMAIN d /\ noted.m = d.m /\ noted.store = d.store /\ noted.gen = d.gen
      /\ noted.ready = d.ready /\ noted.last = level /\ noted.open = d.open
      /\ noted.inbox = d.inbox /\ noted.replay = d.replay /\ noted.ledger = d.ledger
      /\ noted.active = d.active /\ noted.begun = d.begun /\ noted.asked = d.asked
      /\ noted.link = k.link
  BY <1>0, <1>1 DEF HasFields
<1> HIDE DEF noted, level
<1>6. CASE edg.seen
  <2>1. d.link.seen /\ ~d.link.announced /\ d.link.core = "disconnected"
    BY <1>0, <1>3, <1>6 DEF LinkOK
  <2>2. Reconcile(k, edg) = cleaned
    BY <1>2, <1>4, <1>6, <2>1
  <2>3. Good(z, CleanupDisconnect(k), b) /\ CleanupDisconnect(k).ready = FALSE
    BY <1>1, <1>2, <2>1, CleanupGood DEF SameStore, SameCase, SameFields
  <2>4. Good(z, cleaned, b)
    BY <2>3, LevelNoted
  <2> QED BY <2>2, <2>4 DEF k, edg
<1>7. CASE ~edg.seen /\ d.ready
  <2>1. /\ d.link.core = "ready" /\ ~d.link.fresh /\ d.last = "ready"
    BY <1>0, <1>3, <1>7 DEF ReadyOK
  <2>2. Reconcile(k, edg) = k
    BY <1>1, <1>2, <1>3, <1>4, <1>7, <2>1
  <2>3. Glances(d, k)
    BY <1>1, <1>2, <2>1 DEF Glances, SameStore, SameReplay, SameConn, SameCase, SameFields
  <2> QED BY <2>2, <2>3, LinkGlanced DEF k, edg
<1>8. CASE ~edg.seen /\ ~d.ready
  <2>1. CASE ~edg.fresh /\ level = k.last
    <3>1. Reconcile(k, edg) = k
      BY <1>4, <1>8, <2>1
    <3>2. Glances(d, k)
      BY <1>1, <1>2, <1>8 DEF Glances, SameStore, SameReplay, SameConn, SameCase, SameFields
    <3> QED BY <3>1, <3>2, LinkGlanced DEF k, edg
  <2>2. CASE ~(~edg.fresh /\ level = k.last) /\ level = "ready"
    <3>1. Reconcile(k, edg) = LinkReady(noted)
      BY <1>4, <1>8, <2>2
    <3>2. Good(z, LinkReady(noted), b)
      BY <1>2, <1>5, <1>8, <2>2, LinkReadyGood DEF SameStore, SameCase, SameFields
    <3> QED BY <3>1, <3>2 DEF k, edg
  <2>3. CASE ~(~edg.fresh /\ level = k.last) /\ level # "ready"
    <3>1. Reconcile(k, edg) = CleanupDisconnect(noted)
      BY <1>4, <1>8, <2>3
    <3>2. Good(z, CleanupDisconnect(noted), b)
      BY <1>2, <1>5, <1>8, CleanupGood DEF SameStore, SameCase, SameFields
    <3> QED BY <3>1, <3>2 DEF k, edg
  <2> QED BY <2>1, <2>2, <2>3
<1> QED BY <1>6, <1>7, <1>8
----------------------------------------------------------------------------
(* The messages of the Bridge.                                             *)

LEMMA RecoverGood ==
  ASSUME NEW z, NEW d, NEW b, Good(z, d, b)
  PROVE  Good(z, RecoverIfInError(d), b) /\ Good(z, RecoverByTimer(d), b)
  BY FeedRecoveredGood DEF RecoverIfInError, RecoverByTimer

LEMMA CaseAckGood ==
  ASSUME NEW z, NEW d, NEW b, Good(z, d, b)
  PROVE  Good(z, ApplyCaseAck(d), b)
<1> DEFINE e == [d EXCEPT !.registered = TRUE]
<1>1. HasFields(d)
  BY DEF Good, DeviceOK
<1>2. Alike(d, e)
  BY <1>1 DEF HasFields, Alike
<1> HIDE DEF e
<1>3. Good(z, Dispatch(StartReplay(FeedRecovered(e)), TRUE), b)
  BY <1>2, Untouched, FeedRecoveredGood, StartReplayGood, DispatchGood
<1> QED BY <1>3 DEF ApplyCaseAck, e

LEMMA PlayedAckGood ==
  ASSUME NEW z, NEW d, NEW msg, NEW b, Good(z, d, b)
  PROVE  Good(z, ApplyPlayedAck(d, msg), b)
<1> DEFINE e == [d EXCEPT !.receipt = NoReceipt, !.ackDue = FALSE]
<1>1. HasFields(d)
  BY DEF Good, DeviceOK
<1>2. Alike(d, e)
  BY <1>1 DEF HasFields, Alike
<1> HIDE DEF e
<1>3. Good(z, FeedRecovered(e), b)
  BY <1>2, Untouched, FeedRecoveredGood
<1> QED BY <1>3 DEF ApplyPlayedAck, e

\* A durable ACK is of a recording that has been sent to its end: it does
\* not overtake the upload, and what it frees the Bridge has.
LEMMA DurableGood ==
  ASSUME NEW z, NEW d, NEW msg, NEW b, Good(z, d, b),
         msg.t = "durable", Truthful(b, msg), msg.case = d.gen, WasEnded(d, msg.seg)
  PROVE  Good(z, ApplyDurable(d, msg), b)
<1> DEFINE ack   == [durable |-> TRUE, case |-> msg.case, seg |-> msg.seg, bytes |-> msg.bytes]
           s     == CHOOSE x \in AckedSlots(d.store, ack) : TRUE
           x     == Slot(d, s)
           early == d.replay.active /\ d.replay.slot = s /\ d.replay.ordinal = x.ordinal
           gone  == [d EXCEPT !.store = Release(@, s)]
           freed == [d EXCEPT !.store = Release(@, s),
                              !.texts = NoteDurable(@, msg.seg, x.meta.speaker)]
           moved == IF early THEN RestartLink(freed) ELSE freed
           told  == Perform(moved, SegmentDurable(moved.m, x.meta.speaker, x.meta.gen))
           A     == AckedSlots(d.store, ack) = {}
           B     == ~CanNoteDurable(d.texts, msg.seg, x.meta.speaker)
<1>1. HasFields(d) /\ ReplayOK(d) /\ CaseOK(d, b)
  BY DEF Good, DeviceOK
<1>2. CASE A
  BY <1>2 DEF ApplyDurable
<1>3. CASE ~A
  <2>1. s \in AckedSlots(d.store, ack)
    BY <1>3
  <2>2. /\ s \in SlotIds /\ x.state = "complete" /\ Seg(d, s) = msg.seg
        /\ x.bytes = msg.bytes
    BY <2>1 DEF AckedSlots, CompleteSlots, Slot, Seg
  <2>3. /\ ApplyDurable(d, msg) = IF B THEN FeedError(gone, FALSE)
                                  ELSE StartReplay(Dispatch(RecoverIfInError(told), early))
    <3>1. CASE B
      BY <1>3, <3>1 DEF ApplyDurable
    <3>2. CASE ~B
      BY <1>3, <3>2 DEF ApplyDurable
    <3> QED BY <3>1, <3>2
  <2> HIDE DEF s, ack
  <2>4. d.ledger[s] = x.ordinal
    BY <2>2 DEF WasEnded, InUse
  <2>5. ~early
    BY <1>1, <2>4 DEF ReplayOK, Replaying
  <2>6. Covered(b, d, s)
    <3>1. b.case = d.gen
      BY <1>1 DEF Truthful, CaseOK
    <3> QED BY <3>1, <2>2 DEF Truthful, Covered
  <2>7. Frees(d, gone, b, s)
    BY <1>1, <2>2, <2>6 DEF Frees, HasFields, SameReplay, SameConn, SameCase, SameFields
  <2>8. Frees(d, freed, b, s) /\ freed.m = d.m
    BY <1>1, <2>2, <2>6 DEF Frees, HasFields, SameReplay, SameConn, SameCase, SameFields
  <2> HIDE DEF gone, freed
  <2>9. Good(z, gone, b) /\ Good(z, freed, b)
    BY <2>7, <2>8, RecordingFreed
  <2>10. moved = freed
    BY <2>5
  <2> HIDE DEF moved, early, x
  <2>11. Good(z, told, b)
    <3> DEFINE r == SegmentDurable(moved.m, x.meta.speaker, x.meta.gen)
    <3>1. Good(z, moved, b) /\ "gen" \in DOMAIN moved.m /\ moved.m.gen \in Nat
          /\ moved.m.gen <= moved.m.gen
      BY <2>9, <2>10, GenOfMachine
    <3>2. KeepsGen(moved.m, r.machine)
      BY <3>1, MachineKeeps
    <3>3. r.acts = <<>> \/ r.acts = <<Show("StatementEnded")>>
      BY DEF SegmentDurable, Result
    <3> HIDE DEF r
    <3>4. \A i \in DOMAIN r.acts : r.acts[i].type = "ShowStatus"
      BY <3>3 DEF Show
    <3>5. Orders(moved, r)
      BY <3>1, <3>2, <3>4 DEF Orders, KeepsGen
    <3> QED BY <3>1, <3>5, PerformGood DEF r
  <2> HIDE DEF told
  <2>12. Good(z, StartReplay(Dispatch(RecoverIfInError(told), early)), b)
    BY <2>11, RecoverGood, DispatchGood, StartReplayGood
  <2>13. Good(z, FeedError(gone, FALSE), b)
    BY <2>9, FeedErrorGood
  <2> QED BY <2>3, <2>12, <2>13
<1> QED BY <1>2, <1>3

LEMMA SavedGood ==
  ASSUME NEW z, NEW d, NEW msg, NEW b, Good(z, d, b)
  PROVE  Good(z, ApplySaved(d, msg), b)
<1> DEFINE e == [d EXCEPT !.texts = NoteSaved(@, msg.seg, msg.speaker)]
<1>1. HasFields(d)
  BY DEF Good, DeviceOK
<1>2. Alike(d, e)
  BY <1>1 DEF HasFields, Alike
<1>3. ApplySaved(d, msg) \in {Dispatch(e, FALSE), FeedError(d, FALSE)}
  BY DEF ApplySaved
<1> HIDE DEF e
<1>4. Good(z, Dispatch(e, FALSE), b) /\ Good(z, FeedError(d, FALSE), b)
  BY <1>2, Untouched, DispatchGood, FeedErrorGood
<1> QED BY <1>3, <1>4

LEMMA StateGood ==
  ASSUME NEW z, NEW d, NEW msg, NEW b, Good(z, d, b)
  PROVE  Good(z, ApplyState(d, msg), b)
<1> DEFINE e == [d EXCEPT !.inflight = TRUE, !.probeDue = FALSE]
<1>1. HasFields(d)
  BY DEF Good, DeviceOK
<1>2. Alike(d, e)
  BY <1>1 DEF HasFields, Alike
<1>3. ApplyState(d, msg) \in {Dispatch(RecoverIfInError(d), TRUE), e}
  BY DEF ApplyState
<1> HIDE DEF e
<1>4. Good(z, e, b) /\ Good(z, Dispatch(RecoverIfInError(d), TRUE), b)
  BY <1>2, Untouched, RecoverGood, DispatchGood
<1> QED BY <1>3, <1>4

LEMMA CompleteErrorGood ==
  ASSUME NEW z, NEW d, NEW msg, NEW b, Good(z, d, b)
  PROVE  Good(z, CompleteError(d, msg), b)
<1> DEFINE s == CHOOSE s \in Named(d, msg.seg) : \A t \in Named(d, msg.seg) : s <= t
           ordinal == Slot(d, s).ordinal
           fault == [slot |-> s, ordinal |-> ordinal, retryable |-> msg.retry]
           e == [d EXCEPT !.defer = Deferred(@, s, ordinal, msg.retry)]
<1>1. HasFields(d)
  BY DEF Good, DeviceOK
<1>2. Alike(d, e)
  BY <1>1 DEF HasFields, Alike
<1>3. CompleteError(d, msg) \in {e, ApplyCompleteFault(d, fault)}
  BY DEF CompleteError
<1> HIDE DEF e, fault
<1>4. Good(z, e, b) /\ Good(z, ApplyCompleteFault(d, fault), b)
  BY <1>2, Untouched, FaultGood
<1> QED BY <1>3, <1>4

LEMMA GiveUpGood ==
  ASSUME NEW z, NEW d, NEW b, Good(z, d, b)
  PROVE  Good(z, GiveUpMediation(d), b)
<1>1. HasFields(d)
  BY DEF Good, DeviceOK
<1>2. Alike(d, GiveUpMediation(d))
  BY <1>1 DEF HasFields, Alike, GiveUpMediation
<1> QED BY <1>2, Untouched

LEMMA OtherErrorGood ==
  ASSUME NEW z, NEW d, NEW msg, NEW b, Good(z, d, b)
  PROVE  Good(z, OtherError(d, msg), b)
<1> DEFINE target == ErrorTarget(d, msg.seg)
           stopped == CASE target \in {"active", "case"} -> AbortActiveRecording(d)
                        [] target = "replay" -> RestartLink(d)
                        [] OTHER -> d
           quiet == IF target = "case" THEN CancelPlaybackIngress(stopped) ELSE stopped
           given == IF msg.code \in {"mediation", "not_ready"} THEN GiveUpMediation(quiet) ELSE quiet
<1>1. OtherError(d, msg) = IF target = "stale" /\ (d.active # NoSlot \/ d.replay.active) THEN d
                           ELSE FeedError(given, msg.retry)
  BY DEF OtherError
<1>2. Good(z, AbortActiveRecording(d), b) /\ Good(z, RestartLink(d), b)
  BY AbortGood, AgreesWithItself, RestartGood
<1> HIDE DEF target
<1>3. Good(z, stopped, b)
  BY <1>2
<1> HIDE DEF stopped
<1>4. Good(z, quiet, b)
  BY <1>3, PlaybackGood
<1> HIDE DEF quiet
<1>5. Good(z, given, b)
  BY <1>4, GiveUpGood
<1> HIDE DEF given
<1> QED BY <1>1, <1>5, FeedErrorGood

LEMMA ErrorGood ==
  ASSUME NEW z, NEW d, NEW msg, NEW b, Good(z, d, b)
  PROVE  Good(z, ApplyError(d, msg), b)
<1> DEFINE noted == [d EXCEPT !.texts = NoteFailed(@, msg.seg)]
           again == [d EXCEPT !.inflight = FALSE, !.probeDue = TRUE]
           ready == [noted EXCEPT !.inflight = FALSE]
<1>1. HasFields(d)
  BY DEF Good, DeviceOK
<1>2. Alike(d, noted) /\ Alike(d, again) /\ Alike(d, ready)
  BY <1>1 DEF HasFields, Alike
<1>3. ApplyError(d, msg) \in {again, CompleteError(d, msg), FeedError(RestartLink(d), TRUE),
                              OtherError(d, msg), Dispatch(ready, FALSE),
                              OtherError(GiveUpMediation(noted), msg)}
  BY DEF ApplyError
<1> HIDE DEF noted, again, ready
<1>4. Good(z, noted, b) /\ Good(z, again, b) /\ Good(z, ready, b)
  BY <1>2, Untouched
<1>5. Good(z, CompleteError(d, msg), b) /\ Good(z, OtherError(d, msg), b)
      /\ Good(z, Dispatch(ready, FALSE), b)
  BY <1>4, CompleteErrorGood, OtherErrorGood, DispatchGood
<1>6. Good(z, OtherError(GiveUpMediation(noted), msg), b)
  BY <1>4, GiveUpGood, OtherErrorGood
<1>7. Good(z, RestartLink(d), b)
  BY AgreesWithItself, RestartGood
<1>8. Good(z, FeedError(RestartLink(d), TRUE), b)
  BY <1>7, FeedErrorGood
<1> QED BY <1>3, <1>4, <1>5, <1>6, <1>8

LEMMA MessageGood ==
  ASSUME NEW z, NEW d, NEW msg, NEW b, Good(z, d, b), IsAnswer(b, msg),
         msg.t = "durable" => WasEnded(d, msg.seg)
  PROVE  Good(z, ApplyBridgeMessage(d, msg), b)
<1> DEFINE other == (~HasCase(d) \/ msg.case # d.gen) /\ ~(msg.t = "error" /\ msg.case = 0)
<1>1. CASE msg.t = "astart"
  BY <1>1, AudioStartGood DEF ApplyBridgeMessage
<1>2. CASE msg.t # "astart" /\ other
  BY <1>2 DEF ApplyBridgeMessage
<1>3. CASE msg.t # "astart" /\ ~other
  <2>1. CASE msg.t = "caseAck"
    BY <1>3, <2>1, CaseAckGood DEF ApplyBridgeMessage
  <2>2. CASE msg.t = "playedAck"
    BY <1>3, <2>2, PlayedAckGood DEF ApplyBridgeMessage
  <2>3. CASE msg.t = "durable"
    <3>1. ApplyBridgeMessage(d, msg) = ApplyDurable(d, msg)
      BY <1>3, <2>3 DEF ApplyBridgeMessage
    <3>2. msg.case = d.gen /\ Truthful(b, msg)
      BY <1>3, <2>3 DEF IsAnswer
    <3> QED BY <2>3, <3>1, <3>2, DurableGood
  <2>4. CASE msg.t = "saved"
    BY <1>3, <2>4, SavedGood DEF ApplyBridgeMessage
  <2>5. CASE msg.t = "state"
    BY <1>3, <2>5, StateGood DEF ApplyBridgeMessage
  <2>6. CASE msg.t = "aend"
    BY <1>3, <2>6, AudioEndGood DEF ApplyBridgeMessage
  <2>7. CASE msg.t = "error"
    BY <1>3, <2>7, ErrorGood DEF ApplyBridgeMessage
  <2> QED BY <1>3, <2>1, <2>2, <2>3, <2>4, <2>5, <2>6, <2>7 DEF IsAnswer, AnswerTypes
<1> QED BY <1>1, <1>2, <1>3

----------------------------------------------------------------------------
(* Buttons and the microphone.                                             *)

\* A long press begins neither a case nor a recording.
LongPressTypes == {"StopRecording", "Vibrate", "ShowStatus", "RequestMediation"}

LEMMA LongPressOrders ==
  ASSUME NEW m, "gen" \in DOMAIN m
  PROVE  /\ DOMAIN HandleLongPress(m) = {"machine", "acts"}
         /\ KeepsGen(m, HandleLongPress(m).machine)
         /\ \A i \in DOMAIN HandleLongPress(m).acts :
              HandleLongPress(m).acts[i].type \in LongPressTypes
<1> DEFINE stop == IF IsRecording(m) THEN <<Act("StopRecording")>> ELSE <<>>
           tails == {<<>>, <<Buzz, Show("NeedCase")>>, <<Buzz>>, <<Buzz, Show("NeedBothStatements")>>,
                     <<Mediate(m.gen), Show("Mediating")>>}
           r == HandleLongPress(m)
<1>1. DOMAIN r = {"machine", "acts"} /\ KeepsGen(m, r.machine)
  BY DEF HandleLongPress, Result, KeepsGen
<1>2. \E t \in tails : r.acts = stop \o t
  BY DEF HandleLongPress, Result
<1>3. \A t \in tails : IsSeq(t) /\ \A i \in 1..Len(t) : t[i].type \in LongPressTypes
  BY SeqEmpty DEF IsSeq, LongPressTypes, Buzz, Act, Show, Mediate
<1>4. IsSeq(stop) /\ \A i \in 1..Len(stop) : stop[i].type \in LongPressTypes
  BY SeqEmpty DEF IsSeq, LongPressTypes, Act
<1> HIDE DEF tails, stop, r
<1>5. PICK t \in tails : r.acts = stop \o t
  BY <1>2
<1>6. IsSeq(t) /\ \A i \in 1..Len(t) : t[i].type \in LongPressTypes
  BY <1>3
<1>7. \A i \in 1..Len(stop \o t) : (stop \o t)[i].type \in LongPressTypes
  BY <1>4, <1>6, SeqConcat
<1>8. DOMAIN (stop \o t) = 1..Len(stop \o t)
  BY <1>4, <1>6, SeqConcat, SeqDomain
<1> QED BY <1>1, <1>5, <1>7, <1>8 DEF r

LEMMA LongPressGood ==
  ASSUME NEW z, NEW d, NEW result, NEW b, Good(z, d, b), KeepsGen(d.m, result.machine),
         \A i \in DOMAIN result.acts : result.acts[i].type \in LongPressTypes
  PROVE  Good(z, Perform(d, result), b)
<1>1. \A i \in DOMAIN result.acts :
        result.acts[i].type # "NewCase" /\ result.acts[i].type # "StartRecording"
  BY DEF LongPressTypes
<1>2. Orders(d, result)
  BY <1>1, GenOfMachine DEF Orders, KeepsGen
<1> QED BY <1>2, PerformGood

LEMMA CasePressGood ==
  ASSUME NEW z, NEW d, NEW b, Good(z, d, b)
  PROVE  Good(z, PressCase(d), b)
<1> DEFINE r == CasePressed(d.m)
<1>1. KeepsGen(d.m, r.machine) /\ DOMAIN r.acts = {}
  BY GenOfMachine, SeqEmpty DEF CasePressed, Result, KeepsGen
<1> HIDE DEF r
<1>2. Good(z, Perform(d, r), b)
  BY <1>1, LongPressGood
<1> QED BY <1>2 DEF PressCase, r

LEMMA FireLongPressGood ==
  ASSUME NEW z, NEW d, NEW b, Good(z, d, b)
  PROVE  Good(z, FireLongPress(d), b)
<1> DEFINE m == [d.m EXCEPT !.longFired = TRUE]
           r == HandleLongPress(m)
<1>1. KeepsGen(d.m, m) /\ "gen" \in DOMAIN m
  BY GenOfMachine DEF KeepsGen
<1>2. FireLongPress(d) = Perform(d, r)
  BY DEF FireLongPress, LongPressTick
<1> HIDE DEF m
<1>3. KeepsGen(m, r.machine) /\ \A i \in DOMAIN r.acts : r.acts[i].type \in LongPressTypes
  BY <1>1, LongPressOrders
<1> HIDE DEF r
<1>4. KeepsGen(d.m, r.machine)
  BY <1>1, <1>3 DEF KeepsGen
<1> QED BY <1>2, <1>3, <1>4, LongPressGood

LEMMA ReleaseCaseGood ==
  ASSUME NEW z, NEW d, NEW long, NEW b, Good(z, d, b)
  PROVE  Good(z, ReleaseCase(d, long), b)
<1> DEFINE allowed == NewCaseAllowed(d)
           m == d.m
           up(x) == [x EXCEPT !.down = FALSE, !.longFired = FALSE, !.shortOk = FALSE]
           then(r) == [r EXCEPT !.machine = up(@)]
           held == then(HandleLongPress(m))
           new == then(StartNewCase(m))
           R == CaseReleased(m, long, allowed)
<1>1. "gen" \in DOMAIN m /\ m.gen \in Nat
  BY GenOfMachine
<1>2. R \in {Result(m, <<>>), Result(up(m), <<>>), held, new, Result(up(m), <<Buzz>>)}
  <2> HIDE DEF allowed, m
  <2> QED BY DEF CaseReleased
<1>3. \A x : DOMAIN up(x) = DOMAIN x /\ up(x).gen = x.gen
  <2> TAKE x
  <2>1. DOMAIN up(x) = DOMAIN x
    OBVIOUS
  <2>2. "gen" \in DOMAIN x => up(x).gen = x.gen
    OBVIOUS
  <2>3. "gen" \notin DOMAIN x => up(x).gen = x.gen
    OBVIOUS
  <2> QED BY <2>1, <2>2, <2>3
<1>4. CASE R \in {Result(m, <<>>), Result(up(m), <<>>), Result(up(m), <<Buzz>>)}
  <2>1. KeepsGen(m, R.machine)
    <3>1. R.machine \in {m, up(m)}
      BY <1>4 DEF Result
    <3> HIDE DEF R, up
    <3> QED BY <1>3, <3>1 DEF KeepsGen
  <2>2. \A i \in DOMAIN R.acts : R.acts[i].type \in LongPressTypes
    BY <1>4, SeqEmpty DEF Result, LongPressTypes, Buzz, Act
  <2> HIDE DEF R
  <2>3. Good(z, Perform(d, R), b)
    BY <2>1, <2>2, LongPressGood
  <2> QED BY <2>3 DEF ReleaseCase, R
<1>5. CASE R = held
  <2> DEFINE r == HandleLongPress(m)
  <2>1. /\ DOMAIN r = {"machine", "acts"} /\ KeepsGen(m, r.machine)
        /\ \A i \in DOMAIN r.acts : r.acts[i].type \in LongPressTypes
    BY <1>1, LongPressOrders
  <2> HIDE DEF r
  <2>2. held.machine = up(r.machine) /\ held.acts = r.acts
    BY <2>1 DEF r
  <2>3. KeepsGen(m, held.machine)
    BY <2>1, <2>2, <1>1 DEF KeepsGen
  <2> HIDE DEF R, held
  <2>4. Good(z, Perform(d, R), b)
    BY <1>5, <2>1, <2>2, <2>3, LongPressGood
  <2> QED BY <2>4 DEF ReleaseCase, R
<1>6. CASE R = new
  <2>1. /\ new.machine.gen = m.gen + 1 /\ DOMAIN new.machine = DOMAIN m
        /\ new.acts = <<NewCaseAct(m.gen + 1), Show("Waiting")>>
    BY <1>1 DEF StartNewCase, Result
  <2> HIDE DEF R, new
  <2>2. \A i \in DOMAIN R.acts :
          /\ R.acts[i].type = "NewCase" => i = 1 /\ R.acts[i].gen = R.machine.gen
          /\ R.acts[i].type = "StartRecording" => i = 1 /\ d.begun + 1 \in Segments
    BY <1>6, <2>1 DEF NewCaseAct, Show
  <2>3. Orders(d, R)
    BY <1>1, <1>6, <2>1, <2>2 DEF Orders
  <2>4. Good(z, Perform(d, R), b)
    BY <2>3, PerformGood
  <2> QED BY <2>4 DEF ReleaseCase, R
<1> HIDE DEF R, held, new
<1> QED BY <1>2, <1>4, <1>5, <1>6

LEMMA PressSpeakerGood ==
  ASSUME NEW z, NEW d, NEW s, NEW b, Good(z, d, b), d.m.state = "Waiting" => d.begun + 1 \in Segments
  PROVE  Good(z, PressSpeaker(d, s), b)
<1> DEFINE m == d.m
           r == StartOrStopSpeaker(m, s)
<1>1. "gen" \in DOMAIN m /\ m.gen \in Nat /\ m.gen <= m.gen
  BY GenOfMachine
<1>2. KeepsGen(m, r.machine)
  BY <1>1 DEF StartOrStopSpeaker, Result, KeepsGen
<1>3. \/ m.state = "Waiting" /\ r.acts = <<Start(s), Show(Recording(s))>>
      \/ r.acts \in {<<Buzz, Show("NeedCase")>>, <<Act("StopRecording"), Show("Waiting")>>, <<Buzz>>}
  BY DEF StartOrStopSpeaker, Result
<1> HIDE DEF r
<1>4. \A i \in DOMAIN r.acts :
        /\ r.acts[i].type # "NewCase"
        /\ r.acts[i].type = "StartRecording" => i = 1 /\ m.state = "Waiting"
  BY <1>3 DEF Start, Show, Buzz, Act
<1>5. Orders(d, r)
  BY <1>1, <1>2, <1>4 DEF Orders, KeepsGen
<1>6. Good(z, Perform(d, r), b)
  BY <1>5, PerformGood
<1> QED BY <1>6 DEF PressSpeaker, r

LEMMA CaptureGood ==
  ASSUME NEW z, NEW d, NEW b, Good(z, d, b)
  PROVE  Good(z, CaptureOneFrame(d), b)
<1> DEFINE e == [d EXCEPT !.store = AppendFrame(@, d.active)]
<1>1. CASE d.active # NoSlot /\ d.micOk /\ CanAppend(d.store, d.active)
  <2>1. CaptureOneFrame(d) = e
    BY <1>1 DEF CaptureOneFrame
  <2>2. HasFields(d)
    BY DEF Good, DeviceOK
  <2>3. Captures(d, e)
    BY <1>1, <2>2 DEF Captures, HasFields, SameReplay, SameConn, SameCase, SameFields, CanAppend, AppendFrame
  <2> QED BY <2>1, <2>3, FrameCaptured
<1>2. CASE ~(d.active # NoSlot /\ d.micOk /\ CanAppend(d.store, d.active))
  <2>1. CaptureOneFrame(d) \in {d, FeedError(AbortActiveRecording(d), TRUE)}
    BY <1>2 DEF CaptureOneFrame
  <2>2. Good(z, FeedError(AbortActiveRecording(d), TRUE), b)
    BY AbortGood, FeedErrorGood
  <2> QED BY <2>1, <2>2
<1> QED BY <1>1, <1>2

LEMMA UploadGood ==
  ASSUME NEW z, NEW d, NEW b, Good(z, d, b)
  PROVE  Good(z, Upload(d), b)
  BY StartReplayGood, PumpGood DEF Upload

----------------------------------------------------------------------------
(* The steps of the mediation task.  The device of the beginning is as it  *)
(* should be; what remains is that the step keeps it so.                   *)

LEMMA GoodAtFirst ==
  ASSUME NEW z, NEW b, DeviceOK(z, b) PROVE Good(z, z, b)
<1>1. \A x \in CompleteSlots(z.store) : StillHeld(z, z, x)
  BY DEF CompleteSlots, StillHeld, Slot
<1> QED BY <1>1 DEF Good, Keeps

LEMMA PassGood ==
  ASSUME NEW z, NEW d, NEW b, Good(z, d, b)
  PROVE  LET d1 == IF d.active # NoSlot THEN CaptureOneFrame(d) ELSE Upload(d)
             d2 == DrainFault(DrainNotice(d1))
         IN  Good(z, [d2 EXCEPT !.micOk = TRUE], b)
<1> DEFINE d1 == IF d.active # NoSlot THEN CaptureOneFrame(d) ELSE Upload(d)
           d2 == DrainFault(DrainNotice(d1))
           d3 == [d2 EXCEPT !.micOk = TRUE]
<1>1. Good(z, d1, b)
  BY CaptureGood, UploadGood
<1> HIDE DEF d1
<1>2. Good(z, d2, b)
  BY <1>1, NoticeGood, DrainFaultGood
<1> HIDE DEF d2
<1>3. Alike(d2, d3)
  BY <1>2 DEF Good, DeviceOK, HasFields, Alike
<1>4. Good(z, d3, b)
  BY <1>2, <1>3, Untouched
<1> QED BY <1>4 DEF d1, d2

LEMMA ButtonGood ==
  ASSUME Prompt, NEW d, Good(dev, d, bridge), Button(d) PROVE Good(dev, dev', bridge)
<1> DEFINE c == ApplyDeferredFault(d)
<1>1. Good(dev, c, bridge)
  BY DeferredGood
<1>2. FinishPass(c)
  BY DEF Button
<1> HIDE DEF c
<1> QED BY <1>1, <1>2, PassGood DEF FinishPass, Do

LEMMA TurnGood ==
  ASSUME Prompt, DeviceOK(dev, bridge), Turn PROVE Good(dev, dev', bridge)
<1>1. Good(dev, dev, bridge)
  BY GoodAtFirst
<1>2. Good(dev, AtTick, bridge)
  BY <1>1, DeferredGood DEF AtTick
<1>3. \A d : Good(dev, d, bridge) /\ FinishPass(d) => Good(dev, dev', bridge)
  BY PassGood DEF FinishPass, Do
<1>4. CASE Idle
  BY <1>2, <1>3, <1>4 DEF Idle
<1>5. CASE CaseDown
  BY <1>1, <1>5, CasePressGood, ButtonGood DEF CaseDown
<1>6. CASE ShortPress
  BY <1>1, <1>6, ReleaseCaseGood, ButtonGood DEF ShortPress
<1>7. CASE LongPress
  BY <1>1, <1>2, <1>3, <1>7, ReleaseCaseGood, FireLongPressGood, ButtonGood DEF LongPress
<1>8. CASE \E s \in Speakers : SpeakerDown(s)
  BY <1>1, <1>8, PressSpeakerGood, ButtonGood DEF SpeakerDown
<1>9. CASE MicFails
  <2> DEFINE deaf == [dev EXCEPT !.micOk = FALSE]
  <2>1. Alike(dev, deaf)
    BY DEF DeviceOK, HasFields, Alike
  <2>2. Good(dev, deaf, bridge) /\ deaf.m = dev.m /\ deaf.begun = dev.begun
    BY <1>1, <2>1, Untouched DEF Alike
  <2>3. \/ Button(deaf)
        \/ dev.begun + 1 \in Segments /\ Button(PressSpeaker(deaf, "A"))
    BY <1>9 DEF MicFails
  <2> HIDE DEF deaf
  <2> QED BY <2>2, <2>3, PressSpeakerGood, ButtonGood
<1>10. CASE ErrorPasses
  BY <1>2, <1>3, <1>10, RecoverGood DEF ErrorPasses
<1>11. CASE ProbeFires
  BY <1>2, <1>3, <1>11, ProbeGood DEF ProbeFires
<1>12. CASE AckTimeout
  BY <1>1, <1>12, AgreesWithItself, RestartGood, ButtonGood DEF AckTimeout, RetryPlayed
<1> QED BY <1>4, <1>5, <1>6, <1>7, <1>8, <1>9, <1>10, <1>11, <1>12 DEF Turn

LEMMA LookGood ==
  ASSUME Prompt, DeviceOK(dev, bridge), Look PROVE Good(dev, dev', bridge)
<1>1. Good(dev, dev, bridge)
  BY GoodAtFirst
<1> QED BY <1>1, ReconcileGood DEF Look, Do

LEMMA MessageStepGood ==
  ASSUME Prompt, DeviceOK(dev, bridge), Message PROVE Good(dev, dev', bridge)
<1> DEFINE rest == [dev EXCEPT !.inbox = Tail(@)]
           msg  == Head(dev.inbox)
           d    == ApplyBridgeMessage(rest, msg)
           none == [dev EXCEPT !.inbox = <<>>]
<1>1. /\ HasFields(dev) /\ ReadyOK(dev) /\ SentOK(dev, bridge) /\ CaseOK(dev, bridge)
      /\ Good(dev, dev, bridge) /\ dev.inbox # <<>>
  BY GoodAtFirst DEF DeviceOK, Message
<1>2. /\ IsSeq(dev.inbox) /\ 1 \in 1..Len(dev.inbox) /\ msg = dev.inbox[1]
      /\ IsSeq(Tail(dev.inbox)) /\ Len(Tail(dev.inbox)) = Len(dev.inbox) - 1
      /\ \A i \in 1..(Len(dev.inbox) - 1) : Tail(dev.inbox)[i] = dev.inbox[i + 1]
  BY <1>1, SeqTail, SeqNotEmpty DEF ReadyOK
<1>3. Takes(dev, rest)
  <2>1. /\ rest.inbox = Tail(dev.inbox) /\ DOMAIN rest = DOMAIN dev /\ rest.m = dev.m
        /\ rest.ready = dev.ready /\ rest.open = dev.open /\ rest.last = dev.last
        /\ rest.link = dev.link /\ SameStore(dev, rest) /\ SameReplay(dev, rest)
        /\ SameCase(dev, rest)
    BY <1>1 DEF HasFields, SameStore, SameReplay, SameCase
  <2> HIDE DEF rest
  <2>2. Len(dev.inbox) \in Nat
    BY <1>2 DEF IsSeq
  <2>3. \A i \in 1..Len(rest.inbox) : \E j \in 1..Len(dev.inbox) : rest.inbox[i] = dev.inbox[j]
    <3> TAKE i \in 1..Len(rest.inbox)
    <3>1. i \in 1..(Len(dev.inbox) - 1) /\ i + 1 \in 1..Len(dev.inbox)
      BY <1>2, <2>1, <2>2
    <3> QED BY <1>2, <2>1, <3>1
  <2> QED BY <1>1, <1>2, <2>1, <2>3 DEF Takes, SameFields
<1>4. Good(dev, rest, bridge)
  BY <1>1, <1>3, InboxTaken
<1>5. IsAnswer(bridge, msg)
  BY <1>1, <1>2 DEF CaseOK
<1>6. msg.t = "durable" => WasEnded(rest, msg.seg)
  <2> SUFFICES ASSUME msg.t = "durable" PROVE WasEnded(rest, msg.seg)
    OBVIOUS
  <2>1. msg.seg \in Segments
    BY <1>5, BoundsAssumption DEF IsAnswer, Truthful
  <2>2. InFlight(dev, bridge, msg.seg)
    BY <1>2 DEF InFlight, IsDurable
  <2>3. WasEnded(dev, msg.seg)
    BY <1>1, <2>1, <2>2 DEF SentOK
  <2> QED BY <1>1, <2>3 DEF WasEnded, InUse, Seg, Slot, HasFields
<1>7. Good(dev, d, bridge)
  <2> HIDE DEF rest, msg
  <2> QED BY <1>4, <1>5, <1>6, MessageGood
<1>8. \A x : Good(dev, x, bridge) => Good(dev, [x EXCEPT !.inbox = <<>>], bridge)
  <2> SUFFICES ASSUME NEW x, Good(dev, x, bridge)
               PROVE  Good(dev, [x EXCEPT !.inbox = <<>>], bridge)
    OBVIOUS
  <2>1. HasFields(x)
    BY DEF Good, DeviceOK
  <2>2. Takes(x, [x EXCEPT !.inbox = <<>>])
    BY <2>1, SeqEmpty DEF Takes, HasFields, SameStore, SameReplay, SameCase, SameFields
  <2> QED BY <2>2, InboxTaken
<1>9. dev' \in {d, [d EXCEPT !.inbox = <<>>], none}
  BY DEF Message, Do
<1> HIDE DEF d, none
<1>10. Good(dev, none, bridge)
  BY <1>1, <1>8 DEF none
<1> QED BY <1>7, <1>8, <1>9, <1>10

----------------------------------------------------------------------------
(* The other tasks of the device and the network.                          *)

\* A callback has been taken from the queue, or passed on.
Calls(d, e) ==
  /\ SameStore(d, e) /\ SameReplay(d, e) /\ SameCase(d, e) /\ SameFields(d, e)
  /\ DOMAIN e.link = DOMAIN d.link
  /\ e.ready = d.ready /\ e.open = d.open /\ e.last = d.last
  /\ e.link.usable = d.link.usable /\ e.link.announced = d.link.announced
  /\ e.link.tx = d.link.tx /\ e.link.stream = d.link.stream
  /\ d.link.usable => e.link.asr = d.link.asr
  /\ \A i \in 1..Len(e.link.callbacks) :
       \E j \in 1..Len(d.link.callbacks) : e.link.callbacks[i] = d.link.callbacks[j]
  /\ \A i \in 1..Len(e.inbox) :
       \/ \E j \in 1..Len(d.inbox) : e.inbox[i] = d.inbox[j]
       \/ \E j \in 1..Len(d.link.callbacks) :
            d.link.callbacks[j].t # "link" /\ e.inbox[i] = d.link.callbacks[j]

LEMMA CallbackTaken ==
  ASSUME NEW d, NEW e, NEW b, DeviceOK(d, b), Calls(d, e)
  PROVE  HasFields(e) /\ StoreOK(e) /\ ReplayOK(e) /\ PathOK(e, b) /\ SentOK(e, b) /\ CaseOK(e, b)
<1>1. HasFields(e)
  BY DEF DeviceOK, HasFields, Calls, SameFields, SameStore, SameReplay
<1>2. StoreOK(e)
  BY DEF DeviceOK, StoreOK, SlotOK, InUse, Seg, Slot, Calls, SameStore
<1>3. ReplayOK(e)
  BY DEF DeviceOK, ReplayOK, Replaying, Seg, Slot, Calls, SameStore, SameReplay
<1>4. PathOK(e, b)
  BY DEF DeviceOK, PathOK, Calls
<1>5. SentOK(e, b)
  <2>1. \A s : InFlight(e, b, s) => InFlight(d, b, s)
    BY DEF InFlight, IsDurable, Calls
  <2>2. \A s : WasEnded(d, s) => WasEnded(e, s)
    BY DEF WasEnded, Calls, SameStore, SameReplay, InUse, Seg, Slot
  <2> QED BY <2>1, <2>2 DEF DeviceOK, SentOK, Calls, SameStore
<1>6. CaseOK(e, b)
  BY DEF DeviceOK, CaseOK, Calls, SameCase
<1> QED BY <1>1, <1>2, <1>3, <1>4, <1>5, <1>6

LEMMA LinkCallbackKeeps ==
  ASSUME DeviceOK(dev, bridge), LinkCallback PROVE DeviceOK(dev', bridge)
<1> DEFINE k == dev.link
           level == NextCallback.level
           l == CoreConn([k EXCEPT !.callbacks = Tail(@)], level)
           e == [dev EXCEPT !.link = l]
<1>0. dev' = e /\ k.told = "none" /\ k.callbacks # <<>> /\ Head(k.callbacks).t = "link"
  BY DEF LinkCallback, MayCall, NextCallback, Link
<1>1. HasFields(dev) /\ LinkType(k) /\ LinkOK(k) /\ ReadyOK(dev)
  BY DEF DeviceOK
<1>2. /\ Len(k.callbacks) \in Nat /\ 1 \in 1..Len(k.callbacks) /\ Len(k.callbacks) \in 1..Len(k.callbacks)
      /\ IsSeq(Tail(k.callbacks))
      /\ Len(Tail(k.callbacks)) = Len(k.callbacks) - 1
      /\ \A i \in 1..(Len(k.callbacks) - 1) : Tail(k.callbacks)[i] = k.callbacks[i + 1]
      /\ Head(k.callbacks) = k.callbacks[1] /\ level = k.callbacks[1].level
  BY <1>0, <1>1, SeqTail, SeqNotEmpty DEF LinkType, IsSeq, NextCallback
<1>3. level \in {"ready", "disconnected"}
  BY <1>0, <1>1, <1>2 DEF LinkOK
<1>4. /\ DOMAIN l = DOMAIN k /\ l.usable = k.usable /\ l.announced = k.announced
      /\ l.core = level /\ l.told = level /\ l.tx = k.tx /\ l.stream = k.stream
      /\ l.seen = k.seen /\ l.fresh = k.fresh /\ l.callbacks = Tail(k.callbacks)
      /\ l.asr = IF level = "disconnected" THEN FALSE ELSE k.asr
  BY <1>1 DEF HasFields, CoreConn
<1>5. /\ DOMAIN e = DOMAIN dev /\ e.link = l /\ e.m = dev.m /\ e.store = dev.store
      /\ e.gen = dev.gen /\ e.ready = dev.ready /\ e.last = dev.last /\ e.open = dev.open
      /\ e.inbox = dev.inbox /\ e.replay = dev.replay /\ e.ledger = dev.ledger
      /\ e.active = dev.active /\ e.begun = dev.begun /\ e.asked = dev.asked
  BY <1>1 DEF HasFields
<1> HIDE DEF l, e, level
<1>6. \A i \in 1..Len(l.callbacks) : i + 1 \in 1..Len(k.callbacks) /\ l.callbacks[i] = k.callbacks[i + 1]
  BY <1>2, <1>4
<1>7. level = "disconnected" => ~k.announced /\ ~k.usable /\ l.callbacks = <<>> /\ k.stream = NoStream
  <2> SUFFICES ASSUME level = "disconnected"
               PROVE  ~k.announced /\ ~k.usable /\ l.callbacks = <<>> /\ k.stream = NoStream
    OBVIOUS
  <2>1. IsLink(k.callbacks[1], "disconnected")
    BY <1>0, <1>2 DEF IsLink
  <2>2. 1 = Len(k.callbacks) /\ ~k.announced /\ ~k.usable /\ k.stream = NoStream
    BY <1>1, <1>2, <2>1 DEF LinkOK
  <2>3. l.callbacks = <<>>
    <3>1. IsSeq(l.callbacks) /\ Len(l.callbacks) = 0
      BY <1>2, <1>4, <2>2
    <3> QED BY <3>1, SeqNotEmpty DEF IsSeq
  <2> QED BY <2>2, <2>3
<1>8. level = "ready" => ~dev.ready /\ k.core = "disconnected" /\ (~k.announced => l.callbacks # <<>>)
  <2> SUFFICES ASSUME level = "ready"
               PROVE  ~dev.ready /\ k.core = "disconnected" /\ (~k.announced => l.callbacks # <<>>)
    OBVIOUS
  <2>1. IsLink(k.callbacks[1], "ready")
    BY <1>0, <1>2 DEF IsLink
  <2>2. ~dev.ready /\ k.core = "disconnected"
    BY <1>1, <1>2, <2>1 DEF LinkOK, ReadyOK
  <2>3. ~k.announced => l.callbacks # <<>>
    <3> SUFFICES ASSUME ~k.announced PROVE l.callbacks # <<>>
      OBVIOUS
    <3>1. IsLink(k.callbacks[Len(k.callbacks)], "disconnected")
      BY <1>0, <1>1 DEF LinkOK
    <3>2. Len(k.callbacks) # 1
      BY <2>1, <3>1 DEF IsLink
    <3>3. Len(l.callbacks) # 0
      BY <1>2, <1>4, <3>2
    <3> QED BY <3>3, SeqEmpty
  <2> QED BY <2>2, <2>3
<1>9. Calls(dev, e)
  <2>1. \A i \in 1..Len(e.link.callbacks) :
          \E j \in 1..Len(k.callbacks) : e.link.callbacks[i] = k.callbacks[j]
    BY <1>5, <1>6
  <2>2. k.usable => l.asr = k.asr
    BY <1>3, <1>4, <1>7
  <2> QED BY <1>4, <1>5, <2>1, <2>2
          DEF Calls, SameStore, SameReplay, SameCase, SameFields
<1>10. LinkType(l)
  BY <1>1, <1>2, <1>3, <1>4 DEF LinkType
<1>11. LinkOK(l)
  <2>1. \A i \in 1..Len(l.callbacks) :
          /\ IsLink(l.callbacks[i], "disconnected") => i = Len(l.callbacks) /\ ~l.announced
          /\ ~IsLink(l.callbacks[i], "ready")
          /\ l.callbacks[i].t = "link" => l.callbacks[i].level \in {"ready", "disconnected"}
    <3> TAKE i \in 1..Len(l.callbacks)
    <3>1. i + 1 \in 1..Len(k.callbacks) /\ l.callbacks[i] = k.callbacks[i + 1] /\ i + 1 # 1
      BY <1>6, <1>2
    <3> HIDE DEF IsLink
    <3>2. /\ IsLink(k.callbacks[i + 1], "disconnected") => i + 1 = Len(k.callbacks) /\ ~k.announced
          /\ ~IsLink(k.callbacks[i + 1], "ready")
          /\ k.callbacks[i + 1].t = "link" => k.callbacks[i + 1].level \in {"ready", "disconnected"}
      BY <3>1, <1>1 DEF LinkOK
    <3> QED BY <3>1, <3>2, <1>2, <1>4
  <2>2. ~l.announced /\ l.callbacks # <<>> => IsLink(l.callbacks[Len(l.callbacks)], "disconnected")
    <3> SUFFICES ASSUME ~l.announced, l.callbacks # <<>>
                 PROVE  IsLink(l.callbacks[Len(l.callbacks)], "disconnected")
      OBVIOUS
    <3>1. IsLink(k.callbacks[Len(k.callbacks)], "disconnected")
      BY <1>0, <1>1, <1>4 DEF LinkOK
    <3>2. Len(l.callbacks) \in 1..Len(l.callbacks) /\ Len(l.callbacks) + 1 = Len(k.callbacks)
      BY <1>2, <1>4, SeqNotEmpty
    <3>3. l.callbacks[Len(l.callbacks)] = k.callbacks[Len(k.callbacks)]
      BY <1>6, <3>2
    <3> QED BY <3>1, <3>3
  <2>3. ~k.seen
    BY <1>0, <1>1 DEF LinkOK
  <2>4. CASE level = "disconnected"
    BY <2>1, <2>2, <2>3, <2>4, <1>1, <1>4, <1>7 DEF LinkOK
  <2>5. CASE level = "ready"
    BY <2>1, <2>2, <2>3, <2>5, <1>1, <1>4, <1>8 DEF LinkOK
  <2> QED BY <2>4, <2>5, <1>3
<1>12. ReadyOK(e)
  <2>1. \A i \in 1..Len(l.callbacks) : ~IsLink(l.callbacks[i], "ready")
    <3> TAKE i \in 1..Len(l.callbacks)
    <3>1. i + 1 \in 1..Len(k.callbacks) /\ l.callbacks[i] = k.callbacks[i + 1] /\ i + 1 # 1
      BY <1>6, <1>2
    <3> QED BY <3>1, <1>1 DEF LinkOK
  <2>2. CASE ~dev.ready
    BY <2>2, <1>1, <1>3, <1>4, <1>5, <1>6 DEF ReadyOK
  <2>3. CASE dev.ready
    BY <2>1, <2>3, <1>1, <1>3, <1>4, <1>5, <1>7, <1>8 DEF ReadyOK
  <2> QED BY <2>2, <2>3
<1> QED BY <1>0, <1>5, <1>9, <1>10, <1>11, <1>12, CallbackTaken DEF DeviceOK

LEMMA NotifyCallbackKeeps ==
  ASSUME DeviceOK(dev, bridge), NotifyCallback PROVE DeviceOK(dev', bridge)
<1> DEFINE k == dev.link
           l == Notify(k, k.told)
           e == [dev EXCEPT !.link = l]
<1>0. dev' = e /\ k.told # "none"
  BY DEF NotifyCallback, Link
<1>1. HasFields(dev) /\ LinkType(k) /\ LinkOK(k) /\ ReadyOK(dev)
  BY DEF DeviceOK
<1>2. /\ DOMAIN l = DOMAIN k /\ l.usable = k.usable /\ l.announced = k.announced
      /\ l.core = k.core /\ l.asr = k.asr /\ l.tx = k.tx /\ l.stream = k.stream
      /\ l.callbacks = k.callbacks /\ l.told = "none" /\ l.fresh = TRUE
      /\ l.seen = (k.seen \/ k.told = "disconnected")
  BY <1>1 DEF HasFields, Notify
<1>3. /\ DOMAIN e = DOMAIN dev /\ e.link = l /\ e.m = dev.m /\ e.store = dev.store
      /\ e.gen = dev.gen /\ e.ready = dev.ready /\ e.last = dev.last /\ e.open = dev.open
      /\ e.inbox = dev.inbox /\ e.replay = dev.replay /\ e.ledger = dev.ledger
      /\ e.active = dev.active /\ e.begun = dev.begun /\ e.asked = dev.asked
  BY <1>1 DEF HasFields
<1> HIDE DEF l, e
<1>4. Calls(dev, e)
  BY <1>2, <1>3 DEF Calls, SameStore, SameReplay, SameCase, SameFields
<1>5. ~k.seen /\ l.seen \in BOOLEAN /\ (l.seen <=> k.told = "disconnected")
  BY <1>0, <1>1, <1>2 DEF LinkOK, LinkType
<1>6. LinkType(l)
  BY <1>1, <1>2, <1>5 DEF LinkType
<1>7. LinkOK(l)
  BY <1>0, <1>1, <1>2, <1>5 DEF LinkOK
<1>8. ReadyOK(e)
  BY <1>0, <1>1, <1>2, <1>3, <1>5 DEF ReadyOK
<1> QED BY <1>0, <1>3, <1>4, <1>6, <1>7, <1>8, CallbackTaken DEF DeviceOK

----------------------------------------------------------------------------
(* The Bridge.                                                             *)

BridgeFields(b) ==
  /\ {"case", "rows", "owner", "cached", "live", "pend", "played"} \subseteq DOMAIN b
  /\ {"req", "phase", "delivered"} \subseteq DOMAIN b.pend
  /\ DOMAIN b.rows = Recordings
  /\ \A s \in Recordings : {"st", "pcm", "speaker", "text"} \subseteq DOMAIN b.rows[s]

\* What has been received of a recording is the beginning of it.
Begun(s, row) ==
  IsSeq(row.pcm) /\ \A i \in 1..Len(row.pcm) : row.pcm[i] = [seg |-> s, at |-> i - 1]

RowsOK(b) ==
  /\ \A s \in Recordings : Begun(s, b.rows[s])
  /\ \A s \in Recordings : b.rows[s].st = "receiving" => b.owner = s /\ ~b.cached
  /\ b.owner # 0 =>
       /\ b.owner \in Recordings
       /\ b.cached => b.rows[b.owner].st = "stored"
       /\ ~b.cached => b.rows[b.owner].st \in {"receiving", "committing"}
  /\ b.live # 0 => b.live = b.owner /\ ~b.cached /\ b.rows[b.live].st = "committing"

BridgeOK(b) == BridgeFields(b) /\ RowsOK(b) /\ b.case \in Nat

\* A stored recording stays as it is in its case.
Advances(b, c) ==
  /\ c.case \in Nat /\ b.case <= c.case
  /\ c.case = b.case =>
       \A s \in Recordings : b.rows[s].st = "stored" =>
         c.rows[s].st = "stored" /\ Len(c.rows[s].pcm) = Len(b.rows[s].pcm)

LEMMA TruthStays ==
  ASSUME NEW b, NEW c, NEW m, b.case \in Nat, Advances(b, c), IsAnswer(b, m)
  PROVE  IsAnswer(c, m)
  BY DEF IsAnswer, Truthful, IsStored, Advances

\* Answers other than a durable ACK.
Plain(out) ==
  IsSeq(out) /\ \A i \in 1..Len(out) : out[i].t \in AnswerTypes \ {"durable"}

\* A new state of the Bridge, and what it has sent; E holds the recordings
\* whose end it has received on this connection.
Reacts(b, r, E) ==
  /\ BridgeOK(r.b) /\ Advances(b, r.b)
  /\ IsSeq(r.out)
  /\ \A i \in 1..Len(r.out) : /\ IsAnswer(r.b, r.out[i])
                              /\ r.out[i].t = "durable" => r.out[i].seg \in E
  /\ r.b.live # 0 => r.b.live \in E

LEMMA PlainReacts ==
  ASSUME NEW b, NEW c, NEW out, NEW E, BridgeOK(c), Advances(b, c), Plain(out),
         c.live # 0 => c.live \in E
  PROVE  Reacts(b, Reply(c, out), E)
<1>1. \A i \in 1..Len(out) : IsAnswer(c, out[i]) /\ out[i].t # "durable"
  BY DEF Plain, IsAnswer, Truthful
<1> QED BY <1>1 DEF Reacts, Reply, Plain

LEMMA PlainAnswers ==
  /\ Plain(<<>>)
  /\ \A x : x.t \in AnswerTypes \ {"durable"} => Plain(<<x>>)
  /\ \A x, y : x.t \in AnswerTypes \ {"durable"} /\ y.t \in AnswerTypes \ {"durable"}
                 => Plain(<<x, y>>)
<1>1. Plain(<<>>)
  BY SeqEmpty DEF Plain
<1>2. \A x : x.t \in AnswerTypes \ {"durable"} => Plain(<<x>>)
  BY DEF Plain, IsSeq
<1>3. \A x, y : x.t \in AnswerTypes \ {"durable"} /\ y.t \in AnswerTypes \ {"durable"}
                  => Plain(<<x, y>>)
  BY DEF Plain, IsSeq
<1> QED BY <1>1, <1>2, <1>3

LEMMA PlainTriple ==
  ASSUME NEW x, NEW y, NEW z, x.t \in AnswerTypes \ {"durable"},
         y.t \in AnswerTypes \ {"durable"}, z.t \in AnswerTypes \ {"durable"}
  PROVE  Plain(<<x, y, z>>)
  BY DEF Plain, IsSeq

LEMMA PlainTypes ==
  ASSUME NEW b, NEW s, NEW code, NEW retry, NEW name
  PROVE  /\ Error(b, s, code, retry).t \in AnswerTypes \ {"durable"}
         /\ State(b, name).t \in AnswerTypes \ {"durable"}
         /\ NobodysError.t \in AnswerTypes \ {"durable"}
         /\ Transcript(b, s).t \in AnswerTypes \ {"durable"}
  BY DEF Error, State, NobodysError, Transcript, AnswerTypes

LEMMA PlainTogether ==
  ASSUME NEW s, NEW t, Plain(s), Plain(t) PROVE Plain(s \o t)
<1>1. /\ IsSeq(s \o t)
      /\ \A i \in 1..Len(s) : (s \o t)[i] = s[i]
      /\ \A i \in 1..Len(s \o t) : i \notin 1..Len(s) =>
           /\ i - Len(s) \in 1..Len(t) /\ (s \o t)[i] = t[i - Len(s)]
  BY SeqConcat DEF Plain
<1> QED BY <1>1 DEF Plain

LEMMA NoticesArePlain ==
  ASSUME NEW b PROVE Plain(Notices(b))
<1> DEFINE told   == {s \in Recordings : b.rows[s].text \in {"saved", "failed"}}
           nth(n) == CHOOSE s \in told : Cardinality({r \in told : r < s}) = n
           n      == 2 * Cardinality(told)
           S      == {m \in {Transcript(b, s) : s \in {nth(i \div 2) : i \in 1..n}}
                              \cup {State(b, "waiting")} :
                        m.t \in AnswerTypes \ {"durable"}}
<1>1. n \in Nat
  <2>1. IsFiniteSet(told)
    BY RecordingsAssumption, FS_Subset
  <2> HIDE DEF told
  <2> QED BY <2>1, FS_CardinalityType
<1>2. Notices(b) = [i \in 1..n |-> IF i % 2 = 1 THEN Transcript(b, nth(i \div 2))
                                                ELSE State(b, "waiting")]
  BY DEF Notices
<1> HIDE DEF told, nth, n
<1>3. \A i \in 1..n : Notices(b)[i] \in S
  <2> TAKE i \in 1..n
  <2>1. Transcript(b, nth(i \div 2)) \in S /\ State(b, "waiting") \in S
    BY PlainTypes
  <2> QED BY <1>2, <2>1
<1>4. Notices(b) = [i \in 1..n |-> Notices(b)[i]]
  BY <1>2
<1> HIDE DEF S
<1>5. Notices(b) \in [1..n -> S]
  BY <1>3, <1>4
<1>6. Notices(b) \in Seq(S)
  BY <1>1, <1>5
<1>7. IsSeq(Notices(b)) /\ \A i \in 1..Len(Notices(b)) : Notices(b)[i] \in S
  BY <1>6, SeqIsSeq
<1> QED BY <1>7 DEF Plain, S

LEMMA RecordingsAreNumbers == Recordings \subseteq Nat \ {0}
  BY BoundsAssumption, SegmentsAssumption

\* One row changes, and what it says of the recording stays true.
Rewrites(b, c, s) ==
  /\ s \in Recordings /\ DOMAIN c = DOMAIN b /\ c.case = b.case
  /\ {"req", "phase", "delivered"} \subseteq DOMAIN c.pend
  /\ DOMAIN c.rows = Recordings
  /\ \A x \in Recordings : x # s => c.rows[x] = b.rows[x]
  /\ {"st", "pcm", "speaker", "text"} \subseteq DOMAIN c.rows[s]
  /\ Begun(s, c.rows[s])
  /\ b.rows[s].st = "stored" =>
       c.rows[s].st = "stored" /\ Len(c.rows[s].pcm) = Len(b.rows[s].pcm)

LEMMA RowRewritten ==
  ASSUME NEW b, NEW c, NEW s, BridgeOK(b), Rewrites(b, c, s)
  PROVE  /\ BridgeFields(c) /\ Advances(b, c) /\ c.case \in Nat
         /\ \A x \in Recordings : Begun(x, c.rows[x])
<1>1. BridgeFields(c)
  BY DEF BridgeOK, BridgeFields, Rewrites
<1>2. c.case \in Nat /\ b.case <= c.case
  BY DEF BridgeOK, Rewrites
<1>3. Advances(b, c)
  BY <1>2 DEF Advances, Rewrites
<1>4. \A x \in Recordings : Begun(x, c.rows[x])
  BY DEF BridgeOK, RowsOK, Rewrites
<1> QED BY <1>1, <1>2, <1>3, <1>4

LEMMA NoRowBegun ==
  /\ NoRow.pcm = <<>> /\ Len(NoRow.pcm) = 0 /\ \A s : Begun(s, NoRow)
  /\ DOMAIN NoRow = {"st", "pcm", "speaker", "text"} /\ NoRow.st = "none"
  BY SeqEmpty DEF NoRow, Begun

\* Only the owner, the request or a receipt changes.
Leaves(b, c) ==
  /\ DOMAIN c = DOMAIN b /\ c.case = b.case /\ c.rows = b.rows
  /\ {"req", "phase", "delivered"} \subseteq DOMAIN c.pend

LEMMA RowsLeft ==
  ASSUME NEW b, NEW c, BridgeOK(b), Leaves(b, c)
  PROVE  /\ BridgeFields(c) /\ Advances(b, c) /\ c.case \in Nat
         /\ \A x \in Recordings : Begun(x, c.rows[x])
         /\ c.owner = b.owner /\ c.cached = b.cached /\ c.live = b.live => BridgeOK(c)
<1>1. BridgeFields(c) /\ Advances(b, c) /\ c.case \in Nat
  BY DEF BridgeOK, BridgeFields, Leaves, Advances
<1>2. \A x \in Recordings : Begun(x, c.rows[x])
  BY DEF BridgeOK, RowsOK, Leaves
<1>3. c.owner = b.owner /\ c.cached = b.cached /\ c.live = b.live => RowsOK(c)
  BY DEF BridgeOK, RowsOK, Leaves
<1> QED BY <1>1, <1>2, <1>3 DEF BridgeOK

----------------------------------------------------------------------------
(* What the Bridge makes of each message; c is where it is in its stream.  *)

EndOf(m) == IF m.t = "end" THEN {m.seg} ELSE {}

\* The Bridge waits for no commit and is where the message finds it.
Finds(b, c, m) ==
  /\ BridgeOK(b) /\ c \in Cursors /\ BridgeAt(b, c) /\ Allowed(c, m) /\ ~Busy(b, m)

Takes1(b, r, c, m) ==
  /\ Reacts(b, r, EndOf(m)) /\ BridgeAt(r.b, After(c, m))
  /\ r.b.case = b.case \/ (IsCase(m) /\ r.b.case = m.case)

LEMMA NotWaiting ==
  ASSUME NEW b, NEW c, NEW m, Finds(b, c, m)
  PROVE  /\ BridgeFields(b) /\ RowsOK(b) /\ b.case \in Nat /\ b.live = 0
         /\ c = NoStream => b.owner = 0
         /\ b.owner = 0 => \A s \in Recordings : b.rows[s].st # "receiving"
  BY RecordingsAreNumbers DEF Finds, BridgeOK, Busy, BridgeAt, RowsOK

\* An answer to a message that is not of a stream, and leaves the rows.
LEMMA PlainTaken ==
  ASSUME NEW b, NEW c, NEW m, NEW n, NEW out, Finds(b, c, m), Leaves(b, n), Plain(out),
         n.owner = b.owner, n.cached = b.cached, n.live = b.live,
         BridgeAt(n, After(c, m))
  PROVE  Takes1(b, Reply(n, out), c, m)
<1>1. BridgeOK(n) /\ Advances(b, n) /\ n.live = 0
  BY NotWaiting, RowsLeft DEF Finds
<1>2. Reacts(b, Reply(n, out), EndOf(m))
  BY <1>1, PlainReacts
<1> QED BY <1>2 DEF Takes1, Reply, Leaves

LEMMA CaseTaken ==
  ASSUME NEW b, NEW c, NEW m, Finds(b, c, m), m.t = "case", m.case \in Nat, b.case <= m.case
  PROVE  Takes1(b, OnCase(b, m), c, m)
<1> DEFINE ack == [t |-> "caseAck", case |-> m.case]
           n == [b EXCEPT !.case = m.case, !.owner = 0, !.pend = NoPending,
                          !.rows = FreshBridge.rows]
<1>0. BridgeFields(b) /\ RowsOK(b) /\ b.case \in Nat /\ b.live = 0
  BY NotWaiting
<1>1. ack.t \in AnswerTypes \ {"durable"} /\ State(n, "waiting").t \in AnswerTypes \ {"durable"}
  BY PlainTypes DEF AnswerTypes
<1> HIDE DEF ack
<1>2. CASE m.case = b.case
  <2>1. Plain(<<ack>>)
    BY <1>1, PlainAnswers
  <2>2. Leaves(b, b)
    BY <1>0 DEF BridgeFields, Leaves
  <2>3. BridgeAt(b, After(c, m))
    BY DEF Finds, After
  <2>4. OnCase(b, m) = Reply(b, <<ack>>)
    BY <1>2 DEF OnCase, ack
  <2> QED BY <2>1, <2>2, <2>3, <2>4, PlainTaken
<1>3. CASE m.case # b.case
  <2>1. /\ DOMAIN n = DOMAIN b /\ n.case = m.case /\ n.owner = 0 /\ n.pend = NoPending
        /\ n.rows = [s \in Recordings |-> NoRow] /\ n.live = b.live
    BY <1>0 DEF BridgeFields, FreshBridge
  <2>2. OnCase(b, m) = Reply(n, <<ack, State(n, "waiting")>>)
    BY <1>3 DEF OnCase, ack
  <2> HIDE DEF n
  <2>3. BridgeFields(n)
    BY <1>0, <2>1, NoRowBegun DEF BridgeFields, NoPending
  <2>4. RowsOK(n)
    BY <1>0, <2>1, NoRowBegun DEF RowsOK
  <2>5. Advances(b, n)
    BY <1>0, <1>3, <2>1 DEF Advances
  <2>6. Plain(<<ack, State(n, "waiting")>>)
    BY <1>1, PlainAnswers DEF State
  <2>7. Reacts(b, Reply(n, <<ack, State(n, "waiting")>>), EndOf(m))
    BY <1>0, <2>1, <2>3, <2>4, <2>5, <2>6, PlainReacts DEF BridgeOK
  <2>8. BridgeAt(n, After(c, m))
    BY <1>0, <2>1 DEF Finds, After, BridgeAt
  <2> QED BY <2>1, <2>2, <2>7, <2>8 DEF Takes1, IsCase, Reply
<1> QED BY <1>2, <1>3

LEMMA StartTaken ==
  ASSUME NEW b, NEW c, NEW m, Finds(b, c, m), m.t = "start"
  PROVE  Takes1(b, OnStart(b, m), c, m)
<1> DEFINE s == m.seg
           kept == [b EXCEPT !.owner = m.seg, !.cached = TRUE]
           row == [NoRow EXCEPT !.st = "receiving", !.speaker = m.speaker]
           opened == [b EXCEPT !.rows[m.seg] = row]
           new == [opened EXCEPT !.owner = m.seg, !.cached = FALSE]
           at == [seg |-> m.seg, frames |-> 0]
<1>1. /\ BridgeFields(b) /\ RowsOK(b) /\ BridgeOK(b) /\ b.live = 0 /\ b.owner = 0
      /\ \A x \in Recordings : b.rows[x].st # "receiving"
  BY NotWaiting DEF Finds, Allowed
<1>2. s \in Recordings /\ s # 0 /\ b.rows[s].st \notin {"receiving", "committing"}
  BY <1>1 DEF Finds, Allowed, Busy, Committing, InState
<1>3. After(c, m) = at /\ at.seg = s /\ at.frames = 0 /\ at # NoStream
  BY <1>2 DEF After, NoStream
<1> HIDE DEF at
<1>4. Plain(<<>>)
  BY SeqEmpty DEF Plain
<1>5. CASE b.rows[s].st = "stored"
  <2>1. /\ Leaves(b, kept) /\ kept.owner = s /\ kept.cached = TRUE /\ kept.live = 0
    BY <1>1 DEF BridgeFields, Leaves
  <2>2. OnStart(b, m) = Reply(kept, <<>>)
    BY <1>5 DEF OnStart
  <2> HIDE DEF kept
  <2>3. BridgeFields(kept) /\ Advances(b, kept) /\ kept.case \in Nat
        /\ \A x \in Recordings : Begun(x, kept.rows[x])
    BY <1>1, <2>1, RowsLeft
  <2>4. RowsOK(kept)
    BY <1>1, <1>2, <1>5, <2>1, <2>3 DEF RowsOK, Leaves
  <2>5. BridgeAt(kept, at)
    BY <1>2, <1>3, <2>1 DEF BridgeAt
  <2>6. Reacts(b, Reply(kept, <<>>), EndOf(m))
    BY <1>4, <2>1, <2>3, <2>4, PlainReacts DEF BridgeOK
  <2> QED BY <1>3, <2>1, <2>2, <2>5, <2>6 DEF Takes1, Reply, Leaves
<1>6. CASE b.rows[s].st # "stored"
  <2>1. /\ DOMAIN row = DOMAIN NoRow /\ row.st = "receiving" /\ row.pcm = <<>>
    BY NoRowBegun
  <2> HIDE DEF row
  <2>2. /\ DOMAIN opened = DOMAIN b /\ opened.rows = [b.rows EXCEPT ![s] = row]
        /\ opened.case = b.case /\ opened.pend = b.pend /\ opened.live = b.live
    BY <1>1 DEF BridgeFields
  <2> HIDE DEF opened
  <2>3. /\ DOMAIN new = DOMAIN b /\ new.rows = [b.rows EXCEPT ![s] = row]
        /\ new.case = b.case /\ new.pend = b.pend /\ new.live = b.live
        /\ new.owner = s /\ new.cached = FALSE
    BY <1>1, <2>2 DEF BridgeFields
  <2>4. OnStart(b, m) = Reply(new, <<>>)
    BY <1>1, <1>2, <1>6 DEF OnStart, opened, row
  <2> HIDE DEF new
  <2>5. Rewrites(b, new, s) /\ Len(row.pcm) = 0
    BY <1>1, <1>2, <1>6, <2>1, <2>3, NoRowBegun DEF BridgeFields, Rewrites, Begun
  <2>6. BridgeFields(new) /\ Advances(b, new) /\ new.case \in Nat
        /\ \A x \in Recordings : Begun(x, new.rows[x])
    BY <1>1, <2>5, RowRewritten
  <2>7. RowsOK(new)
    BY <1>1, <1>2, <2>1, <2>3, <2>6 DEF RowsOK, BridgeFields
  <2>8. BridgeAt(new, at)
    BY <1>1, <1>2, <1>3, <2>1, <2>3, <2>5 DEF BridgeAt, BridgeFields
  <2>9. Reacts(b, Reply(new, <<>>), EndOf(m))
    BY <1>1, <1>4, <2>3, <2>6, <2>7, PlainReacts DEF BridgeOK
  <2> QED BY <1>3, <2>3, <2>4, <2>8, <2>9 DEF Takes1, Reply
<1> QED BY <1>5, <1>6

LEMMA RefusalTaken ==
  ASSUME NEW b, NEW c, NEW m, Finds(b, c, m), CanRefuse(b, m)
  PROVE  Takes1(b, OnStartRefused(b, m), c, m)
<1> DEFINE no == Error(b, m.seg, "audio", FALSE)
           out == <<no>>
<1>1. Plain(out)
  <2>1. no.t \in AnswerTypes \ {"durable"}
    BY PlainTypes
  <2> HIDE DEF no
  <2> QED BY <2>1, PlainAnswers
<1>2. /\ BridgeFields(b) /\ b.live = 0 /\ b.owner = 0 /\ m.t = "start" /\ m.seg # 0
  BY NotWaiting DEF CanRefuse, Finds, Allowed
<1>3. Leaves(b, b)
  BY <1>2 DEF BridgeFields, Leaves
<1>4. BridgeAt(b, After(c, m))
  BY <1>2 DEF BridgeAt, After, NoStream
<1> HIDE DEF out
<1>5. Takes1(b, Reply(b, out), c, m)
  BY <1>1, <1>3, <1>4, PlainTaken
<1> QED BY <1>5 DEF OnStartRefused, out

\* A recording whose stream broke has failed, and will be sent again.
LEMMA RecordingFails ==
  ASSUME NEW b, NEW c, NEW m, Finds(b, c, m), b.owner # 0, b.rows[b.owner].st # "stored",
         m.t \in {"chunk", "end"}
  PROVE  Takes1(b, FailRecording(b), c, m)
<1> DEFINE row == [NoRow EXCEPT !.st = "failed"]
           lost == [b EXCEPT !.rows[b.owner] = row]
           n == [lost EXCEPT !.owner = 0]
           no == Error(b, b.owner, "audio", TRUE)
           out == <<no>>
<1>1. /\ BridgeFields(b) /\ RowsOK(b) /\ BridgeOK(b) /\ b.live = 0 /\ b.owner \in Recordings
  BY NotWaiting DEF Finds, RowsOK
<1>2. Plain(out)
  <2>1. no.t \in AnswerTypes \ {"durable"}
    BY PlainTypes
  <2> HIDE DEF no
  <2> QED BY <2>1, PlainAnswers
<1>3. /\ DOMAIN row = DOMAIN NoRow /\ row.st = "failed" /\ row.pcm = <<>>
  BY NoRowBegun
<1> HIDE DEF row
<1>4. /\ DOMAIN lost = DOMAIN b /\ lost.rows = [b.rows EXCEPT ![b.owner] = row]
      /\ lost.case = b.case /\ lost.pend = b.pend /\ lost.live = b.live
  BY <1>1 DEF BridgeFields
<1>5. n = [b EXCEPT !.rows[b.owner] = row, !.owner = 0]
  BY <1>1 DEF BridgeFields
<1>6. FailRecording(b) = Reply(n, out)
  BY <1>5 DEF FailRecording, row
<1> HIDE DEF lost, out
<1>7. /\ DOMAIN n = DOMAIN b /\ n.rows = [b.rows EXCEPT ![b.owner] = row]
      /\ n.case = b.case /\ n.pend = b.pend /\ n.live = b.live /\ n.owner = 0
  BY <1>1, <1>4 DEF BridgeFields
<1> HIDE DEF n
<1>8. Rewrites(b, n, b.owner)
  BY <1>1, <1>3, <1>7, NoRowBegun DEF BridgeFields, Rewrites, Begun
<1>9. BridgeFields(n) /\ Advances(b, n) /\ n.case \in Nat /\ \A x \in Recordings : Begun(x, n.rows[x])
  BY <1>1, <1>8, RowRewritten
<1>10. RowsOK(n)
  BY <1>1, <1>3, <1>7, <1>9 DEF RowsOK, BridgeFields
<1>11. Reacts(b, Reply(n, out), EndOf(m))
  BY <1>1, <1>2, <1>7, <1>9, <1>10, PlainReacts DEF BridgeOK
<1>12. BridgeAt(n, After(c, m))
  <2>1. After(c, m) # NoStream => After(c, m).seg # 0
    BY DEF Finds, Allowed, After, NoStream
  <2> QED BY <1>1, <1>7, <2>1 DEF BridgeAt
<1> QED BY <1>6, <1>7, <1>11, <1>12 DEF Takes1, Reply

LEMMA ChunkTaken ==
  ASSUME NEW b, NEW c, NEW m, Finds(b, c, m), m.t = "chunk"
  PROVE  Takes1(b, OnChunk(b, m), c, m)
<1> DEFINE o == b.owner
           got == b.rows[o].pcm
           row == [b.rows[o] EXCEPT !.pcm = Append(got, m.pcm)]
           n == [b EXCEPT !.rows[b.owner].pcm = Append(@, m.pcm)]
           at == [seg |-> c.seg, frames |-> c.frames + 1]
<1>1. /\ BridgeFields(b) /\ RowsOK(b) /\ BridgeOK(b) /\ b.live = 0 /\ Leaves(b, b)
  BY NotWaiting DEF Finds, Leaves, BridgeFields
<1>2. /\ c.seg # 0 /\ c # NoStream /\ m.seq = c.frames /\ m.pcm = [seg |-> c.seg, at |-> c.frames]
      /\ c.frames \in Nat
  BY DEF Finds, Allowed, NoStream, Cursors
<1>3. /\ After(c, m) = at /\ at.seg = c.seg /\ at.frames = c.frames + 1 /\ at # NoStream
  BY <1>2 DEF After, NoStream
<1> HIDE DEF at
<1>4. Plain(<<>>) /\ Plain(<<NobodysError>>)
  <2>1. NobodysError.t \in AnswerTypes \ {"durable"}
    BY PlainTypes
  <2> QED BY <2>1, PlainAnswers
<1>5. CASE o = 0
  <2>1. OnChunk(b, m) = Reply(b, <<NobodysError>>)
    BY <1>5 DEF OnChunk
  <2>2. BridgeAt(b, at)
    BY <1>1, <1>2, <1>3, <1>5 DEF BridgeAt
  <2> QED BY <1>1, <1>3, <1>4, <2>1, <2>2, PlainTaken
<1>6. CASE o # 0 /\ b.cached
  <2>1. OnChunk(b, m) = Reply(b, <<>>)
    BY <1>6 DEF OnChunk
  <2>2. BridgeAt(b, at)
    BY <1>1, <1>2, <1>3, <1>6 DEF BridgeAt, Finds
  <2> QED BY <1>1, <1>3, <1>4, <2>1, <2>2, PlainTaken
<1>7. CASE o # 0 /\ ~b.cached
  <2>1. o \in Recordings /\ o = c.seg /\ b.rows[o].st = "receiving" /\ Len(got) = c.frames
    BY <1>1, <1>2, <1>7 DEF Finds, BridgeAt, RowsOK
  <2>2. OnChunk(b, m) = Reply(n, <<>>)
    BY <1>2, <1>7, <2>1 DEF OnChunk
  <2>3. /\ DOMAIN n = DOMAIN b /\ n.rows = [b.rows EXCEPT ![o] = row]
        /\ n.case = b.case /\ n.pend = b.pend /\ n.live = b.live /\ n.owner = o
        /\ n.cached = b.cached
    BY <1>1, <2>1 DEF BridgeFields
  <2>4. DOMAIN row = DOMAIN b.rows[o] /\ row.st = "receiving" /\ row.pcm = Append(got, m.pcm)
    BY <1>1, <2>1 DEF BridgeFields
  <2>5. /\ IsSeq(row.pcm) /\ Len(row.pcm) = c.frames + 1
        /\ \A i \in 1..c.frames : row.pcm[i] = got[i]
        /\ row.pcm[c.frames + 1] = m.pcm
    <3>1. IsSeq(got)
      BY <1>1, <2>1 DEF RowsOK, Begun
    <3> HIDE DEF got, row
    <3> QED BY <2>1, <2>4, <3>1, SeqAppend
  <2> HIDE DEF n, row, got
  <2>6. Begun(o, row)
    <3>1. \A i \in 1..c.frames : got[i] = [seg |-> o, at |-> i - 1]
      BY <1>1, <2>1 DEF RowsOK, Begun, got
    <3>2. m.pcm = [seg |-> o, at |-> (c.frames + 1) - 1]
      BY <1>2, <2>1
    <3>3. \A i \in 1..(c.frames + 1) : i \in 1..c.frames \/ i = c.frames + 1
      BY <1>2
    <3> QED BY <2>5, <3>1, <3>2, <3>3 DEF Begun
  <2>7. Rewrites(b, n, o)
    BY <1>1, <2>1, <2>3, <2>4, <2>6 DEF BridgeFields, Rewrites
  <2>8. BridgeFields(n) /\ Advances(b, n) /\ n.case \in Nat /\ \A x \in Recordings : Begun(x, n.rows[x])
    BY <1>1, <2>7, RowRewritten
  <2>9. RowsOK(n)
    BY <1>1, <1>7, <2>1, <2>3, <2>4, <2>8 DEF RowsOK, BridgeFields
  <2>10. Reacts(b, Reply(n, <<>>), EndOf(m))
    BY <1>1, <1>4, <2>3, <2>8, <2>9, PlainReacts DEF BridgeOK
  <2>11. BridgeAt(n, at)
    BY <1>1, <1>2, <1>3, <2>1, <2>3, <2>4, <2>5 DEF BridgeAt, BridgeFields
  <2> QED BY <1>3, <2>2, <2>3, <2>10, <2>11 DEF Takes1, Reply
<1> QED BY <1>5, <1>6, <1>7

LEMMA EndTaken ==
  ASSUME NEW b, NEW c, NEW m, Finds(b, c, m), m.t = "end"
  PROVE  Takes1(b, OnEnd(b, m), c, m)
<1> DEFINE s == m.seg
           mine == b.owner = s
           freed == [b EXCEPT !.owner = IF mine /\ b.cached THEN 0 ELSE @]
           row == [b.rows[s] EXCEPT !.st = "committing"]
           n == [b EXCEPT !.rows[m.seg].st = "committing", !.live = m.seg]
<1>1. /\ BridgeFields(b) /\ RowsOK(b) /\ BridgeOK(b) /\ b.live = 0 /\ Leaves(b, b)
  BY NotWaiting DEF Finds, Leaves, BridgeFields
<1>2. /\ c.seg # 0 /\ c # NoStream /\ s = c.seg /\ After(c, m) = NoStream /\ EndOf(m) = {s}
      /\ b.owner # 0 => mine
  BY DEF Finds, Allowed, NoStream, After, EndOf, BridgeAt
<1>3. CASE s \in Stored(b)
  <2>1. /\ DOMAIN freed = DOMAIN b /\ freed.case = b.case /\ freed.rows = b.rows
        /\ freed.pend = b.pend /\ freed.cached = b.cached /\ freed.live = 0 /\ freed.owner = 0
    BY <1>1, <1>2, <1>3 DEF BridgeFields, RowsOK, Stored, InState
  <2>2. OnEnd(b, m) = Reply(freed, <<Durable(b, s)>>)
    BY <1>3 DEF OnEnd
  <2> HIDE DEF freed
  <2>3. Leaves(b, freed)
    BY <1>1, <2>1 DEF Leaves, BridgeFields
  <2>4. BridgeFields(freed) /\ Advances(b, freed) /\ freed.case \in Nat
        /\ \A x \in Recordings : Begun(x, freed.rows[x])
    BY <1>1, <2>3, RowsLeft
  <2>5. RowsOK(freed)
    BY <1>1, <1>2, <1>3, <2>1, <2>4 DEF RowsOK, Stored, InState
  <2>6. IsAnswer(freed, Durable(b, s)) /\ Durable(b, s).seg = s
    BY <1>1, <1>3, <2>1, <2>4
       DEF IsAnswer, AnswerTypes, Truthful, IsStored, Durable, Stored, InState
  <2>7. IsSeq(<<Durable(b, s)>>) /\ Len(<<Durable(b, s)>>) = 1
    BY DEF IsSeq
  <2>8. Reacts(b, Reply(freed, <<Durable(b, s)>>), {s})
    BY <2>1, <2>4, <2>5, <2>6, <2>7 DEF Reacts, Reply, BridgeOK
  <2>9. BridgeAt(freed, NoStream)
    BY <2>1 DEF BridgeAt
  <2> QED BY <1>2, <2>1, <2>2, <2>8, <2>9 DEF Takes1, Reply
<1>4. CASE s \notin Stored(b) /\ b.owner = 0
  <2> DEFINE no == Error(b, s, "audio", TRUE)
  <2>1. no.t \in AnswerTypes \ {"durable"}
    BY PlainTypes
  <2>2. OnEnd(b, m) = Reply(b, <<no>>)
    BY <1>4 DEF OnEnd
  <2> HIDE DEF no
  <2>3. Plain(<<no>>)
    BY <2>1, PlainAnswers
  <2>4. BridgeAt(b, NoStream)
    BY <1>4 DEF BridgeAt
  <2> QED BY <1>1, <1>2, <2>2, <2>3, <2>4, PlainTaken
<1>5. CASE s \notin Stored(b) /\ b.owner # 0
  <2>1. s \in Recordings /\ mine /\ ~b.cached /\ b.rows[s].st = "receiving"
    BY <1>1, <1>2, <1>5 DEF RowsOK, Stored, InState, Finds, BridgeAt
  <2>2. OnEnd(b, m) \in {Reply(n, <<>>), FailRecording(b)}
    BY <1>5, <2>1 DEF OnEnd
  <2>3. Takes1(b, FailRecording(b), c, m)
    BY <1>5, <2>1, RecordingFails
  <2>4. Takes1(b, Reply(n, <<>>), c, m)
    <3>1. /\ DOMAIN n = DOMAIN b /\ n.rows = [b.rows EXCEPT ![s] = row]
          /\ n.case = b.case /\ n.pend = b.pend /\ n.live = s /\ n.owner = s
          /\ n.cached = b.cached
      BY <1>1, <2>1 DEF BridgeFields
    <3>2. DOMAIN row = DOMAIN b.rows[s] /\ row.st = "committing" /\ row.pcm = b.rows[s].pcm
      BY <1>1, <2>1 DEF BridgeFields
    <3> HIDE DEF n, row
    <3>3. Rewrites(b, n, s)
      BY <1>1, <2>1, <3>1, <3>2 DEF BridgeFields, Rewrites, RowsOK, Begun
    <3>4. BridgeFields(n) /\ Advances(b, n) /\ n.case \in Nat
          /\ \A x \in Recordings : Begun(x, n.rows[x])
      BY <1>1, <3>3, RowRewritten
    <3>5. RowsOK(n)
      BY <1>1, <2>1, <3>1, <3>2, <3>4 DEF RowsOK, BridgeFields
    <3>6. Plain(<<>>)
      BY SeqEmpty DEF Plain
    <3>7. Reacts(b, Reply(n, <<>>), {s})
      BY <3>1, <3>4, <3>5, <3>6, PlainReacts DEF BridgeOK
    <3>8. BridgeAt(n, NoStream)
      BY <3>1 DEF BridgeAt
    <3> QED BY <1>2, <3>1, <3>7, <3>8 DEF Takes1, Reply
  <2> HIDE DEF n
  <2> QED BY <2>2, <2>3, <2>4
<1> QED BY <1>3, <1>4, <1>5

LEMMA MessageTaken ==
  ASSUME NEW b, NEW c, NEW m, Finds(b, c, m),
         IsCase(m) => m.case \in Nat /\ b.case <= m.case
  PROVE  Takes1(b, OnMessage(b, m), c, m)
<1>0. /\ BridgeFields(b) /\ b.live = 0
      /\ m.t \in {"case", "start", "chunk", "end", "mediate", "played"}
  BY NotWaiting DEF Finds, Allowed
<1>1. CASE m.t = "case"
  BY <1>1, CaseTaken DEF OnMessage, IsCase
<1>2. CASE m.t = "start"
  BY <1>2, StartTaken DEF OnMessage
<1>3. CASE m.t = "chunk"
  BY <1>3, ChunkTaken DEF OnMessage
<1>4. CASE m.t = "end"
  BY <1>4, EndTaken DEF OnMessage
<1>5. m.t \in {"mediate", "played"} => After(c, m) = c /\ BridgeAt(b, c)
  BY DEF Finds, After
<1>6. \A n : Leaves(b, n) /\ n.owner = b.owner /\ n.cached = b.cached /\ n.live = b.live
               /\ BridgeAt(b, c) => BridgeAt(n, c)
  BY DEF Leaves, BridgeAt
<1>7. CASE m.t = "mediate"
  <2> DEFINE p == [req |-> m.req, phase |-> "working", delivered |-> FALSE]
             n == [b EXCEPT !.pend = p]
  <2>1. Leaves(b, n) /\ n.owner = b.owner /\ n.cached = b.cached /\ n.live = b.live
    BY <1>0 DEF BridgeFields, Leaves
  <2>2. OnMessage(b, m) = Reply(n, <<>>)
    BY <1>7 DEF OnMessage, OnMediate
  <2>3. Plain(<<>>)
    BY SeqEmpty DEF Plain
  <2> HIDE DEF n
  <2> QED BY <1>5, <1>6, <1>7, <2>1, <2>2, <2>3, PlainTaken
<1>8. CASE m.t = "played"
  <2> DEFINE n == [b EXCEPT !.pend = NoPending, !.played = @ \cup {m.req}]
             ack == [t |-> "playedAck", case |-> m.case, req |-> m.req]
             no == Error(b, 0, "other", FALSE)
             later == Error(b, 0, "other", TRUE)
  <2>1. Leaves(b, n) /\ n.owner = b.owner /\ n.cached = b.cached /\ n.live = b.live
    BY <1>0 DEF BridgeFields, Leaves, NoPending
  <2>2. Leaves(b, b)
    BY <1>0 DEF BridgeFields, Leaves
  <2>3. /\ ack.t \in AnswerTypes \ {"durable"}
        /\ no.t \in AnswerTypes \ {"durable"} /\ later.t \in AnswerTypes \ {"durable"}
    <3>1. ack.t \in AnswerTypes \ {"durable"}
      BY DEF AnswerTypes
    <3>2. no.t \in AnswerTypes \ {"durable"} /\ later.t \in AnswerTypes \ {"durable"}
      BY PlainTypes
    <3> QED BY <3>1, <3>2
  <2>4. OnMessage(b, m) \in {Reply(b, <<ack>>), Reply(b, <<no>>), Reply(b, <<later>>), Reply(n, <<ack>>)}
    BY <1>8 DEF OnMessage, OnPlayed
  <2> HIDE DEF n, ack, no, later
  <2>5. Plain(<<ack>>) /\ Plain(<<no>>) /\ Plain(<<later>>)
    BY <2>3, PlainAnswers
  <2> QED BY <1>5, <1>6, <1>8, <2>1, <2>2, <2>4, <2>5, PlainTaken
<1> QED BY <1>0, <1>1, <1>2, <1>3, <1>4, <1>7, <1>8

----------------------------------------------------------------------------
(* The work of the Bridge, and its connections.                            *)

\* It stays where it is in the stream.
Works(b, r) ==
  /\ Reacts(b, r, {b.live}) /\ r.b.case = b.case
  /\ \A c \in Cursors : BridgeAt(b, c) => BridgeAt(r.b, c)

LEMMA EndedIsOver ==
  ASSUME NEW b, NEW s, BridgeOK(b), s \in Committing(b)
  PROVE  LET e == Ended(b, s) IN
         /\ Leaves(b, e) /\ e.cached = b.cached /\ e.pend = b.pend /\ e.owner # s /\ e.live # s
         /\ e.owner \in {0, b.owner} /\ e.live \in {0, b.live} /\ s \in Recordings
         /\ b.rows[s].st = "committing" /\ s # 0
         /\ e.owner = 0 <=> b.owner = 0 \/ b.owner = s
         /\ e.live = 0 <=> b.live = 0 \/ b.live = s
<1> DEFINE e == Ended(b, s)
<1>1. s \in Recordings /\ b.rows[s].st = "committing" /\ s # 0
  BY RecordingsAreNumbers DEF Committing, InState
<1>2. /\ DOMAIN e = DOMAIN b /\ e.case = b.case /\ e.rows = b.rows /\ e.pend = b.pend
      /\ e.cached = b.cached
      /\ e.owner = (IF b.owner = s THEN 0 ELSE b.owner)
      /\ e.live = (IF b.live = s THEN 0 ELSE b.live)
  BY DEF BridgeOK, BridgeFields, Ended
<1> HIDE DEF e
<1>3. Leaves(b, e)
  BY <1>2 DEF Leaves, BridgeOK, BridgeFields
<1>4. e.owner # s /\ e.live # s
  BY <1>1, <1>2
<1> QED BY <1>1, <1>2, <1>3, <1>4 DEF e

\* The recording that was being committed has got its outcome.
CommitEnds(b, n, s) ==
  /\ s \in Committing(b)
  /\ DOMAIN n = DOMAIN b /\ n.case = b.case /\ n.cached = b.cached
  /\ n.owner = Ended(b, s).owner /\ n.live = Ended(b, s).live /\ n.pend = b.pend
  /\ DOMAIN n.rows = Recordings
  /\ \A x \in Recordings : x # s => n.rows[x] = b.rows[x]
  /\ {"st", "pcm", "speaker", "text"} \subseteq DOMAIN n.rows[s]
  /\ Begun(s, n.rows[s]) /\ n.rows[s].st \in {"stored", "failed"}

LEMMA CommitEndsWell ==
  ASSUME NEW b, NEW n, NEW s, BridgeOK(b), CommitEnds(b, n, s)
  PROVE  /\ BridgeOK(n) /\ Advances(b, n)
         /\ \A c \in Cursors : BridgeAt(b, c) => BridgeAt(n, c)
<1> DEFINE e == Ended(b, s)
<1>1. /\ e.owner # s /\ e.live # s
      /\ e.owner \in {0, b.owner} /\ e.live \in {0, b.live} /\ s \in Recordings
      /\ b.rows[s].st = "committing" /\ s # 0
      /\ e.owner = 0 <=> b.owner = 0 \/ b.owner = s
      /\ e.live = 0 <=> b.live = 0 \/ b.live = s
  BY EndedIsOver DEF CommitEnds
<1>2. n.owner = e.owner /\ n.live = e.live
  BY DEF CommitEnds
<1> HIDE DEF e
<1>3. Rewrites(b, n, s)
  BY <1>1 DEF CommitEnds, Rewrites, BridgeOK, BridgeFields
<1>4. BridgeFields(n) /\ Advances(b, n) /\ n.case \in Nat /\ \A x \in Recordings : Begun(x, n.rows[x])
  BY <1>3, RowRewritten
<1>5. RowsOK(n)
  <2>1. \A x \in Recordings : n.rows[x].st = "receiving" => n.owner = x /\ ~n.cached
    <3> SUFFICES ASSUME NEW x \in Recordings, n.rows[x].st = "receiving"
                 PROVE  n.owner = x /\ ~n.cached
      OBVIOUS
    <3>1. x # s /\ b.rows[x].st = "receiving"
      BY DEF CommitEnds
    <3>2. b.owner = x /\ ~b.cached /\ x # 0
      BY <3>1, RecordingsAreNumbers DEF BridgeOK, RowsOK
    <3> QED BY <1>1, <1>2, <3>1, <3>2 DEF CommitEnds
  <2>2. n.owner # 0 =>
          /\ n.owner \in Recordings
          /\ n.cached => n.rows[n.owner].st = "stored"
          /\ ~n.cached => n.rows[n.owner].st \in {"receiving", "committing"}
    <3> SUFFICES ASSUME n.owner # 0
                 PROVE  /\ n.owner \in Recordings
                        /\ n.cached => n.rows[n.owner].st = "stored"
                        /\ ~n.cached => n.rows[n.owner].st \in {"receiving", "committing"}
      OBVIOUS
    <3>1. n.owner = b.owner /\ b.owner # s /\ b.owner # 0
      BY <1>1, <1>2
    <3>2. b.owner \in Recordings /\ n.rows[b.owner] = b.rows[b.owner] /\ n.cached = b.cached
      BY <3>1 DEF BridgeOK, RowsOK, CommitEnds
    <3> QED BY <3>1, <3>2 DEF BridgeOK, RowsOK
  <2>3. n.live # 0 => n.live = n.owner /\ ~n.cached /\ n.rows[n.live].st = "committing"
    <3> SUFFICES ASSUME n.live # 0
                 PROVE  n.live = n.owner /\ ~n.cached /\ n.rows[n.live].st = "committing"
      OBVIOUS
    <3>1. n.live = b.live /\ b.live # s /\ b.live # 0
      BY <1>1, <1>2
    <3>2. b.live = b.owner /\ ~b.cached /\ b.rows[b.live].st = "committing" /\ b.live \in Recordings
      BY <3>1 DEF BridgeOK, RowsOK
    <3>3. n.owner = b.owner
      BY <1>1, <1>2, <3>1, <3>2
    <3> QED BY <3>1, <3>2, <3>3 DEF CommitEnds
  <2> QED BY <1>4, <2>1, <2>2, <2>3 DEF RowsOK
<1>6. \A c \in Cursors : BridgeAt(b, c) => BridgeAt(n, c)
  <2> SUFFICES ASSUME NEW c \in Cursors, BridgeAt(b, c) PROVE BridgeAt(n, c)
    OBVIOUS
  <2>1. CASE c = NoStream
    <3>1. b.owner = 0 \/ b.live = b.owner
      BY <2>1 DEF BridgeAt
    <3>2. n.owner = 0 \/ n.live = n.owner
      BY <3>1, <1>1, <1>2
    <3> QED BY <2>1, <3>2 DEF BridgeAt
  <2>2. CASE c # NoStream
    <3>1. n.live = 0 /\ c.seg # 0
      BY <2>2, <1>1, <1>2 DEF BridgeAt
    <3>2. n.owner # 0 =>
            /\ n.owner = c.seg
            /\ ~n.cached => n.rows[n.owner].st = "receiving" /\ Len(n.rows[n.owner].pcm) = c.frames
      <4> SUFFICES ASSUME n.owner # 0
                   PROVE  /\ n.owner = c.seg
                          /\ ~n.cached => /\ n.rows[n.owner].st = "receiving"
                                          /\ Len(n.rows[n.owner].pcm) = c.frames
        OBVIOUS
      <4>1. n.owner = b.owner /\ b.owner # s /\ b.owner # 0 /\ b.owner \in Recordings
        BY <1>1, <1>2 DEF BridgeOK, RowsOK
      <4>2. n.rows[b.owner] = b.rows[b.owner] /\ n.cached = b.cached
        BY <4>1 DEF CommitEnds
      <4> QED BY <2>2, <4>1, <4>2 DEF BridgeAt
    <3> QED BY <2>2, <3>1, <3>2 DEF BridgeAt
  <2> QED BY <2>1, <2>2
<1> QED BY <1>4, <1>5, <1>6 DEF BridgeOK

LEMMA CommitWorks ==
  ASSUME NEW b, NEW s, BridgeOK(b), s \in Committing(b)
  PROVE  Works(b, Commit(b, s))
<1> DEFINE e == Ended(b, s)
           row == [b.rows[s] EXCEPT !.st = "stored", !.text = "queued"]
           n == [e EXCEPT !.rows[s].st = "stored", !.rows[s].text = "queued"]
           out == IF b.live = s THEN <<Durable(n, s)>> ELSE <<>>
<1>1. /\ Leaves(b, e) /\ e.cached = b.cached /\ e.pend = b.pend /\ e.live \in {0, b.live}
      /\ e.live # s /\ s \in Recordings
  BY EndedIsOver
<1>2. Commit(b, s) = Reply(n, out)
  BY DEF Commit
<1> HIDE DEF e
<1>3. /\ DOMAIN n = DOMAIN b /\ n.case = b.case /\ n.rows = [b.rows EXCEPT ![s] = row]
      /\ n.pend = b.pend /\ n.cached = b.cached /\ n.owner = e.owner /\ n.live = e.live
  BY <1>1 DEF Leaves, BridgeOK, BridgeFields
<1>4. DOMAIN row = DOMAIN b.rows[s] /\ row.st = "stored" /\ row.pcm = b.rows[s].pcm
  BY <1>1 DEF BridgeOK, BridgeFields
<1> HIDE DEF n, row
<1>5. CommitEnds(b, n, s) /\ n.rows[s] = row
  <2>1. Begun(s, row)
    BY <1>1, <1>4 DEF BridgeOK, RowsOK, Begun
  <2> QED BY <1>1, <1>3, <1>4, <2>1 DEF CommitEnds, BridgeOK, BridgeFields, e
<1>6. BridgeOK(n) /\ Advances(b, n) /\ \A c \in Cursors : BridgeAt(b, c) => BridgeAt(n, c)
  BY <1>5, CommitEndsWell
<1>7. IsAnswer(n, Durable(n, s)) /\ Durable(n, s).seg = s
  <2> DEFINE d == Durable(n, s)
  <2>1. d.t = "durable" /\ d.seg = s /\ d.case = n.case /\ d.bytes = Len(n.rows[s].pcm)
    BY DEF Durable
  <2>2. n.case \in Nat /\ n.rows[s].st = "stored"
    BY <1>4, <1>5, <1>6 DEF BridgeOK
  <2> HIDE DEF d
  <2>3. IsAnswer(n, d)
    BY <1>1, <2>1, <2>2 DEF IsAnswer, AnswerTypes, Truthful, IsStored
  <2> QED BY <2>1, <2>3 DEF d
<1>8. IsSeq(out) /\ \A i \in 1..Len(out) : b.live = s /\ out[i] = Durable(n, s)
  BY SeqEmpty DEF IsSeq
<1> HIDE DEF out
<1>9. Reacts(b, Reply(n, out), {b.live})
  BY <1>1, <1>3, <1>6, <1>7, <1>8 DEF Reacts, Reply
<1> QED BY <1>2, <1>3, <1>6, <1>9 DEF Works, Reply

LEMMA CommitFailsWorks ==
  ASSUME NEW b, NEW s, BridgeOK(b), s \in Committing(b)
  PROVE  Works(b, CommitFails(b, s))
<1> DEFINE e == Ended(b, s)
           row == [NoRow EXCEPT !.st = "failed"]
           n == [e EXCEPT !.rows[s] = row]
           no == Error(b, s, "audio", TRUE)
           out == IF b.live = s THEN <<no>> ELSE <<>>
<1>1. /\ Leaves(b, e) /\ e.cached = b.cached /\ e.pend = b.pend /\ e.live \in {0, b.live}
      /\ e.live # s /\ s \in Recordings
  BY EndedIsOver
<1>2. CommitFails(b, s) = Reply(n, out)
  BY DEF CommitFails
<1>3. DOMAIN row = DOMAIN NoRow /\ row.st = "failed" /\ row.pcm = <<>>
  BY NoRowBegun
<1> HIDE DEF e, row
<1>4. /\ DOMAIN n = DOMAIN b /\ n.case = b.case /\ n.rows = [b.rows EXCEPT ![s] = row]
      /\ n.pend = b.pend /\ n.cached = b.cached /\ n.owner = e.owner /\ n.live = e.live
  BY <1>1 DEF Leaves, BridgeOK, BridgeFields
<1> HIDE DEF n
<1>5. CommitEnds(b, n, s)
  BY <1>1, <1>3, <1>4, NoRowBegun DEF CommitEnds, BridgeOK, BridgeFields, Begun, e
<1>6. BridgeOK(n) /\ Advances(b, n) /\ \A c \in Cursors : BridgeAt(b, c) => BridgeAt(n, c)
  BY <1>5, CommitEndsWell
<1>7. Plain(out)
  <2>1. no.t \in AnswerTypes \ {"durable"}
    BY PlainTypes
  <2> HIDE DEF no
  <2> QED BY <2>1, PlainAnswers
<1> HIDE DEF out
<1>8. Reacts(b, Reply(n, out), {b.live})
  BY <1>1, <1>4, <1>6, <1>7, PlainReacts
<1> QED BY <1>2, <1>4, <1>6, <1>8 DEF Works, Reply

\* Only the request moves.
LEMMA RequestWorks ==
  ASSUME NEW b, NEW n, NEW out, BridgeOK(b), Leaves(b, n), Plain(out),
         n.owner = b.owner, n.cached = b.cached, n.live = b.live
  PROVE  Works(b, Reply(n, out))
<1>1. BridgeOK(n) /\ Advances(b, n)
  BY RowsLeft
<1>2. \A c \in Cursors : BridgeAt(b, c) => BridgeAt(n, c)
  BY DEF Leaves, BridgeAt
<1>3. Reacts(b, Reply(n, out), {b.live})
  BY <1>1, PlainReacts
<1> QED BY <1>2, <1>3 DEF Works, Reply, Leaves

LEMMA TranscribeWorks ==
  ASSUME NEW b, NEW s, NEW text, BridgeOK(b), s \in Queued(b)
  PROVE  Works(b, Transcribe(b, s, text))
<1> DEFINE row == [b.rows[s] EXCEPT !.text = text]
           n == [b EXCEPT !.rows[s].text = text]
<1>1. s \in Recordings /\ BridgeFields(b) /\ RowsOK(b)
  BY DEF Queued, BridgeOK
<1>2. /\ DOMAIN n = DOMAIN b /\ n.case = b.case /\ n.rows = [b.rows EXCEPT ![s] = row]
      /\ n.pend = b.pend /\ n.cached = b.cached /\ n.owner = b.owner /\ n.live = b.live
  BY <1>1 DEF BridgeFields
<1>3. DOMAIN row = DOMAIN b.rows[s] /\ row.st = b.rows[s].st /\ row.pcm = b.rows[s].pcm
  BY <1>1 DEF BridgeFields
<1>4. Transcribe(b, s, text) = Reply(n, Notices(n))
  BY DEF Transcribe
<1> HIDE DEF n, row
<1>5. Begun(s, row)
  BY <1>1, <1>3 DEF RowsOK, Begun
<1>6. Rewrites(b, n, s)
  BY <1>1, <1>2, <1>3, <1>5 DEF Rewrites, BridgeFields
<1>7. BridgeFields(n) /\ Advances(b, n) /\ n.case \in Nat /\ \A x \in Recordings : Begun(x, n.rows[x])
  BY <1>6, RowRewritten
<1>8. \A x \in Recordings : n.rows[x].st = b.rows[x].st /\ n.rows[x].pcm = b.rows[x].pcm
  BY <1>1, <1>2, <1>3 DEF BridgeFields
<1>9. RowsOK(n)
  <2>1. n.live # 0 => n.live = n.owner /\ ~n.cached /\ n.rows[n.live].st = "committing"
    BY <1>1, <1>2, <1>8 DEF RowsOK
  <2> QED BY <1>1, <1>2, <1>7, <1>8, <2>1 DEF RowsOK
<1>10. \A c \in Cursors : BridgeAt(b, c) => BridgeAt(n, c)
  BY <1>1, <1>2, <1>8 DEF BridgeAt, RowsOK
<1>11. Reacts(b, Reply(n, Notices(n)), {b.live})
  BY <1>2, <1>7, <1>9, NoticesArePlain, PlainReacts DEF BridgeOK
<1> QED BY <1>2, <1>4, <1>10, <1>11 DEF Works, Reply

LEMMA MediatingWorks ==
  ASSUME NEW b, BridgeOK(b) PROVE Works(b, Mediating(b))
<1> DEFINE n(phase) == [b EXCEPT !.pend.delivered = FALSE, !.pend.phase = phase]
           busy == State(b, "mediating")
           no == Error(b, 0, "not_ready", TRUE)
<1>1. \A phase : /\ Leaves(b, n(phase)) /\ n(phase).owner = b.owner
                 /\ n(phase).cached = b.cached /\ n(phase).live = b.live
  BY DEF BridgeOK, BridgeFields, Leaves
<1>2. Mediating(b) \in {Reply(n("thinking"), <<busy>>), Reply(n("idle"), <<no>>)}
  BY DEF Mediating, BridgeOK, BridgeFields
<1>3. busy.t \in AnswerTypes \ {"durable"} /\ no.t \in AnswerTypes \ {"durable"}
  BY PlainTypes
<1> HIDE DEF n, busy, no
<1>4. Plain(<<busy>>) /\ Plain(<<no>>)
  BY <1>3, PlainAnswers
<1> QED BY <1>1, <1>2, <1>4, RequestWorks

LEMMA AnswerWorks ==
  ASSUME NEW b, BridgeOK(b) PROVE Works(b, Answer(b))
<1> DEFINE audio(t) == [t |-> t, case |-> b.case, req |-> b.pend.req]
           first == audio("astart")
           last  == audio("aend")
           over  == State(b, "waiting")
           n == [b EXCEPT !.pend.phase = "idle", !.pend.delivered = TRUE]
<1>1. Leaves(b, n) /\ n.owner = b.owner /\ n.cached = b.cached /\ n.live = b.live
  BY DEF BridgeOK, BridgeFields, Leaves
<1>2. Answer(b) = Reply(n, <<first, last, over>>)
  BY DEF Answer
<1>3. first.t \in AnswerTypes \ {"durable"} /\ last.t \in AnswerTypes \ {"durable"}
  BY DEF AnswerTypes
<1>4. over.t \in AnswerTypes \ {"durable"}
  BY PlainTypes
<1> HIDE DEF n, first, last, over
<1>5. Plain(<<first, last, over>>)
  BY <1>3, <1>4, PlainTriple
<1> QED BY <1>1, <1>2, <1>5, RequestWorks

LEMMA FailureIsPlain == ASSUME NEW b PROVE Plain(MediationFailed(b))
<1> DEFINE no == Error(b, 0, "mediation", TRUE)
<1>1. no.t \in AnswerTypes \ {"durable"}
  BY PlainTypes
<1>2. MediationFailed(b) = <<no>>
  BY DEF MediationFailed
<1> HIDE DEF no
<1> QED BY <1>1, <1>2, PlainAnswers

LEMMA AnswerFailsWorks ==
  ASSUME NEW b, BridgeOK(b) PROVE Works(b, AnswerFails(b))
<1> DEFINE n == [b EXCEPT !.pend.phase = "failed"]
<1>1. Leaves(b, n) /\ n.owner = b.owner /\ n.cached = b.cached /\ n.live = b.live
  BY DEF BridgeOK, BridgeFields, Leaves
<1>2. AnswerFails(b) = Reply(n, MediationFailed(b))
  BY DEF AnswerFails
<1> HIDE DEF n
<1> QED BY <1>1, <1>2, FailureIsPlain, RequestWorks

LEMMA ResumeWorks ==
  ASSUME NEW b, BridgeOK(b) PROVE Works(b, Resume(b))
<1> DEFINE n == [b EXCEPT !.pend.phase = "working"]
<1>1. Leaves(b, n) /\ n.owner = b.owner /\ n.cached = b.cached /\ n.live = b.live
  BY DEF BridgeOK, BridgeFields, Leaves
<1>2. Resume(b) = Reply(n, <<>>)
  BY DEF Resume
<1>3. Plain(<<>>)
  BY PlainAnswers
<1> HIDE DEF n
<1> QED BY <1>1, <1>2, <1>3, RequestWorks

\* After a connection, nothing of it is left.
Over(b, n) ==
  /\ BridgeOK(n) /\ Advances(b, n) /\ n.case = b.case /\ n.owner = 0 /\ n.live = 0

LEMMA ConnectionCloses == ASSUME NEW b, BridgeOK(b) PROVE Over(b, Closed(b))
<1> DEFINE broken == b.owner # 0 /\ ~b.cached /\ b.rows[b.owner].st = "receiving"
           row  == [NoRow EXCEPT !.st = "failed"]
           l == [b EXCEPT !.rows[b.owner] = row]
           lost == IF broken THEN l ELSE b
           n == Closed(b)
<1>1. BridgeFields(b) /\ RowsOK(b) /\ b.case \in Nat
  BY DEF BridgeOK
<1>2. DOMAIN row = DOMAIN NoRow /\ row.st = "failed" /\ row.pcm = <<>>
  BY NoRowBegun
<1> HIDE DEF row
<1>3. /\ DOMAIN lost = DOMAIN b /\ lost.case = b.case /\ lost.pend = b.pend
      /\ lost.rows = IF broken THEN [b.rows EXCEPT ![b.owner] = row] ELSE b.rows
  BY <1>1 DEF BridgeFields
<1>4. n = [lost EXCEPT !.owner = 0, !.cached = FALSE, !.live = 0,
             !.pend.phase = IF @ \in {"working", "thinking", "resume"} THEN "idle" ELSE @]
  BY DEF Closed, row
<1> HIDE DEF lost, n
<1>5. /\ DOMAIN n = DOMAIN b /\ n.case = b.case /\ n.rows = lost.rows
      /\ n.owner = 0 /\ n.cached = FALSE /\ n.live = 0
      /\ {"req", "phase", "delivered"} \subseteq DOMAIN n.pend
  BY <1>1, <1>3, <1>4 DEF BridgeFields
<1>6. CASE broken
  <2>1. b.owner \in Recordings
    BY <1>1, <1>6 DEF RowsOK
  <2>2. Rewrites(b, n, b.owner)
    BY <1>1, <1>2, <1>3, <1>5, <1>6, <2>1, NoRowBegun DEF BridgeFields, Rewrites, Begun
  <2>3. BridgeFields(n) /\ Advances(b, n) /\ n.case \in Nat /\ \A x \in Recordings : Begun(x, n.rows[x])
    BY <2>2, RowRewritten DEF BridgeOK
  <2>4. RowsOK(n)
    BY <1>1, <1>2, <1>3, <1>5, <1>6, <2>1, <2>3 DEF RowsOK, BridgeFields
  <2> QED BY <1>5, <2>3, <2>4 DEF Over, BridgeOK, n
<1>7. CASE ~broken
  <2>1. Leaves(b, n)
    BY <1>3, <1>5, <1>7 DEF Leaves
  <2>2. BridgeFields(n) /\ Advances(b, n) /\ n.case \in Nat /\ \A x \in Recordings : Begun(x, n.rows[x])
    BY <2>1, RowsLeft
  <2>3. \A x \in Recordings : b.rows[x].st # "receiving"
    BY <1>1, <1>7, RecordingsAreNumbers DEF RowsOK
  <2>4. RowsOK(n)
    BY <1>5, <2>1, <2>2, <2>3 DEF RowsOK, Leaves
  <2> QED BY <1>5, <2>2, <2>4 DEF Over, BridgeOK, n
<1> QED BY <1>6, <1>7

LEMMA ConnectionOpens ==
  ASSUME NEW b, BridgeOK(b) PROVE Over(b, Hello(b).b) /\ Plain(Hello(b).out)
<1> DEFINE c == Closed(b)
           n == [c EXCEPT !.pend.phase = IF @ = "idle" THEN "resume" ELSE @]
           out == Notices(c) \o (IF c.pend.phase = "failed" THEN MediationFailed(c) ELSE <<>>)
<1>1. Over(b, c)
  BY ConnectionCloses
<1>2. Hello(b).b = n /\ Hello(b).out = out
  BY DEF Hello, Reply
<1> HIDE DEF c
<1>3. Leaves(c, n) /\ n.owner = c.owner /\ n.cached = c.cached /\ n.live = c.live
  BY <1>1 DEF Over, BridgeOK, BridgeFields, Leaves
<1> HIDE DEF n
<1>4. BridgeOK(n) /\ n.rows = c.rows /\ n.case = c.case
  BY <1>1, <1>3, RowsLeft DEF Over, Leaves
<1>5. Over(b, n)
  BY <1>1, <1>3, <1>4 DEF Over, Advances
<1>6. Plain(IF c.pend.phase = "failed" THEN MediationFailed(c) ELSE <<>>)
  BY FailureIsPlain, PlainAnswers
<1>7. Plain(out)
  BY <1>6, NoticesArePlain, PlainTogether
<1> QED BY <1>2, <1>5, <1>7

----------------------------------------------------------------------------
(* The device hears of what the Bridge has done.                           *)

Joined(s, t, u) ==
  /\ IsSeq(u) /\ Len(u) = Len(s) + Len(t)
  /\ \A i \in 1..Len(s) : i \in 1..Len(u) /\ u[i] = s[i]
  /\ \A i \in 1..Len(u) : i \notin 1..Len(s) => \E j \in 1..Len(t) : u[i] = t[j]

LEMMA SeqJoined == ASSUME NEW s, NEW t, IsSeq(s), IsSeq(t) PROVE Joined(s, t, s \o t)
<1>1. /\ IsSeq(s \o t) /\ Len(s \o t) = Len(s) + Len(t)
      /\ \A i \in 1..Len(s) : (s \o t)[i] = s[i]
      /\ \A i \in 1..Len(s \o t) : i \notin 1..Len(s) =>
           /\ i - Len(s) \in 1..Len(t) /\ (s \o t)[i] = t[i - Len(s)]
  BY SeqConcat
<1>2. Len(s) \in Nat /\ Len(t) \in Nat
  BY DEF IsSeq
<1> QED BY <1>1, <1>2 DEF Joined

Hears(d, e, r) ==
  /\ SameStore(d, e) /\ SameReplay(d, e) /\ SameConn(d, e) /\ SameCase(d, e) /\ SameFields(d, e)
  /\ DOMAIN e.link = DOMAIN d.link
  /\ e.link.usable = d.link.usable /\ e.link.announced = d.link.announced
  /\ e.link.core = d.link.core /\ e.link.asr = d.link.asr /\ e.link.stream = d.link.stream
  /\ e.link.told = d.link.told /\ e.link.seen = d.link.seen /\ e.link.fresh = d.link.fresh
  /\ e.link.callbacks = IF d.link.usable THEN d.link.callbacks \o r.out ELSE d.link.callbacks
  /\ IsSeq(e.link.tx)
  /\ d.link.tx = <<>> => e.link.tx = <<>>
  /\ \E k \in Nat : \A i \in 1..Len(e.link.tx) :
       i + k \in 1..Len(d.link.tx) /\ e.link.tx[i] = d.link.tx[i + k]
  /\ r.b.case <= e.gen
  /\ \A i \in 1..Len(e.link.tx) : IsCase(e.link.tx[i]) => r.b.case <= e.link.tx[i].case

Sent1(d, b, E) == \A s \in E \ {0} : d.link.usable => InFlight(d, b, s) /\ d.ready = TRUE

LEMMA AnswersHeard ==
  ASSUME NEW d, NEW e, NEW b, NEW r, NEW E, DeviceOK(d, b), BridgeOK(b),
         Reacts(b, r, E), Sent1(d, b, E), Hears(d, e, r), PathOK(e, r.b)
  PROVE  DeviceOK(e, r.b)
<1>0. /\ HasFields(d) /\ StoreOK(d) /\ ReplayOK(d) /\ LinkType(d.link) /\ LinkOK(d.link)
      /\ ReadyOK(d) /\ SentOK(d, b) /\ CaseOK(d, b)
  BY DEF DeviceOK
<1>1. /\ BridgeOK(r.b) /\ Advances(b, r.b) /\ IsSeq(r.out) /\ r.b.case \in Nat
      /\ \A i \in 1..Len(r.out) : /\ IsAnswer(r.b, r.out[i]) /\ r.out[i].t # "link"
                                  /\ r.out[i].t = "durable" =>
                                       /\ r.out[i].seg \in E /\ r.out[i].seg # 0
      /\ r.b.live # 0 => r.b.live \in E
  BY RecordingsAreNumbers DEF Reacts, BridgeOK, IsAnswer, AnswerTypes, Truthful
<1>2. /\ IsSeq(e.link.callbacks) /\ IsSeq(d.link.callbacks) /\ Len(d.link.callbacks) \in Nat
      /\ \A i \in 1..Len(e.link.callbacks) :
           \/ i \in 1..Len(d.link.callbacks) /\ e.link.callbacks[i] = d.link.callbacks[i]
           \/ /\ d.link.usable
              /\ \E j \in 1..Len(r.out) : e.link.callbacks[i] = r.out[j]
      /\ \A i \in 1..Len(d.link.callbacks) :
           i \in 1..Len(e.link.callbacks) /\ e.link.callbacks[i] = d.link.callbacks[i]
      /\ ~d.link.usable => e.link.callbacks = d.link.callbacks
  <2>1. IsSeq(d.link.callbacks) /\ Len(d.link.callbacks) \in Nat
    BY <1>0 DEF LinkType, IsSeq
  <2>2. CASE d.link.usable
    <3>1. e.link.callbacks = d.link.callbacks \o r.out
      BY <2>2 DEF Hears
    <3>2. /\ IsSeq(e.link.callbacks)
          /\ \A i \in 1..Len(d.link.callbacks) :
               i \in 1..Len(e.link.callbacks) /\ e.link.callbacks[i] = d.link.callbacks[i]
          /\ \A i \in 1..Len(e.link.callbacks) : i \notin 1..Len(d.link.callbacks) =>
               \E j \in 1..Len(r.out) : e.link.callbacks[i] = r.out[j]
      <4>1. IsSeq(d.link.callbacks) /\ IsSeq(r.out)
        BY <1>1, <2>1
      <4>2. Joined(d.link.callbacks, r.out, d.link.callbacks \o r.out)
        BY <4>1, SeqJoined
      <4>3. Joined(d.link.callbacks, r.out, e.link.callbacks)
        BY <3>1, <4>2
      <4> QED BY <4>3 DEF Joined
    <3> QED BY <2>1, <2>2, <3>2
  <2>3. CASE ~d.link.usable
    BY <2>1, <2>3 DEF Hears
  <2> QED BY <2>2, <2>3
<1>3. \A i \in 1..Len(e.link.callbacks) :
        \/ i \in 1..Len(d.link.callbacks) /\ e.link.callbacks[i] = d.link.callbacks[i]
        \/ /\ d.link.usable /\ IsAnswer(r.b, e.link.callbacks[i]) /\ e.link.callbacks[i].t # "link"
           /\ e.link.callbacks[i].t = "durable" =>
                e.link.callbacks[i].seg \in E \ {0}
  BY <1>1, <1>2
<1>4. HasFields(e)
  BY <1>0 DEF HasFields, Hears, SameFields, SameStore, SameReplay
<1>5. StoreOK(e)
  BY <1>0 DEF StoreOK, SlotOK, InUse, Seg, Slot, Hears, SameStore
<1>6. ReplayOK(e)
  BY <1>0 DEF ReplayOK, Replaying, Seg, Slot, Hears, SameStore, SameReplay, SameConn
<1>7. LinkType(e.link)
  BY <1>0, <1>2 DEF LinkType, Hears
<1>8. LinkOK(e.link)
  <2>1. \A i \in 1..Len(e.link.callbacks) :
          /\ IsLink(e.link.callbacks[i], "disconnected") =>
               ~d.link.usable /\ ~d.link.announced /\ i = Len(e.link.callbacks)
          /\ IsLink(e.link.callbacks[i], "ready") =>
               i = 1 /\ d.link.core = "disconnected" /\ d.link.told = "none"
          /\ e.link.callbacks[i].t = "link" =>
               e.link.callbacks[i].level \in {"ready", "disconnected"}
    <3> TAKE i \in 1..Len(e.link.callbacks)
    <3>1. CASE i \in 1..Len(d.link.callbacks) /\ e.link.callbacks[i] = d.link.callbacks[i]
      BY <3>1, <1>0, <1>2 DEF LinkOK
    <3>2. CASE e.link.callbacks[i].t # "link"
      BY <3>2 DEF IsLink
    <3> QED BY <3>1, <3>2, <1>3
  <2>2. d.link.usable => d.link.announced /\ d.link.told # "disconnected" /\ ~d.link.seen
    BY <1>0 DEF LinkOK
  <2>3. ~d.link.usable => e.link.callbacks = d.link.callbacks /\ e.link.tx = <<>>
    BY <1>0, <1>2 DEF LinkOK, Hears
  <2> QED BY <1>0, <1>2, <2>1, <2>2, <2>3 DEF LinkOK, Hears
<1>9. ReadyOK(e)
  <2>1. \A i \in 1..Len(e.link.callbacks) :
          /\ ~d.ready => e.link.callbacks[i].t # "durable"
          /\ d.ready => ~IsLink(e.link.callbacks[i], "ready")
    <3> TAKE i \in 1..Len(e.link.callbacks)
    <3>1. CASE i \in 1..Len(d.link.callbacks) /\ e.link.callbacks[i] = d.link.callbacks[i]
      BY <3>1, <1>0 DEF ReadyOK
    <3>2. CASE ~(i \in 1..Len(d.link.callbacks) /\ e.link.callbacks[i] = d.link.callbacks[i])
      BY <3>2, <1>3 DEF Sent1, IsLink
    <3> QED BY <3>1, <3>2
  <2> QED BY <1>0, <2>1 DEF ReadyOK, Hears, SameConn
<1>10. SentOK(e, r.b)
  <2>1. PICK k \in Nat : \A i \in 1..Len(e.link.tx) :
          i + k \in 1..Len(d.link.tx) /\ e.link.tx[i] = d.link.tx[i + k]
    BY DEF Hears
  <2>2. \A s \in Segments : InFlight(e, r.b, s) => InFlight(d, b, s)
    <3> SUFFICES ASSUME NEW s \in Segments, InFlight(e, r.b, s) PROVE InFlight(d, b, s)
      OBVIOUS
    <3>1. s # 0
      BY SegmentsAssumption
    <3>2. CASE \E i \in 1..Len(e.link.callbacks) : IsDurable(e.link.callbacks[i], s)
      <4>1. PICK i \in 1..Len(e.link.callbacks) : IsDurable(e.link.callbacks[i], s)
        BY <3>2
      <4>2. CASE i \in 1..Len(d.link.callbacks) /\ e.link.callbacks[i] = d.link.callbacks[i]
        BY <4>1, <4>2 DEF InFlight
      <4>3. CASE ~(i \in 1..Len(d.link.callbacks) /\ e.link.callbacks[i] = d.link.callbacks[i])
        BY <4>1, <4>3, <1>3 DEF Sent1, IsDurable
      <4> QED BY <4>2, <4>3
    <3>3. CASE \E i \in 1..Len(e.inbox) : IsDurable(e.inbox[i], s)
      BY <3>3 DEF InFlight, Hears, SameConn
    <3>4. CASE \E i \in 1..Len(e.link.tx) : IsEnd(e.link.tx[i], s)
      BY <3>4, <2>1 DEF InFlight
    <3>5. CASE e.link.usable /\ r.b.live = s
      BY <3>1, <3>5, <1>1 DEF Sent1, Hears
    <3> QED BY <3>2, <3>3, <3>4, <3>5 DEF InFlight
  <2>3. \A s : WasEnded(d, s) => WasEnded(e, s)
    BY DEF WasEnded, InUse, Seg, Slot, Hears, SameStore, SameReplay
  <2>4. e.link.usable /\ ~e.ready => r.b.live = 0
    BY <1>1 DEF Sent1, Hears, SameConn
  <2> QED BY <1>0, <2>2, <2>3, <2>4 DEF SentOK, Hears, SameStore
<1>11. CaseOK(e, r.b)
  <2>1. PICK k \in Nat : \A i \in 1..Len(e.link.tx) :
          i + k \in 1..Len(d.link.tx) /\ e.link.tx[i] = d.link.tx[i + k]
    BY DEF Hears
  <2>2. \A i \in 1..Len(e.link.tx) : IsCase(e.link.tx[i]) =>
          e.link.tx[i].case \in Nat /\ r.b.case <= e.link.tx[i].case /\ e.link.tx[i].case <= e.gen
    BY <1>0, <2>1 DEF CaseOK, Hears, SameCase
  <2>3. \A i, j \in 1..Len(e.link.tx) : i < j /\ IsCase(e.link.tx[i]) /\ IsCase(e.link.tx[j]) =>
          e.link.tx[i].case <= e.link.tx[j].case
    <3> SUFFICES ASSUME NEW i \in 1..Len(e.link.tx), NEW j \in 1..Len(e.link.tx), i < j,
                        IsCase(e.link.tx[i]), IsCase(e.link.tx[j])
                 PROVE  e.link.tx[i].case <= e.link.tx[j].case
      OBVIOUS
    <3>1. /\ i + k \in 1..Len(d.link.tx) /\ j + k \in 1..Len(d.link.tx) /\ i + k < j + k
          /\ e.link.tx[i] = d.link.tx[i + k] /\ e.link.tx[j] = d.link.tx[j + k]
      BY <2>1
    <3> QED BY <3>1, <1>0 DEF CaseOK
  <2>4. b.case \in Nat
    BY DEF BridgeOK
  <2>5. \A i \in 1..Len(e.link.callbacks) :
          e.link.callbacks[i].t = "link" \/ IsAnswer(r.b, e.link.callbacks[i])
    <3> TAKE i \in 1..Len(e.link.callbacks)
    <3>1. CASE i \in 1..Len(d.link.callbacks) /\ e.link.callbacks[i] = d.link.callbacks[i]
      BY <3>1, <1>0, <1>1, <2>4, TruthStays DEF CaseOK
    <3>2. CASE ~(i \in 1..Len(d.link.callbacks) /\ e.link.callbacks[i] = d.link.callbacks[i])
      BY <3>2, <1>3
    <3> QED BY <3>1, <3>2
  <2>6. \A i \in 1..Len(e.inbox) : IsAnswer(r.b, e.inbox[i])
    BY <1>0, <1>1, <2>4, TruthStays DEF CaseOK, Hears, SameConn
  <2> QED BY <1>0, <1>1, <2>2, <2>3, <2>5, <2>6 DEF CaseOK, Hears, SameCase
<1> QED BY <1>4, <1>5, <1>6, <1>7, <1>8, <1>9, <1>10, <1>11 DEF DeviceOK

----------------------------------------------------------------------------
(* A message is handed to the task, and the play task ends.                *)

\* The first callback is a message, and is dropped or queued.
Hands(d, e) ==
  /\ d.link.told = "none" /\ d.link.callbacks # <<>> /\ Head(d.link.callbacks).t # "link"
  /\ SameStore(d, e) /\ SameReplay(d, e) /\ SameCase(d, e) /\ SameFields(d, e)
  /\ e.ready = d.ready /\ e.open = d.open /\ e.last = d.last
  /\ e.link = [d.link EXCEPT !.callbacks = Tail(@)]
  /\ \/ e.inbox = d.inbox
     \/ d.open = TRUE /\ e.inbox = Append(d.inbox, Head(d.link.callbacks))

LEMMA MessageHanded ==
  ASSUME NEW d, NEW e, NEW b, DeviceOK(d, b), Hands(d, e) PROVE DeviceOK(e, b)
<1> DEFINE k == d.link
           l == e.link
<1>0. k.told = "none" /\ k.callbacks # <<>> /\ Head(k.callbacks).t # "link"
  BY DEF Hands
<1>1. HasFields(d) /\ LinkType(k) /\ LinkOK(k) /\ ReadyOK(d)
  BY DEF DeviceOK
<1>2. /\ Len(k.callbacks) \in Nat /\ 1 \in 1..Len(k.callbacks) /\ Len(k.callbacks) \in 1..Len(k.callbacks)
      /\ IsSeq(Tail(k.callbacks))
      /\ Len(Tail(k.callbacks)) = Len(k.callbacks) - 1
      /\ \A i \in 1..(Len(k.callbacks) - 1) : Tail(k.callbacks)[i] = k.callbacks[i + 1]
      /\ Head(k.callbacks) = k.callbacks[1]
  BY <1>0, <1>1, SeqTail, SeqNotEmpty DEF LinkType, IsSeq
<1>3. /\ DOMAIN l = DOMAIN k /\ l.usable = k.usable /\ l.announced = k.announced
      /\ l.core = k.core /\ l.told = k.told /\ l.tx = k.tx /\ l.stream = k.stream
      /\ l.seen = k.seen /\ l.fresh = k.fresh /\ l.callbacks = Tail(k.callbacks)
      /\ l.asr = k.asr
  BY <1>1 DEF HasFields, Hands
<1> HIDE DEF l
<1>4. \A i \in 1..Len(l.callbacks) :
        i + 1 \in 1..Len(k.callbacks) /\ i + 1 # 1 /\ l.callbacks[i] = k.callbacks[i + 1]
  BY <1>2, <1>3
<1>5. /\ IsSeq(d.inbox) /\ IsSeq(e.inbox)
      /\ \A i \in 1..Len(e.inbox) : \/ \E j \in 1..Len(d.inbox) : e.inbox[i] = d.inbox[j]
                                    \/ d.open = TRUE /\ e.inbox[i] = k.callbacks[1]
      /\ d.open = FALSE => e.inbox = d.inbox
  <2>1. IsSeq(d.inbox)
    BY <1>1 DEF ReadyOK
  <2>2. CASE e.inbox = d.inbox
    BY <2>1, <2>2
  <2>3. CASE d.open = TRUE /\ e.inbox = Append(d.inbox, Head(d.link.callbacks))
    <3> DEFINE x == Head(d.link.callbacks)
               s == d.inbox
    <3>1. /\ IsSeq(Append(s, x)) /\ Len(Append(s, x)) = Len(s) + 1
          /\ \A i \in 1..Len(s) : Append(s, x)[i] = s[i]
          /\ Append(s, x)[Len(s) + 1] = x
      <4>1. IsSeq(s)
        BY <2>1
      <4> HIDE DEF s, x
      <4> QED BY <4>1, SeqAppend
    <3>2. Len(s) \in Nat
      BY <2>1 DEF IsSeq
    <3>3. \A i \in 1..(Len(s) + 1) : i \in 1..Len(s) \/ i = Len(s) + 1
      BY <3>2
    <3>4. e.inbox = Append(s, x) /\ x = k.callbacks[1] /\ d.open = TRUE
      BY <2>3, <1>2
    <3> HIDE DEF x
    <3> QED BY <2>1, <3>1, <3>3, <3>4
  <2> QED BY <2>2, <2>3 DEF Hands
<1>6. Calls(d, e)
  <2>1. \A i \in 1..Len(e.inbox) :
          \/ \E j \in 1..Len(d.inbox) : e.inbox[i] = d.inbox[j]
          \/ \E j \in 1..Len(k.callbacks) :
               k.callbacks[j].t # "link" /\ e.inbox[i] = k.callbacks[j]
    BY <1>0, <1>2, <1>5
  <2>2. \A i \in 1..Len(l.callbacks) : \E j \in 1..Len(k.callbacks) : l.callbacks[i] = k.callbacks[j]
    BY <1>4
  <2> QED BY <1>3, <2>1, <2>2 DEF Calls, Hands, l
<1>7. LinkType(l)
  BY <1>1, <1>2, <1>3 DEF LinkType
<1>8. \A i \in 1..Len(l.callbacks) :
        /\ IsLink(l.callbacks[i], "disconnected") => i = Len(l.callbacks) /\ ~l.announced
        /\ ~IsLink(l.callbacks[i], "ready")
        /\ l.callbacks[i].t = "link" => l.callbacks[i].level \in {"ready", "disconnected"}
  <2> TAKE i \in 1..Len(l.callbacks)
  <2>1. i + 1 \in 1..Len(k.callbacks) /\ l.callbacks[i] = k.callbacks[i + 1] /\ i + 1 # 1
    BY <1>4
  <2>2. /\ IsLink(k.callbacks[i + 1], "disconnected") => i + 1 = Len(k.callbacks) /\ ~k.announced
        /\ ~IsLink(k.callbacks[i + 1], "ready")
        /\ k.callbacks[i + 1].t = "link" => k.callbacks[i + 1].level \in {"ready", "disconnected"}
    BY <2>1, <1>1 DEF LinkOK
  <2> QED BY <2>1, <2>2, <1>2, <1>3
<1>9. ~l.announced => l.callbacks # <<>> /\ IsLink(l.callbacks[Len(l.callbacks)], "disconnected")
  <2> SUFFICES ASSUME ~l.announced
               PROVE  l.callbacks # <<>> /\ IsLink(l.callbacks[Len(l.callbacks)], "disconnected")
    OBVIOUS
  <2>1. IsLink(k.callbacks[Len(k.callbacks)], "disconnected")
    BY <1>0, <1>1, <1>3 DEF LinkOK
  <2>2. Len(k.callbacks) # 1
    BY <2>1, <1>0, <1>2 DEF IsLink
  <2>3. Len(l.callbacks) # 0 /\ l.callbacks # <<>>
    <3>1. Len(l.callbacks) # 0
      BY <2>2, <1>2, <1>3
    <3> QED BY <3>1, SeqEmpty
  <2>4. Len(l.callbacks) \in 1..Len(l.callbacks) /\ Len(l.callbacks) + 1 = Len(k.callbacks)
    BY <1>2, <1>3, <2>3
  <2>5. l.callbacks[Len(l.callbacks)] = k.callbacks[Len(k.callbacks)]
    BY <1>4, <2>4
  <2> QED BY <2>1, <2>3, <2>5
<1>10. LinkOK(l)
  <2>1. ~(k.told = "disconnected" \/ k.seen)
    BY <1>0, <1>1 DEF LinkOK
  <2> QED BY <2>1, <1>1, <1>3, <1>8, <1>9 DEF LinkOK
<1>11. ReadyOK(e)
  <2>1. CASE d.ready = TRUE
    BY <2>1, <1>1, <1>3, <1>5, <1>8 DEF ReadyOK, Hands, l
  <2>2. CASE d.ready = FALSE
    BY <2>2, <1>1, <1>3, <1>4, <1>5 DEF ReadyOK, Hands, l
  <2> QED BY <2>1, <2>2, <1>1 DEF ReadyOK
<1> QED BY <1>6, <1>7, <1>10, <1>11, CallbackTaken DEF DeviceOK, l

LEMMA MessageCallbackKeeps ==
  ASSUME DeviceOK(dev, bridge), MessageCallback
  PROVE  /\ DeviceOK(dev', bridge) /\ SameStore(dev, dev') /\ SameCase(dev, dev')
<1> DEFINE taken == [dev EXCEPT !.link.callbacks = Tail(@)]
<1>1. HasFields(dev) /\ ReadyOK(dev)
  BY DEF DeviceOK
<1>2. dev.link.told = "none" /\ dev.link.callbacks # <<>> /\ Head(dev.link.callbacks).t # "link"
  BY DEF MessageCallback, MayCall, NextCallback
<1>3. /\ DOMAIN taken = DOMAIN dev /\ taken.link = [dev.link EXCEPT !.callbacks = Tail(@)]
      /\ taken.m = dev.m /\ taken.store = dev.store /\ taken.inbox = dev.inbox
      /\ taken.gen = dev.gen /\ taken.ready = dev.ready /\ taken.last = dev.last /\ taken.open = dev.open
      /\ taken.replay = dev.replay /\ taken.ledger = dev.ledger
      /\ taken.active = dev.active /\ taken.begun = dev.begun /\ taken.asked = dev.asked
  BY <1>1 DEF HasFields
<1>4. \/ dev' = taken
      \/ dev.open /\ dev' = [taken EXCEPT !.inbox = Append(@, Head(dev.link.callbacks))]
      \/ dev' = [taken EXCEPT !.fault = TRUE]
  BY DEF MessageCallback, NextCallback, SignalFault
<1> HIDE DEF taken
<1>5. Hands(dev, dev')
  <2>1. dev.open \in BOOLEAN
    BY <1>1 DEF ReadyOK
  <2>2. CASE dev' = taken
    BY <2>2, <1>2, <1>3 DEF Hands, SameStore, SameReplay, SameCase, SameFields
  <2>3. CASE dev.open /\ dev' = [taken EXCEPT !.inbox = Append(@, Head(dev.link.callbacks))]
    BY <2>1, <2>3, <1>1, <1>2, <1>3
       DEF Hands, SameStore, SameReplay, SameCase, SameFields, HasFields
  <2>4. CASE dev' = [taken EXCEPT !.fault = TRUE]
    BY <2>4, <1>1, <1>2, <1>3 DEF Hands, SameStore, SameReplay, SameCase, SameFields, HasFields
  <2> QED BY <1>4, <2>2, <2>3, <2>4
<1> QED BY <1>5, MessageHanded DEF Hands

LEMMA PlayEndsKeeps ==
  ASSUME DeviceOK(dev, bridge), NEW drained, PlayEnds(drained)
  PROVE  DeviceOK(dev', bridge) /\ SameStore(dev, dev') /\ SameCase(dev, dev')
<1>1. HasFields(dev)
  BY DEF DeviceOK
<1>2. Alike(dev, dev')
  BY <1>1 DEF PlayEnds, Alike, HasFields
<1>3. Good(dev, dev', bridge)
  BY <1>2, GoodAtFirst, Untouched
<1> QED BY <1>2, <1>3 DEF Good, Alike, SameStore, SameCase

----------------------------------------------------------------------------
(* The network.                                                            *)

\* Nothing is said of the connection that was, and none of it is left.
LEMMA LossIsHandled ==
  ASSUME DeviceOK(dev, bridge), LossHandled, ~dev.link.announced
  PROVE  /\ dev.link.callbacks = <<>> /\ dev.link.tx = <<>> /\ dev.link.stream = NoStream
         /\ dev.ready = FALSE /\ dev.link.asr = FALSE /\ dev.link.core = "disconnected"
         /\ dev.link.told = "none" /\ dev.link.seen = FALSE /\ dev.link.usable = FALSE
<1>1. LinkType(dev.link) /\ LinkOK(dev.link) /\ ReadyOK(dev)
  BY DEF DeviceOK
<1>2. dev.link.told = "none" /\ ~dev.link.seen
  BY DEF LossHandled
<1>3. dev.link.callbacks = <<>>
  <2> SUFFICES ASSUME dev.link.callbacks # <<>> PROVE FALSE
    OBVIOUS
  <2>1. IsLink(dev.link.callbacks[Len(dev.link.callbacks)], "disconnected")
    BY <1>1 DEF LinkOK
  <2>2. Len(dev.link.callbacks) \in DOMAIN dev.link.callbacks
    BY <1>1, SeqNotEmpty, SeqDomain DEF LinkType
  <2> QED BY <2>1, <2>2 DEF LossHandled, IsLink
<1> QED BY <1>1, <1>2, <1>3 DEF LinkType, LinkOK, ReadyOK

LEMMA ConnectKeeps ==
  ASSUME Prompt, DeviceOK(dev, bridge), BridgeOK(bridge), Connect
  PROVE  /\ DeviceOK(dev', bridge') /\ SameStore(dev, dev') /\ SameCase(dev, dev')
         /\ Over(bridge, bridge')
<1> DEFINE k == dev.link
           hello == Hello(bridge)
           item == LinkItem("ready")
           l == [k EXCEPT !.usable = TRUE, !.announced = TRUE,
                          !.callbacks = @ \o <<item>> \o hello.out]
           e == [dev EXCEPT !.link = l]
<1>0. LossHandled /\ ~k.announced /\ bridge' = hello.b /\ dev' = e
  BY DEF Connect, Link
<1>1. /\ HasFields(dev) /\ LinkType(k) /\ LinkOK(k) /\ ReadyOK(dev) /\ ReplayOK(dev) /\ StoreOK(dev)
      /\ SentOK(dev, bridge) /\ CaseOK(dev, bridge)
  BY DEF DeviceOK
<1>2. /\ k.callbacks = <<>> /\ k.tx = <<>> /\ k.stream = NoStream /\ dev.ready = FALSE
      /\ k.asr = FALSE /\ k.core = "disconnected" /\ k.told = "none" /\ k.seen = FALSE
      /\ k.usable = FALSE
  BY <1>0, LossIsHandled
<1>3. Over(bridge, hello.b) /\ Plain(hello.out)
  BY ConnectionOpens
<1>4. /\ DOMAIN l = DOMAIN k /\ l.usable = TRUE /\ l.announced = TRUE /\ l.core = k.core
      /\ l.asr = k.asr /\ l.stream = k.stream /\ l.tx = k.tx /\ l.told = k.told
      /\ l.seen = k.seen /\ l.fresh = k.fresh /\ l.callbacks = k.callbacks \o <<item>> \o hello.out
  BY <1>1 DEF HasFields
<1>5. /\ DOMAIN e = DOMAIN dev /\ e.link = l /\ e.m = dev.m /\ e.store = dev.store
      /\ e.gen = dev.gen /\ e.ready = dev.ready /\ e.last = dev.last /\ e.open = dev.open
      /\ e.inbox = dev.inbox /\ e.replay = dev.replay /\ e.ledger = dev.ledger
      /\ e.active = dev.active /\ e.begun = dev.begun /\ e.asked = dev.asked
  BY <1>1 DEF HasFields
<1>6. item.t = "link" /\ item.level = "ready"
  BY DEF LinkItem
<1> HIDE DEF l, e, item, hello
<1>7. /\ IsSeq(l.callbacks) /\ 1 \in 1..Len(l.callbacks) /\ l.callbacks[1] = item
      /\ \A i \in 1..Len(l.callbacks) :
           i # 1 => l.callbacks[i].t \in AnswerTypes \ {"durable"}
  <2>1. IsSeq(<<item>>) /\ Len(<<item>>) = 1 /\ <<item>>[1] = item /\ Len(<<>>) = 0 /\ IsSeq(<<>>)
    BY SeqEmpty DEF IsSeq
  <2>2. Joined(<<>>, <<item>>, <<>> \o <<item>>)
    BY <2>1, SeqJoined
  <2> DEFINE s == <<>> \o <<item>>
  <2>3. IsSeq(s) /\ Len(s) = 1 /\ s[1] = item
    <3>1. IsSeq(s) /\ Len(s) = 0 + 1 /\ \A i \in 1..Len(s) : i \notin 1..0 => \E j \in 1..1 : s[i] = <<item>>[j]
      BY <2>1, <2>2 DEF Joined
    <3> HIDE DEF s
    <3> QED BY <2>1, <3>1
  <2> HIDE DEF s
  <2>4. Joined(s, hello.out, s \o hello.out)
    BY <1>3, <2>3, SeqJoined DEF Plain
  <2>5. l.callbacks = s \o hello.out
    BY <1>2, <1>4 DEF s
  <2>6. Joined(s, hello.out, l.callbacks)
    BY <2>4, <2>5
  <2>7. /\ IsSeq(l.callbacks) /\ 1 \in 1..Len(l.callbacks) /\ l.callbacks[1] = item
        /\ \A i \in 1..Len(l.callbacks) : i # 1 => \E j \in 1..Len(hello.out) : l.callbacks[i] = hello.out[j]
    BY <2>3, <2>6 DEF Joined
  <2> QED BY <1>3, <2>7 DEF Plain
<1>8. \A i \in 1..Len(l.callbacks) :
        /\ l.callbacks[i].t # "durable" /\ ~IsLink(l.callbacks[i], "disconnected")
        /\ IsLink(l.callbacks[i], "ready") => i = 1
        /\ l.callbacks[i].t = "link" => i = 1 /\ l.callbacks[i].level = "ready"
        /\ l.callbacks[i].t = "link" \/ IsAnswer(hello.b, l.callbacks[i])
  BY <1>6, <1>7 DEF IsLink, IsAnswer, AnswerTypes, Truthful
<1>9. HasFields(e)
  BY <1>1, <1>4, <1>5 DEF HasFields
<1>10. StoreOK(e)
  BY <1>1, <1>5 DEF StoreOK, SlotOK, InUse, Seg, Slot
<1>11. ReplayOK(e)
  BY <1>1, <1>2, <1>4, <1>5 DEF ReplayOK, Replaying
<1>12. LinkType(l)
  BY <1>1, <1>4, <1>7 DEF LinkType
<1>13. LinkOK(l)
  BY <1>1, <1>2, <1>4, <1>7, <1>8 DEF LinkOK
<1>14. ReadyOK(e)
  BY <1>1, <1>2, <1>4, <1>5, <1>8 DEF ReadyOK
<1>15. PathOK(e, hello.b)
  <2> DEFINE cur == [i \in 1..1 |-> NoStream]
  <2>1. Len(l.tx) = 0 /\ 0 + 1 = 1 /\ 1 \in 1..1
    BY <1>2, <1>4, SeqEmpty
  <2>2. cur \in [1..1 -> Cursors] /\ cur[1] = NoStream
    BY CursorIsOne
  <2> HIDE DEF cur
  <2>3. Fits(cur, l.tx, l.stream)
    BY <1>2, <1>4, <2>1, <2>2 DEF Fits
  <2>4. BridgeAt(hello.b, cur[1])
    BY <1>3, <2>2 DEF Over, BridgeAt
  <2> QED BY <1>5, <2>1, <2>2, <2>3, <2>4 DEF PathOK
<1>16. SentOK(e, hello.b)
  <2>1. \A s \in Segments : ~InFlight(e, hello.b, s)
    <3> SUFFICES ASSUME NEW s \in Segments, InFlight(e, hello.b, s) PROVE FALSE
      OBVIOUS
    <3>1. s # 0 /\ hello.b.live = 0
      BY <1>3, SegmentsAssumption DEF Over
    <3>2. Len(e.inbox) = 0 /\ Len(l.tx) = 0
      BY <1>1, <1>2, <1>4, <1>5, SeqEmpty DEF ReadyOK
    <3> QED BY <1>5, <1>8, <3>1, <3>2 DEF InFlight, IsDurable
  <2>2. hello.b.live = 0
    BY <1>3 DEF Over
  <2> QED BY <2>1, <2>2 DEF SentOK
<1>17. CaseOK(e, hello.b)
  <2>1. Len(e.inbox) = 0 /\ Len(l.tx) = 0
    BY <1>1, <1>2, <1>4, <1>5, SeqEmpty DEF ReadyOK
  <2>2. hello.b.case = bridge.case
    BY <1>3 DEF Over
  <2> QED BY <1>1, <1>5, <1>8, <2>1, <2>2 DEF CaseOK
<1>18. DeviceOK(e, hello.b)
  BY <1>5, <1>9, <1>10, <1>11, <1>12, <1>13, <1>14, <1>15, <1>16, <1>17 DEF DeviceOK
<1> QED BY <1>0, <1>3, <1>5, <1>18 DEF SameStore, SameCase

\* The connection is down: of what the Bridge has said, some may be lost.
Breaks(d, e) ==
  /\ SameStore(d, e) /\ SameReplay(d, e) /\ SameConn(d, e) /\ SameCase(d, e) /\ SameFields(d, e)
  /\ DOMAIN e.link = DOMAIN d.link /\ e.link.usable = FALSE /\ e.link.tx = <<>>
  /\ \A i \in 1..Len(e.link.callbacks) :
       \/ e.link.callbacks[i].t = "link"
       \/ \E j \in 1..Len(d.link.callbacks) : e.link.callbacks[i] = d.link.callbacks[j]

LEMMA ConnectionBreaks ==
  ASSUME NEW d, NEW e, NEW b, NEW c, DeviceOK(d, b), Breaks(d, e),
         BridgeOK(b), Advances(b, c), c.case = b.case
  PROVE  HasFields(e) /\ StoreOK(e) /\ ReplayOK(e) /\ PathOK(e, c) /\ SentOK(e, c) /\ CaseOK(e, c)
<1>0. Len(e.link.tx) = 0 /\ b.case \in Nat
  BY SeqEmpty DEF Breaks, BridgeOK
<1>1. HasFields(e)
  BY DEF DeviceOK, HasFields, Breaks, SameFields, SameStore, SameReplay
<1>2. StoreOK(e)
  BY DEF DeviceOK, StoreOK, SlotOK, InUse, Seg, Slot, Breaks, SameStore
<1>3. ReplayOK(e)
  BY DEF DeviceOK, ReplayOK, Replaying, Seg, Slot, Breaks, SameStore, SameReplay, SameConn
<1>4. PathOK(e, c)
  BY DEF PathOK, Breaks
<1>5. SentOK(e, c)
  <2>1. \A s : InFlight(e, c, s) => InFlight(d, b, s)
    BY <1>0 DEF InFlight, IsDurable, Breaks, SameConn
  <2>2. \A s : WasEnded(d, s) => WasEnded(e, s)
    BY DEF WasEnded, Breaks, SameStore, SameReplay, InUse, Seg, Slot
  <2> QED BY <2>1, <2>2 DEF DeviceOK, SentOK, Breaks, SameStore
<1>6. CaseOK(e, c)
  <2>1. \A i \in 1..Len(e.link.callbacks) :
          e.link.callbacks[i].t = "link" \/ IsAnswer(c, e.link.callbacks[i])
    BY <1>0, TruthStays DEF DeviceOK, CaseOK, Breaks
  <2>2. \A i \in 1..Len(e.inbox) : IsAnswer(c, e.inbox[i])
    BY <1>0, TruthStays DEF DeviceOK, CaseOK, Breaks, SameConn
  <2> QED BY <1>0, <2>1, <2>2 DEF DeviceOK, CaseOK, Breaks, SameCase
<1> QED BY <1>1, <1>2, <1>3, <1>4, <1>5, <1>6

LEMMA LoseKeeps ==
  ASSUME DeviceOK(dev, bridge), BridgeOK(bridge), Lose
  PROVE  /\ DeviceOK(dev', bridge') /\ SameStore(dev, dev') /\ SameCase(dev, dev')
         /\ Over(bridge, bridge')
<1> DEFINE k == dev.link
           l(n) == [LostLink(k) EXCEPT !.callbacks = SubSeq(@, 1, n)]
<1>0. k.usable /\ bridge' = Closed(bridge)
  BY DEF Lose
<1>1. PICK n \in 0..Len(k.callbacks) : dev' = [dev EXCEPT !.link = l(n)]
  BY DEF Lose, Link
<1>2. HasFields(dev) /\ LinkType(k) /\ LinkOK(k) /\ ReadyOK(dev)
  BY DEF DeviceOK
<1>3. Over(bridge, bridge')
  BY <1>0, ConnectionCloses
<1> DEFINE e == [dev EXCEPT !.link = l(n)]
<1>4. /\ DOMAIN l(n) = DOMAIN k /\ l(n).usable = FALSE /\ l(n).announced = k.announced
      /\ l(n).core = k.core /\ l(n).asr = k.asr /\ l(n).stream = NoStream /\ l(n).tx = <<>>
      /\ l(n).told = k.told /\ l(n).seen = k.seen /\ l(n).fresh = k.fresh
      /\ l(n).callbacks = SubSeq(k.callbacks, 1, n)
  BY <1>2 DEF HasFields, LostLink
<1>5. /\ DOMAIN e = DOMAIN dev /\ e.link = l(n) /\ e.m = dev.m /\ e.store = dev.store
      /\ e.gen = dev.gen /\ e.ready = dev.ready /\ e.last = dev.last /\ e.open = dev.open
      /\ e.inbox = dev.inbox /\ e.replay = dev.replay /\ e.ledger = dev.ledger
      /\ e.active = dev.active /\ e.begun = dev.begun /\ e.asked = dev.asked
  BY <1>2 DEF HasFields
<1> HIDE DEF l, e
<1>6. /\ IsSeq(l(n).callbacks)
      /\ \A i \in 1..Len(l(n).callbacks) :
           i \in 1..Len(k.callbacks) /\ l(n).callbacks[i] = k.callbacks[i]
  <2>1. /\ IsSeq(SubSeq(k.callbacks, 1, n)) /\ Len(SubSeq(k.callbacks, 1, n)) = n
        /\ \A i \in 1..n : SubSeq(k.callbacks, 1, n)[i] = k.callbacks[i]
    <3> DEFINE s == k.callbacks
    <3>1. IsSeq(s) /\ n \in 0..Len(s)
      BY <1>2 DEF LinkType
    <3> HIDE DEF s
    <3>2. /\ IsSeq(SubSeq(s, 1, n)) /\ Len(SubSeq(s, 1, n)) = n
          /\ \A i \in 1..n : SubSeq(s, 1, n)[i] = s[i]
      BY <3>1, SeqPrefix
    <3> QED BY <3>2 DEF s
  <2>2. Len(k.callbacks) \in Nat
    BY <1>2 DEF LinkType, IsSeq
  <2>3. \A i \in 1..n : i \in 1..Len(k.callbacks)
    BY <2>2
  <2> QED BY <1>4, <2>1, <2>3
<1>7. k.announced /\ ~k.seen /\ k.told # "disconnected"
  BY <1>0, <1>2 DEF LinkOK
<1>8. Breaks(dev, e)
  BY <1>4, <1>5, <1>6 DEF Breaks, SameStore, SameReplay, SameConn, SameCase, SameFields
<1>9. LinkType(l(n))
  BY <1>2, <1>4, <1>6, SeqEmpty DEF LinkType
<1>10. LinkOK(l(n))
  <2>1. \A i \in 1..Len(l(n).callbacks) :
          /\ ~IsLink(l(n).callbacks[i], "disconnected")
          /\ IsLink(l(n).callbacks[i], "ready") => i = 1 /\ k.core = "disconnected" /\ k.told = "none"
          /\ l(n).callbacks[i].t = "link" => l(n).callbacks[i].level \in {"ready", "disconnected"}
    <3> TAKE i \in 1..Len(l(n).callbacks)
    <3>1. i \in 1..Len(k.callbacks) /\ l(n).callbacks[i] = k.callbacks[i]
      BY <1>6
    <3> QED BY <3>1, <1>2, <1>7 DEF LinkOK
  <2> QED BY <1>2, <1>4, <1>7, <2>1 DEF LinkOK
<1>11. ReadyOK(e)
  BY <1>2, <1>4, <1>5, <1>6 DEF ReadyOK
<1>12. DeviceOK(e, bridge')
  BY <1>3, <1>5, <1>8, <1>9, <1>10, <1>11, ConnectionBreaks DEF Over, DeviceOK
<1>13. dev' = e
  BY <1>1 DEF e
<1> QED BY <1>3, <1>5, <1>12, <1>13 DEF SameStore, SameCase

LEMMA LossSeenKeeps ==
  ASSUME DeviceOK(dev, bridge), BridgeOK(bridge), LossSeen
  PROVE  /\ DeviceOK(dev', bridge) /\ SameStore(dev, dev') /\ SameCase(dev, dev')
<1> DEFINE k == dev.link
           item == LinkItem("disconnected")
           l == [k EXCEPT !.announced = FALSE, !.callbacks = Append(@, item)]
           e == [dev EXCEPT !.link = l]
<1>0. ~k.usable /\ k.announced /\ dev' = e
  BY DEF LossSeen, Link
<1>1. HasFields(dev) /\ LinkType(k) /\ LinkOK(k) /\ ReadyOK(dev)
  BY DEF DeviceOK
<1>2. /\ DOMAIN l = DOMAIN k /\ l.usable = k.usable /\ l.announced = FALSE
      /\ l.core = k.core /\ l.asr = k.asr /\ l.stream = k.stream /\ l.tx = k.tx
      /\ l.told = k.told /\ l.seen = k.seen /\ l.fresh = k.fresh
      /\ l.callbacks = Append(k.callbacks, item)
  BY <1>1 DEF HasFields
<1>3. /\ DOMAIN e = DOMAIN dev /\ e.link = l /\ e.m = dev.m /\ e.store = dev.store
      /\ e.gen = dev.gen /\ e.ready = dev.ready /\ e.last = dev.last /\ e.open = dev.open
      /\ e.inbox = dev.inbox /\ e.replay = dev.replay /\ e.ledger = dev.ledger
      /\ e.active = dev.active /\ e.begun = dev.begun /\ e.asked = dev.asked
  BY <1>1 DEF HasFields
<1>4. item.t = "link" /\ item.level = "disconnected" /\ IsLink(item, "disconnected")
      /\ ~IsLink(item, "ready")
  BY DEF LinkItem, IsLink
<1> HIDE DEF l, e, item
<1>5. /\ IsSeq(l.callbacks) /\ Len(l.callbacks) \in 1..Len(l.callbacks)
      /\ l.callbacks[Len(l.callbacks)] = item
      /\ \A i \in 1..Len(l.callbacks) :
           \/ i \in 1..Len(k.callbacks) /\ l.callbacks[i] = k.callbacks[i]
           \/ i = Len(l.callbacks) /\ l.callbacks[i] = item
  <2> DEFINE s == k.callbacks
             t == Append(s, item)
  <2>1. IsSeq(s) /\ Len(s) \in Nat
    BY <1>1 DEF LinkType, IsSeq
  <2> HIDE DEF s
  <2>2. IsSeq(t) /\ Len(t) = Len(s) + 1 /\ (\A i \in 1..Len(s) : t[i] = s[i]) /\ t[Len(s) + 1] = item
    BY <2>1, SeqAppend
  <2> HIDE DEF t
  <2>3. \A i \in 1..Len(t) : i \in 1..Len(s) \/ i = Len(t)
    BY <2>1, <2>2
  <2>4. Len(t) \in 1..Len(t)
    BY <2>1, <2>2
  <2> QED BY <1>2, <2>2, <2>3, <2>4 DEF s, t
<1>6. ~k.seen /\ k.told # "disconnected" /\ k.tx = <<>> /\ k.stream = NoStream /\ k.usable = FALSE
  BY <1>0, <1>1 DEF LinkOK, LinkType
<1>7. Breaks(dev, e)
  BY <1>2, <1>3, <1>4, <1>5, <1>6 DEF Breaks, SameStore, SameReplay, SameConn, SameCase, SameFields
<1>8. LinkType(l)
  BY <1>1, <1>2, <1>5 DEF LinkType
<1>9. LinkOK(l)
  <2>1. \A i \in 1..Len(l.callbacks) :
          /\ IsLink(l.callbacks[i], "disconnected") => i = Len(l.callbacks)
          /\ IsLink(l.callbacks[i], "ready") => i = 1 /\ k.core = "disconnected" /\ k.told = "none"
          /\ l.callbacks[i].t = "link" => l.callbacks[i].level \in {"ready", "disconnected"}
    <3> TAKE i \in 1..Len(l.callbacks)
    <3>1. CASE i \in 1..Len(k.callbacks) /\ l.callbacks[i] = k.callbacks[i]
      BY <3>1, <1>0, <1>1 DEF LinkOK
    <3>2. CASE i = Len(l.callbacks) /\ l.callbacks[i] = item
      BY <3>2, <1>4
    <3> QED BY <3>1, <3>2, <1>5
  <2>2. l.callbacks # <<>>
    <3>1. Len(l.callbacks) # 0
      BY <1>5 DEF IsSeq
    <3> QED BY <3>1, SeqEmpty
  <2> QED BY <1>1, <1>2, <1>4, <1>5, <1>6, <2>1, <2>2 DEF LinkOK
<1>10. ReadyOK(e)
  <2>1. \A i \in 1..Len(l.callbacks) :
          /\ dev.ready => ~IsLink(l.callbacks[i], "ready")
          /\ ~dev.ready => l.callbacks[i].t # "durable"
    <3> TAKE i \in 1..Len(l.callbacks)
    <3>1. CASE i \in 1..Len(k.callbacks) /\ l.callbacks[i] = k.callbacks[i]
      BY <3>1, <1>1 DEF ReadyOK
    <3>2. CASE l.callbacks[i] = item
      BY <3>2, <1>4
    <3> QED BY <3>1, <3>2, <1>5
  <2> QED BY <1>0, <1>1, <1>2, <1>3, <2>1 DEF ReadyOK
<1>11. Advances(bridge, bridge)
  BY DEF Advances, BridgeOK
<1>12. DeviceOK(e, bridge)
  BY <1>3, <1>7, <1>8, <1>9, <1>10, <1>11, ConnectionBreaks DEF DeviceOK
<1> QED BY <1>0, <1>3, <1>12 DEF SameStore, SameCase

----------------------------------------------------------------------------
(* The Bridge.                                                             *)

\* A message of the Bridge's, or the answer to one, reaches the device.
Told(d, e, r, tx) ==
  /\ DOMAIN e = DOMAIN d /\ DOMAIN e.link = DOMAIN d.link
  /\ SameStore(d, e) /\ SameReplay(d, e) /\ SameConn(d, e) /\ SameCase(d, e) /\ SameFields(d, e)
  /\ e.link.usable = d.link.usable /\ e.link.announced = d.link.announced
  /\ e.link.core = d.link.core /\ e.link.asr = d.link.asr /\ e.link.stream = d.link.stream
  /\ e.link.told = d.link.told /\ e.link.seen = d.link.seen /\ e.link.fresh = d.link.fresh
  /\ e.link.tx = tx
  /\ e.link.callbacks = IF d.link.usable THEN d.link.callbacks \o r.out ELSE d.link.callbacks

LEMMA LinkTold ==
  ASSUME NEW d, NEW l, NEW r, NEW tx, HasFields(d), d.link.usable \in BOOLEAN,
         l \in {d.link, [d.link EXCEPT !.tx = Tail(@)]}, tx = l.tx
  PROVE  Told(d, [d EXCEPT !.link = Sent(l, r.out)], r, tx)
<1> DEFINE s == Sent(l, r.out)
           e == [d EXCEPT !.link = s]
<1>1. /\ DOMAIN l = DOMAIN d.link /\ l.usable = d.link.usable /\ l.announced = d.link.announced
      /\ l.core = d.link.core /\ l.asr = d.link.asr /\ l.stream = d.link.stream
      /\ l.told = d.link.told /\ l.seen = d.link.seen /\ l.fresh = d.link.fresh
      /\ l.callbacks = d.link.callbacks
  BY DEF HasFields
<1>2. /\ DOMAIN s = DOMAIN d.link /\ s.usable = d.link.usable /\ s.announced = d.link.announced
      /\ s.core = d.link.core /\ s.asr = d.link.asr /\ s.stream = d.link.stream
      /\ s.told = d.link.told /\ s.seen = d.link.seen /\ s.fresh = d.link.fresh
      /\ s.tx = tx
      /\ s.callbacks = IF d.link.usable THEN d.link.callbacks \o r.out ELSE d.link.callbacks
  BY <1>1 DEF HasFields, Sent
<1> HIDE DEF s
<1>3. /\ DOMAIN e = DOMAIN d /\ e.link = s /\ e.m = d.m /\ e.store = d.store
      /\ e.gen = d.gen /\ e.ready = d.ready /\ e.last = d.last /\ e.open = d.open
      /\ e.inbox = d.inbox /\ e.replay = d.replay /\ e.ledger = d.ledger
      /\ e.active = d.active /\ e.begun = d.begun /\ e.asked = d.asked
  BY DEF HasFields
<1> HIDE DEF e
<1>4. Told(d, e, r, tx)
  BY <1>2, <1>3 DEF Told, SameStore, SameReplay, SameConn, SameCase, SameFields
<1> QED BY <1>4 DEF e, s

LEMMA MessageArrives ==
  ASSUME NEW r, DeviceOK(dev, bridge), BridgeOK(bridge), Arrives(r),
         \A c : /\ Finds(bridge, c, Incoming)
                /\ IsCase(Incoming) => Incoming.case \in Nat /\ bridge.case <= Incoming.case
                => Takes1(bridge, r, c, Incoming)
  PROVE  /\ DeviceOK(dev', bridge') /\ SameStore(dev, dev') /\ SameCase(dev, dev')
         /\ BridgeOK(bridge') /\ Advances(bridge, bridge')
<1> DEFINE tx == dev.link.tx
           m == Head(tx)
           rest == Tail(tx)
           l == [dev.link EXCEPT !.tx = Tail(@)]
<1>0. /\ tx # <<>> /\ ~Busy(bridge, m) /\ bridge' = r.b /\ m = Incoming
      /\ dev' = [dev EXCEPT !.link = Sent(l, r.out)]
  BY DEF Arrives, Incoming, Answers, Link
<1>1. /\ HasFields(dev) /\ LinkType(dev.link) /\ LinkOK(dev.link) /\ ReadyOK(dev)
      /\ PathOK(dev, bridge) /\ CaseOK(dev, bridge)
  BY DEF DeviceOK
<1>2. dev.link.usable = TRUE /\ dev.ready = TRUE /\ IsSeq(tx)
  BY <1>0, <1>1 DEF LinkType, LinkOK, ReadyOK
<1>3. /\ Len(tx) \in Nat /\ 1 \in 1..Len(tx) /\ m = tx[1]
      /\ IsSeq(rest) /\ Len(rest) = Len(tx) - 1
      /\ \A i \in 1..(Len(tx) - 1) : rest[i] = tx[i + 1]
  <2> HIDE DEF tx
  <2> QED BY <1>0, <1>2, SeqTail, SeqNotEmpty DEF IsSeq
<1>4. \A i \in 1..Len(rest) : i + 1 \in 1..Len(tx) /\ 1 < i + 1 /\ rest[i] = tx[i + 1]
  BY <1>3
<1>5. l.tx = rest
  BY <1>1 DEF HasFields
<1>6. Told(dev, dev', r, rest)
  BY <1>0, <1>1, <1>2, <1>5, LinkTold
<1>7. PICK cur : Fits(cur, tx, dev.link.stream) /\ BridgeAt(bridge, cur[1])
  BY <1>1, <1>2 DEF PathOK
<1> HIDE DEF tx, m, rest, l
<1>8. /\ Allowed(cur[1], m) /\ cur[1] \in Cursors
      /\ \E new : Fits(new, rest, dev.link.stream) /\ new[1] = After(cur[1], m)
  BY <1>0, <1>2, <1>7, PathPops DEF m, rest
<1>9. IsCase(m) => m.case \in Nat /\ bridge.case <= m.case /\ m.case <= dev.gen
  BY <1>1, <1>3 DEF CaseOK, tx
<1>10. Finds(bridge, cur[1], m)
  BY <1>0, <1>7, <1>8 DEF Finds
<1>11. Takes1(bridge, r, cur[1], m)
  BY <1>0, <1>9, <1>10
<1>12. Reacts(bridge, r, EndOf(m)) /\ BridgeAt(r.b, After(cur[1], m))
  BY <1>11 DEF Takes1
<1>13. Sent1(dev, bridge, EndOf(m))
  BY <1>2, <1>3 DEF Sent1, EndOf, InFlight, IsEnd, tx
<1>14. \A i \in 1..Len(rest) : IsCase(rest[i]) => r.b.case <= rest[i].case
  <2> SUFFICES ASSUME NEW i \in 1..Len(rest), IsCase(rest[i]) PROVE r.b.case <= rest[i].case
    OBVIOUS
  <2>1. i + 1 \in 1..Len(tx) /\ 1 < i + 1 /\ rest[i] = tx[i + 1] /\ 1 \in 1..Len(tx)
    BY <1>3, <1>4
  <2>2. bridge.case <= tx[i + 1].case
    BY <1>1, <2>1 DEF CaseOK, tx
  <2>3. IsCase(tx[1]) => tx[1].case <= tx[i + 1].case
    BY <1>1, <2>1 DEF CaseOK, tx
  <2> QED BY <1>3, <1>11, <2>1, <2>2, <2>3 DEF Takes1
<1>15. r.b.case <= dev.gen
  BY <1>1, <1>9, <1>11 DEF Takes1, CaseOK
<1>16. Hears(dev, dev', r)
  <2>1. \E k \in Nat : \A i \in 1..Len(dev'.link.tx) :
          i + k \in 1..Len(dev.link.tx) /\ dev'.link.tx[i] = dev.link.tx[i + k]
    BY <1>4, <1>6 DEF Told, tx
  <2>2. dev'.gen = dev.gen /\ dev'.link.tx = rest
    BY <1>6 DEF Told, SameCase
  <2> QED BY <1>0, <1>3, <1>6, <1>14, <1>15, <2>1, <2>2 DEF Hears, Told, tx
<1>17. PathOK(dev', r.b)
  <2>1. PICK new : Fits(new, rest, dev.link.stream) /\ new[1] = After(cur[1], m)
    BY <1>8
  <2>2. new \in [1..(Len(rest) + 1) -> Cursors] /\ BridgeAt(r.b, new[1])
    BY <1>12, <2>1 DEF Fits
  <2>3. dev'.link.tx = rest /\ dev'.link.stream = dev.link.stream
    BY <1>6 DEF Told
  <2> QED BY <2>1, <2>2, <2>3 DEF PathOK
<1>18. DeviceOK(dev', r.b)
  BY <1>12, <1>13, <1>16, <1>17, AnswersHeard
<1> QED BY <1>0, <1>6, <1>12, <1>18 DEF Told, Reacts

LEMMA WorkIsTold ==
  ASSUME NEW r, DeviceOK(dev, bridge), BridgeOK(bridge), Answers(r, dev.link), Works(bridge, r)
  PROVE  /\ DeviceOK(dev', bridge') /\ SameStore(dev, dev') /\ SameCase(dev, dev')
         /\ BridgeOK(bridge') /\ Advances(bridge, bridge')
<1>0. bridge' = r.b /\ dev' = [dev EXCEPT !.link = Sent(dev.link, r.out)]
  BY DEF Answers, Link
<1>1. /\ HasFields(dev) /\ LinkType(dev.link) /\ SentOK(dev, bridge) /\ PathOK(dev, bridge)
      /\ CaseOK(dev, bridge) /\ ReadyOK(dev)
  BY DEF DeviceOK
<1>2. Told(dev, dev', r, dev.link.tx)
  BY <1>0, <1>1, LinkTold DEF LinkType
<1>3. Reacts(bridge, r, {bridge.live}) /\ r.b.case = bridge.case
      /\ \A c \in Cursors : BridgeAt(bridge, c) => BridgeAt(r.b, c)
  BY DEF Works
<1>4. Sent1(dev, bridge, {bridge.live})
  BY <1>1 DEF Sent1, SentOK, InFlight, ReadyOK
<1>5. PathOK(dev', r.b)
  <2> SUFFICES ASSUME dev'.link.usable PROVE PathOK(dev', r.b)
    BY DEF PathOK
  <2>1. dev.link.usable /\ dev'.link.tx = dev.link.tx /\ dev'.link.stream = dev.link.stream
    BY <1>2 DEF Told
  <2>2. PICK cur \in [1..(Len(dev.link.tx) + 1) -> Cursors] :
          Fits(cur, dev.link.tx, dev.link.stream) /\ BridgeAt(bridge, cur[1])
    BY <1>1, <2>1 DEF PathOK
  <2>3. cur[1] \in Cursors
    <3>1. Len(dev.link.tx) \in Nat
      BY <1>1 DEF LinkType, IsSeq
    <3>2. 1 \in 1..(Len(dev.link.tx) + 1)
      BY <3>1
    <3> QED BY <2>2, <3>2
  <2>4. BridgeAt(r.b, cur[1])
    BY <1>3, <2>2, <2>3
  <2> QED BY <2>1, <2>2, <2>4 DEF PathOK
<1>6. Hears(dev, dev', r)
  <2>1. \A i \in 1..Len(dev.link.tx) : i + 0 \in 1..Len(dev.link.tx) /\ i + 0 = i
    BY <1>1 DEF LinkType, IsSeq
  <2>2. \E k \in Nat : \A i \in 1..Len(dev'.link.tx) :
          i + k \in 1..Len(dev.link.tx) /\ dev'.link.tx[i] = dev.link.tx[i + k]
    BY <1>2, <2>1 DEF Told
  <2>3. r.b.case <= dev'.gen
    BY <1>1, <1>2, <1>3 DEF CaseOK, Told, SameCase
  <2>4. \A i \in 1..Len(dev'.link.tx) : IsCase(dev'.link.tx[i]) => r.b.case <= dev'.link.tx[i].case
    BY <1>1, <1>2, <1>3 DEF CaseOK, Told
  <2> QED BY <1>1, <1>2, <2>2, <2>3, <2>4 DEF Hears, Told, LinkType
<1>7. DeviceOK(dev', r.b)
  BY <1>3, <1>4, <1>5, <1>6, AnswersHeard
<1> QED BY <1>0, <1>2, <1>3, <1>7 DEF Told, Reacts

\* Every step of the Bridge.
BridgeStep == BridgeReceives \/ BridgeWorks \/ BridgeRefuses \/ BridgeFails

LEMMA BridgeStepKeeps ==
  ASSUME DeviceOK(dev, bridge), BridgeOK(bridge), BridgeStep
  PROVE  /\ DeviceOK(dev', bridge') /\ SameStore(dev, dev') /\ SameCase(dev, dev')
         /\ BridgeOK(bridge') /\ Advances(bridge, bridge')
<1>1. CASE BridgeReceives
  BY <1>1, MessageArrives, MessageTaken DEF BridgeReceives
<1>2. CASE BridgeRefuses
  BY <1>2, MessageArrives, RefusalTaken DEF BridgeRefuses
<1>3. CASE BridgeWorks
  <2>1. CASE \E s \in Committing(bridge) : Answers(Commit(bridge, s), dev.link)
    BY <2>1, CommitWorks, WorkIsTold
  <2>2. CASE \E s \in Queued(bridge) : Answers(Transcribe(bridge, s, "saved"), dev.link)
    BY <2>2, TranscribeWorks, WorkIsTold
  <2>3. CASE Answers(Mediating(bridge), dev.link)
    BY <2>3, MediatingWorks, WorkIsTold
  <2>4. CASE Answers(Answer(bridge), dev.link)
    BY <2>4, AnswerWorks, WorkIsTold
  <2>5. CASE Answers(Resume(bridge), dev.link)
    BY <2>5, ResumeWorks, WorkIsTold
  <2> QED BY <1>3, <2>1, <2>2, <2>3, <2>4, <2>5 DEF BridgeWorks
<1>4. CASE BridgeFails
  <2>1. CASE \E s \in Committing(bridge) : Answers(CommitFails(bridge, s), dev.link)
    BY <2>1, CommitFailsWorks, WorkIsTold
  <2>2. CASE \E s \in Queued(bridge) : Answers(Transcribe(bridge, s, "failed"), dev.link)
    BY <2>2, TranscribeWorks, WorkIsTold
  <2>3. CASE Answers(AnswerFails(bridge), dev.link)
    BY <2>3, AnswerFailsWorks, WorkIsTold
  <2> QED BY <1>4, <2>1, <2>2, <2>3 DEF BridgeFails
<1> QED BY <1>1, <1>2, <1>3, <1>4 DEF BridgeStep

----------------------------------------------------------------------------
(* The history of the completed recordings, and the invariant.             *)

Holds(d, s) == \E x \in CompleteSlots(d.store) : Seg(d, x) = s

\* What was completed in this case is held, or stored whole.
KeptOK(d, b, h) ==
  /\ \A x \in CompleteSlots(d.store) : h[Seg(d, x)] = Slot(d, x).bytes
  /\ \A s \in Segments : h[s] # 0 => Holds(d, s) \/ (b.case = d.gen /\ IsStored(b, s, h[s]))

Inv == DeviceOK(dev, bridge) /\ BridgeOK(bridge) /\ KeptOK(dev, bridge, made)

\* A step of the mediation task.
LEMMA TaskKeeps ==
  ASSUME NEW d, StoreOK(d), Good(dev, d, bridge), KeptOK(dev, bridge, made)
  PROVE  KeptOK(d, bridge, Completed(d))
<1> DEFINE h == Completed(d)
<1>1. \A s \in Segments :
        h[s] = IF Holds(d, s)
               THEN Slot(d, CHOOSE x \in CompleteSlots(d.store) : Slot(d, x).meta.seg = s).bytes
               ELSE IF d.gen = dev.gen THEN made[s] ELSE 0
  BY DEF Completed, Holds, Seg
<1> HIDE DEF h
<1>2. ASSUME NEW x \in CompleteSlots(d.store) PROVE h[Seg(d, x)] = Slot(d, x).bytes
  <2> DEFINE s == Seg(d, x)
             y == CHOOSE y \in CompleteSlots(d.store) : Slot(d, y).meta.seg = s
  <2>1. \A z \in CompleteSlots(d.store) : z \in SlotIds /\ InUse(d, z)
    BY DEF CompleteSlots, InUse, Slot
  <2>2. s \in Segments /\ Holds(d, s)
    BY <2>1 DEF StoreOK, SlotOK, Holds
  <2>3. y \in CompleteSlots(d.store) /\ Seg(d, y) = s
    BY DEF Seg
  <2>4. y = x
    BY <2>1, <2>3 DEF StoreOK
  <2> QED BY <1>1, <2>2, <2>4
<1>3. ASSUME NEW s \in Segments, h[s] # 0
      PROVE  Holds(d, s) \/ (bridge.case = d.gen /\ IsStored(bridge, s, h[s]))
  <2> SUFFICES ASSUME ~Holds(d, s) PROVE bridge.case = d.gen /\ IsStored(bridge, s, h[s])
    OBVIOUS
  <2>1. d.gen = dev.gen /\ h[s] = made[s] /\ made[s] # 0
    BY <1>1, <1>3
  <2>2. CASE Holds(dev, s)
    <3>1. PICK x \in CompleteSlots(dev.store) : Seg(dev, x) = s
      BY <2>2 DEF Holds
    <3>2. ~StillHeld(dev, d, x)
      BY <3>1 DEF StillHeld, Holds, CompleteSlots, Slot
    <3>3. Covered(bridge, dev, x) /\ made[s] = Slot(dev, x).bytes
      BY <3>1, <3>2 DEF Good, Keeps, KeptOK
    <3> QED BY <2>1, <3>1, <3>3 DEF Covered
  <2>3. CASE ~Holds(dev, s)
    BY <2>1, <2>3 DEF KeptOK
  <2> QED BY <2>2, <2>3
<1> QED BY <1>2, <1>3 DEF KeptOK, h

\* A step of another task, of the network or of the Bridge.
LEMMA OthersKeep ==
  ASSUME NEW d, NEW e, NEW b, NEW c, NEW h, DeviceOK(e, c), SameStore(d, e), SameCase(d, e),
         BridgeOK(b), Advances(b, c), KeptOK(d, b, h)
  PROVE  KeptOK(e, c, h)
<1>1. e.store = d.store /\ e.gen = d.gen /\ \A x : Slot(e, x) = Slot(d, x) /\ Seg(e, x) = Seg(d, x)
  BY DEF SameStore, SameCase, Slot, Seg
<1>2. \A s : Holds(e, s) <=> Holds(d, s)
  BY <1>1 DEF Holds
<1>3. ASSUME NEW s \in Segments, b.case = d.gen, IsStored(b, s, h[s])
      PROVE  c.case = e.gen /\ IsStored(c, s, h[s])
  <2>1. c.case = b.case
    BY <1>1, <1>3 DEF DeviceOK, CaseOK, Advances, BridgeOK
  <2> QED BY <1>1, <1>3, <2>1, BoundsAssumption DEF Advances, IsStored
<1> QED BY <1>1, <1>2, <1>3 DEF KeptOK

LEMMA TaskRecords ==
  ASSUME Prompt, Look \/ Message \/ Turn
  PROVE  made' = Completed(dev') /\ bridge' = bridge
<1>1. \A d : FinishPass(d) => made' = Completed(dev') /\ bridge' = bridge
  BY DEF FinishPass, Do
<1>2. \A d : Button(d) => made' = Completed(dev') /\ bridge' = bridge
  BY <1>1 DEF Button
<1>3. CASE Look
  BY <1>3 DEF Look, Do
<1>4. CASE Message
  BY <1>4 DEF Message, Do
<1>5. CASE Turn
  BY <1>1, <1>2, <1>5
     DEF Turn, Idle, CaseDown, ShortPress, LongPress, SpeakerDown, MicFails, ErrorPasses,
         ProbeFires, AckTimeout
<1> QED BY <1>3, <1>4, <1>5

LEMMA LinkIsAllThatChanges ==
  ASSUME HasFields(dev), LinkCallback \/ NotifyCallback
  PROVE  SameStore(dev, dev') /\ SameCase(dev, dev')
<1>1. PICK l : dev' = [dev EXCEPT !.link = l]
  BY DEF LinkCallback, NotifyCallback, Link
<1> QED BY <1>1 DEF HasFields, SameStore, SameCase

LEMMA InvAtFirst == Init => Inv
<1> SUFFICES ASSUME Init PROVE Inv
  OBVIOUS
<1> DEFINE d == BootBoard
<1>0. dev = d /\ bridge = FreshBridge /\ made = [s \in Segments |-> 0]
  BY DEF Init
<1>1. /\ d.m = BootMachine /\ d.store = EmptyStore /\ d.gen = 0 /\ d.ready = FALSE
      /\ d.open = FALSE /\ d.inbox = <<>> /\ d.replay = NoReplay /\ d.ledger = EmptyLedger
      /\ d.active = NoSlot /\ d.begun = 0 /\ d.asked = 0 /\ d.link = DownLink
      /\ {"m", "store", "gen", "ready", "last", "open", "inbox", "replay", "ledger", "active",
          "begun", "asked", "link"} \subseteq DOMAIN d
  BY DEF BootBoard
<1> HIDE DEF d
<1>2. \A x \in SlotIds : Slot(d, x) = FreeSlot /\ ~InUse(d, x) /\ x \notin CompleteSlots(d.store)
  BY <1>1 DEF Slot, EmptyStore, FreeSlot, InUse, CompleteSlots
<1>3. HasFields(d)
  BY <1>1 DEF HasFields, BootMachine, DownLink, NoReplay, EmptyStore, EmptyLedger, FreeSlot
<1>4. StoreOK(d)
  BY <1>1, <1>2 DEF StoreOK, SlotOK, EmptyStore, FreeSlot
<1>5. ReplayOK(d)
  BY <1>1 DEF ReplayOK, NoReplay, DownLink
<1>6. LinkType(d.link) /\ LinkOK(d.link)
  BY <1>1, SeqEmpty DEF LinkType, LinkOK, DownLink
<1>7. ReadyOK(d)
  <2>1. /\ d.link.tx = <<>> /\ d.link.callbacks = <<>> /\ ~d.link.asr
        /\ Len(d.link.callbacks) = 0 /\ IsSeq(d.inbox)
    BY <1>1, SeqEmpty DEF DownLink
  <2>2. /\ d.ready \in BOOLEAN /\ d.open = d.ready /\ ~d.ready /\ d.inbox = <<>>
        /\ \A i \in 1..Len(d.link.callbacks) : d.link.callbacks[i].t # "durable"
    <3>1. \A i \in 1..Len(d.link.callbacks) : FALSE
      BY <2>1
    <3> QED BY <1>1, <3>1
  <2> QED BY <2>1, <2>2 DEF ReadyOK
<1>8. PathOK(d, FreshBridge)
  BY <1>1 DEF PathOK, DownLink
<1>9. SentOK(d, FreshBridge)
  <2>1. \A s \in Segments : ~InFlight(d, FreshBridge, s)
    BY <1>1, SeqEmpty DEF InFlight, DownLink
  <2> QED BY <1>1, <2>1 DEF SentOK, DownLink
<1>10. CaseOK(d, FreshBridge)
  BY <1>1, SeqEmpty DEF CaseOK, DownLink, FreshBridge, BootMachine
<1>11. BridgeOK(FreshBridge)
  <2> DEFINE b == FreshBridge
  <2>1. /\ b.case = 0 /\ b.rows = [s \in Recordings |-> NoRow] /\ b.owner = 0 /\ b.cached = FALSE
        /\ b.live = 0 /\ b.pend = NoPending
        /\ {"case", "rows", "owner", "cached", "live", "pend", "played"} \subseteq DOMAIN b
    BY DEF FreshBridge
  <2> HIDE DEF b
  <2>2. BridgeFields(b)
    BY <2>1, NoRowBegun DEF BridgeFields, NoPending
  <2>3. RowsOK(b)
    BY <2>1, NoRowBegun DEF RowsOK
  <2> QED BY <2>1, <2>2, <2>3 DEF BridgeOK, b
<1>12. KeptOK(d, FreshBridge, made)
  BY <1>0, <1>2 DEF KeptOK, CompleteSlots
<1> QED BY <1>0, <1>3, <1>4, <1>5, <1>6, <1>7, <1>8, <1>9, <1>10, <1>11, <1>12 DEF Inv, DeviceOK

LEMMA InvStep == ASSUME Prompt, Inv, [Next]_vars PROVE Inv'
<1>0. DeviceOK(dev, bridge) /\ BridgeOK(bridge) /\ KeptOK(dev, bridge, made) /\ HasFields(dev)
  BY DEF Inv, DeviceOK
<1>1. CASE Look \/ Message \/ Turn
  <2>1. Good(dev, dev', bridge)
    BY <1>0, <1>1, LookGood, MessageStepGood, TurnGood
  <2>2. made' = Completed(dev') /\ bridge' = bridge
    BY <1>1, TaskRecords
  <2>3. DeviceOK(dev', bridge) /\ StoreOK(dev')
    BY <2>1 DEF Good, DeviceOK
  <2>4. KeptOK(dev', bridge, Completed(dev'))
    BY <1>0, <2>1, <2>3, TaskKeeps
  <2> QED BY <1>0, <2>2, <2>3, <2>4 DEF Inv
<1>2. ASSUME DeviceOK(dev', bridge'), SameStore(dev, dev'), SameCase(dev, dev'),
             BridgeOK(bridge'), Advances(bridge, bridge'), made' = made
      PROVE  Inv'
  <2>1. KeptOK(dev', bridge', made)
    BY <1>0, <1>2, OthersKeep
  <2> QED BY <1>2, <2>1 DEF Inv
<1>3. Advances(bridge, bridge)
  BY <1>0 DEF Advances, BridgeOK
<1>4. CASE LinkCallback \/ NotifyCallback
  <2>1. DeviceOK(dev', bridge) /\ SameStore(dev, dev') /\ SameCase(dev, dev')
    BY <1>0, <1>4, LinkCallbackKeeps, NotifyCallbackKeeps, LinkIsAllThatChanges
  <2>2. bridge' = bridge /\ made' = made
    BY <1>4 DEF LinkCallback, NotifyCallback
  <2> QED BY <1>0, <1>2, <1>3, <2>1, <2>2
<1>5. CASE MessageCallback
  <2>1. bridge' = bridge /\ made' = made
    BY <1>5 DEF MessageCallback
  <2> QED BY <1>0, <1>2, <1>3, <1>5, <2>1, MessageCallbackKeeps
<1>6. CASE Connect
  <2>1. made' = made
    BY <1>6 DEF Connect
  <2> QED BY <1>0, <1>2, <1>6, <2>1, ConnectKeeps DEF Over
<1>7. CASE LossSeen
  <2>1. bridge' = bridge /\ made' = made
    BY <1>7 DEF LossSeen
  <2> QED BY <1>0, <1>2, <1>3, <1>7, <2>1, LossSeenKeeps
<1>8. CASE Lose
  <2>1. made' = made
    BY <1>8 DEF Lose
  <2> QED BY <1>0, <1>2, <1>8, <2>1, LoseKeeps DEF Over
<1>9. CASE PlayDrains \/ PlayFails
  <2>1. PICK drained : PlayEnds(drained)
    BY <1>9 DEF PlayDrains, PlayFails
  <2>2. bridge' = bridge /\ made' = made
    BY <2>1 DEF PlayEnds
  <2> QED BY <1>0, <1>2, <1>3, <2>1, <2>2, PlayEndsKeeps
<1>10. CASE BridgeStep
  <2>1. made' = made
    BY <1>10
       DEF BridgeStep, BridgeReceives, BridgeWorks, BridgeRefuses, BridgeFails, Arrives, Answers
  <2> QED BY <1>0, <1>2, <1>10, <2>1, BridgeStepKeeps
<1>11. CASE UNCHANGED vars
  BY <1>11, <1>0 DEF vars, Inv
<1> QED BY <1>1, <1>4, <1>5, <1>6, <1>7, <1>8, <1>9, <1>10, <1>11
        DEF Next, CallbackWorker, WebSocketWorker, Bridge, BridgeStep

\* The device and the Bridge always agree, as far as each can know, on what
\* has been recorded, sent, received and stored (the mediation task of
\* rorolee_basic.cc, the callback worker, the network and device-gateway.mjs).
THEOREM BoardIsOrderly == ASSUME Prompt PROVE Spec => []Inv
<1>1. Inv /\ [Next]_vars => Inv'
  BY InvStep
<1> QED BY <1>1, InvAtFirst, PTL DEF Spec

LEMMA PcmIsWhole ==
  ASSUME NEW b, NEW s \in Recordings, BridgeOK(b)
  PROVE  b.rows[s].pcm = Whole(s, Len(b.rows[s].pcm))
<1> DEFINE pcm == b.rows[s].pcm
<1>1. pcm = [i \in 1..Len(pcm) |-> pcm[i]] /\ \A i \in 1..Len(pcm) : pcm[i] = [seg |-> s, at |-> i - 1]
  BY DEF BridgeOK, RowsOK, Begun, IsSeq
<1> HIDE DEF pcm
<1>2. pcm = [i \in 1..Len(pcm) |-> [seg |-> s, at |-> i - 1]]
  BY <1>1
<1> QED BY <1>2 DEF Whole, pcm

\* However the recordings, the losses of the connection and the failures of
\* the Bridge fall together, a device that keeps up with its link never frees
\* a completed recording of which the Bridge has not every frame on disk
\* (ApplyDurableAck, ApplyCompleteFault, RestartLink, #endSpeech).
THEOREM BoardKeepsUntilStored == ASSUME Prompt PROVE Spec => []KeptUntilStored
<1>1. Inv => KeptUntilStored
  <2> SUFFICES ASSUME Inv, NEW s \in Segments, made[s] # 0,
                      ~\E x \in CompleteSlots(dev.store) : Slot(dev, x).meta.seg = s
               PROVE  bridge.rows[s].st = "stored" /\ bridge.rows[s].pcm = Whole(s, made[s])
    BY DEF KeptUntilStored
  <2>1. IsStored(bridge, s, made[s])
    BY DEF Inv, KeptOK, Holds, Seg
  <2>2. bridge.rows[s].pcm = Whole(s, Len(bridge.rows[s].pcm))
    BY BoundsAssumption, PcmIsWhole DEF Inv
  <2> QED BY <2>1, <2>2 DEF IsStored
<1> QED BY <1>1, BoardIsOrderly, PTL

\* Nor does the Bridge ever hold, under the name of a recording, frames that
\* are not the first frames of that recording, in their order
\* (#startSpeech, #appendSpeech, #failRecording; PumpReplay).
THEOREM BoardStreamsOneRecording == ASSUME Prompt PROVE Spec => []StreamIsOneRecording
<1>1. Inv => StreamIsOneRecording
  BY BoundsAssumption, PcmIsWhole DEF Inv, StreamIsOneRecording
<1> QED BY <1>1, BoardIsOrderly, PTL

\* And no request for mediation leaves the device before the Bridge has
\* stored every recording completed in the case (MaybeDispatchPendingMediation).
THEOREM BoardRequestCoversEverything ==
  ASSUME Prompt PROVE Spec => RequestCoversEverything
<1> DEFINE StoredAll == \A s \in Segments :
             made[s] # 0 => bridge.case = dev.gen /\ bridge.rows[s].st = "stored"
<1>1. Inv /\ [Next]_vars => [dev'.asked # dev.asked => StoredAll]_vars
  <2> SUFFICES ASSUME Inv, Next, dev'.asked # dev.asked PROVE StoredAll
    OBVIOUS
  <2>0. DeviceOK(dev, bridge) /\ BridgeOK(bridge) /\ KeptOK(dev, bridge, made) /\ HasFields(dev)
    BY DEF Inv, DeviceOK
  <2>1. \A d : SameCase(dev, d) => d.asked = dev.asked
    BY DEF SameCase
  <2>2. CASE Look \/ Message \/ Turn
    <3>1. Good(dev, dev', bridge)
      BY <2>0, <2>2, LookGood, MessageStepGood, TurnGood
    <3>2. AllCovered(bridge, dev)
      BY <3>1 DEF Good, Keeps
    <3>3. ASSUME NEW s \in Segments, made[s] # 0
          PROVE  bridge.case = dev.gen /\ bridge.rows[s].st = "stored"
      <4>1. CASE Holds(dev, s)
        BY <3>2, <4>1 DEF Holds, AllCovered, Covered, IsStored
      <4>2. CASE ~Holds(dev, s)
        BY <2>0, <3>3, <4>2 DEF KeptOK, IsStored
      <4> QED BY <4>1, <4>2
    <3> QED BY <3>3
  <2>3. CASE LinkCallback \/ NotifyCallback
    BY <2>0, <2>1, <2>3, LinkIsAllThatChanges
  <2>4. CASE MessageCallback
    BY <2>0, <2>1, <2>4, MessageCallbackKeeps
  <2>5. CASE Connect
    BY <2>0, <2>1, <2>5, ConnectKeeps
  <2>6. CASE LossSeen
    BY <2>0, <2>1, <2>6, LossSeenKeeps
  <2>7. CASE Lose
    BY <2>0, <2>1, <2>7, LoseKeeps
  <2>8. CASE PlayDrains \/ PlayFails
    BY <2>0, <2>1, <2>8, PlayEndsKeeps DEF PlayDrains, PlayFails
  <2>9. CASE BridgeStep
    BY <2>0, <2>1, <2>9, BridgeStepKeeps
  <2> QED BY <2>2, <2>3, <2>4, <2>5, <2>6, <2>7, <2>8, <2>9
          DEF Next, CallbackWorker, WebSocketWorker, Bridge, BridgeStep
<1> QED BY <1>1, BoardIsOrderly, PTL DEF Spec, RequestCoversEverything
=============================================================================
