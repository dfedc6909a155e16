----------------------- MODULE SegmentPipeline_proofs -----------------------
(***************************************************************************)
(* For every number of connections, cases, segments, faults, crashes and   *)
(* transactions, and for devices that follow the protocol or not: whoever  *)
(* waits for the commit of a recording waits for a frame that is still     *)
(* working on it, and the stream belongs to the current connection.        *)
(*                                                                         *)
(* The argument: every frame that asked for a transaction is the only one  *)
(* of its connection among those waiting or running (CallsHold); every     *)
(* commit has a frame of its own, which ends when the commit does          *)
(* (CommitsHold); and a connection other than that one has no stream for   *)
(* the recording (StreamHolds).  Most steps disturb none of this: they     *)
(* keep the owners and the steps of the commits (Keeps).                   *)
(*                                                                         *)
(* The second half is about the ledger: the row each method of CaseManager *)
(* writes, when the process writes and what a power failure may undo       *)
(* (ControlInv), the fields each helper of the gateway changes, and the    *)
(* transcription queue, whose transaction is about the entry at work       *)
(* (WorkInv).                                                              *)
(***************************************************************************)
EXTENDS SegmentPipeline, CaseManager_proofs, SequenceTheorems, TLAPS

----------------------------------------------------------------------------
(* The device record.                                                      *)

\* Its fields, and those of its commits,

DevShape(dv) ==
  /\ dv = [acks |-> dv.acks, persistent |-> dv.persistent, durable |-> dv.durable,
           jobs |-> dv.jobs, progress |-> dv.progress, commits |-> dv.commits,
           active |-> dv.active, queue |-> dv.queue]
  /\ dv.commits = [s \in Segments |-> dv.commits[s]]
  /\ \A s \in Segments :
       dv.commits[s] = [k |-> dv.commits[s].k, stale |-> dv.commits[s].stale,
                        file |-> dv.commits[s].file, step |-> dv.commits[s].step]

\* and what most steps leave as it is: they open no stream, and neither begin,
\* move on nor end a commit.
Keeps(dv, dw) ==
  /\ DevShape(dw)
  /\ dw.active \in {dv.active, NoStream}
  /\ \A s \in Segments : dw.commits[s].k = dv.commits[s].k
                         /\ dw.commits[s].step = dv.commits[s].step

LEMMA KeepsItself == ASSUME NEW dv, DevShape(dv) PROVE Keeps(dv, dv)
  BY DEF Keeps

LEMMA KeepsTwice ==
  ASSUME NEW dv, NEW dw, NEW dx, Keeps(dv, dw), Keeps(dw, dx)
  PROVE  Keeps(dv, dx)
  BY DEF Keeps

LEMMA DetachKeeps ==
  ASSUME NEW dv, DevShape(dv) PROVE Keeps(dv, [dv EXCEPT !.active = NoStream])
  BY DEF Keeps, DevShape

LEMMA DiscardKeeps ==
  ASSUME NEW dv, DevShape(dv), NEW S
  PROVE  Keeps(dv, DiscardLedger(dv, S)) /\ DiscardLedger(dv, S).active = dv.active
<1> DEFINE ids == UNION {AboutSegment(s) : s \in S}
           a == [s \in Segments |-> IF s \in S THEN None ELSE dv.progress[s]]
           b == [s \in Segments |-> IF s \in S THEN NoJob ELSE dv.jobs[s]]
           c == dv.durable \ S
           d == dv.acks \ ids
           e == dv.persistent \ ids
<1>1. DiscardLedger(dv, S) =
        [dv EXCEPT !.progress = a, !.jobs = b, !.durable = c, !.acks = d, !.persistent = e]
  BY DEF DiscardLedger
<1> HIDE DEF a, b, c, d, e
<1> QED BY <1>1 DEF Keeps, DevShape

LEMMA EvictKeeps ==
  ASSUME NEW dv, DevShape(dv), NEW c
  PROVE  Keeps(dv, EvictDeviceCase(dv, c))
<1> DEFINE gone == {s \in Segments : cm.seg[s].case = c}
           dw == DiscardLedger(dv, gone)
           acks == dw.acks \ {CaseMsg(c)}
           kept == dw.persistent \ {CaseMsg(c)}
           work == [s \in Segments |-> IF s \in gone /\ dw.commits[s].step # "none"
                                       THEN [dw.commits[s] EXCEPT !.stale = TRUE]
                                       ELSE dw.commits[s]]
           queue == [i \in DOMAIN dw.queue |-> IF dw.queue[i].s \in gone
                                               THEN [dw.queue[i] EXCEPT !.stale = TRUE]
                                               ELSE dw.queue[i]]
           stream == IF dw.active # NoStream /\ dw.active.seg \in gone THEN NoStream ELSE dw.active
<1>1. Keeps(dv, dw)
  BY DiscardKeeps
<1>2. EvictDeviceCase(dv, c) =
        [dw EXCEPT !.acks = acks, !.persistent = kept, !.commits = work, !.queue = queue,
                   !.active = stream]
  BY DEF EvictDeviceCase
<1> HIDE DEF gone, dw
<1>3. work = [s \in Segments |-> work[s]]
  OBVIOUS
<1>4. ASSUME NEW s \in Segments
      PROVE  work[s] = [k |-> dw.commits[s].k, stale |-> work[s].stale,
                        file |-> dw.commits[s].file, step |-> dw.commits[s].step]
  <2>1. dw.commits[s] = [k |-> dw.commits[s].k, stale |-> dw.commits[s].stale,
                         file |-> dw.commits[s].file, step |-> dw.commits[s].step]
    BY <1>1 DEF Keeps, DevShape
  <2>2. work[s] = IF s \in gone /\ dw.commits[s].step # "none"
                  THEN [dw.commits[s] EXCEPT !.stale = TRUE] ELSE dw.commits[s]
    OBVIOUS
  <2> HIDE DEF work
  <2> QED BY <2>1, <2>2
<1>5. stream \in {dw.active, NoStream}
  OBVIOUS
<1> HIDE DEF acks, kept, work, queue, stream
<1> DEFINE dx == EvictDeviceCase(dv, c)
<1>6. DevShape(dw)
  BY <1>1 DEF Keeps
<1>7. /\ dx = [acks |-> dx.acks, persistent |-> dx.persistent, durable |-> dx.durable,
               jobs |-> dx.jobs, progress |-> dx.progress, commits |-> dx.commits,
               active |-> dx.active, queue |-> dx.queue]
      /\ dx.commits = work /\ dx.active = stream
  BY <1>2, <1>6 DEF DevShape
<1> HIDE DEF dx
<1>8. Keeps(dw, dx)
  BY <1>3, <1>4, <1>5, <1>7 DEF Keeps, DevShape
<1> QED BY <1>1, <1>8, KeepsTwice DEF dx

LEMMA PoppedKeeps ==
  ASSUME NEW dv, DevShape(dv) PROVE Keeps(dv, Popped(dv))
<1> DEFINE q == Tail(dv.queue)
<1>1. Popped(dv) = [dv EXCEPT !.queue = q]
  BY DEF Popped
<1> HIDE DEF q
<1> QED BY <1>1 DEF Keeps, DevShape

LEMMA AtKeeps ==
  ASSUME NEW dv, DevShape(dv), NEW step PROVE Keeps(dv, At(dv, step))
  BY DEF Keeps, DevShape, At

LEMMA StatusKeeps ==
  ASSUME NEW dv, DevShape(dv), NEW s, NEW status PROVE Keeps(dv, SetStatus(dv, s, status))
  BY DEF Keeps, DevShape, SetStatus

LEMMA ReleaseKeeps ==
  ASSUME NEW dv, DevShape(dv), NEW s PROVE Keeps(dv, ReleaseOwner(dv, s))
  BY DetachKeeps, KeepsItself DEF ReleaseOwner

\* What the owner of a stream leaves behind.
LEMMA AbandonKeeps == ASSUME DevShape(dev), AbandonActive PROVE Keeps(dev, dev') /\ dev'.active = NoStream
<1>1. CASE Abandonable(dev.active)
  <2> DEFINE dw == DiscardLedger(dev, {dev.active.seg})
  <2>1. Keeps(dev, dw) /\ dev' = [dw EXCEPT !.active = NoStream]
    BY <1>1, DiscardKeeps DEF AbandonActive
  <2> HIDE DEF dw
  <2>2. DevShape(dw)
    BY <2>1 DEF Keeps
  <2>3. dev'.active = NoStream
    BY <2>1, <2>2 DEF DevShape
  <2> QED BY <2>1, <2>2, <2>3, DetachKeeps, KeepsTwice
<1>2. CASE ~Abandonable(dev.active)
  BY <1>2, DetachKeeps DEF AbandonActive, DevShape
<1> QED BY <1>1, <1>2

LEMMA FreshKeepsNothing ==
  /\ DevShape(FreshDevice) /\ FreshDevice.active = NoStream
  /\ \A s \in Segments : FreshDevice.commits[s] = NoCommit
  BY DEF DevShape, FreshDevice, NoCommit

LEMMA RestoredIsFresh ==
  ASSUME NEW snap
  PROVE  /\ DevShape(RestoredDevice(snap)) /\ RestoredDevice(snap).active = NoStream
         /\ \A s \in Segments : RestoredDevice(snap).commits[s] = NoCommit
<1> DEFINE a == snap.acks  b == snap.durable  c == snap.jobs
<1>1. RestoredDevice(snap) = [FreshDevice EXCEPT !.acks = a, !.persistent = a, !.durable = b,
                                                 !.jobs = c]
  BY DEF RestoredDevice
<1> HIDE DEF a, b, c
<1> QED BY <1>1, FreshKeepsNothing DEF DevShape

\* A commit that is over.
LEMMA FinishLeaves ==
  ASSUME NEW dv, DevShape(dv), NEW s \in Segments
  PROVE  /\ DevShape(FinishCommit(dv, s)) /\ FinishCommit(dv, s).active = dv.active
         /\ \A t \in Segments :
              FinishCommit(dv, s).commits[t] = IF t = s THEN NoCommit ELSE dv.commits[t]
<1> DEFINE work == [dv.commits EXCEPT ![s] = NoCommit]
<1>1. FinishCommit(dv, s) = [dv EXCEPT !.commits = work]
  BY DEF FinishCommit
<1>2. /\ work = [t \in Segments |-> work[t]]
      /\ \A t \in Segments : work[t] = IF t = s THEN NoCommit ELSE dv.commits[t]
  BY DEF DevShape
<1> HIDE DEF work
<1>3. \A t \in Segments : work[t] = [k |-> work[t].k, stale |-> work[t].stale,
                                     file |-> work[t].file, step |-> work[t].step]
  BY <1>2 DEF DevShape, NoCommit
<1> QED BY <1>1, <1>2, <1>3 DEF DevShape

----------------------------------------------------------------------------
(* Sequences, whatever they hold.                                          *)
IsSeq(q) == q \in Seq({q[i] : i \in DOMAIN q})

LEMMA SeqIsSeq == ASSUME NEW S, NEW q \in Seq(S) PROVE IsSeq(q)
<1>1. q \in [1..Len(q) -> {q[i] : i \in DOMAIN q}]
  OBVIOUS
<1> QED BY <1>1 DEF IsSeq

LEMMA SeqAppend ==
  ASSUME NEW q, IsSeq(q), NEW e
  PROVE  /\ IsSeq(Append(q, e)) /\ Len(q) \in Nat /\ Len(Append(q, e)) = Len(q) + 1
         /\ \A i \in 1..Len(q) : Append(q, e)[i] = q[i]
         /\ Append(q, e)[Len(q) + 1] = e
<1> DEFINE S == {q[i] : i \in DOMAIN q} \cup {e}
<1>1. q \in Seq(S) /\ e \in S
  BY DEF IsSeq
<1> HIDE DEF S
<1>2. Append(q, e) \in Seq(S)
  BY <1>1
<1>3. IsSeq(Append(q, e))
  BY <1>2, SeqIsSeq
<1>4. /\ Len(q) \in Nat /\ Len(Append(q, e)) = Len(q) + 1
      /\ \A i \in 1..Len(q) : Append(q, e)[i] = q[i]
      /\ Append(q, e)[Len(q) + 1] = e
  BY <1>1
<1> QED BY <1>3, <1>4

LEMMA SeqTail ==
  ASSUME NEW q, IsSeq(q), q # <<>>
  PROVE  /\ IsSeq(Tail(q)) /\ Len(q) \in Nat \ {0} /\ Len(Tail(q)) = Len(q) - 1
         /\ Head(q) = q[1]
         /\ \A i \in 1..Len(Tail(q)) : Tail(q)[i] = q[i + 1]
<1> DEFINE S == {q[i] : i \in DOMAIN q}
<1>1. q \in Seq(S)
  BY DEF IsSeq
<1> HIDE DEF S
<1>2. Tail(q) \in Seq(S)
  BY <1>1
<1>3. IsSeq(Tail(q))
  BY <1>2, SeqIsSeq
<1>4. /\ Len(q) \in Nat \ {0} /\ Len(Tail(q)) = Len(q) - 1
      /\ Head(q) = q[1]
      /\ \A i \in 1..Len(Tail(q)) : Tail(q)[i] = q[i + 1]
  BY <1>1
<1> QED BY <1>3, <1>4

LEMMA SeqCons ==
  ASSUME NEW q, IsSeq(q), NEW e
  PROVE  /\ IsSeq(<<e>> \o q) /\ <<e>> \o q # <<>>
         /\ Head(<<e>> \o q) = e /\ Tail(<<e>> \o q) = q
<1> DEFINE S == {q[i] : i \in DOMAIN q} \cup {e}
<1>1. q \in Seq(S) /\ e \in S
  BY DEF IsSeq
<1> HIDE DEF S
<1>2. <<e>> \o q \in Seq(S) /\ Len(<<e>> \o q) = Len(q) + 1
  BY <1>1
<1>3. Tail(<<e>> \o q) \in Seq(S) /\ Len(Tail(<<e>> \o q)) = Len(q)
  BY <1>1, <1>2
<1>4. \A i \in 1..Len(q) : Tail(<<e>> \o q)[i] = q[i]
  BY <1>1, <1>2
<1>5. Tail(<<e>> \o q) = q
  BY <1>1, <1>3, <1>4, SeqEqual
<1>6. IsSeq(<<e>> \o q)
  BY <1>2, SeqIsSeq
<1>7. <<e>> \o q # <<>> /\ Head(<<e>> \o q) = e
  BY <1>1, <1>2
<1> QED BY <1>5, <1>6, <1>7

LEMMA SeqHeadTail ==
  ASSUME NEW q, IsSeq(q), q # <<>> PROVE <<Head(q)>> \o Tail(q) = q
<1> DEFINE S == {q[i] : i \in DOMAIN q}
<1>1. q \in Seq(S)
  BY DEF IsSeq
<1> HIDE DEF S
<1>2. /\ Head(q) \in S /\ Tail(q) \in Seq(S) /\ Len(Tail(q)) = Len(q) - 1
      /\ \A i \in 1..Len(Tail(q)) : Tail(q)[i] = q[i + 1]
  BY <1>1, HeadTailProperties
<1>3. Head(q) = q[1] /\ Len(q) \in Nat \ {0}
  BY <1>1
<1> DEFINE r == <<Head(q)>> \o Tail(q)
<1>4. r \in Seq(S) /\ Len(r) = Len(q)
  BY <1>2, <1>3
<1>5. \A i \in 1..Len(r) : r[i] = q[i]
  BY <1>2, <1>3
<1> HIDE DEF r
<1> QED BY <1>1, <1>4, <1>5, SeqEqual DEF r

LEMMA SeqAppendCons ==
  ASSUME NEW q, IsSeq(q), NEW e, NEW f
  PROVE  <<e>> \o Append(q, f) = Append(<<e>> \o q, f)
<1> DEFINE S == {q[i] : i \in DOMAIN q} \cup {e, f}
<1>1. q \in Seq(S) /\ e \in S /\ f \in S
  BY DEF IsSeq
<1> HIDE DEF S
<1> DEFINE r == <<e>> \o Append(q, f)
           t == Append(<<e>> \o q, f)
<1>2. r \in Seq(S) /\ t \in Seq(S) /\ Len(r) = Len(t)
  BY <1>1
<1>3. \A i \in 1..Len(r) : r[i] = t[i]
  BY <1>1
<1> HIDE DEF r, t
<1> QED BY <1>2, <1>3, SeqEqual DEF r, t

----------------------------------------------------------------------------
(* Who waits for what.                                                     *)

ConnOps == {"hello", "case"}
EndOps  == {"end", "failcommit"}

\* The transactions that have been asked for and have not ended.
Outstanding == IF txn = NoTxn THEN tail ELSE <<txn.call>> \o tail

\* A frame that asked for a transaction waits for it, and a recording whose WAV
\* is written, or could not be, is still being committed.
CallHolds(call, cn, dv) ==
  /\ call.op \in ConnOps => call.k \in Conns /\ cn[call.k].busy = "txn"
  /\ call.op \in EndOps  => call.s \in Segments /\ dv.commits[call.s].step = "done"

\* No two of them are about the same connection or the same commit.
Clash(a, b) ==
  \/ a.op \in ConnOps /\ b.op \in ConnOps /\ a.k = b.k
  \/ a.op \in EndOps /\ b.op \in EndOps /\ a.s = b.s

CallsHold(q, cn, dv) ==
  /\ IsSeq(q)
  /\ \A i \in 1..Len(q) : CallHolds(q[i], cn, dv)
  /\ \A i, j \in 1..Len(q) : i # j => ~Clash(q[i], q[j])

\* A commit has a frame of its own that works on it, until it ends,
CommitsHold(cn, dv) ==
  /\ \A s \in Segments : dv.commits[s].step # "none" =>
       dv.commits[s].k \in Conns /\ cn[dv.commits[s].k].busy = "commit"
  /\ \A s, t \in Segments :
       s # t /\ dv.commits[s].step # "none" /\ dv.commits[t].step # "none" =>
         dv.commits[s].k # dv.commits[t].k

\* and no other connection has a stream for its recording.
StreamHolds(dv) ==
  dv.active # NoStream =>
    /\ dv.active.owner \in Conns /\ dv.active.seg \in Segments
    /\ dv.commits[dv.active.seg].step # "none" =>
         dv.active.owner = dv.commits[dv.active.seg].k

ConnShape(cn) ==
  /\ cn = [k \in Conns |-> cn[k]]
  /\ \A k \in Conns : cn[k] = [phase |-> cn[k].phase, busy |-> cn[k].busy, on |-> cn[k].on]

\* A frame waits for the commit of a recording; a new connection has none.
ConnsHold(cn) ==
  /\ ConnShape(cn)
  /\ \A k \in Conns :
       /\ cn[k].phase = "fresh" => cn[k].busy = "no"
       /\ cn[k].busy = "wait" => cn[k].on \in Segments

FramesHold(q, cn, dv) ==
  /\ DevShape(dv) /\ ConnsHold(cn)
  /\ CallsHold(q, cn, dv) /\ CommitsHold(cn, dv) /\ StreamHolds(dv)

TxnShape ==
  txn # NoTxn =>
    txn = [call |-> txn.call, snap |-> txn.snap, back |-> txn.back,
           phase |-> txn.phase]

\* A process that is gone leaves nothing.
DownIsEmpty == (mode = "down") => (tail = <<>> /\ txn = NoTxn)

FramesInv ==
  /\ IsSeq(tail) /\ TxnShape /\ DownIsEmpty
  /\ FramesHold(Outstanding, conn, dev)

PipelineInv == FramesInv /\ OwnerIsCurrent

----------------------------------------------------------------------------
(* What a step may do to the frames, one lemma for each way.               *)

\* Frames that wait, or work on a commit, go on doing so.
SameBusy(cn, dn) == \A k \in Conns : dn[k].busy = cn[k].busy

LEMMA QuietStep ==
  ASSUME NEW q, NEW cn, NEW dv, FramesHold(q, cn, dv),
         NEW dn, ConnsHold(dn), SameBusy(cn, dn),
         NEW dw, Keeps(dv, dw)
  PROVE  FramesHold(q, dn, dw)
<1>1. CallsHold(q, dn, dw)
  BY DEF FramesHold, CallsHold, CallHolds, SameBusy, Keeps
<1>2. CommitsHold(dn, dw)
  BY DEF FramesHold, CommitsHold, SameBusy, Keeps
<1>3. StreamHolds(dw)
  BY DEF FramesHold, StreamHolds, Keeps
<1> QED BY <1>1, <1>2, <1>3 DEF FramesHold, Keeps

\* A transaction ends, or is refused.
LEMMA CallDropped ==
  ASSUME NEW q, NEW cn, NEW dv, FramesHold(q, cn, dv), q # <<>>
  PROVE  FramesHold(Tail(q), cn, dv)
<1>1. IsSeq(q)
  BY DEF FramesHold, CallsHold
<1>2. /\ IsSeq(Tail(q)) /\ Len(q) \in Nat \ {0} /\ Len(Tail(q)) = Len(q) - 1
      /\ \A i \in 1..Len(Tail(q)) : Tail(q)[i] = q[i + 1]
  BY <1>1, SeqTail
<1>3. \A i \in 1..Len(Tail(q)) : i + 1 \in 1..Len(q)
  BY <1>2
<1>4. CallsHold(Tail(q), cn, dv)
  <2>1. ASSUME NEW i \in 1..Len(Tail(q)) PROVE CallHolds(Tail(q)[i], cn, dv)
    BY <1>2, <1>3 DEF FramesHold, CallsHold
  <2>2. ASSUME NEW i \in 1..Len(Tail(q)), NEW j \in 1..Len(Tail(q)), i # j
        PROVE  ~Clash(Tail(q)[i], Tail(q)[j])
    <3>1. i + 1 # j + 1
      BY <1>2, <2>2
    <3> QED BY <1>2, <1>3, <3>1 DEF FramesHold, CallsHold
  <2> QED BY <1>2, <2>1, <2>2 DEF CallsHold
<1> QED BY <1>4 DEF FramesHold

\* A call is added that clashes with none.
LEMMA CallAdded ==
  ASSUME NEW q, NEW cn, NEW dv, CallsHold(q, cn, dv),
         NEW call, CallHolds(call, cn, dv),
         \A i \in 1..Len(q) : ~Clash(q[i], call)
  PROVE  CallsHold(Append(q, call), cn, dv)
<1> DEFINE r == Append(q, call)
<1>1. /\ IsSeq(r) /\ Len(q) \in Nat /\ Len(r) = Len(q) + 1
      /\ \A i \in 1..Len(q) : r[i] = q[i]
      /\ r[Len(q) + 1] = call
  BY SeqAppend DEF CallsHold
<1> HIDE DEF r
<1>2. \A i \in 1..Len(r) : i \in 1..Len(q) \/ i = Len(q) + 1
  BY <1>1
<1>3. ASSUME NEW i \in 1..Len(r) PROVE CallHolds(r[i], cn, dv)
  BY <1>1, <1>2 DEF CallsHold
<1>4. ASSUME NEW i \in 1..Len(r), NEW j \in 1..Len(r), i # j PROVE ~Clash(r[i], r[j])
  <2>1. CASE i \in 1..Len(q) /\ j \in 1..Len(q)
    BY <1>1, <1>4, <2>1 DEF CallsHold
  <2>2. CASE i \in 1..Len(q) /\ j = Len(q) + 1
    BY <1>1, <2>2
  <2>3. CASE i = Len(q) + 1 /\ j \in 1..Len(q)
    BY <1>1, <2>3 DEF Clash
  <2> QED BY <1>2, <1>4, <2>1, <2>2, <2>3
<1> QED BY <1>1, <1>3, <1>4 DEF CallsHold, r

\* Work and the transactions of other devices hold nobody up.
LEMMA WorkAdded ==
  ASSUME NEW q, NEW cn, NEW dv, FramesHold(q, cn, dv),
         NEW call, call.op \notin ConnOps, call.op \notin EndOps
  PROVE  FramesHold(Append(q, call), cn, dv)
  BY CallAdded DEF FramesHold, CallHolds, Clash

\* A frame asks for a transaction and waits for it.
LEMMA FrameWaits ==
  ASSUME NEW q, NEW cn, NEW dv, FramesHold(q, cn, dv),
         NEW k \in Conns, cn[k].busy = "no",
         NEW dn, ConnsHold(dn), dn[k].busy = "txn", \A j \in Conns : j # k => dn[j].busy = cn[j].busy,
         NEW call, call.op \in ConnOps, call.k = k
  PROVE  FramesHold(Append(q, call), dn, dv)
<1>1. CallsHold(q, dn, dv) /\ \A i \in 1..Len(q) : ~Clash(q[i], call)
  BY DEF FramesHold, CallsHold, CallHolds, Clash, ConnOps, EndOps
<1>2. CallHolds(call, dn, dv)
  BY DEF CallHolds, ConnOps, EndOps
<1>3. CommitsHold(dn, dv)
  BY DEF FramesHold, CommitsHold
<1> QED BY <1>1, <1>2, <1>3, CallAdded DEF FramesHold

\* Its transaction ends, and the connection takes the next frame.
LEMMA FrameGoesOn ==
  ASSUME NEW q, NEW cn, NEW dv, FramesHold(q, cn, dv), q # <<>>, Head(q).op \in ConnOps,
         NEW dn, ConnsHold(dn), \A j \in Conns : j # Head(q).k => dn[j].busy = cn[j].busy
  PROVE  FramesHold(Tail(q), dn, dv)
<1>1. IsSeq(q)
  BY DEF FramesHold, CallsHold
<1>2. /\ Len(q) \in Nat \ {0} /\ Len(Tail(q)) = Len(q) - 1 /\ Head(q) = q[1]
      /\ \A i \in 1..Len(Tail(q)) : Tail(q)[i] = q[i + 1]
  BY <1>1, SeqTail
<1>3. FramesHold(Tail(q), cn, dv)
  BY CallDropped
<1>4. \A i \in 1..Len(Tail(q)) : ~Clash(q[1], Tail(q)[i])
  BY <1>1, <1>2 DEF FramesHold, CallsHold
<1>5. CallsHold(Tail(q), dn, dv)
  BY <1>2, <1>3, <1>4 DEF FramesHold, CallsHold, CallHolds, Clash
<1>6. 1 \in 1..Len(q)
  BY <1>2
<1>7. cn[Head(q).k].busy = "txn"
  BY <1>2, <1>6 DEF FramesHold, CallsHold, CallHolds
<1>8. CommitsHold(dn, dv)
  BY <1>7 DEF FramesHold, CommitsHold
<1> QED BY <1>3, <1>5, <1>8 DEF FramesHold

\* One connection changes what it is busy with.
OnlyBusy(cn, dn, k, busy) ==
  /\ ConnsHold(dn) /\ dn[k].busy = busy
  /\ \A j \in Conns : j # k => dn[j].busy = cn[j].busy

\* One commit changes.
OnlyCommit(dv, dw, s, row) ==
  /\ DevShape(dw) /\ dw.commits[s] = row
  /\ \A t \in Segments : t # s => dw.commits[t] = dv.commits[t]

\* A recording that is its connection's starts to be committed.
LEMMA CommitBegins ==
  ASSUME NEW q, NEW cn, NEW dv, FramesHold(q, cn, dv),
         NEW k \in Conns, cn[k].busy = "no", NEW dn, OnlyBusy(cn, dn, k, "commit"),
         NEW s \in Segments, dv.commits[s].step = "none",
         NEW dw, NEW row, OnlyCommit(dv, dw, s, row), row.k = k, row.step = "writing",
         dw.active # NoStream => dw.active.owner = k /\ dw.active.seg = s
  PROVE  FramesHold(q, dn, dw)
<1>1. CallsHold(q, dn, dw)
  BY DEF FramesHold, CallsHold, CallHolds, OnlyBusy, OnlyCommit
<1>2. CommitsHold(dn, dw)
  BY DEF FramesHold, CommitsHold, OnlyBusy, OnlyCommit
<1>3. StreamHolds(dw)
  BY DEF StreamHolds, OnlyCommit
<1> QED BY <1>1, <1>2, <1>3 DEF FramesHold, OnlyBusy, OnlyCommit

\* Its WAV is written, or could not be.
LEMMA WavIsDone ==
  ASSUME NEW q, NEW cn, NEW dv, FramesHold(q, cn, dv),
         NEW s \in Segments, dv.commits[s].step = "writing",
         NEW dw, NEW row, OnlyCommit(dv, dw, s, row), dw.active = dv.active,
         row.k = dv.commits[s].k, row.step = "done",
         NEW call, call.op \in EndOps, call.s = s
  PROVE  FramesHold(Append(q, call), cn, dw)
<1>1. CallsHold(q, cn, dw) /\ \A i \in 1..Len(q) : ~Clash(q[i], call)
  BY DEF FramesHold, CallsHold, CallHolds, Clash, ConnOps, EndOps, OnlyCommit
<1>2. CallHolds(call, cn, dw)
  BY DEF CallHolds, ConnOps, EndOps, OnlyCommit
<1>3. CommitsHold(cn, dw)
  BY DEF FramesHold, CommitsHold, OnlyCommit
<1>4. StreamHolds(dw)
  BY DEF FramesHold, StreamHolds, OnlyCommit
<1> QED BY <1>1, <1>2, <1>3, <1>4, CallAdded DEF FramesHold, OnlyCommit

\* The commit ends, and with it the frame that worked on it.
LEMMA CommitEnds ==
  ASSUME NEW q, NEW cn, NEW dv, FramesHold(q, cn, dv), q # <<>>, Head(q).op \in EndOps,
         NEW dn, ConnsHold(dn),
         \A j \in Conns : j # dv.commits[Head(q).s].k => dn[j].busy = cn[j].busy,
         NEW dw, DevShape(dw), dw.active \in {dv.active, NoStream},
         \A t \in Segments :
           IF t = Head(q).s THEN dw.commits[t].step = "none"
           ELSE dw.commits[t].k = dv.commits[t].k /\ dw.commits[t].step = dv.commits[t].step
  PROVE  FramesHold(Tail(q), dn, dw)
<1>1. IsSeq(q)
  BY DEF FramesHold, CallsHold
<1>2. /\ Len(q) \in Nat \ {0} /\ Len(Tail(q)) = Len(q) - 1 /\ Head(q) = q[1]
      /\ \A i \in 1..Len(Tail(q)) : Tail(q)[i] = q[i + 1]
  BY <1>1, SeqTail
<1>3. FramesHold(Tail(q), cn, dv)
  BY CallDropped
<1>4. \A i \in 1..Len(Tail(q)) : ~Clash(q[1], Tail(q)[i])
  BY <1>1, <1>2 DEF FramesHold, CallsHold
<1> DEFINE s == Head(q).s
           k == dv.commits[s].k
<1>5. 1 \in 1..Len(q)
  BY <1>2
<1>6. s \in Segments /\ dv.commits[s].step = "done"
  BY <1>2, <1>5 DEF FramesHold, CallsHold, CallHolds
<1>7. k \in Conns /\ cn[k].busy = "commit"
  BY <1>6 DEF FramesHold, CommitsHold
<1>8. CallsHold(Tail(q), dn, dw)
  BY <1>2, <1>3, <1>4, <1>7 DEF FramesHold, CallsHold, CallHolds, Clash
<1>9. CommitsHold(dn, dw)
  BY <1>6, <1>7 DEF FramesHold, CommitsHold
<1>10. StreamHolds(dw)
  BY DEF FramesHold, StreamHolds
<1> QED BY <1>3, <1>8, <1>9, <1>10 DEF FramesHold

\* A stream is opened for a recording that is not being committed.
LEMMA StreamOpens ==
  ASSUME NEW q, NEW cn, NEW dv, FramesHold(q, cn, dv),
         NEW dn, ConnsHold(dn), \A j \in Conns : cn[j].busy # "wait" => dn[j].busy = cn[j].busy,
         NEW s \in Segments, dv.commits[s].step = "none",
         NEW dw, DevShape(dw), dw.commits = dv.commits,
         dw.active # NoStream => dw.active.owner \in Conns /\ dw.active.seg = s
  PROVE  FramesHold(q, dn, dw)
<1>1. CallsHold(q, dn, dw)
  BY DEF FramesHold, CallsHold, CallHolds
<1>2. CommitsHold(dn, dw)
  BY DEF FramesHold, CommitsHold
<1>3. StreamHolds(dw)
  BY DEF StreamHolds
<1> QED BY <1>1, <1>2, <1>3 DEF FramesHold

\* Nothing waits for a process that begins.
LEMMA NothingWaits ==
  ASSUME NEW cn, ConnsHold(cn), NEW dv, DevShape(dv), dv.active = NoStream,
         \A s \in Segments : dv.commits[s].step = "none"
  PROVE  FramesHold(<<>>, cn, dv)
<1>1. IsSeq(<<>>) /\ Len(<<>>) = 0
  BY DEF IsSeq
<1> QED BY <1>1 DEF FramesHold, CallsHold, CommitsHold, StreamHolds

----------------------------------------------------------------------------
(* The outstanding transactions.                                           *)

\* A transaction starts.
LEMMA TxnBegins ==
  ASSUME IsSeq(tail), txn = NoTxn, tail # <<>>, tail' = Tail(tail), txn'.call = Head(tail)
  PROVE  /\ IsSeq(tail)' /\ Outstanding # <<>> /\ Head(Outstanding) = Head(tail)
         /\ Outstanding' \in {Outstanding, Tail(Outstanding)}
  BY SeqTail, SeqHeadTail DEF Outstanding

\* A transaction that has not started is refused.
LEMMA TxnRefused ==
  ASSUME IsSeq(tail), txn = NoTxn, tail # <<>>, tail' = Tail(tail), txn' = txn
  PROVE  /\ IsSeq(tail)' /\ Outstanding # <<>>
         /\ Outstanding' = Tail(Outstanding)
  BY SeqTail DEF Outstanding

\* A transaction ends.
LEMMA TxnEnds ==
  ASSUME IsSeq(tail), txn # NoTxn, txn' = NoTxn, tail' = tail
  PROVE  /\ IsSeq(tail)' /\ Outstanding # <<>> /\ Head(Outstanding) = txn.call
         /\ Outstanding' = Tail(Outstanding)
  BY SeqCons DEF Outstanding

\* A transaction is asked for.
LEMMA TxnAsked ==
  ASSUME IsSeq(tail), NEW call, tail' = Append(tail, call), txn' = txn
  PROVE  IsSeq(tail)' /\ Outstanding' = Append(Outstanding, call)
  BY SeqAppend, SeqAppendCons DEF Outstanding

LEMMA TxnSame ==
  ASSUME UNCHANGED <<tail, txn>> PROVE Outstanding' = Outstanding
  BY DEF Outstanding

\* Conclusions about the next state, put together.
LEMMA FramesNext ==
  ASSUME IsSeq(tail'), TxnShape', DownIsEmpty', FramesHold(Outstanding', conn', dev')
  PROVE  FramesInv'
  BY DEF FramesInv

(* The connections.                                                        *)
LEMMA IdleHolds ==
  ASSUME ConnsHold(conn), NEW k
  PROVE  /\ ConnsHold(Idle(k))
         /\ \A j \in Conns : /\ Idle(k)[j].busy = IF j = k THEN "no" ELSE conn[j].busy
                             /\ Idle(k)[j].phase = conn[j].phase
                             /\ Idle(k)[j].on = conn[j].on
  BY DEF ConnsHold, ConnShape, Idle

OtherPhase(c, d) ==
  d = c \/ d = [c EXCEPT !.phase = "open"] \/ d = [c EXCEPT !.phase = "closing"]

LEMMA PhaseHolds ==
  ASSUME NEW cn, ConnsHold(cn), NEW dn, dn = [j \in Conns |-> dn[j]],
         \A j \in Conns : OtherPhase(cn[j], dn[j])
  PROVE  ConnsHold(dn) /\ \A j \in Conns : dn[j].busy = cn[j].busy /\ dn[j].on = cn[j].on
<1>1. ASSUME NEW j \in Conns
      PROVE  /\ dn[j] = [phase |-> dn[j].phase, busy |-> cn[j].busy, on |-> cn[j].on]
             /\ dn[j].phase = "fresh" => cn[j].phase = "fresh"
  <2>1. cn[j] = [phase |-> cn[j].phase, busy |-> cn[j].busy, on |-> cn[j].on]
    BY DEF ConnsHold, ConnShape
  <2> QED BY <2>1 DEF OtherPhase
<1> QED BY <1>1 DEF ConnsHold, ConnShape

----------------------------------------------------------------------------
(* Frames and connections.                                                 *)

LEMMA SendHelloFrames ==
  ASSUME FramesInv, NEW k \in Conns, SendHello(k) PROVE FramesInv'
<1> DEFINE call == Call("hello", k, None, None, None)
<1>1. /\ mode = "up" /\ mode' = mode /\ dev' = dev /\ txn' = txn /\ tail' = Append(tail, call)
      /\ conn[k].phase = "fresh"
      /\ conn' = [conn EXCEPT ![k] = [phase |-> "hello", busy |-> "txn", on |-> None]]
  BY DEF SendHello, Enqueue, proc
<1>2. ConnsHold(conn) /\ conn[k].busy = "no"
  BY <1>1 DEF FramesInv, FramesHold, ConnsHold
<1>3. /\ ConnsHold(conn') /\ conn'[k].busy = "txn"
      /\ \A j \in Conns : j # k => conn'[j].busy = conn[j].busy
  BY <1>1, <1>2 DEF ConnsHold, ConnShape
<1>4. call.op \in ConnOps /\ call.k = k
  BY DEF Call, ConnOps
<1> HIDE DEF call
<1>5. FramesHold(Append(Outstanding, call), conn', dev)
  BY <1>2, <1>3, <1>4, FrameWaits DEF FramesInv
<1> QED BY <1>1, <1>5, TxnAsked, FramesNext DEF FramesInv, TxnShape, DownIsEmpty

LEMMA SendCaseStartFrames ==
  ASSUME FramesInv, NEW k \in Conns, NEW c \in Cases, SendCaseStart(k, c) PROVE FramesInv'
<1> DEFINE call == Call("case", k, c, None, None)
<1>1. /\ mode = "up" /\ mode' = mode /\ dev' = dev /\ txn' = txn /\ tail' = Append(tail, call)
      /\ conn[k].phase = "open" /\ conn[k].busy = "no"
      /\ conn' = [conn EXCEPT ![k].busy = "txn"]
  BY DEF SendCaseStart, Ready, Enqueue, proc
<1>2. ConnsHold(conn)
  BY DEF FramesInv, FramesHold
<1>3. /\ ConnsHold(conn') /\ conn'[k].busy = "txn"
      /\ \A j \in Conns : j # k => conn'[j].busy = conn[j].busy
  BY <1>1, <1>2 DEF ConnsHold, ConnShape
<1>4. call.op \in ConnOps /\ call.k = k
  BY DEF Call, ConnOps
<1> HIDE DEF call
<1>5. FramesHold(Append(Outstanding, call), conn', dev)
  BY <1>1, <1>3, <1>4, FrameWaits DEF FramesInv
<1> QED BY <1>1, <1>5, TxnAsked, FramesNext DEF FramesInv, TxnShape, DownIsEmpty

\* Nothing is asked for, and nothing ends.
LEMMA QuietNext ==
  ASSUME FramesInv, UNCHANGED <<tail, txn>>, mode' # "down", ConnsHold(conn'), SameBusy(conn, conn'),
         Keeps(dev, dev')
  PROVE  FramesInv'
  BY TxnSame, QuietStep, FramesNext DEF FramesInv, TxnShape, DownIsEmpty

LEMMA CloseConnectionFrames ==
  ASSUME FramesInv, NEW k \in Conns, CloseConnection(k) PROVE FramesInv'
<1>1. /\ mode' # "down" /\ UNCHANGED <<tail, txn>>
      /\ conn' = [conn EXCEPT ![k].phase = "closed"]
      /\ AbandonActive \/ UNCHANGED dev
  BY DEF CloseConnection, proc
<1>2. ConnsHold(conn) /\ DevShape(dev)
  BY DEF FramesInv, FramesHold
<1>3. ConnsHold(conn') /\ SameBusy(conn, conn')
  BY <1>1, <1>2 DEF ConnsHold, ConnShape, SameBusy
<1>4. Keeps(dev, dev')
  BY <1>1, <1>2, AbandonKeeps, KeepsItself
<1> QED BY <1>1, <1>3, <1>4, QuietNext

LEMMA ForgetConnectionFrames ==
  ASSUME FramesInv, NEW k \in Conns, ForgetConnection(k) PROVE FramesInv'
<1>1. /\ mode' = "up" /\ UNCHANGED <<tail, txn, dev>> /\ conn[k].busy = "no"
      /\ conn' = [conn EXCEPT ![k] = NoConn]
  BY DEF ForgetConnection, proc
<1>2. ConnsHold(conn) /\ DevShape(dev)
  BY DEF FramesInv, FramesHold
<1>3. ConnsHold(conn') /\ SameBusy(conn, conn')
  BY <1>1, <1>2 DEF ConnsHold, ConnShape, SameBusy, NoConn
<1> QED BY <1>1, <1>2, <1>3, KeepsItself, QuietNext

\* A stream opens, or not, for a recording that is not being committed.
LEMMA OpenStreamLeaves ==
  ASSUME DevShape(dev), NEW k \in Conns, NEW c, NEW s \in Segments,
         OpenStream(k, c, s) \/ RefuseStream(k, c, s)
  PROVE  /\ DevShape(dev') /\ dev'.commits = dev.commits
         /\ \/ dev' = dev
            \/ dev'.active.owner = k /\ dev'.active.seg = s
<1>1. CASE dev' = [dev EXCEPT !.active = Recording(k, s, FALSE)]
  BY <1>1 DEF DevShape, Recording
<1>2. ASSUME dev' = [dev EXCEPT !.active = Recording(k, s, TRUE), !.acks = @ \cup {Start(s)}]
      PROVE  /\ DevShape(dev') /\ dev'.commits = dev.commits
             /\ dev'.active.owner = k /\ dev'.active.seg = s
  <2> DEFINE acks == dev.acks \cup {Start(s)}
  <2>1. dev' = [dev EXCEPT !.active = Recording(k, s, TRUE), !.acks = acks]
    BY <1>2
  <2> HIDE DEF acks
  <2> QED BY <2>1 DEF DevShape, Recording
<1>3. ASSUME dev' = [dev EXCEPT !.active = Recording(k, s, FALSE), !.acks = @ \cup {Start(s)},
                                !.progress[s] = IF @ = None THEN 0 ELSE @]
      PROVE  /\ DevShape(dev') /\ dev'.commits = dev.commits
             /\ dev'.active.owner = k /\ dev'.active.seg = s
  <2> DEFINE acks == dev.acks \cup {Start(s)}
             progress == [dev.progress EXCEPT ![s] = IF @ = None THEN 0 ELSE @]
  <2>1. dev' = [dev EXCEPT !.active = Recording(k, s, FALSE), !.acks = acks,
                           !.progress = progress]
    BY <1>3
  <2> HIDE DEF acks, progress
  <2> QED BY <2>1 DEF DevShape, Recording
<1> QED BY <1>1, <1>2, <1>3 DEF OpenStream, RefuseStream

LEMMA StartSpeechFrames ==
  ASSUME FramesInv, NEW k \in Conns, NEW c \in Cases, NEW s \in Segments, StartSpeech(k, c, s)
  PROVE  FramesInv'
<1>1. /\ mode = "up" /\ mode' = mode /\ UNCHANGED <<tail, txn>>
      /\ conn[k].busy = "no" /\ dev.commits[s].step = "none"
      /\ OpenStream(k, c, s)
      /\ conn' = [conn EXCEPT ![k].on = s]
  BY DEF StartSpeech, Ready, InCommit, CommitOf, proc
<1>2. ConnsHold(conn) /\ DevShape(dev)
  BY DEF FramesInv, FramesHold
<1>3. ConnsHold(conn') /\ SameBusy(conn, conn')
  BY <1>1, <1>2 DEF ConnsHold, ConnShape, SameBusy
<1>4. CASE dev' = dev
  BY <1>1, <1>2, <1>3, <1>4, KeepsItself, QuietNext
<1>5. CASE dev' # dev
  <2>1. /\ DevShape(dev') /\ dev'.commits = dev.commits
        /\ dev'.active.owner = k /\ dev'.active.seg = s
    BY <1>1, <1>2, <1>5, OpenStreamLeaves
  <2>2. FramesHold(Outstanding, conn', dev')
    BY <1>1, <1>3, <2>1, StreamOpens DEF FramesInv, SameBusy
  <2> QED BY <1>1, <2>2, TxnSame, FramesNext DEF FramesInv, TxnShape, DownIsEmpty
<1> QED BY <1>4, <1>5

LEMMA WaitForCommitFrames ==
  ASSUME FramesInv, NEW k \in Conns, NEW s \in Segments, WaitForCommit(k, s) PROVE FramesInv'
<1>1. /\ mode = "up" /\ mode' = mode /\ UNCHANGED <<tail, txn, dev>>
      /\ conn[k].phase = "open" /\ conn[k].busy = "no"
      /\ conn' = [conn EXCEPT ![k].busy = "wait", ![k].on = s]
  BY DEF WaitForCommit, Ready, proc
<1>2. ConnsHold(conn)
  BY DEF FramesInv, FramesHold
<1>3. /\ conn' = [j \in Conns |-> conn'[j]] /\ \A j \in Conns : j # k => conn'[j] = conn[j]
      /\ conn'[k] = [phase |-> "open", busy |-> "wait", on |-> s]
  <2> DEFINE cn == [conn EXCEPT ![k].busy = "wait"]
  <2>1. /\ cn = [j \in Conns |-> cn[j]] /\ \A j \in Conns : j # k => cn[j] = conn[j]
        /\ cn[k] = [phase |-> "open", busy |-> "wait", on |-> conn[k].on]
    BY <1>1, <1>2 DEF ConnsHold, ConnShape
  <2>2. conn' = [cn EXCEPT ![k].on = s]
    BY <1>1
  <2> HIDE DEF cn
  <2> QED BY <2>1, <2>2
<1>4. ConnsHold(conn') /\ \A j \in Conns : conn[j].busy # "no" => conn'[j].busy = conn[j].busy
  BY <1>1, <1>2, <1>3 DEF ConnsHold, ConnShape
<1>5. FramesHold(Outstanding, conn', dev)
  BY <1>4 DEF FramesInv, FramesHold, CallsHold, CallHolds, CommitsHold
<1> QED BY <1>1, <1>5, TxnSame, FramesNext DEF FramesInv, TxnShape, DownIsEmpty

LEMMA ResumeStartFrames ==
  ASSUME FramesInv, NEW k \in Conns, ResumeStart(k) PROVE FramesInv'
<1> DEFINE s == conn[k].on
           c == cm.seg[s].case
<1>1. /\ mode # "down" /\ mode' = mode /\ UNCHANGED <<tail, txn>>
      /\ conn[k].busy = "wait" /\ dev.commits[s].step = "none" /\ conn' = Idle(k)
      /\ \/ dev' = dev
         \/ dev' = [dev EXCEPT !.active = Recording(k, s, TRUE)]
         \/ OpenStream(k, c, s) \/ RefuseStream(k, c, s)
  BY DEF ResumeStart, Resumable, InCommit, CommitOf, proc
<1>2. ConnsHold(conn) /\ DevShape(dev) /\ s \in Segments
  BY <1>1 DEF FramesInv, FramesHold, ConnsHold
<1>3. ConnsHold(conn') /\ \A j \in Conns : conn[j].busy # "wait" => conn'[j].busy = conn[j].busy
  BY <1>1, <1>2, IdleHolds
<1> HIDE DEF s, c
<1>4. /\ DevShape(dev') /\ dev'.commits = dev.commits
      /\ \/ dev' = dev
         \/ dev'.active.owner = k /\ dev'.active.seg = s
  <2>1. CASE dev' = [dev EXCEPT !.active = Recording(k, s, TRUE)]
    BY <1>2, <2>1 DEF DevShape, Recording
  <2> QED BY <1>1, <1>2, <2>1, OpenStreamLeaves
<1>5. FramesHold(Outstanding, conn', dev')
  <2>1. CASE dev' = dev
    BY <1>3, <2>1 DEF FramesInv, FramesHold, CallsHold, CallHolds, CommitsHold
  <2>2. CASE dev' # dev
    BY <1>1, <1>2, <1>3, <1>4, <2>2, StreamOpens DEF FramesInv
  <2> QED BY <2>1, <2>2
<1> QED BY <1>1, <1>5, TxnSame, FramesNext DEF FramesInv, TxnShape, DownIsEmpty

LEMMA FailKeeps ==
  ASSUME DevShape(dev), NEW s, FailRecording(s) PROVE Keeps(dev, dev') /\ dev'.active = NoStream
<1> DEFINE dw == DiscardLedger(dev, {s})
<1>1. Keeps(dev, dw) /\ dev' = [dw EXCEPT !.active = NoStream]
  BY DiscardKeeps DEF FailRecording
<1> HIDE DEF dw
<1>2. DevShape(dw)
  BY <1>1 DEF Keeps
<1>3. dev'.active = NoStream
  BY <1>1, <1>2 DEF DevShape
<1> QED BY <1>1, <1>2, <1>3, DetachKeeps, KeepsTwice

LEMMA AppendSpeechFrames ==
  ASSUME FramesInv, NEW k \in Conns, NEW sequence, AppendSpeech(k, sequence) PROVE FramesInv'
<1> DEFINE s == dev.active.seg
           progress == [dev.progress EXCEPT ![s] = @ + 1]
<1>1. /\ mode' = "up" /\ UNCHANGED <<tail, txn, conn>>
      /\ \/ dev' = dev
         \/ dev' = [dev EXCEPT !.progress = progress]
         \/ FailRecording(s)
  BY DEF AppendSpeech, Ready, proc
<1> HIDE DEF s, progress
<1>2. ConnsHold(conn) /\ DevShape(dev)
  BY DEF FramesInv, FramesHold
<1>3. Keeps(dev, dev')
  <2>1. CASE dev' = [dev EXCEPT !.progress = progress]
    BY <1>2, <2>1 DEF Keeps, DevShape
  <2> QED BY <1>1, <1>2, <2>1, KeepsItself, FailKeeps
<1>4. ConnsHold(conn') /\ SameBusy(conn, conn')
  BY <1>1, <1>2 DEF SameBusy
<1> QED BY <1>1, <1>3, <1>4, QuietNext

\* speech.end that begins no commit.
LEMMA EndIsQuiet ==
  ASSUME FramesInv, NEW k \in Conns, mode' # "down", UNCHANGED <<tail, txn>>, conn[k].busy = "no",
         conn' = [conn EXCEPT ![k].on = None], Keeps(dev, dev')
  PROVE  FramesInv'
<1>1. ConnsHold(conn)
  BY DEF FramesInv, FramesHold
<1>2. ConnsHold(conn') /\ SameBusy(conn, conn')
  BY <1>1 DEF ConnsHold, ConnShape, SameBusy
<1> QED BY <1>2, QuietNext

LEMMA EndReplayedFrames ==
  ASSUME FramesInv, NEW k \in Conns, NEW s \in Segments, EndReplayed(k, s) PROVE FramesInv'
<1>1. DevShape(dev)
  BY DEF FramesInv, FramesHold
<1>2. Keeps(dev, dev')
  BY <1>1, KeepsItself, DetachKeeps DEF EndReplayed
<1> QED BY <1>2, EndIsQuiet DEF EndReplayed, Ready, proc

LEMMA EndMismatchFrames ==
  ASSUME FramesInv, NEW k \in Conns, NEW s \in Segments, EndMismatch(k, s) PROVE FramesInv'
<1>1. DevShape(dev)
  BY DEF FramesInv, FramesHold
<1>2. Keeps(dev, dev')
  BY <1>1, FailKeeps DEF EndMismatch
<1> QED BY <1>2, EndIsQuiet DEF EndMismatch, Ready, proc

LEMMA EndMissingFrames ==
  ASSUME FramesInv, NEW k \in Conns, NEW s \in Segments, EndMissing(k, s) PROVE FramesInv'
<1>1. DevShape(dev)
  BY DEF FramesInv, FramesHold
<1>2. Keeps(dev, dev')
  BY <1>1, KeepsItself DEF EndMissing
<1> QED BY <1>2, EndIsQuiet DEF EndMissing, Ready, proc

\* The commit of one recording is changed, and no other.
RowShape(row) == row = [k |-> row.k, stale |-> row.stale, file |-> row.file, step |-> row.step]

SetCommit(dv, s, row) == [dv EXCEPT !.commits[s] = row]

LEMMA CommitChanges ==
  ASSUME NEW dv, DevShape(dv), NEW s \in Segments, NEW row, RowShape(row)
  PROVE  OnlyCommit(dv, SetCommit(dv, s, row), s, row) /\ SetCommit(dv, s, row).active = dv.active
<1> DEFINE work == [dv.commits EXCEPT ![s] = row]
<1>1. SetCommit(dv, s, row) = [dv EXCEPT !.commits = work]
  BY DEF SetCommit
<1>2. /\ work = [t \in Segments |-> work[t]] /\ work[s] = row
      /\ \A t \in Segments : t # s => work[t] = dv.commits[t]
  BY DEF DevShape
<1> HIDE DEF work
<1> DEFINE dw == SetCommit(dv, s, row)
<1>3. /\ dw = [acks |-> dw.acks, persistent |-> dw.persistent, durable |-> dw.durable,
               jobs |-> dw.jobs, progress |-> dw.progress, commits |-> dw.commits,
               active |-> dw.active, queue |-> dw.queue]
      /\ dw.commits = work /\ dw.active = dv.active
  BY <1>1 DEF DevShape
<1> HIDE DEF dw
<1>4. DevShape(dw)
  BY <1>2, <1>3 DEF DevShape, RowShape
<1> QED BY <1>2, <1>3, <1>4 DEF OnlyCommit, dw

LEMMA EndSpeechFrames ==
  ASSUME FramesInv, NEW k \in Conns, NEW s \in Segments, EndSpeech(k, s) PROVE FramesInv'
<1> DEFINE row == [k |-> k, stale |-> FALSE, file |-> None, step |-> "writing"]
           stream == [dev.active EXCEPT !.committing = TRUE]
           dv == [dev EXCEPT !.active = stream]
           cn == [conn EXCEPT ![k].busy = "commit"]
<1>1. /\ mode = "up" /\ mode' = mode /\ UNCHANGED <<tail, txn>>
      /\ conn[k].phase = "open" /\ conn[k].busy = "no"
      /\ dev.active # NoStream /\ dev.active.owner = k /\ dev.active.seg = s
      /\ dev' = SetCommit(dv, s, row)
      /\ conn' = [cn EXCEPT ![k].on = None]
  BY DEF EndSpeech, Ready, Owns, SetCommit, proc
<1>2. ConnsHold(conn) /\ DevShape(dev) /\ dev.commits[s].step = "none"
  BY <1>1 DEF FramesInv, FramesHold, StreamHolds, CommitsHold
<1>3. /\ cn = [j \in Conns |-> cn[j]] /\ \A j \in Conns : j # k => cn[j] = conn[j]
      /\ cn[k] = [phase |-> "open", busy |-> "commit", on |-> conn[k].on]
  BY <1>1, <1>2 DEF ConnsHold, ConnShape
<1>4. DevShape(dv) /\ dv.commits = dev.commits
  <2> HIDE DEF stream
  <2> QED BY <1>2 DEF DevShape
<1>5. stream.owner = k /\ stream.seg = s
  BY <1>1
<1>6. dv.active = stream
  BY <1>2 DEF DevShape
<1>7. RowShape(row) /\ row.k = k /\ row.step = "writing"
  BY DEF RowShape
<1> HIDE DEF cn, dv, row, stream
<1>8. /\ conn' = [j \in Conns |-> conn'[j]] /\ \A j \in Conns : j # k => conn'[j] = conn[j]
      /\ conn'[k] = [phase |-> "open", busy |-> "commit", on |-> None]
  BY <1>1, <1>3
<1>9. OnlyBusy(conn, conn', k, "commit")
  BY <1>2, <1>8 DEF ConnsHold, ConnShape, OnlyBusy
<1>10. OnlyCommit(dev, dev', s, row) /\ dev'.active = stream
  BY <1>1, <1>4, <1>6, <1>7, CommitChanges DEF OnlyCommit
<1>11. FramesHold(Outstanding, conn', dev')
  <2>1. FramesHold(Outstanding, conn, dev)
    BY DEF FramesInv
  <2> QED BY <1>1, <1>2, <1>5, <1>7, <1>9, <1>10, <2>1, CommitBegins
<1> QED BY <1>1, <1>11, TxnSame, FramesNext DEF FramesInv, TxnShape, DownIsEmpty

----------------------------------------------------------------------------
(* The WAV.                                                                *)

LEMMA WavNext ==
  ASSUME FramesInv, NEW s \in Segments, Writing(s), mode' # "down", UNCHANGED <<txn, conn>>,
         NEW call, call.op \in EndOps, call.s = s, tail' = Append(tail, call),
         NEW row, RowShape(row), row.k = CommitOf(s).k, row.step = "done",
         dev' = SetCommit(dev, s, row)
  PROVE  FramesInv'
<1>1. DevShape(dev) /\ dev.commits[s].step = "writing" /\ row.k = dev.commits[s].k
  BY DEF FramesInv, FramesHold, Writing, CommitOf
<1>2. OnlyCommit(dev, dev', s, row) /\ dev'.active = dev.active
  BY <1>1, CommitChanges
<1>3. FramesHold(Append(Outstanding, call), conn', dev')
  <2>1. FramesHold(Outstanding, conn, dev)
    BY DEF FramesInv
  <2> QED BY <1>1, <1>2, <2>1, WavIsDone
<1> QED BY <1>3, TxnAsked, FramesNext DEF FramesInv, TxnShape, DownIsEmpty

\* It names the WAV in the commit and hands it on.
LEMMA WriteWavCommit ==
  ASSUME FramesInv, NEW s \in Segments, WriteWav(s),
         NEW file, file = <<cm.seg[s].case, s, spent.tries[s] + 1>>, NEW row,
         row = [k |-> CommitOf(s).k, stale |-> CommitOf(s).stale, file |-> file, step |-> "done"]
  PROVE  dev' = SetCommit(dev, s, row) /\ RowShape(row)
<1> DEFINE old  == CommitOf(s)
<1>1. dev' = [dev EXCEPT !.commits[s].file = file, !.commits[s].step = "done"]
  BY DEF WriteWav
<1>2. DevShape(dev) /\ RowShape(old) /\ old = dev.commits[s]
  BY DEF FramesInv, FramesHold, DevShape, RowShape, CommitOf
<1> HIDE DEF old
<1> DEFINE some == [old EXCEPT !.file = file]
<1>4. some = [k |-> old.k, stale |-> old.stale, file |-> file, step |-> old.step]
  BY <1>2 DEF RowShape
<1> HIDE DEF some
<1>5. row = [some EXCEPT !.step = "done"]
  BY <1>4 DEF old
<1> DEFINE first  == [dev.commits EXCEPT ![s] = some]
           second == [dev.commits EXCEPT ![s] = row]
           mid    == [dev EXCEPT !.commits = first]
<1>6. first = [dev.commits EXCEPT ![s].file = file]
  BY <1>2 DEF some
<1>7. first[s] = some
  BY <1>2 DEF DevShape
<1>8. second = [first EXCEPT ![s] = row]
  BY <1>2 DEF DevShape
<1>9. second = [first EXCEPT ![s].step = "done"]
  BY <1>5, <1>7, <1>8
<1>10. mid.commits = first
  <2> HIDE DEF first
  <2> QED BY <1>2 DEF DevShape
<1>11. dev' = [mid EXCEPT !.commits[s].step = "done"]
  BY <1>1, <1>6
<1>12. dev' = [mid EXCEPT !.commits = second]
  BY <1>9, <1>10, <1>11
<1> HIDE DEF first, second
<1>13. dev' = [dev EXCEPT !.commits = second]
  BY <1>2, <1>12 DEF DevShape
<1>14. RowShape(row)
  BY DEF RowShape
<1> QED BY <1>13, <1>14 DEF SetCommit, second

LEMMA WriteWavFrames ==
  ASSUME FramesInv, NEW s \in Segments, WriteWav(s) PROVE FramesInv'
<1> DEFINE call == SegCall("end", s)
           file == <<cm.seg[s].case, s, spent.tries[s] + 1>>
           old  == CommitOf(s)
           row  == [k |-> old.k, stale |-> old.stale, file |-> file, step |-> "done"]
<1>1. Writing(s) /\ mode' # "down" /\ UNCHANGED <<txn, conn>> /\ tail' = Append(tail, call)
  BY DEF WriteWav, Enqueue, proc
<1>2. row.k = old.k /\ row.step = "done"
  OBVIOUS
<1>3. dev' = SetCommit(dev, s, row) /\ RowShape(row)
  BY WriteWavCommit
<1>4. call.op \in EndOps /\ call.s = s
  BY DEF SegCall, Call, EndOps
<1> HIDE DEF call, row, file
<1> QED BY <1>1, <1>2, <1>3, <1>4, WavNext DEF old

LEMMA WriteWavFailsFrames ==
  ASSUME FramesInv, NEW s \in Segments, WriteWavFails(s) PROVE FramesInv'
<1> DEFINE call == SegCall("failcommit", s)
           row  == [CommitOf(s) EXCEPT !.step = "done"]
<1>1. /\ Writing(s) /\ mode' # "down" /\ UNCHANGED <<txn, conn>>
      /\ tail' = Append(tail, call)
      /\ dev' = SetCommit(dev, s, row)
  BY DEF WriteWavFails, Enqueue, SetCommit, CommitOf, proc
<1>2. RowShape(CommitOf(s))
  BY DEF FramesInv, FramesHold, DevShape, RowShape, CommitOf
<1>3. RowShape(row) /\ row.k = CommitOf(s).k /\ row.step = "done"
  BY <1>2 DEF RowShape
<1>4. call.op \in EndOps /\ call.s = s
  BY DEF SegCall, Call, EndOps
<1> HIDE DEF call, row
<1> QED BY <1>1, <1>3, <1>4, WavNext

----------------------------------------------------------------------------
(* Transactions.                                                           *)

\* One starts.
LEMMA BeginNext ==
  ASSUME FramesInv, txn = NoTxn, tail # <<>>, tail' = Tail(tail), mode' # "down",
         NEW snap, NEW back, NEW phase,
         txn' = [call |-> Head(tail), snap |-> snap, back |-> back, phase |-> phase],
         ConnsHold(conn'), SameBusy(conn, conn'), Keeps(dev, dev')
  PROVE  FramesInv'
<1>1. txn'.call = Head(tail) /\ TxnShape' /\ DownIsEmpty'
  BY DEF TxnShape, DownIsEmpty
<1>2. /\ IsSeq(tail)' /\ Outstanding # <<>>
      /\ Outstanding' \in {Outstanding, Tail(Outstanding)}
  BY <1>1, TxnBegins DEF FramesInv
<1>3. FramesHold(Outstanding, conn, dev)
  BY DEF FramesInv
<1>4. FramesHold(Outstanding, conn', dev')
  BY <1>3, QuietStep
<1>5. FramesHold(Outstanding', conn', dev')
  BY <1>2, <1>4, CallDropped
<1> QED BY <1>1, <1>2, <1>5, FramesNext

\* The same, for one that persists the state.
LEMMA PersistNext ==
  ASSUME FramesInv, NEW op, Starting(op), NEW back, Persist(back), UNCHANGED mode,
         ConnsHold(conn'), SameBusy(conn, conn'), Keeps(dev, dev')
  PROVE  FramesInv'
<1> DEFINE snap == PersistentState'
<1>1. /\ mode' # "down" /\ txn = NoTxn /\ tail # <<>> /\ tail' = Tail(tail)
      /\ txn' = [call |-> Head(tail), snap |-> snap, back |-> back, phase |-> "writing"]
  BY DEF Starting, Persist, PersistFor, Call1
<1> HIDE DEF snap
<1> QED BY <1>1, BeginNext

LEMMA SameConns == ASSUME FramesInv, conn' = conn PROVE ConnsHold(conn') /\ SameBusy(conn, conn')
  BY DEF FramesInv, FramesHold, SameBusy

LEMMA DevHasShape == ASSUME FramesInv PROVE DevShape(dev)
  BY DEF FramesInv, FramesHold

LEMMA BeginHelloFrames == ASSUME FramesInv, BeginHello PROVE FramesInv'
<1> DEFINE k == Call1.k
<1>1. /\ Starting("hello") /\ Persist(None) /\ UNCHANGED mode
      /\ SupersedeActive
      /\ conn' = [j \in Conns |->
          IF j = k /\ conn[j].phase = "hello" THEN [conn[j] EXCEPT !.phase = "open"]
          ELSE IF j # k /\ conn[j].phase = "open"
          THEN [conn[j] EXCEPT !.phase = "closing"] ELSE conn[j]]
  BY DEF BeginHello, proc
<1> HIDE DEF k
<1>2. Keeps(dev, dev')
  BY <1>1, DevHasShape, AbandonKeeps, KeepsItself DEF SupersedeActive
<1>3. ConnsHold(conn) /\ conn' = [j \in Conns |-> conn'[j]]
  BY <1>1 DEF FramesInv, FramesHold
<1>4. ASSUME NEW j \in Conns PROVE OtherPhase(conn[j], conn'[j])
  <2>1. conn'[j] = IF j = k /\ conn[j].phase = "hello" THEN [conn[j] EXCEPT !.phase = "open"]
                   ELSE IF j # k /\ conn[j].phase = "open"
                   THEN [conn[j] EXCEPT !.phase = "closing"] ELSE conn[j]
    BY <1>1
  <2> QED BY <2>1, Zenon DEF OtherPhase
<1>5. ConnsHold(conn') /\ SameBusy(conn, conn')
  BY <1>3, <1>4, PhaseHolds DEF SameBusy
<1> QED BY <1>1, <1>2, <1>5, PersistNext

LEMMA BeginCaseKeeps == ASSUME FramesInv, BeginCase PROVE Keeps(dev, dev')
<1> DEFINE c    == Call1.c
           kept == IF cm.current[Device] \notin {None, c}
                   THEN EvictDeviceCase(dev, cm.current[Device]) ELSE dev
           acks == kept.acks \cup {CaseMsg(c)}
           more == kept.persistent \cup {CaseMsg(c)}
<1>1. dev' = [kept EXCEPT !.acks = acks, !.persistent = more]
  BY DEF BeginCase
<1>2. Keeps(dev, kept)
  BY DevHasShape, EvictKeeps, KeepsItself
<1> HIDE DEF kept, acks, more
<1>3. DevShape(kept)
  BY <1>2 DEF Keeps
<1>4. Keeps(kept, dev')
  BY <1>1, <1>3 DEF Keeps, DevShape
<1> QED BY <1>2, <1>4, KeepsTwice

LEMMA BeginCaseFrames == ASSUME FramesInv, BeginCase PROVE FramesInv'
<1>1. Starting("case") /\ Persist(PersistentState) /\ UNCHANGED mode /\ conn' = conn
  BY DEF BeginCase, proc
<1> QED BY <1>1, BeginCaseKeeps, SameConns, PersistNext

LEMMA BeginRemovalFrames == ASSUME FramesInv, BeginRemoval PROVE FramesInv'
<1>1. /\ txn = NoTxn /\ tail # <<>> /\ tail' = Tail(tail) /\ mode' # "down" /\ UNCHANGED <<dev, conn>>
      /\ txn' = [call |-> Head(tail), snap |-> None, back |-> None, phase |-> "removing"]
  BY DEF BeginRemoval, Starting, Call1, proc
<1>2. Keeps(dev, dev')
  BY <1>1, DevHasShape, KeepsItself
<1> QED BY <1>1, <1>2, SameConns, BeginNext

LEMMA BeginEndKeeps == ASSUME FramesInv, BeginEnd PROVE Keeps(dev, dev')
<1> DEFINE s    == Call1.s
           dv   == ReleaseOwner(dev, s)
           acks == dv.acks \cup {End(s)}
           held == dv.durable \cup {s}
           jobs == [dv.jobs EXCEPT ![s] = [status |-> "queued", file |-> CommitOf(s).file]]
           more == dv.persistent \cup (AboutSegment(s) \cap (dev.acks \cup {End(s)}))
           next == [dv.progress EXCEPT ![s] = None]
<1>1. dev' = [dv EXCEPT !.acks = acks, !.durable = held, !.jobs = jobs, !.persistent = more,
                        !.progress = next]
  BY DEF BeginEnd
<1>2. Keeps(dev, dv)
  BY DevHasShape, ReleaseKeeps
<1> HIDE DEF dv, acks, held, jobs, more, next
<1>3. DevShape(dv)
  BY <1>2 DEF Keeps
<1>4. Keeps(dv, dev')
  BY <1>1, <1>3 DEF Keeps, DevShape
<1> QED BY <1>2, <1>4, KeepsTwice

LEMMA BeginEndFrames == ASSUME FramesInv, BeginEnd PROVE FramesInv'
<1>1. Starting("end") /\ Persist(None) /\ UNCHANGED mode /\ conn' = conn
  BY DEF BeginEnd, proc
<1> QED BY <1>1, BeginEndKeeps, SameConns, PersistNext

LEMMA BeginForeignFrames == ASSUME FramesInv, BeginForeign PROVE FramesInv'
<1>1. Keeps(dev, dev')
  BY DevHasShape, KeepsItself DEF BeginForeign
<1> QED BY <1>1, SameConns, PersistNext DEF BeginForeign, proc

LEMMA BeginWorkFrames ==
  ASSUME FramesInv, BeginTranscribing \/ BeginSaved \/ BeginFailed PROVE FramesInv'
<1>1. Keeps(dev, dev')
  BY DevHasShape, StatusKeeps DEF BeginTranscribing, BeginSaved, BeginFailed
<1> QED BY <1>1, SameConns, PersistNext DEF BeginTranscribing, BeginSaved, BeginFailed, proc

\* One is refused.
LEMMA RefusedNext ==
  ASSUME FramesInv, txn = NoTxn, tail # <<>>, tail' = Tail(tail), mode' # "down",
         UNCHANGED <<txn, conn>>, Keeps(dev, dev')
  PROVE  FramesInv'
<1>1. TxnShape' /\ DownIsEmpty'
  BY DEF FramesInv, TxnShape, DownIsEmpty
<1>2. IsSeq(tail)' /\ Outstanding # <<>> /\ Outstanding' = Tail(Outstanding)
  BY TxnRefused DEF FramesInv
<1>3. FramesHold(Outstanding, conn', dev')
  BY SameConns, QuietStep DEF FramesInv
<1> QED BY <1>1, <1>2, <1>3, CallDropped, FramesNext

LEMMA WorkAbortsFrames == ASSUME FramesInv, WorkAborts PROVE FramesInv'
<1>1. Keeps(dev, dev')
  BY DevHasShape, PoppedKeeps DEF WorkAborts
<1> QED BY <1>1, RefusedNext DEF WorkAborts, Halt, proc

LEMMA RefuseTransactionFrames == ASSUME FramesInv, RefuseTransaction PROVE FramesInv'
<1>1. Keeps(dev, dev')
  BY DevHasShape, PoppedKeeps, KeepsItself DEF RefuseTransaction
<1> QED BY <1>1, RefusedNext DEF RefuseTransaction, Halt, proc

\* One goes on.
LEMMA TxnGoesOn ==
  ASSUME FramesInv, txn # NoTxn, UNCHANGED <<tail, conn>>, mode' # "down", TxnShape', 
         txn'.call = txn.call, Keeps(dev, dev')
  PROVE  FramesInv'
<1>1. DownIsEmpty' /\ IsSeq(tail)'
  BY DEF FramesInv, DownIsEmpty
<1>2. Outstanding # <<>> /\ Outstanding' \in {Outstanding, Tail(Outstanding)}
  BY SeqCons DEF FramesInv, Outstanding
<1>3. FramesHold(Outstanding, conn', dev')
  BY SameConns, QuietStep DEF FramesInv
<1> QED BY <1>1, <1>2, <1>3, CallDropped, FramesNext

LEMMA RenameStateFrames == ASSUME FramesInv, RenameState PROVE FramesInv'
<1>1. TxnShape' /\ txn'.call = txn.call
  BY DEF FramesInv, RenameState, TxnShape
<1>2. Keeps(dev, dev')
  BY DevHasShape, KeepsItself DEF RenameState
<1> QED BY <1>1, <1>2, TxnGoesOn DEF RenameState, proc

LEMMA CleanAudioKeeps == ASSUME FramesInv, CleanAudio PROVE Keeps(dev, dev')
<1> DEFINE s    == txn.call.s
           jobs == [dev.jobs EXCEPT ![s].file = None]
<1>1. dev' = dev \/ dev' = [dev EXCEPT !.jobs = jobs]
  BY DEF CleanAudio
<1> HIDE DEF jobs
<1> QED BY <1>1, DevHasShape, KeepsItself DEF Keeps, DevShape

LEMMA CleanAudioFrames == ASSUME FramesInv, CleanAudio PROVE FramesInv'
<1> DEFINE snap == PersistentState'
<1>1. /\ txn # NoTxn /\ mode' # "down" /\ UNCHANGED <<tail, conn>>
      /\ txn' = [call |-> txn.call, snap |-> snap, back |-> None, phase |-> "writing"]
  BY DEF CleanAudio, Removing, PersistFor, proc
<1> HIDE DEF snap
<1>2. TxnShape' /\ txn'.call = txn.call
  BY <1>1 DEF TxnShape
<1> QED BY <1>1, <1>2, CleanAudioKeeps, TxnGoesOn

\* One ends, and no frame waits for it.
LEMMA EndNext ==
  ASSUME FramesInv, txn # NoTxn, txn' = NoTxn, tail' = tail, mode' # "down",
         ConnsHold(conn'), SameBusy(conn, conn'), Keeps(dev, dev')
  PROVE  FramesInv'
<1>1. /\ TxnShape' /\ DownIsEmpty'
      /\ IsSeq(tail)' /\ Outstanding # <<>> /\ Outstanding' = Tail(Outstanding)
  BY TxnEnds DEF FramesInv, TxnShape, DownIsEmpty
<1>2. FramesHold(Outstanding, conn', dev')
  BY QuietStep DEF FramesInv
<1> QED BY <1>1, <1>2, CallDropped, FramesNext

LEMMA QuietEndFrames ==
  ASSUME FramesInv,
         \/ CleanFails \/ TranscribingReturns \/ CleanReturns \/ ForeignReturns
         \/ UnwrittenWork \/ UnwrittenForeign
  PROVE  FramesInv'
<1>1. Keeps(dev, dev')
  BY DevHasShape, PoppedKeeps, AtKeeps, KeepsItself
     DEF CleanFails, TranscribingReturns, CleanReturns, ForeignReturns, UnwrittenWork,
         UnwrittenForeign
<1>2. txn # NoTxn /\ txn' = NoTxn /\ tail' = tail /\ mode' # "down" /\ conn' = conn
  BY DEF CleanFails, TranscribingReturns, CleanReturns, ForeignReturns, UnwrittenWork,
         UnwrittenForeign, Removing, Returned, Running, Unwritten, Halt, proc
<1> QED BY <1>1, <1>2, SameConns, EndNext

LEMMA OutcomeReturnsFrames == ASSUME FramesInv, OutcomeReturns PROVE FramesInv'
<1> DEFINE call == SegCall("clean", Work.s)
<1>1. /\ txn # NoTxn /\ txn' = NoTxn /\ mode' # "down" /\ conn' = conn
      /\ tail' = Append(tail, call) /\ dev' = At(dev, "clean")
  BY DEF OutcomeReturns, Returned, Running, Enqueue, proc
<1>2. call.op \notin ConnOps /\ call.op \notin EndOps
  BY DEF SegCall, Call, ConnOps, EndOps
<1> HIDE DEF call
<1>3. FramesHold(Tail(Outstanding), conn', dev')
  BY <1>1, DevHasShape, AtKeeps, SameConns, SeqCons, CallDropped, QuietStep
     DEF FramesInv, Outstanding
<1>4. Tail(Outstanding) = tail /\ Outstanding' = tail'
  BY <1>1, SeqCons DEF FramesInv, Outstanding
<1>5. FramesHold(Outstanding', conn', dev') /\ IsSeq(tail')
  BY <1>1, <1>2, <1>3, <1>4, WorkAdded, SeqAppend DEF FramesInv
<1> QED BY <1>1, <1>5, FramesNext DEF TxnShape, DownIsEmpty

\* One ends that a frame waited for.
LEMMA FrameNext ==
  ASSUME FramesInv, txn # NoTxn, txn.call.op \in ConnOps, txn' = NoTxn, tail' = tail, mode' # "down",
         ConnsHold(conn'), \A j \in Conns : j # txn.call.k => conn'[j].busy = conn[j].busy,
         Keeps(dev, dev')
  PROVE  FramesInv'
<1>1. /\ TxnShape' /\ DownIsEmpty' /\ IsSeq(tail)'
      /\ Outstanding # <<>> /\ Head(Outstanding) = txn.call /\ Outstanding' = Tail(Outstanding)
  BY TxnEnds DEF FramesInv, TxnShape, DownIsEmpty
<1>2. FramesHold(Tail(Outstanding), conn', dev)
  BY <1>1, FrameGoesOn DEF FramesInv
<1>3. FramesHold(Tail(Outstanding), conn', dev')
  BY <1>2, QuietStep DEF SameBusy
<1> QED BY <1>1, <1>3, FramesNext

LEMMA ConnHasShape == ASSUME FramesInv PROVE ConnsHold(conn)
  BY DEF FramesInv, FramesHold

LEMMA FrameReturnsFrames == ASSUME FramesInv, HelloReturns \/ CaseReturns PROVE FramesInv'
<1>1. /\ txn # NoTxn /\ txn.call.op \in ConnOps /\ txn' = NoTxn /\ tail' = tail /\ mode' # "down"
      /\ conn' = Idle(txn.call.k) /\ dev' = dev
  BY DEF HelloReturns, CaseReturns, Returned, Running, ConnOps, proc
<1> QED BY <1>1, ConnHasShape, IdleHolds, DevHasShape, KeepsItself, FrameNext

LEMMA UnwrittenHelloFrames == ASSUME FramesInv, UnwrittenHello PROVE FramesInv'
<1> DEFINE k  == txn.call.k
           cn == Idle(k)
<1>1. /\ txn # NoTxn /\ txn.call.op \in ConnOps /\ txn' = NoTxn /\ tail' = tail /\ mode' # "down"
      /\ conn' = [cn EXCEPT ![k].phase = IF @ = "open" THEN "closing" ELSE @]
      /\ dev' = dev
  BY DEF UnwrittenHello, Unwritten, ConnOps, proc
<1>2. ConnsHold(cn) /\ \A j \in Conns : j # k => cn[j].busy = conn[j].busy
  BY ConnHasShape, IdleHolds
<1> HIDE DEF cn
<1>3. /\ conn' = [j \in Conns |-> conn'[j]]
      /\ \A j \in Conns : OtherPhase(cn[j], conn'[j])
  BY <1>1, <1>2 DEF ConnsHold, ConnShape, OtherPhase
<1>4. ConnsHold(conn') /\ \A j \in Conns : conn'[j].busy = cn[j].busy
  BY <1>2, <1>3, PhaseHolds
<1> QED BY <1>1, <1>2, <1>4, DevHasShape, KeepsItself, FrameNext

LEMMA UnwrittenCaseFrames == ASSUME FramesInv, UnwrittenCase PROVE FramesInv'
<1> DEFINE dv == RestoredDevice(txn.back)
<1>1. /\ txn # NoTxn /\ txn.call.op \in ConnOps /\ txn' = NoTxn /\ tail' = tail /\ mode' # "down"
      /\ conn' = Idle(txn.call.k)
      /\ dev' = [dv EXCEPT !.commits = dev.commits, !.queue = dev.queue]
  BY DEF UnwrittenCase, Unwritten, ConnOps, Halt
<1>2. DevShape(dv) /\ dv.active = NoStream
  BY RestoredIsFresh
<1> HIDE DEF dv
<1>3. Keeps(dev, dev')
  BY <1>1, <1>2, DevHasShape DEF Keeps, DevShape
<1> QED BY <1>1, <1>3, ConnHasShape, IdleHolds, FrameNext

\* The commit of a recording ends.
LEMMA CommitNext ==
  ASSUME FramesInv, txn # NoTxn, txn.call.op \in EndOps, txn' = NoTxn, tail' = tail, mode' # "down",
         conn' = Idle(CommitOf(txn.call.s).k),
         NEW dv, Keeps(dev, dv), NEW dw, dw = FinishCommit(dv, txn.call.s), Keeps(dw, dev')
  PROVE  FramesInv'
<1> DEFINE s == txn.call.s
<1>1. /\ TxnShape' /\ DownIsEmpty' /\ IsSeq(tail)'
      /\ Outstanding # <<>> /\ Head(Outstanding) = txn.call /\ Outstanding' = Tail(Outstanding)
  BY TxnEnds DEF FramesInv, TxnShape, DownIsEmpty
<1>2. s \in Segments
  <2>1. IsSeq(Outstanding) /\ Len(Outstanding) \in Nat \ {0} /\ Outstanding[1] = txn.call
    BY <1>1, SeqTail DEF FramesInv, FramesHold, CallsHold
  <2> QED BY <2>1 DEF FramesInv, FramesHold, CallsHold, CallHolds
<1>3. /\ DevShape(dw) /\ dw.active = dv.active
      /\ \A t \in Segments : dw.commits[t] = IF t = s THEN NoCommit ELSE dv.commits[t]
  BY <1>2, FinishLeaves DEF Keeps
<1>4. /\ DevShape(dev') /\ dev'.active \in {dev.active, NoStream}
      /\ \A t \in Segments :
           IF t = s THEN dev'.commits[t].step = "none"
           ELSE dev'.commits[t].k = dev.commits[t].k /\ dev'.commits[t].step = dev.commits[t].step
  BY <1>3 DEF Keeps, NoCommit
<1>5. ConnsHold(conn') /\ \A j \in Conns : j # dev.commits[s].k => conn'[j].busy = conn[j].busy
  BY ConnHasShape, IdleHolds DEF CommitOf
<1>6. FramesHold(Tail(Outstanding), conn', dev')
  BY <1>1, <1>4, <1>5, CommitEnds DEF FramesInv
<1> QED BY <1>1, <1>6, FramesNext

LEMMA ProgressKeeps ==
  ASSUME NEW dv, DevShape(dv), NEW s PROVE Keeps(dv, [dv EXCEPT !.progress[s] = None])
<1> DEFINE next == [dv.progress EXCEPT ![s] = None]
<1>1. [dv EXCEPT !.progress[s] = None] = [dv EXCEPT !.progress = next]
  OBVIOUS
<1> HIDE DEF next
<1> QED BY <1>1 DEF Keeps, DevShape

LEMMA FailCommitLeaves ==
  ASSUME DevShape(dev), NEW s \in Segments, FailCommit(s)
  PROVE  \E dv : Keeps(dev, dv) /\ dev' = FinishCommit(dv, s)
<1>1. CASE mode # "up" \/ CommitOf(s).stale
  <2> DEFINE dv == ReleaseOwner(dev, s)
             dw == [dv EXCEPT !.progress[s] = None]
  <2>1. dev' = FinishCommit(dw, s)
    BY <1>1 DEF FailCommit
  <2>2. Keeps(dev, dv)
    BY ReleaseKeeps
  <2> HIDE DEF dv
  <2>3. Keeps(dv, dw)
    BY <2>2, ProgressKeeps DEF Keeps
  <2> HIDE DEF dw
  <2> QED BY <2>1, <2>2, <2>3, KeepsTwice
<1>2. CASE ~(mode # "up" \/ CommitOf(s).stale)
  <2> DEFINE dv == DiscardLedger(dev, {s})
             dw == ReleaseOwner(dv, s)
  <2>1. dev' = FinishCommit(dw, s)
    BY <1>2 DEF FailCommit
  <2>2. Keeps(dev, dv)
    BY DiscardKeeps
  <2> HIDE DEF dv
  <2>3. Keeps(dv, dw)
    BY <2>2, ReleaseKeeps DEF Keeps
  <2> HIDE DEF dw
  <2> QED BY <2>1, <2>2, <2>3, KeepsTwice
<1> QED BY <1>1, <1>2

LEMMA EndingSegment ==
  ASSUME FramesInv, txn # NoTxn, txn.call.op \in EndOps PROVE txn.call.s \in Segments
<1>1. Outstanding = <<txn.call>> \o tail /\ IsSeq(tail) /\ IsSeq(Outstanding)
  BY DEF FramesInv, FramesHold, CallsHold, Outstanding
<1>2. Outstanding # <<>> /\ Head(Outstanding) = txn.call
  BY <1>1, SeqCons
<1>3. Len(Outstanding) \in Nat \ {0} /\ Outstanding[1] = txn.call
  BY <1>1, <1>2, SeqTail
<1> QED BY <1>3 DEF FramesInv, FramesHold, CallsHold, CallHolds

LEMMA EndReturnsFrames == ASSUME FramesInv, EndReturns PROVE FramesInv'
<1> DEFINE s  == txn.call.s
           dw == FinishCommit(dev, s)
           q  == Append(dw.queue, QueueEntry(s, CommitOf(s).file))
<1>1. /\ txn # NoTxn /\ txn.call.op \in EndOps /\ txn' = NoTxn /\ tail' = tail /\ mode' # "down"
      /\ conn' = Idle(CommitOf(s).k)
      /\ dev' = dw \/ dev' = [dw EXCEPT !.queue = q]
  BY DEF EndReturns, Returned, Running, EndOps, proc
<1>2. DevShape(dw)
  BY <1>1, EndingSegment, DevHasShape, FinishLeaves
<1>3. Keeps(dev, dev) /\ dw = FinishCommit(dev, s)
  BY DevHasShape, KeepsItself
<1> HIDE DEF dw, q, s
<1>4. Keeps(dw, dev')
  <2>1. CASE dev' = dw
    BY <1>2, <2>1, KeepsItself
  <2>2. CASE dev' = [dw EXCEPT !.queue = q]
    BY <1>2, <2>2 DEF Keeps, DevShape
  <2> QED BY <1>1, <2>1, <2>2
<1> QED BY <1>1, <1>3, <1>4, CommitNext DEF s

LEMMA FailCommitFrames == ASSUME FramesInv, FinishFailCommit \/ UnwrittenEnd PROVE FramesInv'
<1> DEFINE s == txn.call.s
<1>1. /\ txn # NoTxn /\ txn.call.op \in EndOps /\ txn' = NoTxn /\ tail' = tail /\ mode' # "down"
      /\ conn' = Idle(CommitOf(s).k) /\ FailCommit(s)
  BY DEF FinishFailCommit, UnwrittenEnd, Removing, Unwritten, EndOps, proc
<1>2. PICK dv : Keeps(dev, dv) /\ dev' = FinishCommit(dv, s)
  BY <1>1, EndingSegment, DevHasShape, FailCommitLeaves
<1>3. Keeps(dev', dev')
  BY <1>1, <1>2, EndingSegment, FinishLeaves, KeepsItself DEF Keeps
<1> QED BY <1>1, <1>2, <1>3, CommitNext

LEMMA CommitFailsVisibleFrames == ASSUME FramesInv, CommitFailsVisible PROVE FramesInv'
<1> DEFINE call == txn.call
<1>1. /\ txn # NoTxn /\ txn' = NoTxn /\ tail' = tail /\ mode' # "down"
      /\ dev' = IF call.op = "end" THEN FinishCommit(ReleaseOwner(dev, call.s), call.s)
                ELSE IF call.op \in WorkOps THEN Popped(dev) ELSE dev
      /\ conn' = IF call.op \in {"hello", "case"} THEN Idle(call.k)
                 ELSE IF call.op = "end" THEN Idle(CommitOf(call.s).k) ELSE conn
  BY DEF CommitFailsVisible, Halt, proc
<1>2. CASE call.op = "end"
  <2> DEFINE dv == ReleaseOwner(dev, call.s)
  <2>1. dev' = FinishCommit(dv, call.s) /\ conn' = Idle(CommitOf(call.s).k) /\ call.op \in EndOps
    BY <1>1, <1>2 DEF EndOps
  <2>2. Keeps(dev, dv)
    BY DevHasShape, ReleaseKeeps
  <2> HIDE DEF dv
  <2>3. Keeps(dev', dev')
    BY <1>1, <2>1, <2>2, EndingSegment, FinishLeaves, KeepsItself DEF Keeps
  <2> QED BY <1>1, <2>1, <2>2, <2>3, CommitNext
<1>3. CASE call.op \in {"hello", "case"}
  <2>1. conn' = Idle(call.k) /\ call.op \in ConnOps /\ dev' = dev
    BY <1>1, <1>3 DEF ConnOps, WorkOps
  <2> QED BY <1>1, <2>1, ConnHasShape, IdleHolds, DevHasShape, KeepsItself, FrameNext
<1>4. CASE call.op \notin {"hello", "case", "end"}
  <2>1. conn' = conn /\ Keeps(dev, dev')
    BY <1>1, <1>4, DevHasShape, PoppedKeeps, KeepsItself
  <2> QED BY <1>1, <2>1, SameConns, EndNext
<1> QED BY <1>2, <1>3, <1>4

\* A transaction is asked for that no frame waits for.
LEMMA WorkNext ==
  ASSUME FramesInv, NEW call, call.op \notin ConnOps, call.op \notin EndOps,
         tail' = Append(tail, call), UNCHANGED <<txn, conn>>, mode # "down", mode' # "down",
         Keeps(dev, dev')
  PROVE  FramesInv'
<1>1. IsSeq(tail)' /\ Outstanding' = Append(Outstanding, call)
  BY TxnAsked DEF FramesInv
<1>2. FramesHold(Outstanding, conn', dev')
  BY SameConns, QuietStep DEF FramesInv
<1> QED BY <1>1, <1>2, WorkAdded, FramesNext DEF FramesInv, TxnShape, DownIsEmpty

LEMMA QueueFrames == ASSUME FramesInv, StartWork \/ Recognise PROVE FramesInv'
<1>1. mode # "down" /\ mode' # "down" /\ UNCHANGED <<txn, conn>>
  BY DEF StartWork, Recognise, proc
<1>2. Keeps(dev, dev')
  BY DevHasShape, AtKeeps, PoppedKeeps DEF StartWork, Recognise
<1>3. ASSUME NEW op, NEW s, NEW text, op \in WorkOps
      PROVE  LET call == Call(op, None, None, s, text)
             IN  call.op \notin ConnOps /\ call.op \notin EndOps
  BY <1>3 DEF Call, WorkOps, ConnOps, EndOps
<1>4. \/ tail' = tail
      \/ \E op, s, text : op \in WorkOps /\ tail' = Append(tail, Call(op, None, None, s, text))
  <2>1. {"begin", "saved", "failed"} \subseteq WorkOps
    BY DEF WorkOps
  <2>2. CASE StartWork
    BY <2>1, <2>2, Zenon DEF StartWork, Enqueue, SegCall
  <2>3. CASE Recognise
    BY <2>1, <2>3, Zenon DEF Recognise, Enqueue, SegCall
  <2> QED BY <2>2, <2>3
<1>5. ASSUME NEW op, NEW s, NEW text, op \in WorkOps,
             tail' = Append(tail, Call(op, None, None, s, text))
      PROVE  FramesInv'
  BY <1>1, <1>2, <1>3, <1>5, WorkNext
<1> QED BY <1>1, <1>2, <1>4, <1>5, SameConns, QuietNext

LEMMA SubmitForeignFrames == ASSUME FramesInv, SubmitForeign PROVE FramesInv'
<1> DEFINE call == Call("foreign", None, None, None, None)
<1>1. /\ mode # "down" /\ mode' # "down" /\ UNCHANGED <<txn, conn>> /\ tail' = Append(tail, call)
      /\ dev' = dev
  BY DEF SubmitForeign, Enqueue, proc
<1>2. call.op \notin ConnOps /\ call.op \notin EndOps
  BY DEF Call, ConnOps, EndOps
<1> HIDE DEF call
<1> QED BY <1>1, <1>2, DevHasShape, KeepsItself, WorkNext

LEMMA StopFrames == ASSUME FramesInv, Stop PROVE FramesInv'
<1>1. mode' # "down" /\ UNCHANGED <<tail, txn, conn, dev>>
  BY DEF Stop
<1> QED BY <1>1, SameConns, DevHasShape, KeepsItself, QuietNext

LEMMA BeginExitFrames == ASSUME FramesInv, BeginExit PROVE FramesInv'
<1> DEFINE dv == DiscardLedger(dev, Cut)
           a  == IF dv.active # NoStream /\ dv.active.seg \in Cut THEN NoStream ELSE dv.active
<1>1. mode' # "down" /\ UNCHANGED <<tail, txn, conn>> /\ dev' = [dv EXCEPT !.active = a]
  BY DEF BeginExit
<1>2. Keeps(dev, dv)
  BY DevHasShape, DiscardKeeps
<1>3. a \in {dv.active, NoStream}
  OBVIOUS
<1> HIDE DEF dv, a
<1>4. Keeps(dv, dev')
  BY <1>1, <1>2, <1>3 DEF Keeps, DevShape
<1> QED BY <1>1, <1>2, <1>4, KeepsTwice, SameConns, QuietNext

----------------------------------------------------------------------------
(* The process ends, and begins.                                           *)

LEMMA NoConnsHold ==
  ASSUME NEW cn, cn = [k \in Conns |-> NoConn] PROVE ConnsHold(cn)
  BY DEF ConnsHold, ConnShape, NoConn

LEMMA ForgetFrames == ASSUME ForgetProcess PROVE FramesInv'
<1>1. /\ tail' = <<>> /\ txn' = NoTxn
      /\ conn' = [k \in Conns |-> NoConn] /\ dev' = FreshDevice
  BY DEF ForgetProcess
<1>2. FramesHold(<<>>, conn', dev')
  BY <1>1, NoConnsHold, FreshKeepsNothing, NothingWaits DEF NoCommit
<1>3. IsSeq(tail')
  BY <1>1 DEF IsSeq
<1> QED BY <1>1, <1>2, <1>3, FramesNext DEF Outstanding, TxnShape, DownIsEmpty

LEMMA InitFrames == ASSUME Init PROVE FramesInv
<1>1. /\ tail = <<>> /\ txn = NoTxn
      /\ conn = [k \in Conns |-> NoConn] /\ dev = FreshDevice
  BY DEF Init
<1>2. FramesHold(<<>>, conn, dev)
  BY <1>1, NoConnsHold, FreshKeepsNothing, NothingWaits DEF NoCommit
<1>3. IsSeq(tail)
  BY <1>1 DEF IsSeq
<1> QED BY <1>1, <1>2, <1>3 DEF FramesInv, Outstanding, TxnShape, DownIsEmpty

\* A device that has just been restored has no stream and no commit.
LEMMA RecoveredIsFresh ==
  ASSUME NEW stuck, NEW queue, NEW dv, dv = [RecoveredDevice(stuck) EXCEPT !.queue = queue]
  PROVE  DevShape(dv) /\ dv.active = NoStream /\ \A s \in Segments : dv.commits[s].step = "none"
<1> DEFINE dx   == RestoredDevice(disk)
           dw   == DiscardLedger(dx, LostJobs)
           jobs == [s \in Segments |-> IF Pending(dw.jobs[s]) \/ s \in stuck THEN dw.jobs[s]
                                       ELSE [dw.jobs[s] EXCEPT !.file = None]]
<1>1. DevShape(dx) /\ dx.active = NoStream /\ \A s \in Segments : dx.commits[s].step = "none"
  BY RestoredIsFresh DEF NoCommit
<1>2. dv = [[dw EXCEPT !.jobs = jobs] EXCEPT !.queue = queue]
  BY DEF RecoveredDevice
<1> HIDE DEF dx, jobs
<1>3. Keeps(dx, dw) /\ dw.active = NoStream
  BY <1>1, DiscardKeeps
<1> HIDE DEF dw
<1> QED BY <1>1, <1>2, <1>3 DEF Keeps, DevShape

LEMMA RecoverFrames == ASSUME FramesInv, Recover PROVE FramesInv'
<1>1. /\ tail = <<>> /\ txn = NoTxn /\ UNCHANGED <<tail, txn, conn>>
      /\ \/ dev' = dev
         \/ \E stuck, queue : dev' = [RecoveredDevice(stuck) EXCEPT !.queue = queue]
  <2>1. mode = "down" /\ UNCHANGED <<tail, txn, conn>>
    BY DEF Recover
  <2>2. \/ dev' = dev
        \/ \E stuck, queue : dev' = [RecoveredDevice(stuck) EXCEPT !.queue = queue]
    BY Zenon DEF Recover
  <2> QED BY <2>1, <2>2 DEF FramesInv, DownIsEmpty
<1>2. Outstanding = <<>> /\ Outstanding' = <<>> /\ IsSeq(tail)' /\ TxnShape' /\ DownIsEmpty'
  BY <1>1 DEF Outstanding, FramesInv, TxnShape, DownIsEmpty
<1>3. CASE dev' = dev
  BY <1>1, <1>2, <1>3, FramesNext DEF FramesInv
<1>4. CASE \E stuck, queue : dev' = [RecoveredDevice(stuck) EXCEPT !.queue = queue]
  BY <1>1, <1>2, <1>4, ConnHasShape, RecoveredIsFresh, NothingWaits, FramesNext
<1> QED BY <1>1, <1>3, <1>4

----------------------------------------------------------------------------
(* The owner of the stream.                                                *)

\* The stream, if there is one, is its owner's still.
OwnerKept == dev'.active # NoStream => dev.active # NoStream /\ dev'.active.owner = dev.active.owner

\* A step that opens no stream and closes no connection.
LEMMA OwnerStays ==
  ASSUME FramesInv, OwnerIsCurrent, OwnerKept, mode' = "up" => mode = "up", current' = current,
         \A j \in Conns : conn'[j].phase = "closed" => conn[j].phase = "closed"
  PROVE  OwnerIsCurrent'
  BY DEF FramesInv, FramesHold, StreamHolds, OwnerIsCurrent, OwnerKept

LEMMA OwnerOfKept == ASSUME Keeps(dev, dev') PROVE OwnerKept
  BY DEF Keeps, OwnerKept

LEMMA SendHelloOwner ==
  ASSUME FramesInv, OwnerIsCurrent, NEW k \in Conns, SendHello(k) PROVE OwnerIsCurrent'
<1>1. /\ UNCHANGED <<mode, dev, current>>
      /\ conn' = [conn EXCEPT ![k] = [phase |-> "hello", busy |-> "txn", on |-> None]]
  BY DEF SendHello, proc
<1>2. \A j \in Conns : conn'[j].phase = "closed" => conn[j].phase = "closed"
  BY <1>1, ConnHasShape DEF ConnsHold, ConnShape
<1> QED BY <1>1, <1>2, OwnerStays DEF OwnerKept

LEMMA CloseConnectionOwner ==
  ASSUME FramesInv, OwnerIsCurrent, NEW k \in Conns, CloseConnection(k) PROVE OwnerIsCurrent'
<1>1. /\ UNCHANGED <<mode, current>> /\ conn' = [conn EXCEPT ![k].phase = "closed"]
      /\ IF dev.active # NoStream /\ dev.active.owner = k THEN AbandonActive ELSE UNCHANGED dev
  BY DEF CloseConnection, proc
<1>2. \A j \in Conns : j # k => conn'[j] = conn[j]
  BY <1>1, ConnHasShape DEF ConnsHold, ConnShape
<1>3. CASE dev.active # NoStream /\ dev.active.owner = k
  BY <1>1, <1>3, DevHasShape, AbandonKeeps DEF OwnerIsCurrent
<1>4. CASE ~(dev.active # NoStream /\ dev.active.owner = k)
  <2>1. dev' = dev
    BY <1>1, <1>4
  <2> QED BY <1>1, <1>2, <1>4, <2>1 DEF OwnerIsCurrent, FramesInv, FramesHold, StreamHolds
<1> QED BY <1>3, <1>4

LEMMA ForgetConnectionOwner ==
  ASSUME FramesInv, OwnerIsCurrent, NEW k \in Conns, ForgetConnection(k) PROVE OwnerIsCurrent'
<1>1. /\ UNCHANGED <<mode, dev>> /\ conn[k].phase = "closed" /\ conn' = [conn EXCEPT ![k] = NoConn]
      /\ current' = IF current = k THEN None ELSE current
  BY DEF ForgetConnection, proc
<1>2. \A j \in Conns : j # k => conn'[j] = conn[j]
  BY <1>1, ConnHasShape DEF ConnsHold, ConnShape
<1> QED BY <1>1, <1>2 DEF OwnerIsCurrent, FramesInv, FramesHold, StreamHolds

\* A stream is opened for the current connection.
LEMMA OwnerOpens ==
  ASSUME NEW k, dev'.active # NoStream => dev'.active.owner = k, current' = k, conn'[k].phase # "closed"
  PROVE  OwnerIsCurrent'
  BY DEF OwnerIsCurrent

LEMMA StartSpeechOwner ==
  ASSUME FramesInv, OwnerIsCurrent, NEW k \in Conns, NEW c \in Cases, NEW s \in Segments,
         StartSpeech(k, c, s)
  PROVE  OwnerIsCurrent'
<1>1. /\ UNCHANGED <<mode, current>> /\ current = k /\ conn[k].phase = "open"
      /\ OpenStream(k, c, s)
      /\ conn' = [conn EXCEPT ![k].on = s]
  BY DEF StartSpeech, Ready, proc
<1>2. \A j \in Conns : conn'[j].phase = conn[j].phase
  BY <1>1, ConnHasShape DEF ConnsHold, ConnShape
<1>3. dev' = dev \/ dev'.active.owner = k
  BY <1>1, DevHasShape, OpenStreamLeaves
<1> QED BY <1>1, <1>2, <1>3, OwnerOpens, OwnerStays DEF OwnerKept

LEMMA ResumeStartOwner ==
  ASSUME FramesInv, OwnerIsCurrent, NEW k \in Conns, ResumeStart(k) PROVE OwnerIsCurrent'
<1> DEFINE s == conn[k].on
           c == cm.seg[s].case
<1>1. /\ UNCHANGED <<mode, current>> /\ conn[k].busy = "wait" /\ conn' = Idle(k)
      /\ \/ dev' = dev
         \/ /\ StillCurrent(k)
            /\ \/ dev' = [dev EXCEPT !.active = Recording(k, s, TRUE)]
               \/ OpenStream(k, c, s) \/ RefuseStream(k, c, s)
  BY DEF ResumeStart, Resumable, proc
<1>2. s \in Segments /\ DevShape(dev) /\ \A j \in Conns : conn'[j].phase = conn[j].phase
  BY <1>1, ConnHasShape, DevHasShape, IdleHolds DEF ConnsHold
<1> HIDE DEF s, c
<1>3. CASE dev' = dev
  BY <1>1, <1>2, <1>3, OwnerStays DEF OwnerKept
<1>4. CASE StillCurrent(k) /\ dev' = [dev EXCEPT !.active = Recording(k, s, TRUE)]
  <2>1. dev'.active.owner = k
    BY <1>2, <1>4 DEF DevShape, Recording
  <2> QED BY <1>1, <1>2, <1>4, <2>1, OwnerOpens DEF StillCurrent
<1>5. CASE StillCurrent(k) /\ (OpenStream(k, c, s) \/ RefuseStream(k, c, s))
  <2>1. dev' = dev \/ dev'.active.owner = k
    BY <1>2, <1>5, OpenStreamLeaves
  <2> QED BY <1>1, <1>2, <1>3, <1>5, <2>1, OwnerOpens DEF StillCurrent
<1> QED BY <1>1, <1>3, <1>4, <1>5

\* A frame that opens no stream leaves the connections open that are.
LEMMA FrameOwner ==
  ASSUME FramesInv, OwnerIsCurrent, NEW k \in Conns, UNCHANGED <<mode, current>>, OwnerKept,
         \A j \in Conns : conn'[j].phase = conn[j].phase
  PROVE  OwnerIsCurrent'
  BY OwnerStays

LEMMA PhaseStays ==
  ASSUME FramesInv, NEW k \in Conns, NEW busy, NEW on,
         conn' = [conn EXCEPT ![k].busy = busy, ![k].on = on]
  PROVE  \A j \in Conns : conn'[j].phase = conn[j].phase
<1> DEFINE row == [conn[k] EXCEPT !.busy = busy]
           cn  == [conn EXCEPT ![k] = row]
<1>1. conn = [j \in Conns |-> conn[j]]
      /\ conn[k] = [phase |-> conn[k].phase, busy |-> conn[k].busy, on |-> conn[k].on]
  BY ConnHasShape DEF ConnsHold, ConnShape
<1>2. row = [phase |-> conn[k].phase, busy |-> busy, on |-> conn[k].on]
  BY <1>1
<1>3. conn' = [cn EXCEPT ![k].on = on]
  OBVIOUS
<1> HIDE DEF row
<1>4. /\ cn = [j \in Conns |-> cn[j]] /\ \A j \in Conns : j # k => cn[j] = conn[j]
      /\ cn[k] = row
  BY <1>1
<1> HIDE DEF cn
<1> DEFINE last == [row EXCEPT !.on = on]
<1>5. last.phase = conn[k].phase
  BY <1>2
<1>6. conn' = [cn EXCEPT ![k] = last]
  BY <1>3, <1>4
<1> HIDE DEF last
<1> QED BY <1>4, <1>5, <1>6

LEMMA AskedOwner ==
  ASSUME FramesInv, OwnerIsCurrent, NEW k \in Conns,
         \/ \E c \in Cases : SendCaseStart(k, c)
         \/ \E s \in Segments : WaitForCommit(k, s) \/ EndMissing(k, s)
  PROVE  OwnerIsCurrent'
<1>1. UNCHANGED <<mode, current, dev>>
  BY DEF SendCaseStart, WaitForCommit, EndMissing, proc
<1>2. \A j \in Conns : conn'[j].phase = conn[j].phase
  <2>1. CASE \E c \in Cases : SendCaseStart(k, c)
    BY <2>1, ConnHasShape DEF SendCaseStart, ConnsHold, ConnShape
  <2>2. CASE \E s \in Segments : EndMissing(k, s)
    BY <2>2, ConnHasShape DEF EndMissing, ConnsHold, ConnShape
  <2>3. CASE \E s \in Segments : WaitForCommit(k, s)
    <3>1. PICK s \in Segments : conn' = [conn EXCEPT ![k].busy = "wait", ![k].on = s]
      BY <2>3 DEF WaitForCommit
    <3> QED BY <3>1, PhaseStays
  <2> QED BY <2>1, <2>2, <2>3
<1> QED BY <1>1, <1>2, OwnerStays DEF OwnerKept

LEMMA StreamOwner ==
  ASSUME FramesInv, OwnerIsCurrent, NEW k \in Conns,
         \/ \E sequence \in 0..MaxPcm : AppendSpeech(k, sequence)
         \/ \E s \in Segments : EndReplayed(k, s) \/ EndMismatch(k, s)
  PROVE  OwnerIsCurrent'
<1>1. UNCHANGED <<mode, current>>
  BY DEF AppendSpeech, EndReplayed, EndMismatch, proc
<1>2. \A j \in Conns : conn'[j].phase = conn[j].phase
  BY ConnHasShape DEF AppendSpeech, EndReplayed, EndMismatch, ConnsHold, ConnShape
<1>3. OwnerKept
  <2>1. ASSUME NEW sequence, AppendSpeech(k, sequence) PROVE OwnerKept
    <3> DEFINE s == dev.active.seg
               progress == [dev.progress EXCEPT ![s] = @ + 1]
    <3>1. dev' = dev \/ dev' = [dev EXCEPT !.progress = progress] \/ FailRecording(s)
      BY <2>1 DEF AppendSpeech
    <3> HIDE DEF s, progress
    <3> QED BY <3>1, DevHasShape, FailKeeps DEF OwnerKept, DevShape
  <2>2. ASSUME NEW s, EndReplayed(k, s) PROVE OwnerKept
    BY <2>2, DevHasShape DEF EndReplayed, OwnerKept, DevShape
  <2>3. ASSUME NEW s, EndMismatch(k, s) PROVE OwnerKept
    BY <2>3, DevHasShape, FailKeeps DEF EndMismatch, OwnerKept
  <2> QED BY <2>1, <2>2, <2>3
<1> QED BY <1>1, <1>2, <1>3, OwnerStays

LEMMA EndSpeechOwner ==
  ASSUME FramesInv, OwnerIsCurrent, NEW k \in Conns, NEW s \in Segments, EndSpeech(k, s)
  PROVE  OwnerIsCurrent'
<1> DEFINE row == [k |-> k, stale |-> FALSE, file |-> None, step |-> "writing"]
           stream == [dev.active EXCEPT !.committing = TRUE]
           work == [dev.commits EXCEPT ![s] = row]
<1>1. /\ UNCHANGED <<mode, current>> /\ dev.active # NoStream /\ current = k /\ conn[k].phase = "open"
      /\ dev.active.owner = k /\ dev' = [dev EXCEPT !.active = stream, !.commits = work]
      /\ conn' = [conn EXCEPT ![k].busy = "commit", ![k].on = None]
  BY DEF EndSpeech, Ready, Owns, proc
<1>2. stream.owner = k
  BY <1>1
<1>3. dev'.active = stream
  <2> HIDE DEF stream, work
  <2> QED BY <1>1, DevHasShape DEF DevShape
<1>4. conn'[k].phase = "open"
  BY <1>1, PhaseStays
<1> QED BY <1>1, <1>2, <1>3, <1>4, OwnerOpens

LEMMA WavOwner ==
  ASSUME FramesInv, OwnerIsCurrent, NEW s \in Segments, WriteWav(s) \/ WriteWavFails(s)
  PROVE  OwnerIsCurrent'
<1>1. UNCHANGED <<mode, current, conn>>
  BY DEF WriteWav, WriteWavFails, proc
<1>2. dev'.active = dev.active
  <2>1. ASSUME NEW file, dev' = [dev EXCEPT !.commits[s].file = file, !.commits[s].step = "done"]
        PROVE  dev'.active = dev.active
    <3> DEFINE first  == [dev.commits EXCEPT ![s].file = file]
               mid    == [dev EXCEPT !.commits = first]
               second == [mid.commits EXCEPT ![s].step = "done"]
    <3>1. dev' = [mid EXCEPT !.commits = second]
      BY <2>1
    <3> HIDE DEF first, second
    <3> QED BY <3>1, DevHasShape DEF DevShape
  <2>2. ASSUME dev' = [dev EXCEPT !.commits[s].step = "done"]
        PROVE  dev'.active = dev.active
    <3> DEFINE work == [dev.commits EXCEPT ![s].step = "done"]
    <3>1. dev' = [dev EXCEPT !.commits = work]
      BY <2>2
    <3> HIDE DEF work
    <3> QED BY <3>1, DevHasShape DEF DevShape
  <2> QED BY <2>1, <2>2 DEF WriteWav, WriteWavFails
<1> QED BY <1>1, <1>2, OwnerStays DEF OwnerKept

\* hello takes the stream from whoever has it.
LEMMA BeginHelloOwner == ASSUME FramesInv, BeginHello PROVE OwnerIsCurrent'
<1>1. dev'.active = NoStream
  BY DevHasShape, AbandonKeeps DEF BeginHello, SupersedeActive
<1> QED BY <1>1 DEF OwnerIsCurrent

\* Transactions that leave the connections as they are.
LEMMA TransactionOwner ==
  ASSUME FramesInv, OwnerIsCurrent,
         \/ BeginRemoval \/ BeginForeign \/ BeginTranscribing \/ BeginSaved \/ BeginFailed
         \/ WorkAborts \/ RefuseTransaction \/ RenameState \/ CleanFails
         \/ TranscribingReturns \/ OutcomeReturns \/ CleanReturns \/ ForeignReturns
         \/ UnwrittenWork \/ UnwrittenForeign
         \/ StartWork \/ Recognise \/ SubmitForeign \/ Stop
  PROVE  OwnerIsCurrent'
<1>1. UNCHANGED <<current, conn>> /\ (mode' = "up" => mode = "up")
  BY DEF BeginRemoval, BeginForeign, BeginTranscribing, BeginSaved, BeginFailed, WorkAborts,
         RefuseTransaction, RenameState, CleanFails, TranscribingReturns, OutcomeReturns,
         CleanReturns, ForeignReturns, UnwrittenWork, UnwrittenForeign, Unwritten, StartWork,
         Recognise, SubmitForeign, Stop, Halt, proc
<1>2. Keeps(dev, dev')
  BY DevHasShape, KeepsItself, PoppedKeeps, AtKeeps, StatusKeeps
     DEF BeginRemoval, BeginForeign, BeginTranscribing, BeginSaved, BeginFailed, WorkAborts,
         RefuseTransaction, RenameState, CleanFails, TranscribingReturns, OutcomeReturns,
         CleanReturns, ForeignReturns, UnwrittenWork, UnwrittenForeign, StartWork,
         Recognise, SubmitForeign, Stop
<1> QED BY <1>1, <1>2, OwnerOfKept, OwnerStays

LEMMA ShutdownOwner ==
  ASSUME FramesInv, OwnerIsCurrent, BeginExit \/ FinishExit \/ Crash \/ Recover
  PROVE  OwnerIsCurrent'
<1>1. CASE BeginExit
  BY <1>1 DEF BeginExit, OwnerIsCurrent
<1>2. CASE FinishExit \/ Crash
  BY <1>2 DEF FinishExit, Crash, OwnerIsCurrent
<1>3. CASE Recover
  <2>1. mode' = "down" \/ \E stuck, queue : dev' = [RecoveredDevice(stuck) EXCEPT !.queue = queue]
    BY <1>3, Zenon DEF Recover
  <2> QED BY <2>1, RecoveredIsFresh DEF OwnerIsCurrent
<1> QED BY <1>1, <1>2, <1>3

LEMMA SnapshotOwner ==
  ASSUME FramesInv, OwnerIsCurrent, BeginCase \/ BeginEnd \/ CleanAudio PROVE OwnerIsCurrent'
<1>1. UNCHANGED <<mode, current, conn>>
  BY DEF BeginCase, BeginEnd, CleanAudio, proc
<1> QED BY <1>1, BeginCaseKeeps, BeginEndKeeps, CleanAudioKeeps, OwnerOfKept, OwnerStays

\* A frame that waited goes on.
LEMMA IdleOwner ==
  ASSUME FramesInv, OwnerIsCurrent, NEW k, conn' = Idle(k), OwnerKept,
         mode' = "up" => mode = "up", current' = current
  PROVE  OwnerIsCurrent'
  BY ConnHasShape, IdleHolds, OwnerStays

LEMMA FrameEndsOwner ==
  ASSUME FramesInv, OwnerIsCurrent, HelloReturns \/ CaseReturns \/ UnwrittenHello \/ UnwrittenCase
  PROVE  OwnerIsCurrent'
<1>1. CASE HelloReturns \/ CaseReturns
  BY <1>1, IdleOwner DEF HelloReturns, CaseReturns, OwnerKept, proc
<1>2. CASE UnwrittenCase
  BY <1>2 DEF UnwrittenCase, Halt, OwnerIsCurrent
<1>3. CASE UnwrittenHello
  <2> DEFINE k  == txn.call.k
             cn == Idle(k)
  <2>1. /\ UNCHANGED <<mode, dev, current>>
        /\ conn' = [cn EXCEPT ![k].phase = IF @ = "open" THEN "closing" ELSE @]
    BY <1>3 DEF UnwrittenHello, Unwritten, proc
  <2>2. ConnsHold(cn) /\ \A j \in Conns : cn[j].phase = conn[j].phase
    BY ConnHasShape, IdleHolds
  <2> HIDE DEF cn
  <2>3. \A j \in Conns : conn'[j].phase = "closed" => cn[j].phase = "closed"
    BY <2>1, <2>2 DEF ConnsHold, ConnShape
  <2> QED BY <2>1, <2>2, <2>3, OwnerStays DEF OwnerKept
<1> QED BY <1>1, <1>2, <1>3

LEMMA CommitOwner ==
  ASSUME FramesInv, OwnerIsCurrent,
         EndReturns \/ FinishFailCommit \/ UnwrittenEnd \/ CommitFailsVisible
  PROVE  OwnerIsCurrent'
<1> DEFINE s == txn.call.s
<1>1. CASE FinishFailCommit \/ UnwrittenEnd
  <2>1. /\ FailCommit(s) /\ conn' = Idle(CommitOf(s).k) /\ UNCHANGED <<mode, current>>
        /\ s \in Segments
    BY <1>1, EndingSegment DEF FinishFailCommit, UnwrittenEnd, Unwritten, Removing, EndOps, proc
  <2>2. PICK dv : Keeps(dev, dv) /\ dev' = FinishCommit(dv, s)
    BY <2>1, DevHasShape, FailCommitLeaves
  <2>3. OwnerKept
    BY <2>1, <2>2, FinishLeaves DEF Keeps, OwnerKept
  <2> QED BY <2>1, <2>3, IdleOwner
<1>2. CASE EndReturns
  <2> DEFINE dw == FinishCommit(dev, s)
             q  == Append(dw.queue, QueueEntry(s, CommitOf(s).file))
  <2>1. /\ dev' = dw \/ dev' = [dw EXCEPT !.queue = q]
        /\ conn' = Idle(CommitOf(s).k) /\ UNCHANGED <<mode, current>> /\ s \in Segments
    BY <1>2, EndingSegment DEF EndReturns, Returned, Running, EndOps, proc
  <2>2. DevShape(dw) /\ dw.active = dev.active
    BY <2>1, DevHasShape, FinishLeaves
  <2> HIDE DEF dw, q
  <2>3. OwnerKept
    BY <2>1, <2>2 DEF OwnerKept, DevShape
  <2> QED BY <2>1, <2>3, IdleOwner
<1>3. CASE CommitFailsVisible
  <2> DEFINE call == txn.call
             dv == ReleaseOwner(dev, s)
  <2>1. /\ txn # NoTxn /\ current' = current /\ (mode' = "up" => mode = "up")
        /\ dev' = IF call.op = "end" THEN FinishCommit(dv, s)
                  ELSE IF call.op \in WorkOps THEN Popped(dev) ELSE dev
        /\ \/ conn' = conn
           \/ \E k : conn' = Idle(k)
    BY <1>3 DEF CommitFailsVisible, Halt, proc
  <2>2. Keeps(dev, dv)
    BY DevHasShape, ReleaseKeeps
  <2> HIDE DEF dv
  <2>3. OwnerKept
    <3>1. CASE call.op = "end"
      BY <2>1, <2>2, <3>1, EndingSegment, FinishLeaves DEF EndOps, Keeps, OwnerKept
    <3>2. CASE call.op # "end"
      BY <2>1, <3>2, DevHasShape, PoppedKeeps, KeepsItself, OwnerOfKept
    <3> QED BY <3>1, <3>2
  <2> QED BY <2>1, <2>3, IdleOwner, OwnerStays
<1> QED BY <1>1, <1>2, <1>3

----------------------------------------------------------------------------
(* The invariant.                                                          *)

LEMMA StutterKeeps == ASSUME PipelineInv, UNCHANGED vars PROVE PipelineInv'
<1>1. UNCHANGED <<mode, dev, conn, current, tail, txn>>
  BY DEF vars
<1>2. Outstanding' = Outstanding
  BY <1>1, TxnSame
<1> QED BY <1>1, <1>2 DEF PipelineInv, FramesInv, TxnShape, DownIsEmpty, OwnerIsCurrent

LEMMA ConnectionKeeps == ASSUME PipelineInv, ConnectionStep PROVE PipelineInv'
<1>1. PICK k \in Conns :
        \/ SendHello(k) \/ CloseConnection(k) \/ ForgetConnection(k)
        \/ ResumeStart(k)
        \/ \E c \in Cases : SendCaseStart(k, c)
        \/ \E sequence \in 0..MaxPcm : AppendSpeech(k, sequence)
        \/ \E s \in Segments :
             \/ \E c \in Cases : StartSpeech(k, c, s)
             \/ WaitForCommit(k, s)
             \/ EndReplayed(k, s) \/ EndMismatch(k, s)
             \/ EndMissing(k, s) \/ EndSpeech(k, s)
  BY DEF ConnectionStep
<1>2. FramesInv /\ OwnerIsCurrent
  BY DEF PipelineInv
<1>3. FramesInv'
  BY <1>1, <1>2, SendHelloFrames, CloseConnectionFrames, ForgetConnectionFrames,
     ResumeStartFrames, SendCaseStartFrames, AppendSpeechFrames, StartSpeechFrames,
     WaitForCommitFrames, EndReplayedFrames, EndMismatchFrames, EndMissingFrames, EndSpeechFrames
<1>4. OwnerIsCurrent'
  BY <1>1, <1>2, SendHelloOwner, CloseConnectionOwner, ForgetConnectionOwner, ResumeStartOwner,
     AskedOwner, StreamOwner, StartSpeechOwner, EndSpeechOwner
<1> QED BY <1>3, <1>4 DEF PipelineInv

LEMMA OtherKeeps ==
  ASSUME PipelineInv, TransactionStep \/ WorkStep \/ FaultStep \/ LifeStep PROVE PipelineInv'
<1>1. FramesInv /\ OwnerIsCurrent
  BY DEF PipelineInv
<1>2. CASE TransactionStep
  <2>1. FramesInv'
    BY <1>1, <1>2, BeginHelloFrames, BeginCaseFrames, BeginRemovalFrames, FailCommitFrames,
       BeginEndFrames, BeginForeignFrames, BeginWorkFrames, WorkAbortsFrames, CleanAudioFrames,
       RefuseTransactionFrames, RenameStateFrames, FrameReturnsFrames, EndReturnsFrames,
       QuietEndFrames, OutcomeReturnsFrames
       DEF TransactionStep
  <2>2. OwnerIsCurrent'
    BY <1>1, <1>2, BeginHelloOwner, TransactionOwner, SnapshotOwner, FrameEndsOwner, CommitOwner
       DEF TransactionStep
  <2> QED BY <2>1, <2>2 DEF PipelineInv
<1>3. CASE WorkStep
  BY <1>1, <1>3, WriteWavFrames, QueueFrames, WavOwner, TransactionOwner DEF WorkStep, PipelineInv
<1>4. CASE FaultStep
  <2>1. FramesInv'
    BY <1>1, <1>4, WriteWavFailsFrames, QuietEndFrames, UnwrittenHelloFrames,
       UnwrittenCaseFrames, FailCommitFrames, CommitFailsVisibleFrames, ForgetFrames
       DEF FaultStep, Crash
  <2>2. OwnerIsCurrent'
    BY <1>1, <1>4, WavOwner, TransactionOwner, FrameEndsOwner, CommitOwner, ShutdownOwner
       DEF FaultStep
  <2> QED BY <2>1, <2>2 DEF PipelineInv
<1>5. CASE LifeStep
  BY <1>1, <1>5, SubmitForeignFrames, StopFrames, BeginExitFrames, ForgetFrames, RecoverFrames,
     TransactionOwner, ShutdownOwner
     DEF LifeStep, FinishExit, PipelineInv
<1> QED BY <1>2, <1>3, <1>4, <1>5

\* In every state each waiting or running transaction of the gateway has its
\* frame, and each commit of a recording a frame of its own that works on it
\* (the inbound queues, L769-775; #withStateTransaction, L670; segmentCommits).
THEOREM FramesAreOrderly == Spec => []PipelineInv
<1>1. Init => PipelineInv
  BY InitFrames, FreshKeepsNothing DEF PipelineInv, Init, OwnerIsCurrent
<1>2. PipelineInv /\ [Next]_vars => PipelineInv'
  BY StutterKeeps, ConnectionKeeps, OtherKeeps DEF Next
<1> QED BY <1>1, <1>2, PTL DEF Spec, Safety

\* A frame that waits for the commit of a recording (startSpeech, L1034) goes on:
\* the commit is over, or the frame that works on it has not ended.
THEOREM EveryFrameIsWoken == Spec => []EveryWaitIsWoken
<1>1. PipelineInv => EveryWaitIsWoken
  BY DEF PipelineInv, FramesInv, FramesHold, ConnsHold, CommitsHold, EveryWaitIsWoken,
         Resumable, InCommit, CommitOf
<1> QED BY <1>1, FramesAreOrderly, PTL

\* The active recording belongs to the current connection, whose socket has not
\* closed (the checks after the wait of startSpeech, L1046-1054; authenticate).
THEOREM OwnersAreCurrent == Spec => []OwnerIsCurrent
<1>1. PipelineInv => OwnerIsCurrent
  BY DEF PipelineInv
<1> QED BY <1>1, FramesAreOrderly, PTL

----------------------------------------------------------------------------
(* What the methods of CaseManager do to the rows of the segment table.    *)

\* The row of s becomes one of case c in that state, without audio to release;
\* the others stay.
OneRow(m, n, s, c, state) ==
  /\ Good(n) /\ n.current = m.current
  /\ n.seg[s].case = c /\ n.seg[s].state = state /\ n.seg[s].pcm = FALSE
  /\ \A t \in Segments : t # s => n.seg[t] = m.seg[t]

LEMMA RowReplaced ==
  ASSUME NEW m, Good(m), NEW s \in Segments, NEW row
  PROVE  LET n == [m EXCEPT !.seg[s] = row]
         IN /\ n.current = m.current
            /\ \A t \in Segments : n.seg[t] = IF t = s THEN row ELSE m.seg[t]
  BY DEF Good, CaseManagerState

LEMMA RowPut ==
  ASSUME NEW m, Good(m), NEW s \in Segments, NEW row, NEW n, n = [m EXCEPT !.seg[s] = row],
         Good(n), row.pcm = FALSE
  PROVE  OneRow(m, n, s, row.case, row.state)
<1>1. n.current = m.current /\ \A t \in Segments : n.seg[t] = IF t = s THEN row ELSE m.seg[t]
  BY RowReplaced
<1> QED BY <1>1 DEF OneRow

LEMMA RowIsSegment ==
  ASSUME NEW m, Good(m), NEW s \in Segments
  PROVE  m.seg[s] \in Segment /\ GoodRow(m.seg[s])
  BY DEF Good, GoodRows, CaseManagerState

LEMMA AppendChunkRow ==
  ASSUME NEW m, Good(m), NEW s \in Segments, NEW sequence \in Nat,
         NEW payload \in Payloads, MayAppendChunk(m, s, sequence, payload),
         m.seg[s].pcm = FALSE
  PROVE  OneRow(m, AppendChunk(m, s, sequence, payload), s, m.seg[s].case, m.seg[s].state)
<1>1. Good(AppendChunk(m, s, sequence, payload))
  BY AppendChunkGood
<1>2. CASE sequence < Len(m.seg[s].chunks)
  BY <1>1, <1>2 DEF AppendChunk, OneRow
<1>3. CASE ~(sequence < Len(m.seg[s].chunks))
  <2> DEFINE old == m.seg[s]
             row == [old EXCEPT !.chunks = Append(@, payload), !.bytes = @ + 1]
  <2>1. AppendChunk(m, s, sequence, payload) = [m EXCEPT !.seg[s] = row]
    BY <1>3 DEF AppendChunk, Good, CaseManagerState
  <2>2. row.case = old.case /\ row.state = old.state /\ row.pcm = FALSE
    BY RowIsSegment, Zenon DEF Segment
  <2> DEFINE n == AppendChunk(m, s, sequence, payload)
  <2> HIDE DEF row, old, n
  <2>3. OneRow(m, n, s, row.case, row.state)
    BY <1>1, <2>1, <2>2, RowPut DEF n
  <2> QED BY <2>2, <2>3 DEF n, old
<1> QED BY <1>2, <1>3

LEMMA BeginTranscriptionRow ==
  ASSUME NEW m, Good(m), NEW s \in Segments, MayBeginTranscription(m, s), m.seg[s].pcm = FALSE
  PROVE  OneRow(m, BeginTranscription(m, s), s, m.seg[s].case, "transcribing")
<1> DEFINE old == m.seg[s]
           row == [old EXCEPT !.state = "transcribing"]
<1>1. Good(BeginTranscription(m, s))
  BY BeginTranscriptionGood
<1>2. BeginTranscription(m, s) = [m EXCEPT !.seg[s] = row]
  BY DEF BeginTranscription, Good, CaseManagerState
<1>3. row.case = old.case /\ row.state = "transcribing" /\ row.pcm = FALSE
  BY RowIsSegment, Zenon DEF Segment
<1> DEFINE n == BeginTranscription(m, s)
<1> HIDE DEF row, old, n
<1>4. OneRow(m, n, s, row.case, row.state)
  BY <1>1, <1>2, <1>3, RowPut DEF n
<1> QED BY <1>3, <1>4 DEF n, old

LEMMA SaveTranscriptRow ==
  ASSUME NEW m, Good(m), NEW s \in Segments, NEW text \in Transcripts,
         MaySaveTranscript(m, s, text), m.seg[s].pcm = FALSE
  PROVE  OneRow(m, SaveTranscript(m, s, text), s, m.seg[s].case, "saved")
<1>1. Good(SaveTranscript(m, s, text))
  BY SaveTranscriptGood
<1>2. CASE m.seg[s].state = "saved"
  BY <1>1, <1>2 DEF SaveTranscript, OneRow
<1>3. CASE m.seg[s].state # "saved"
  <2> DEFINE old == m.seg[s]
             row == Released([old EXCEPT !.transcript = text, !.state = "saved"])
  <2>1. SaveTranscript(m, s, text) = [m EXCEPT !.seg[s] = row]
    BY <1>3 DEF SaveTranscript, Good, CaseManagerState
  <2>2. row.case = old.case /\ row.state = "saved" /\ row.pcm = FALSE
    BY RowIsSegment, Zenon DEF Segment, Released
  <2> DEFINE n == SaveTranscript(m, s, text)
  <2> HIDE DEF row, old, n
  <2>3. OneRow(m, n, s, row.case, row.state)
    BY <1>1, <2>1, <2>2, RowPut DEF n
  <2> QED BY <2>2, <2>3 DEF n, old
<1> QED BY <1>2, <1>3

LEMMA FailSegmentRow ==
  ASSUME NEW m, Good(m), NEW s \in Segments, MayFailSegment(m, s, Interrupted),
         m.seg[s].pcm = FALSE
  PROVE  OneRow(m, FailSegment(m, s, Interrupted), s, m.seg[s].case, "failed")
<1>1. Good(FailSegment(m, s, Interrupted))
  BY FailSegmentGood, TextAssumption
<1>2. CASE m.seg[s].state = "failed"
  BY <1>1, <1>2 DEF FailSegment, OneRow
<1>3. CASE m.seg[s].state # "failed"
  <2> DEFINE old == m.seg[s]
             row == Released([old EXCEPT !.failure = Interrupted, !.state = "failed"])
  <2>1. FailSegment(m, s, Interrupted) = [m EXCEPT !.seg[s] = row]
    BY <1>3 DEF FailSegment, Good, CaseManagerState
  <2>2. row.case = old.case /\ row.state = "failed" /\ row.pcm = FALSE
    BY RowIsSegment, Zenon DEF Segment, Released
  <2> DEFINE n == FailSegment(m, s, Interrupted)
  <2> HIDE DEF row, old, n
  <2>3. OneRow(m, n, s, row.case, row.state)
    BY <1>1, <2>1, <2>2, RowPut DEF n
  <2> QED BY <2>2, <2>3 DEF n, old
<1> QED BY <1>2, <1>3

LEMMA StartSegmentRow ==
  ASSUME NEW m, Good(m), NEW c \in Cases, NEW s \in Segments, NEW p \in Speakers,
         MayStartSegment(m, c, s, p), Live(m, s) => m.seg[s].pcm = FALSE
  PROVE  OneRow(m, StartSegment(m, c, s, p), s, c,
                IF Live(m, s) /\ m.seg[s].state # "failed" THEN m.seg[s].state ELSE "receiving")
<1> DEFINE n == StartSegment(m, c, s, p)
           row == Receiving(c, p)
<1>1. Good(n)
  BY StartSegmentGood
<1>2. CASE Live(m, s) /\ m.seg[s].state # "failed"
  BY <1>1, <1>2 DEF StartSegment, OneRow, MayStartSegment, SameMeta
<1>3. CASE ~(Live(m, s) /\ m.seg[s].state # "failed")
  <2>1. row.case = c /\ row.state = "receiving" /\ row.pcm = FALSE
    BY DEF Receiving, NoSegment
  <2> HIDE DEF row
  <2>2. /\ n.current = m.current
        /\ \A t \in Segments : n.seg[t] = IF t = s THEN row ELSE m.seg[t]
    BY <1>3 DEF StartSegment, Good, CaseManagerState, row
  <2> HIDE DEF n
  <2> QED BY <1>1, <1>3, <2>1, <2>2 DEF OneRow, n
<1> QED BY <1>2, <1>3

LEMMA CommittedRow ==
  ASSUME NEW m, Good(m), NEW s \in Segments, MayEndSegment(m, s), m.seg[s].pcm = FALSE
  PROVE  /\ m.seg[s].state = "receiving"
         /\ OneRow(m, ReleaseAudio(EndSegment(m, s), s), s, m.seg[s].case, "queued")
<1> DEFINE old == m.seg[s]
           end == [old EXCEPT !.pcm = TRUE, !.state = "queued"]
           n   == EndSegment(m, s)
           row == Released(end)
           o   == ReleaseAudio(n, s)
<1>1. m.seg[s].state = "receiving"
  BY DEF MayEndSegment
<1>2. Good(n)
  BY EndSegmentGood
<1>3. n = [m EXCEPT !.seg[s] = end]
  BY <1>1 DEF EndSegment, Good, CaseManagerState
<1>4. old \in Segment
  BY RowIsSegment
<1>5. end.case = old.case /\ end.state = "queued"
  BY <1>4 DEF Segment
<1>6. end \in Segment
  BY <1>4, StateType, StateNames
<1> HIDE DEF end
<1>7. n.current = m.current /\ \A t \in Segments : n.seg[t] = IF t = s THEN end ELSE m.seg[t]
  BY <1>3, RowReplaced
<1> HIDE DEF n
<1>8. MayReleaseAudio(n, s)
  BY <1>5, <1>7 DEF MayReleaseAudio, Live
<1>9. Good(o)
  BY <1>2, <1>8, ReleaseAudioGood
<1>10. o = [n EXCEPT !.seg[s] = row]
  BY <1>2, <1>7 DEF ReleaseAudio, Good, CaseManagerState
<1>11. row.case = end.case /\ row.state = end.state /\ row.pcm = FALSE
  BY <1>6, Zenon DEF Segment, Released
<1> HIDE DEF row, o
<1>12. OneRow(n, o, s, row.case, row.state)
  BY <1>2, <1>9, <1>10, <1>11, RowPut
<1>13. OneRow(m, o, s, old.case, "queued")
  BY <1>5, <1>7, <1>11, <1>12 DEF OneRow
<1> QED BY <1>1, <1>13 DEF o, n

\* The recordings of a set fail, those that still can.
AllFailed(m, n, S) ==
  /\ Good(n) /\ n.current = m.current
  /\ \A t \in Segments :
       /\ n.seg[t].case = m.seg[t].case /\ n.seg[t].pcm = FALSE
       /\ n.seg[t].state = IF t \in S /\ m.seg[t].state \in ActiveStates
                           THEN "failed" ELSE m.seg[t].state

LEMMA FailedRow ==
  ASSUME NEW m, Good(m), NEW s \in Segments, MayFailSegment(m, s, Interrupted),
         m.seg[s].pcm = FALSE
  PROVE  LET row == FailSegment(m, s, Interrupted).seg[s]
         IN /\ row \in Segment /\ GoodRow(row)
            /\ row.case = m.seg[s].case /\ row.speaker = m.seg[s].speaker
            /\ row.state = "failed" /\ row.pcm = FALSE
            /\ m.seg[s].state # "absent"
<1> DEFINE n == FailSegment(m, s, Interrupted)
           old == m.seg[s]
           row == Released([old EXCEPT !.failure = Interrupted, !.state = "failed"])
<1>1. OneRow(m, n, s, old.case, "failed")
  BY FailSegmentRow
<1>2. n.seg[s] \in Segment /\ GoodRow(n.seg[s])
  BY <1>1, RowIsSegment DEF OneRow
<1>3. n.seg[s] \in {old, row}
  BY DEF FailSegment, Good, CaseManagerState
<1>4. row.speaker = old.speaker
  BY RowIsSegment, Zenon DEF Segment, Released
<1>5. m.seg[s].state # "absent"
  BY DEF MayFailSegment, ActiveStates
<1> HIDE DEF n, row
<1> QED BY <1>1, <1>2, <1>3, <1>4, <1>5 DEF OneRow, n

LEMMA FailAllowedRows ==
  ASSUME NEW m, Good(m), NEW S, \A t \in Segments : m.seg[t].pcm = FALSE
  PROVE  AllFailed(m, FailAllowed(m, S), S)
<1> DEFINE n == FailAllowed(m, S)
<1> DEFINE f == [t \in Segments |->
                   IF t \in S /\ MayFailSegment(m, t, Interrupted)
                   THEN FailSegment(m, t, Interrupted).seg[t] ELSE m.seg[t]]
<1>a. n = [m EXCEPT !.seg = f]
  BY DEF FailAllowed
<1>b. \A t \in Segments : f[t] = IF t \in S /\ MayFailSegment(m, t, Interrupted)
                                 THEN FailSegment(m, t, Interrupted).seg[t] ELSE m.seg[t]
  OBVIOUS
<1>c. f = [t \in Segments |-> f[t]]
  OBVIOUS
<1> HIDE DEF f, n
<1>1. /\ n.owner = m.owner /\ n.listed = m.listed /\ n.current = m.current /\ n.tomb = m.tomb
      /\ n = [owner |-> n.owner, listed |-> n.listed, current |-> n.current, seg |-> n.seg,
              tomb |-> n.tomb]
      /\ n.seg = f
  BY <1>a DEF Good, CaseManagerState
<1>2. ASSUME NEW t \in Segments
      PROVE  /\ n.seg[t] \in Segment /\ GoodRow(n.seg[t])
             /\ n.seg[t].case = m.seg[t].case /\ n.seg[t].speaker = m.seg[t].speaker
             /\ n.seg[t].pcm = FALSE
             /\ n.seg[t].state = IF t \in S /\ m.seg[t].state \in ActiveStates
                                 THEN "failed" ELSE m.seg[t].state
             /\ Live(n, t) <=> Live(m, t)
  <2>1. CASE t \in S /\ MayFailSegment(m, t, Interrupted)
    <3> DEFINE row == FailSegment(m, t, Interrupted).seg[t]
    <3>1. n.seg[t] = row
      BY <1>1, <1>b, <2>1
    <3>2. m.seg[t].state \in ActiveStates \/ m.seg[t].state = "failed"
      BY <2>1 DEF MayFailSegment
    <3>3. /\ row \in Segment /\ GoodRow(row)
          /\ row.case = m.seg[t].case /\ row.speaker = m.seg[t].speaker
          /\ row.state = "failed" /\ row.pcm = FALSE
          /\ m.seg[t].state # "absent"
      BY <2>1, FailedRow
    <3> HIDE DEF row
    <3> QED BY <2>1, <3>1, <3>2, <3>3 DEF Live
  <2>2. CASE ~(t \in S /\ MayFailSegment(m, t, Interrupted))
    <3>1. n.seg[t] = m.seg[t]
      BY <1>1, <1>b, <2>2
    <3>2. t \in S => m.seg[t].state \notin ActiveStates
      BY <2>2 DEF MayFailSegment
    <3> QED BY <3>1, <3>2, RowIsSegment DEF Live
  <2> QED BY <2>1, <2>2
<1>3. n \in CaseManagerState
  <2>1. /\ m.owner \in [Cases -> Devices \cup {None}]
        /\ m.listed \in [Cases -> [Speakers -> Seq(Segments)]]
        /\ m.current \in [Devices -> Cases \cup {None}]
        /\ m.tomb \in [Segments -> Tombstone]
    BY DEF Good, CaseManagerState
  <2>2. n.seg \in [Segments -> Segment]
    BY <1>1, <1>2, <1>c
  <2> QED BY <1>1, <2>1, <2>2 DEF CaseManagerState
<1>4. GoodRows(n)
  BY <1>2 DEF GoodRows
<1>5. Shape(n)
  BY <1>1, <1>2, SameShape DEF Good
<1>6. Good(n)
  BY <1>3, <1>4, <1>5 DEF Good
<1> QED BY <1>1, <1>2, <1>6 DEF AllFailed, n

\* What a restart reads back: what was being recorded has failed.
LEMMA ExportedRows ==
  ASSUME NEW m, Good(m)
  PROVE  LET ex == ExportState(m)
         IN /\ ex \in CaseManagerState /\ ex.current = m.current
            /\ \A t \in Segments : /\ ex.seg[t].case = m.seg[t].case
                                   /\ ex.seg[t].state = m.seg[t].state /\ ex.seg[t].pcm = FALSE
<1> DEFINE ex == ExportState(m)
<1>1. \A t \in Segments : ex.seg[t] = ExportedRow(m.seg[t])
  BY DEF ExportState, Good, CaseManagerState
<1>2. ex \in CaseManagerState
  BY ExportedType DEF ExportState, Good, CaseManagerState
<1>3. ex.current = m.current
  BY DEF ExportState, Good, CaseManagerState
<1> HIDE DEF ex
<1>4. ASSUME NEW row \in Segment
      PROVE  /\ ExportedRow(row).case = row.case /\ ExportedRow(row).state = row.state
             /\ ExportedRow(row).pcm = FALSE
  BY Zenon DEF ExportedRow, Segment
<1>5. ASSUME NEW t \in Segments
      PROVE  /\ ex.seg[t].case = m.seg[t].case
             /\ ex.seg[t].state = m.seg[t].state /\ ex.seg[t].pcm = FALSE
  <2>1. m.seg[t] \in Segment
    BY RowIsSegment
  <2>2. ex.seg[t] = ExportedRow(m.seg[t])
    BY <1>1
  <2> QED BY <1>4, <2>1, <2>2, Zenon
<1> QED BY <1>2, <1>3, <1>5 DEF ex

LEMMA RestoredRows ==
  ASSUME NEW ex \in CaseManagerState
  PROVE  LET n == RestoreState(ex)
         IN /\ n.current = ex.current
            /\ \A t \in Segments :
                 /\ n.seg[t].case = ex.seg[t].case /\ n.seg[t].pcm = ex.seg[t].pcm
                 /\ n.seg[t].state = IF ex.seg[t].state = "receiving" THEN "failed"
                                                                     ELSE ex.seg[t].state
<1> DEFINE n == RestoreState(ex)
<1>1. n.current = ex.current /\ \A t \in Segments : n.seg[t] = RestoredRow(ex.seg[t])
  BY DEF RestoreState, CaseManagerState
<1> HIDE DEF n
<1>2. ASSUME NEW row \in Segment
      PROVE  /\ RestoredRow(row).case = row.case /\ RestoredRow(row).pcm = row.pcm
             /\ RestoredRow(row).state = IF row.state = "receiving" THEN "failed" ELSE row.state
  <2>1. CASE row.state = "receiving"
    BY <2>1, Zenon DEF RestoredRow, Segment
  <2>2. CASE row.state # "receiving"
    BY <2>2 DEF RestoredRow
  <2> QED BY <2>1, <2>2
<1>3. \A t \in Segments : ex.seg[t] \in Segment
  BY DEF CaseManagerState
<1> QED BY <1>1, <1>2, <1>3 DEF n

\* A new case of a device whose segments are all of its current case has none.
LEMMA StartCaseRows ==
  ASSUME NEW m, Good(m), NEW d \in Devices, NEW c \in Cases, m.owner[c] = None,
         \A t \in Segments : Live(m, t) => m.current[d] # None /\ m.seg[t].case = m.current[d]
  PROVE  LET n == StartCase(m, d, c)
         IN /\ Good(n) /\ n.current[d] = c
            /\ \A t \in Segments : /\ Live(m, t) => n.seg[t] = NoSegment
                                   /\ ~Live(m, t) => n.seg[t] = m.seg[t]
<1> DEFINE n == StartCase(m, d, c)
           e == m.current[d]
           base == IF e # None THEN EvictCase(m, e) ELSE m
<1>1. Good(n)
  BY StartCaseGood
<1>2. n = [base EXCEPT !.owner[c] = d, !.listed[c] = NoSpeakers, !.current[d] = c]
  BY DEF StartCase
<1>3. base \in CaseManagerState
  BY EvictCaseType DEF Good, CaseManagerState
<1>4. ASSUME NEW t \in Segments
      PROVE  /\ Live(m, t) => base.seg[t] = NoSegment
             /\ ~Live(m, t) => base.seg[t] = m.seg[t]
  <2>1. CASE e = None
    BY <2>1
  <2>2. CASE e # None
    <3>1. e \in Cases
      BY <2>2 DEF Good, CaseManagerState
    <3>2. base.seg[t] = IF t \in Elements(Roll(m, e)) THEN NoSegment ELSE m.seg[t]
      BY <2>2 DEF EvictCase, Good, CaseManagerState
    <3>3. t \in Elements(Roll(m, e)) <=> Live(m, t) /\ m.seg[t].case = e
      BY <3>1, RollRows
    <3> HIDE DEF base
    <3> QED BY <3>2, <3>3
  <2> QED BY <2>1, <2>2
<1> HIDE DEF base
<1>5. n.current[d] = c /\ n.seg = base.seg
  BY <1>2, <1>3 DEF CaseManagerState
<1> HIDE DEF n
<1> QED BY <1>1, <1>4, <1>5 DEF n

----------------------------------------------------------------------------
(* The process, its transaction and the file.                              *)

\* It writes nothing after a halt, removes a WAV only before the shutdown takes
\* its snapshot,
LifeInv ==
  /\ mode \in {"up", "stopping", "down"}
  /\ ~writable => mode = "stopping" /\ txn = NoTxn
  /\ exit # None => mode = "stopping" /\ txn.phase # "removing"
  /\ txn = NoTxn \/ txn.phase \in {"writing", "renamed", "removing"}
  /\ txn.phase = "removing" => txn.call.op \in {"failcommit", "end", "clean"}

\* and only a rename that has not been confirmed may be undone.
UndoInv ==
  /\ (mode = "up" \/ txn.phase = "removing") /\ txn.phase # "renamed" => undo = None
  /\ mode = "down" => undo = None
  /\ txn.phase = "renamed" => disk = txn.snap

ControlInv == LifeInv /\ UndoInv

control == <<mode, writable, exit, txn, disk, undo>>

LEMMA NoTxnPhase == NoTxn.phase = "none"
  BY DEF NoTxn

LEMMA ConnectionControl == ASSUME ConnectionStep PROVE UNCHANGED control
<1>1. PICK k \in Conns :
        \/ SendHello(k) \/ CloseConnection(k) \/ ForgetConnection(k)
        \/ ResumeStart(k)
        \/ \E c \in Cases : SendCaseStart(k, c)
        \/ \E sequence \in 0..MaxPcm : AppendSpeech(k, sequence)
        \/ \E s \in Segments :
             \/ \E c \in Cases : StartSpeech(k, c, s)
             \/ WaitForCommit(k, s)
             \/ EndReplayed(k, s) \/ EndMismatch(k, s)
             \/ EndMissing(k, s) \/ EndSpeech(k, s)
  BY DEF ConnectionStep
<1> QED BY <1>1 DEF control, proc, store, SendHello, CloseConnection, ForgetConnection, ResumeStart,
     SendCaseStart, AppendSpeech, StartSpeech, WaitForCommit, EndReplayed, EndMismatch,
     EndMissing, EndSpeech

LEMMA QueueControl ==
  ASSUME WorkStep \/ SubmitForeign \/ \E s \in Segments : WriteWavFails(s)
  PROVE  UNCHANGED control
  BY DEF control, proc, store, WorkStep, SubmitForeign, WriteWav, WriteWavFails, StartWork, Recognise

\* A transaction begins,
Begins ==
  /\ mode = "up" /\ txn = NoTxn /\ txn' # NoTxn
  /\ \/ txn'.phase = "writing"
     \/ txn'.phase = "removing" /\ txn'.call.op \in {"failcommit", "end", "clean"}
  /\ UNCHANGED <<mode, writable, exit, disk, undo>>

\* ends with the state committed, or without.
Commits ==
  /\ txn.phase = "renamed" /\ txn' = NoTxn /\ undo' = None
  /\ UNCHANGED <<mode, writable, exit, disk>>

Gives ==
  /\ txn' = NoTxn /\ mode # "down" /\ UNCHANGED <<disk, undo>>
  /\ (UNCHANGED proc /\ (txn.phase = "renamed" => mode # "up")) \/ Halt

LEMMA TransactionControl ==
  ASSUME TransactionStep, LifeInv
  PROVE  \/ Begins \/ Commits \/ Gives \/ RenameState
         \/ txn.phase = "removing" /\ txn'.phase = "writing" /\ txn # NoTxn
            /\ UNCHANGED <<mode, writable, exit, disk, undo>>
<1>1. CASE \/ BeginHello \/ BeginCase \/ BeginEnd \/ BeginForeign \/ BeginTranscribing
           \/ BeginSaved \/ BeginFailed
  <2>1. /\ mode = "up" /\ txn = NoTxn /\ UNCHANGED <<mode, writable, exit, disk, undo>>
        /\ \E call, back : txn' = [call |-> call, snap |-> PersistentState', back |-> back,
                                   phase |-> "writing"]
    BY <1>1 DEF BeginHello, BeginCase, BeginEnd, BeginForeign, BeginTranscribing, BeginSaved,
         BeginFailed, Starting, Persist, PersistFor, proc, store
  <2>2. txn'.phase = "writing"
    BY <2>1
  <2> QED BY <2>1, <2>2, NoTxnPhase DEF Begins
<1>2. CASE BeginRemoval
  <2>1. /\ mode = "up" /\ txn = NoTxn /\ UNCHANGED <<mode, writable, exit, disk, undo>>
        /\ Call1.op \in {"failcommit", "end", "clean"}
        /\ txn'.call = Call1 /\ txn'.phase = "removing"
    BY <1>2 DEF BeginRemoval, Starting, proc, store, Call1
  <2> QED BY <2>1, NoTxnPhase DEF Begins
<1>3. CASE HelloReturns \/ CaseReturns \/ EndReturns \/ TranscribingReturns \/ OutcomeReturns
           \/ CleanReturns \/ ForeignReturns
  BY <1>3 DEF HelloReturns, CaseReturns, EndReturns, TranscribingReturns, OutcomeReturns,
       CleanReturns, ForeignReturns, Returned, proc, store, Commits
<1>4. CASE FinishFailCommit
  BY <1>4, Zenon DEF FinishFailCommit, Removing, Gives, proc
<1>5. CASE WorkAborts \/ RefuseTransaction
  <2>1. /\ txn' = NoTxn /\ txn = NoTxn /\ mode # "down" /\ UNCHANGED <<disk, undo>>
        /\ UNCHANGED proc \/ Halt
    BY <1>5 DEF WorkAborts, RefuseTransaction, store
  <2> QED BY <2>1, NoTxnPhase DEF Gives
<1>6. CASE CleanAudio
  <2>1. /\ txn # NoTxn /\ txn.phase = "removing" /\ UNCHANGED <<mode, writable, exit, disk, undo>>
        /\ txn' = [call |-> txn.call, snap |-> PersistentState', back |-> None,
                   phase |-> "writing"]
    BY <1>6 DEF CleanAudio, Removing, PersistFor, proc
  <2> QED BY <2>1
<1>7. CASE RenameState
  BY <1>7
<1> QED BY <1>1, <1>2, <1>3, <1>4, <1>5, <1>6, <1>7 DEF TransactionStep

LEMMA FaultControl ==
  ASSUME FaultStep, ~Crash, ~\E s \in Segments : WriteWavFails(s), LifeInv
  PROVE  Gives
<1>1. CASE CleanFails
  <2>1. txn.phase = "removing" /\ txn' = NoTxn /\ mode # "down" /\ UNCHANGED <<disk, undo>>
        /\ UNCHANGED proc
    BY <1>1 DEF CleanFails, Removing, store
  <2> QED BY <2>1 DEF Gives
<1>2. CASE UnwrittenHello \/ UnwrittenCase \/ UnwrittenEnd \/ UnwrittenWork \/ UnwrittenForeign
  <2>1. /\ txn.phase = "writing" /\ txn' = NoTxn /\ mode # "down" /\ UNCHANGED <<disk, undo>>
        /\ UNCHANGED proc \/ Halt
    BY <1>2 DEF UnwrittenHello, UnwrittenCase, UnwrittenEnd, UnwrittenWork, UnwrittenForeign,
         Unwritten, store
  <2> QED BY <2>1 DEF Gives
<1>3. CASE CommitFailsVisible
  <2>1. /\ txn.phase = "renamed" /\ txn' = NoTxn /\ mode # "down" /\ UNCHANGED <<disk, undo>>
        /\ IF HaltsFor(txn.call.op) THEN Halt ELSE UNCHANGED proc
    BY <1>3, Zenon DEF CommitFailsVisible, store
  <2> QED BY <2>1 DEF Gives, HaltsFor
<1> QED BY <1>1, <1>2, <1>3 DEF FaultStep

LEMMA ControlNext ==
  ASSUME FramesInv, ControlInv, [Next]_vars PROVE ControlInv'
<1> USE NoTxnPhase
<1>1. CASE UNCHANGED control
  BY <1>1 DEF control, ControlInv, LifeInv, UndoInv
<1>2. CASE Begins
  BY <1>2 DEF Begins, ControlInv, LifeInv, UndoInv
<1>3. CASE Commits
  BY <1>3 DEF Commits, ControlInv, LifeInv, UndoInv
<1>4. CASE Gives
  BY <1>4 DEF Gives, Halt, proc, ControlInv, LifeInv, UndoInv
<1>5. CASE RenameState
  <2>1. /\ txn # NoTxn /\ mode # "down" /\ txn.phase = "writing" /\ disk' = txn.snap /\ undo' = disk
        /\ txn'.phase = "renamed" /\ txn'.snap = txn.snap /\ txn'.call = txn.call
        /\ UNCHANGED <<mode, writable, exit>>
    BY <1>5 DEF RenameState, FramesInv, TxnShape, proc
  <2> QED BY <2>1 DEF ControlInv, LifeInv, UndoInv
<1>6. CASE txn.phase = "removing" /\ txn'.phase = "writing" /\ txn # NoTxn
           /\ UNCHANGED <<mode, writable, exit, disk, undo>>
  BY <1>6 DEF ControlInv, LifeInv, UndoInv
<1>7. CASE ForgetProcess /\ mode' = "down" /\ undo' = None
  BY <1>7 DEF ForgetProcess, ControlInv, LifeInv, UndoInv
<1>8. CASE Stop
  BY <1>8 DEF Stop, store, ControlInv, LifeInv, UndoInv
<1>9. CASE BeginExit
  <2>1. /\ mode = "stopping" /\ (txn # NoTxn => txn.phase # "removing")
        /\ UNCHANGED <<mode, writable, txn, disk, undo>>
    BY <1>9 DEF BeginExit, store
  <2> QED BY <2>1 DEF ControlInv, LifeInv, UndoInv
<1>10. CASE Recover
  <2>1. mode = "down" /\ mode' \in {"down", "up"} /\ UNCHANGED <<writable, exit, txn, undo>>
    BY <1>10 DEF Recover
  <2> QED BY <2>1 DEF ControlInv, LifeInv, UndoInv, FramesInv, DownIsEmpty
<1>11. CASE UNCHANGED vars
  BY <1>1, <1>11 DEF vars, control
<1>12. CASE FaultStep
  BY <1>1, <1>4, <1>7, <1>12, FaultControl, QueueControl DEF Crash, ControlInv
<1>13. CASE LifeStep
  BY <1>1, <1>7, <1>8, <1>9, <1>10, <1>13, QueueControl DEF LifeStep, FinishExit
<1>14. CASE TransactionStep
  BY <1>2, <1>3, <1>4, <1>5, <1>6, <1>14, TransactionControl DEF ControlInv
<1> QED BY <1>1, <1>11, <1>12, <1>13, <1>14, ConnectionControl, QueueControl DEF Next

----------------------------------------------------------------------------
(* What the helpers of the device do to the fields of its record.          *)

SameLedger(dv, dw) ==
  /\ dw.persistent = dv.persistent /\ dw.durable = dv.durable /\ dw.jobs = dv.jobs
  /\ dw.progress = dv.progress /\ dw.acks = dv.acks

\* The ledger of some segments is discarded.
Discards(dv, dw, S) ==
  /\ dw.durable = dv.durable \ S
  /\ dw.jobs = [t \in Segments |-> IF t \in S THEN NoJob ELSE dv.jobs[t]]
  /\ dw.progress = [t \in Segments |-> IF t \in S THEN None ELSE dv.progress[t]]
  /\ \A t \in Segments : /\ End(t) \in dw.acks <=> t \notin S /\ End(t) \in dv.acks
                         /\ End(t) \in dw.persistent <=> t \notin S /\ End(t) \in dv.persistent

LEMMA DiscardFields ==
  ASSUME NEW dv, DevShape(dv), NEW S
  PROVE  LET dw == DiscardLedger(dv, S)
         IN /\ DevShape(dw) /\ Discards(dv, dw, S)
            /\ dw.queue = dv.queue /\ dw.commits = dv.commits /\ dw.active = dv.active
<1> DEFINE ids == UNION {AboutSegment(s) : s \in S}
           a == [s \in Segments |-> IF s \in S THEN None ELSE dv.progress[s]]
           b == [s \in Segments |-> IF s \in S THEN NoJob ELSE dv.jobs[s]]
           c == dv.durable \ S
           d == dv.acks \ ids
           e == dv.persistent \ ids
           dw == DiscardLedger(dv, S)
<1>1. dw = [dv EXCEPT !.progress = a, !.jobs = b, !.durable = c, !.acks = d, !.persistent = e]
  BY DEF DiscardLedger
<1>2. ASSUME NEW t \in Segments PROVE End(t) \in ids <=> t \in S
  BY DEF AboutSegment, End, Start
<1> HIDE DEF a, b, c, d, e, ids, dw
<1>3. /\ DevShape(dw) /\ dw.progress = a /\ dw.jobs = b /\ dw.durable = c /\ dw.acks = d
      /\ dw.persistent = e /\ dw.queue = dv.queue /\ dw.commits = dv.commits
      /\ dw.active = dv.active
  BY <1>1 DEF DevShape
<1>4. Discards(dv, dw, S)
  BY <1>2, <1>3 DEF Discards, a, b, c, d, e
<1> QED BY <1>3, <1>4 DEF dw

LEMMA ActiveFields ==
  ASSUME NEW dv, DevShape(dv), NEW a
  PROVE  LET dw == [dv EXCEPT !.active = a]
         IN /\ DevShape(dw) /\ SameLedger(dv, dw) /\ dw.active = a
            /\ dw.queue = dv.queue /\ dw.commits = dv.commits
  BY DEF DevShape, SameLedger

LEMMA ReleaseFields ==
  ASSUME NEW dv, DevShape(dv), NEW s
  PROVE  LET dw == ReleaseOwner(dv, s)
         IN /\ DevShape(dw) /\ SameLedger(dv, dw)
            /\ dw.active = IF dv.active # NoStream /\ dv.active.seg = s /\ dv.active.committing
                           THEN NoStream ELSE dv.active
            /\ dw.queue = dv.queue /\ dw.commits = dv.commits
<1> DEFINE dw == ReleaseOwner(dv, s)
<1>1. CASE dv.active # NoStream /\ dv.active.seg = s /\ dv.active.committing
  <2>1. dw = [dv EXCEPT !.active = NoStream]
    BY <1>1 DEF ReleaseOwner
  <2> HIDE DEF dw
  <2>2. DevShape(dw) /\ SameLedger(dv, dw) /\ dw.active = NoStream
        /\ dw.queue = dv.queue /\ dw.commits = dv.commits
    BY <2>1, ActiveFields
  <2> QED BY <1>1, <2>2 DEF dw
<1>2. CASE ~(dv.active # NoStream /\ dv.active.seg = s /\ dv.active.committing)
  <2>1. dw = dv
    BY <1>2, Zenon DEF ReleaseOwner
  <2> HIDE DEF dw
  <2>2. DevShape(dw) /\ SameLedger(dv, dw) /\ dw.active = dv.active
        /\ dw.queue = dv.queue /\ dw.commits = dv.commits
    BY <2>1 DEF SameLedger
  <2> QED BY <1>2, <2>2, Zenon DEF dw
<1> QED BY <1>1, <1>2

LEMMA FinishFields ==
  ASSUME NEW dv, DevShape(dv), NEW s \in Segments
  PROVE  LET dw == FinishCommit(dv, s)
         IN /\ DevShape(dw) /\ SameLedger(dv, dw) /\ dw.active = dv.active /\ dw.queue = dv.queue
            /\ \A t \in Segments : dw.commits[t] = IF t = s THEN NoCommit ELSE dv.commits[t]
<1> DEFINE work == [dv.commits EXCEPT ![s] = NoCommit]
           dw == FinishCommit(dv, s)
<1>1. dw = [dv EXCEPT !.commits = work]
  BY DEF FinishCommit
<1>2. DevShape(dw) /\ \A t \in Segments : dw.commits[t] = IF t = s THEN NoCommit ELSE dv.commits[t]
  BY FinishLeaves
<1> HIDE DEF work, dw
<1>3. SameLedger(dv, dw) /\ dw.active = dv.active /\ dw.queue = dv.queue
  BY <1>1 DEF DevShape, SameLedger
<1> QED BY <1>2, <1>3 DEF dw

\* Only the queue changes.
OnlyQueue(dv, dw) ==
  /\ DevShape(dw) /\ SameLedger(dv, dw) /\ dw.active = dv.active /\ dw.commits = dv.commits

LEMMA PoppedFields ==
  ASSUME NEW dv, DevShape(dv)
  PROVE  OnlyQueue(dv, Popped(dv)) /\ Popped(dv).queue = Tail(dv.queue)
<1> DEFINE q == Tail(dv.queue)
           dw == Popped(dv)
<1>1. dw = [dv EXCEPT !.queue = q]
  BY DEF Popped
<1> HIDE DEF q, dw
<1>2. OnlyQueue(dv, dw) /\ dw.queue = q
  BY <1>1 DEF DevShape, OnlyQueue, SameLedger
<1> QED BY <1>2 DEF q, dw

LEMMA AtFields ==
  ASSUME NEW dv, DevShape(dv), NEW step
  PROVE  OnlyQueue(dv, At(dv, step)) /\ At(dv, step).queue = [dv.queue EXCEPT ![1].step = step]
<1> DEFINE q == [dv.queue EXCEPT ![1].step = step]
           dw == At(dv, step)
<1>1. dw = [dv EXCEPT !.queue = q]
  BY DEF At
<1> HIDE DEF q, dw
<1>2. OnlyQueue(dv, dw) /\ dw.queue = q
  BY <1>1 DEF DevShape, OnlyQueue, SameLedger
<1> QED BY <1>2 DEF q, dw

\* Only one job changes.
LEMMA JobFields ==
  ASSUME NEW dv, DevShape(dv), NEW jobs
  PROVE  LET dw == [dv EXCEPT !.jobs = jobs]
         IN /\ DevShape(dw) /\ dw.jobs = jobs /\ dw.persistent = dv.persistent
            /\ dw.durable = dv.durable /\ dw.progress = dv.progress /\ dw.acks = dv.acks
            /\ dw.active = dv.active /\ dw.commits = dv.commits /\ dw.queue = dv.queue
  BY DEF DevShape

\* Its stream is taken from the device; the recording fails unless it is forced.
LEMMA AbandonFields ==
  ASSUME DevShape(dev), AbandonActive
  PROVE  /\ DevShape(dev') /\ dev'.active = NoStream
         /\ dev'.queue = dev.queue /\ dev'.commits = dev.commits
         /\ IF Abandonable(dev.active)
            THEN /\ cm' = FailAllowed(cm, {dev.active.seg})
                 /\ Discards(dev, dev', {dev.active.seg})
            ELSE cm' = cm /\ SameLedger(dev, dev')
<1>1. CASE Abandonable(dev.active)
  <2> DEFINE S == {dev.active.seg}
             dw == DiscardLedger(dev, S)
  <2>1. cm' = FailAllowed(cm, S) /\ dev' = [dw EXCEPT !.active = NoStream]
    BY <1>1 DEF AbandonActive
  <2>2. DevShape(dw) /\ Discards(dev, dw, S) /\ dw.queue = dev.queue /\ dw.commits = dev.commits
    BY DiscardFields
  <2> HIDE DEF dw, S
  <2>3. DevShape(dev') /\ SameLedger(dw, dev') /\ dev'.active = NoStream
        /\ dev'.queue = dw.queue /\ dev'.commits = dw.commits
    BY <2>1, <2>2, ActiveFields
  <2>4. Discards(dev, dev', S)
    BY <2>2, <2>3 DEF Discards, SameLedger
  <2> QED BY <1>1, <2>1, <2>2, <2>3, <2>4 DEF S
<1>2. CASE ~Abandonable(dev.active)
  <2>1. cm' = cm /\ dev' = [dev EXCEPT !.active = NoStream]
    BY <1>2 DEF AbandonActive
  <2> QED BY <1>2, <2>1, ActiveFields
<1> QED BY <1>1, <1>2

LEMMA FailRecordingFields ==
  ASSUME DevShape(dev), NEW s, FailRecording(s)
  PROVE  /\ DevShape(dev') /\ dev'.active = NoStream
         /\ dev'.queue = dev.queue /\ dev'.commits = dev.commits
         /\ cm' = FailAllowed(cm, {s}) /\ Discards(dev, dev', {s})
<1> DEFINE S == {s}
           dw == DiscardLedger(dev, S)
<1>1. cm' = FailAllowed(cm, S) /\ dev' = [dw EXCEPT !.active = NoStream]
  BY DEF FailRecording
<1>2. DevShape(dw) /\ Discards(dev, dw, S) /\ dw.queue = dev.queue /\ dw.commits = dev.commits
  BY DiscardFields
<1> HIDE DEF dw, S
<1>3. DevShape(dev') /\ SameLedger(dw, dev') /\ dev'.active = NoStream
      /\ dev'.queue = dw.queue /\ dev'.commits = dw.commits
  BY <1>1, <1>2, ActiveFields
<1>4. Discards(dev, dev', S)
  BY <1>2, <1>3 DEF Discards, SameLedger
<1> QED BY <1>1, <1>2, <1>3, <1>4 DEF S

LEMMA BeginExitFields ==
  ASSUME DevShape(dev), BeginExit
  PROVE  /\ DevShape(dev') /\ dev'.active \in {dev.active, NoStream}
         /\ dev'.queue = dev.queue /\ dev'.commits = dev.commits
         /\ cm' = FailAllowed(cm, Cut) /\ Discards(dev, dev', Cut)
<1> DEFINE dw == DiscardLedger(dev, Cut)
           a  == IF dw.active # NoStream /\ dw.active.seg \in Cut THEN NoStream ELSE dw.active
<1>1. cm' = FailAllowed(cm, Cut) /\ dev' = [dw EXCEPT !.active = a]
  BY DEF BeginExit
<1>2. DevShape(dw) /\ Discards(dev, dw, Cut) /\ dw.queue = dev.queue /\ dw.commits = dev.commits
      /\ dw.active = dev.active
  BY DiscardFields
<1>3. a \in {dev.active, NoStream}
  BY <1>2
<1> HIDE DEF dw, a
<1>4. DevShape(dev') /\ SameLedger(dw, dev') /\ dev'.active = a
      /\ dev'.queue = dw.queue /\ dev'.commits = dw.commits
  BY <1>1, <1>2, ActiveFields
<1>5. Discards(dev, dev', Cut)
  BY <1>2, <1>4 DEF Discards, SameLedger
<1> QED BY <1>1, <1>2, <1>3, <1>4, <1>5

LEMMA FailCommitFields ==
  ASSUME DevShape(dev), NEW s \in Segments, FailCommit(s)
  PROVE  /\ DevShape(dev') /\ dev'.queue = dev.queue
         /\ dev'.active = IF dev.active # NoStream /\ dev.active.seg = s /\ dev.active.committing
                          THEN NoStream ELSE dev.active
         /\ \A t \in Segments : dev'.commits[t] = IF t = s THEN NoCommit ELSE dev.commits[t]
         /\ IF mode # "up" \/ CommitOf(s).stale
            THEN /\ cm' = cm /\ dev'.persistent = dev.persistent /\ dev'.durable = dev.durable
                 /\ dev'.jobs = dev.jobs /\ dev'.acks = dev.acks
                 /\ dev'.progress = [dev.progress EXCEPT ![s] = None]
            ELSE cm' = FailAllowed(cm, {s}) /\ Discards(dev, dev', {s})
<1>1. CASE mode # "up" \/ CommitOf(s).stale
  <2> DEFINE dv == ReleaseOwner(dev, s)
             next == [dev.progress EXCEPT ![s] = None]
             dw == [dv EXCEPT !.progress[s] = None]
  <2>1. dev' = FinishCommit(dw, s) /\ cm' = cm
    BY <1>1 DEF FailCommit
  <2>2. /\ DevShape(dv) /\ SameLedger(dev, dv)
        /\ dv.active = IF dev.active # NoStream /\ dev.active.seg = s /\ dev.active.committing
                       THEN NoStream ELSE dev.active
        /\ dv.queue = dev.queue /\ dv.commits = dev.commits
    BY ReleaseFields
  <2> HIDE DEF dv
  <2>3. dw = [dv EXCEPT !.progress = next]
    BY <2>2 DEF SameLedger
  <2> HIDE DEF dw, next
  <2>4. /\ DevShape(dw) /\ dw.persistent = dv.persistent /\ dw.durable = dv.durable
        /\ dw.jobs = dv.jobs /\ dw.acks = dv.acks /\ dw.progress = next
        /\ dw.active = dv.active /\ dw.queue = dv.queue /\ dw.commits = dv.commits
    BY <2>2, <2>3 DEF DevShape
  <2>5. /\ DevShape(dev') /\ SameLedger(dw, dev') /\ dev'.active = dw.active /\ dev'.queue = dw.queue
        /\ \A t \in Segments : dev'.commits[t] = IF t = s THEN NoCommit ELSE dw.commits[t]
    BY <2>1, <2>4, FinishFields
  <2>6. /\ dev'.persistent = dev.persistent /\ dev'.durable = dev.durable
        /\ dev'.jobs = dev.jobs /\ dev'.acks = dev.acks /\ dev'.progress = next
    BY <2>2, <2>4, <2>5 DEF SameLedger
  <2> QED BY <1>1, <2>1, <2>2, <2>4, <2>5, <2>6 DEF next
<1>2. CASE ~(mode # "up" \/ CommitOf(s).stale)
  <2> DEFINE S == {s}
             dv == DiscardLedger(dev, S)
             dw == ReleaseOwner(dv, s)
  <2>1. dev' = FinishCommit(dw, s) /\ cm' = FailAllowed(cm, S)
    BY <1>2 DEF FailCommit
  <2>2. /\ DevShape(dv) /\ Discards(dev, dv, S)
        /\ dv.queue = dev.queue /\ dv.commits = dev.commits /\ dv.active = dev.active
    BY DiscardFields
  <2> HIDE DEF dv, S
  <2>3. /\ DevShape(dw) /\ SameLedger(dv, dw)
        /\ dw.active = IF dv.active # NoStream /\ dv.active.seg = s /\ dv.active.committing
                       THEN NoStream ELSE dv.active
        /\ dw.queue = dv.queue /\ dw.commits = dv.commits
    BY <2>2, ReleaseFields
  <2> HIDE DEF dw
  <2>4. /\ DevShape(dev') /\ SameLedger(dw, dev') /\ dev'.active = dw.active /\ dev'.queue = dw.queue
        /\ \A t \in Segments : dev'.commits[t] = IF t = s THEN NoCommit ELSE dw.commits[t]
    BY <2>1, <2>3, FinishFields
  <2>5. Discards(dev, dev', S)
    BY <2>2, <2>3, <2>4 DEF Discards, SameLedger
  <2> QED BY <1>2, <2>1, <2>2, <2>3, <2>4, <2>5 DEF S
<1> QED BY <1>1, <1>2

\* What works on a segment is told that its case was replaced.
Told(e) == [e EXCEPT !.stale = TRUE]

LEMMA ToldCommit ==
  ASSUME NEW c, c = [k |-> c.k, stale |-> c.stale, file |-> c.file, step |-> c.step]
  PROVE  Told(c) = [k |-> c.k, stale |-> TRUE, file |-> c.file, step |-> c.step]
<1>1. ASSUME NEW v
      PROVE  [c EXCEPT !.stale = v] = [k |-> c.k, stale |-> v, file |-> c.file, step |-> c.step]
  OBVIOUS
<1>2. [c EXCEPT !.stale = TRUE] = [k |-> c.k, stale |-> TRUE, file |-> c.file, step |-> c.step]
  BY <1>1, Zenon
<1> QED BY <1>2, Zenon DEF Told

\* The case is replaced: its segments go, what works on them is told.
LeftFor(c) ==
  IF cm.current[Device] \in {None, c} THEN {}
  ELSE {s \in Segments : cm.seg[s].case = cm.current[Device]}

LEMMA BeginCaseFields ==
  ASSUME DevShape(dev), BeginCase, NEW c, c = Call1.c, NEW all, all = LeftFor(c)
  PROVE  /\ cm' = StartCase(cm, Device, c) /\ MayStartCase(cm, Device, c)
         /\ DevShape(dev')
         /\ \/ Discards(dev, dev', all)
            \/ /\ all = {} /\ dev'.durable = dev.durable /\ dev'.jobs = dev.jobs
               /\ dev'.progress = dev.progress
               /\ \A t \in Segments : /\ End(t) \in dev'.acks <=> End(t) \in dev.acks
                                      /\ End(t) \in dev'.persistent <=> End(t) \in dev.persistent
         /\ \A t \in Segments :
              dev'.commits[t] = IF t \in all /\ dev.commits[t].step # "none"
                                THEN Told(dev.commits[t]) ELSE dev.commits[t]
         /\ dev'.active = IF dev.active # NoStream /\ dev.active.seg \in all THEN NoStream
                          ELSE dev.active
         /\ \/ dev'.queue = [i \in DOMAIN dev.queue |->
                               IF dev.queue[i].s \in all THEN Told(dev.queue[i])
                               ELSE dev.queue[i]]
            \/ dev'.queue = dev.queue
<1> DEFINE e == cm.current[Device]
           gone == {s \in Segments : cm.seg[s].case = e}
           kept == IF e \notin {None, c} THEN EvictDeviceCase(dev, e) ELSE dev
           acks == kept.acks \cup {CaseMsg(c)}
           more == kept.persistent \cup {CaseMsg(c)}
<1>1. /\ cm' = StartCase(cm, Device, c) /\ MayStartCase(cm, Device, c)
      /\ dev' = [kept EXCEPT !.acks = acks, !.persistent = more]
  BY DEF BeginCase
<1>2. ASSUME NEW t \in Segments PROVE End(t) # CaseMsg(c)
  BY DEF End, CaseMsg
<1>3. ASSUME DevShape(kept)
      PROVE  /\ DevShape(dev') /\ dev'.durable = kept.durable /\ dev'.jobs = kept.jobs
             /\ dev'.progress = kept.progress /\ dev'.commits = kept.commits
             /\ dev'.active = kept.active /\ dev'.queue = kept.queue
             /\ \A t \in Segments : /\ End(t) \in dev'.acks <=> End(t) \in kept.acks
                                    /\ End(t) \in dev'.persistent <=> End(t) \in kept.persistent
  <2> HIDE DEF kept
  <2> QED BY <1>1, <1>2, <1>3 DEF DevShape
<1>4. CASE e \notin {None, c}
  <2> DEFINE dw == DiscardLedger(dev, gone)
             f == dw.acks \ {CaseMsg(e)}
             g == dw.persistent \ {CaseMsg(e)}
             h == [s \in Segments |-> IF s \in gone /\ dw.commits[s].step # "none"
                                      THEN Told(dw.commits[s]) ELSE dw.commits[s]]
             i == [n \in DOMAIN dw.queue |-> IF dw.queue[n].s \in gone
                                             THEN Told(dw.queue[n]) ELSE dw.queue[n]]
             a == IF dw.active # NoStream /\ dw.active.seg \in gone THEN NoStream ELSE dw.active
  <2>1. kept = [dw EXCEPT !.acks = f, !.persistent = g, !.commits = h, !.queue = i, !.active = a]
    BY <1>4 DEF EvictDeviceCase, Told
  <2>2. all = gone
    BY <1>4 DEF LeftFor
  <2>3. /\ DevShape(dw) /\ Discards(dev, dw, gone)
        /\ dw.queue = dev.queue /\ dw.commits = dev.commits /\ dw.active = dev.active
    BY DiscardFields
  <2>4. ASSUME NEW t \in Segments PROVE End(t) # CaseMsg(e)
    BY DEF End, CaseMsg
  <2>5. /\ a = IF dev.active # NoStream /\ dev.active.seg \in all THEN NoStream ELSE dev.active
        /\ i = [n \in DOMAIN dev.queue |-> IF dev.queue[n].s \in all
                                           THEN Told(dev.queue[n]) ELSE dev.queue[n]]
        /\ \A t \in Segments :
                 h[t] = IF t \in all /\ dev.commits[t].step # "none"
                        THEN Told(dev.commits[t]) ELSE dev.commits[t]
    BY <2>2, <2>3
  <2>6. h = [s \in Segments |-> h[s]] /\ \A s \in Segments :
          h[s] = [k |-> h[s].k, stale |-> h[s].stale, file |-> h[s].file, step |-> h[s].step]
    <3>1. \A s \in Segments : dw.commits[s] =
            [k |-> dw.commits[s].k, stale |-> dw.commits[s].stale, file |-> dw.commits[s].file,
             step |-> dw.commits[s].step]
      BY <2>3 DEF DevShape
    <3>2. \A s \in Segments : h[s] \in {Told(dw.commits[s]), dw.commits[s]}
      OBVIOUS
    <3>3. \A s \in Segments : Told(dw.commits[s]) =
            [k |-> dw.commits[s].k, stale |-> TRUE, file |-> dw.commits[s].file,
             step |-> dw.commits[s].step]
      BY <3>1, ToldCommit
    <3> HIDE DEF dw
    <3>4. h = [s \in Segments |-> h[s]]
      OBVIOUS
    <3> HIDE DEF h
    <3> QED BY <3>1, <3>2, <3>3, <3>4
  <2> HIDE DEF dw, f, g, h, i, a, gone
  <2>x. dw = [acks |-> dw.acks, persistent |-> dw.persistent, durable |-> dw.durable,
              jobs |-> dw.jobs, progress |-> dw.progress, commits |-> dw.commits,
              active |-> dw.active, queue |-> dw.queue]
    BY <2>3 DEF DevShape
  <2>7. kept = [acks |-> f, persistent |-> g, durable |-> dw.durable, jobs |-> dw.jobs,
                progress |-> dw.progress, commits |-> h, active |-> a, queue |-> i]
    BY <2>1, <2>x
  <2> HIDE DEF kept
  <2>8. DevShape(kept)
    BY <2>6, <2>7 DEF DevShape
  <2>9. Discards(dev, kept, all)
    BY <2>2, <2>3, <2>4, <2>7 DEF Discards, f, g
  <2>10. Discards(dev, dev', all) /\ DevShape(dev')
    BY <1>3, <2>8, <2>9 DEF Discards, kept
  <2>11. dev'.commits = h /\ dev'.active = a /\ dev'.queue = i
    BY <1>3, <2>7, <2>8 DEF kept
  <2>12. \A t \in Segments : dev'.commits[t] = IF t \in all /\ dev.commits[t].step # "none"
                            THEN Told(dev.commits[t]) ELSE dev.commits[t]
    BY <2>5, <2>11
  <2>13. /\ dev'.active = IF dev.active # NoStream /\ dev.active.seg \in all THEN NoStream ELSE dev.active
         /\ dev'.queue = [n \in DOMAIN dev.queue |-> IF dev.queue[n].s \in all
                                           THEN Told(dev.queue[n]) ELSE dev.queue[n]]
    BY <2>5, <2>11
  <2> QED BY <1>1, <2>10, <2>12, <2>13
<1>5. CASE e \in {None, c}
  <2>1. kept = dev /\ all = {}
    BY <1>5 DEF LeftFor
  <2> QED BY <1>1, <1>3, <2>1
<1> QED BY <1>4, <1>5

\* The commit point of a recording.
LEMMA BeginEndFields ==
  ASSUME DevShape(dev), BeginEnd, NEW s, s = Call1.s
  PROVE  /\ cm' = ReleaseAudio(EndSegment(cm, s), s) /\ MayEndSegment(cm, s)
         /\ ~CommitOf(s).stale
         /\ DevShape(dev') /\ dev'.queue = dev.queue /\ dev'.commits = dev.commits
         /\ dev'.active = IF dev.active # NoStream /\ dev.active.seg = s /\ dev.active.committing
                          THEN NoStream ELSE dev.active
         /\ dev'.durable = dev.durable \cup {s}
         /\ dev'.jobs = [dev.jobs EXCEPT ![s] = [status |-> "queued", file |-> CommitOf(s).file]]
         /\ dev'.progress = [dev.progress EXCEPT ![s] = None]
         /\ \A t \in Segments : /\ End(t) \in dev'.acks <=> t = s \/ End(t) \in dev.acks
                                /\ End(t) \in dev'.persistent <=> t = s \/ End(t) \in dev.persistent
<1> DEFINE dv   == ReleaseOwner(dev, s)
           acks == dv.acks \cup {End(s)}
           held == dv.durable \cup {s}
           jobs == [dv.jobs EXCEPT ![s] = [status |-> "queued", file |-> CommitOf(s).file]]
           more == dv.persistent \cup (AboutSegment(s) \cap (dev.acks \cup {End(s)}))
           next == [dv.progress EXCEPT ![s] = None]
<1>1. dev' = [dv EXCEPT !.acks = acks, !.durable = held, !.jobs = jobs, !.persistent = more,
                        !.progress = next]
  BY DEF BeginEnd
<1>2. /\ cm' = ReleaseAudio(EndSegment(cm, s), s) /\ MayEndSegment(cm, s) /\ ~CommitOf(s).stale
  BY DEF BeginEnd, EndIsAborted
<1>3. /\ DevShape(dv) /\ SameLedger(dev, dv)
      /\ dv.active = IF dev.active # NoStream /\ dev.active.seg = s /\ dev.active.committing
                     THEN NoStream ELSE dev.active
      /\ dv.queue = dev.queue /\ dv.commits = dev.commits
  BY ReleaseFields
<1>4. \A t \in Segments : /\ End(t) \in acks <=> t = s \/ End(t) \in dev.acks
                          /\ End(t) \in more <=> t = s \/ End(t) \in dev.persistent
  BY <1>3 DEF SameLedger, End, Start, AboutSegment
<1>5. /\ held = dev.durable \cup {s} /\ next = [dev.progress EXCEPT ![s] = None]
      /\ jobs = [dev.jobs EXCEPT ![s] = [status |-> "queued", file |-> CommitOf(s).file]]
  BY <1>3 DEF SameLedger
<1> HIDE DEF dv, acks, held, jobs, more, next
<1>6. /\ DevShape(dev') /\ dev'.acks = acks /\ dev'.durable = held /\ dev'.jobs = jobs
      /\ dev'.persistent = more /\ dev'.progress = next
      /\ dev'.queue = dv.queue /\ dev'.commits = dv.commits /\ dev'.active = dv.active
  BY <1>1, <1>3 DEF DevShape
<1> QED BY <1>2, <1>3, <1>4, <1>5, <1>6

LEMMA StatusFields ==
  ASSUME NEW dv, DevShape(dv), NEW s, NEW status
  PROVE  LET dw == SetStatus(dv, s, status)
         IN /\ DevShape(dw) /\ dw.persistent = dv.persistent
            /\ dw.durable = dv.durable /\ dw.progress = dv.progress /\ dw.acks = dv.acks
            /\ dw.active = dv.active /\ dw.commits = dv.commits /\ dw.queue = dv.queue
<1> DEFINE dw == SetStatus(dv, s, status)
           jobs == [dv.jobs EXCEPT ![s].status = status]
<1>1. dw = dv \/ dw = [dv EXCEPT !.jobs = jobs]
  BY DEF SetStatus
<1> HIDE DEF jobs
<1>2. CASE dw = dv
  BY <1>2
<1>3. CASE dw = [dv EXCEPT !.jobs = jobs]
  <2> HIDE DEF dw
  <2>1. /\ DevShape(dw) /\ dw.persistent = dv.persistent
        /\ dw.durable = dv.durable /\ dw.progress = dv.progress /\ dw.acks = dv.acks
        /\ dw.active = dv.active /\ dw.commits = dv.commits /\ dw.queue = dv.queue
    BY <1>3, JobFields
  <2> QED BY <2>1 DEF dw
<1> QED BY <1>1, <1>2, <1>3

LEMMA StatusJobs ==
  ASSUME NEW dv, DevShape(dv), NEW s, NEW status
  PROVE  SetStatus(dv, s, status).jobs =
           IF dv.jobs[s] = NoJob THEN dv.jobs ELSE [dv.jobs EXCEPT ![s].status = status]
<1> DEFINE jobs == [dv.jobs EXCEPT ![s].status = status]
<1>1. CASE dv.jobs[s] = NoJob
  BY <1>1 DEF SetStatus
<1>2. CASE dv.jobs[s] # NoJob
  <2> DEFINE dw == SetStatus(dv, s, status)
  <2>1. dw = [dv EXCEPT !.jobs = jobs]
    BY <1>2 DEF SetStatus
  <2> HIDE DEF dw, jobs
  <2> QED BY <1>2, <2>1, JobFields DEF dw, jobs
<1> QED BY <1>1, <1>2

FirstStream(k, s)  == Recording(k, s, FALSE)
ReplayStream(k, s) == Recording(k, s, TRUE)

FirstSequence(progress, s) == [progress EXCEPT ![s] = IF @ = None THEN 0 ELSE @]

\* How a stream opens, if it does.
LEMMA OpenStreamFields ==
  ASSUME DevShape(dev), NEW k, NEW c, NEW s \in Segments, OpenStream(k, c, s)
  PROVE  /\ DevShape(dev') /\ dev'.queue = dev.queue /\ dev'.commits = dev.commits
         /\ dev'.durable = dev.durable /\ dev'.jobs = dev.jobs /\ dev'.persistent = dev.persistent
         /\ \A t \in Segments : End(t) \in dev'.acks <=> End(t) \in dev.acks
         /\ \/ /\ ResumesProgress(k, c, s) /\ dev'.active = FirstStream(k, s)
               /\ dev'.progress = dev.progress /\ cm' = cm
            \/ /\ ReplaysDurable(c, s) /\ dev'.active = ReplayStream(k, s)
               /\ dev'.progress = dev.progress /\ cm' = cm
            \/ /\ OpensSegment(c, s) /\ dev'.active = FirstStream(k, s)
               /\ dev'.progress = FirstSequence(dev.progress, s)
               /\ cm' = StartSegment(cm, c, s, SpeakerOf[s])
<1>1. CASE ResumesProgress(k, c, s) /\ dev' = [dev EXCEPT !.active = FirstStream(k, s)] /\ cm' = cm
  BY <1>1, ActiveFields DEF SameLedger
<1>2. ASSUME NEW t \in Segments PROVE End(t) # Start(s)
  BY DEF End, Start
<1> DEFINE acks == dev.acks \cup {Start(s)}
           next == FirstSequence(dev.progress, s)
           r == ReplayStream(k, s)
           n == FirstStream(k, s)
<1>3. CASE ReplaysDurable(c, s) /\ dev' = [dev EXCEPT !.active = r, !.acks = acks] /\ cm' = cm
  <2> HIDE DEF r
  <2>1. /\ DevShape(dev') /\ dev'.queue = dev.queue /\ dev'.commits = dev.commits
        /\ dev'.durable = dev.durable /\ dev'.jobs = dev.jobs /\ dev'.persistent = dev.persistent
        /\ dev'.acks = acks /\ dev'.active = r /\ dev'.progress = dev.progress
    BY <1>3 DEF DevShape
  <2> QED BY <1>2, <1>3, <2>1 DEF r
<1>4. CASE /\ OpensSegment(c, s) /\ dev' = [dev EXCEPT !.active = n, !.acks = acks, !.progress = next]
           /\ cm' = StartSegment(cm, c, s, SpeakerOf[s])
  <2> HIDE DEF n, next
  <2>1. /\ DevShape(dev') /\ dev'.queue = dev.queue /\ dev'.commits = dev.commits
        /\ dev'.durable = dev.durable /\ dev'.jobs = dev.jobs /\ dev'.persistent = dev.persistent
        /\ dev'.acks = acks /\ dev'.active = n /\ dev'.progress = next
    BY <1>4 DEF DevShape
  <2> QED BY <1>2, <1>4, <2>1 DEF n, next
<1>5. \/ ResumesProgress(k, c, s) /\ dev' = [dev EXCEPT !.active = FirstStream(k, s)] /\ cm' = cm
      \/ ReplaysDurable(c, s) /\ dev' = [dev EXCEPT !.active = r, !.acks = acks] /\ cm' = cm
      \/ /\ OpensSegment(c, s) /\ dev' = [dev EXCEPT !.active = n, !.acks = acks, !.progress = next]
         /\ cm' = StartSegment(cm, c, s, SpeakerOf[s])
  BY DEF OpenStream, FirstStream, ReplayStream, FirstSequence
<1> QED BY <1>1, <1>3, <1>4, <1>5

LEMMA CommitFields ==
  ASSUME NEW dv, DevShape(dv), NEW s \in Segments, NEW row, RowShape(row)
  PROVE  LET dw == SetCommit(dv, s, row)
         IN /\ OnlyCommit(dv, dw, s, row) /\ SameLedger(dv, dw)
            /\ dw.active = dv.active /\ dw.queue = dv.queue
<1> DEFINE work == [dv.commits EXCEPT ![s] = row]
           dw == SetCommit(dv, s, row)
<1>1. dw = [dv EXCEPT !.commits = work]
  BY DEF SetCommit
<1>2. OnlyCommit(dv, dw, s, row)
  BY CommitChanges
<1> HIDE DEF work, dw
<1>3. SameLedger(dv, dw) /\ dw.active = dv.active /\ dw.queue = dv.queue
  BY <1>1 DEF DevShape, SameLedger
<1> QED BY <1>2, <1>3 DEF dw

\* Its recording is being committed.
Committing(a) == [a EXCEPT !.committing = TRUE]

LEMMA EndSpeechFields ==
  ASSUME DevShape(dev), NEW k, NEW s \in Segments, EndSpeech(k, s)
  PROVE  /\ OnlyCommit(dev, dev', s, [k |-> k, stale |-> FALSE, file |-> None, step |-> "writing"])
         /\ SameLedger(dev, dev') /\ dev'.queue = dev.queue
         /\ dev'.active = Committing(dev.active)
<1> DEFINE row == [k |-> k, stale |-> FALSE, file |-> None, step |-> "writing"]
           stream == Committing(dev.active)
           dv == [dev EXCEPT !.active = stream]
<1>1. dev' = SetCommit(dv, s, row)
  BY DEF EndSpeech, SetCommit, Committing
<1>2. RowShape(row)
  BY DEF RowShape
<1>3. DevShape(dv) /\ SameLedger(dev, dv) /\ dv.active = stream
      /\ dv.queue = dev.queue /\ dv.commits = dev.commits
  BY ActiveFields
<1> HIDE DEF row, stream, dv
<1>4. /\ OnlyCommit(dv, dev', s, row) /\ SameLedger(dv, dev')
      /\ dev'.active = dv.active /\ dev'.queue = dv.queue
  BY <1>1, <1>2, <1>3, CommitFields
<1>5. OnlyCommit(dev, dev', s, row) /\ SameLedger(dev, dev')
  BY <1>3, <1>4 DEF OnlyCommit, SameLedger
<1> QED BY <1>3, <1>4, <1>5 DEF row, stream

LEMMA EndReturnsFields ==
  ASSUME DevShape(dev), EndReturns, NEW s \in Segments, s = txn.call.s
  PROVE  /\ DevShape(dev') /\ SameLedger(dev, dev') /\ dev'.active = dev.active
         /\ \A t \in Segments : dev'.commits[t] = IF t = s THEN NoCommit ELSE dev.commits[t]
         /\ dev'.queue = IF mode = "up" THEN Append(dev.queue, QueueEntry(s, CommitOf(s).file))
                                        ELSE dev.queue
<1> DEFINE dw == FinishCommit(dev, s)
           q  == Append(dw.queue, QueueEntry(s, CommitOf(s).file))
<1>1. dev' = IF mode = "up" THEN [dw EXCEPT !.queue = q] ELSE dw
  BY DEF EndReturns
<1>2. /\ DevShape(dw) /\ SameLedger(dev, dw) /\ dw.active = dev.active /\ dw.queue = dev.queue
      /\ \A t \in Segments : dw.commits[t] = IF t = s THEN NoCommit ELSE dev.commits[t]
  BY FinishFields
<1>3. q = Append(dev.queue, QueueEntry(s, CommitOf(s).file))
  BY <1>2
<1> HIDE DEF dw, q
<1>4. CASE mode = "up"
  <2>1. /\ DevShape(dev') /\ SameLedger(dw, dev') /\ dev'.active = dw.active
        /\ dev'.commits = dw.commits /\ dev'.queue = q
    BY <1>1, <1>2, <1>4 DEF DevShape, SameLedger
  <2>2. SameLedger(dev, dev')
    BY <1>2, <2>1 DEF SameLedger
  <2> QED BY <1>2, <1>3, <1>4, <2>1, <2>2
<1>5. CASE mode # "up"
  BY <1>1, <1>2, <1>5
<1> QED BY <1>4, <1>5

LEMMA CleanAudioFields ==
  ASSUME DevShape(dev), CleanAudio, NEW s, s = txn.call.s
  PROVE  /\ cm' = cm /\ DevShape(dev') /\ dev'.persistent = dev.persistent
         /\ dev'.durable = dev.durable /\ dev'.progress = dev.progress /\ dev'.acks = dev.acks
         /\ dev'.active = dev.active /\ dev'.commits = dev.commits /\ dev'.queue = dev.queue
         /\ dev'.jobs = IF dev.jobs[s] = NoJob THEN dev.jobs
                        ELSE [dev.jobs EXCEPT ![s].file = None]
<1> DEFINE jobs == [dev.jobs EXCEPT ![s].file = None]
<1>1. cm' = cm /\ dev' = IF dev.jobs[s] = NoJob THEN dev ELSE [dev EXCEPT !.jobs = jobs]
  BY DEF CleanAudio
<1> HIDE DEF jobs
<1> QED BY <1>1, JobFields DEF jobs

\* A device that is restored has what the snapshot has.
LEMMA RestoredFields ==
  ASSUME NEW snap
  PROVE  LET dw == RestoredDevice(snap)
         IN /\ DevShape(dw) /\ dw.acks = snap.acks /\ dw.persistent = snap.acks
            /\ dw.durable = snap.durable /\ dw.jobs = snap.jobs
            /\ dw.progress = [t \in Segments |-> None] /\ dw.active = NoStream /\ dw.queue = <<>>
            /\ \A t \in Segments : dw.commits[t] = NoCommit
<1> DEFINE a == snap.acks  b == snap.durable  c == snap.jobs
<1>1. RestoredDevice(snap) = [FreshDevice EXCEPT !.acks = a, !.persistent = a, !.durable = b,
                                                 !.jobs = c]
  BY DEF RestoredDevice
<1>2. DevShape(RestoredDevice(snap)) /\ RestoredDevice(snap).active = NoStream
      /\ \A s \in Segments : RestoredDevice(snap).commits[s] = NoCommit
  BY RestoredIsFresh
<1> HIDE DEF a, b, c
<1> DEFINE dw == RestoredDevice(snap)
<1>3. /\ dw.acks = a /\ dw.persistent = a
      /\ dw.durable = b /\ dw.jobs = c
      /\ dw.progress = [t \in Segments |-> None] /\ dw.queue = <<>>
  BY <1>1 DEF FreshDevice
<1> QED BY <1>2, <1>3 DEF a, b, c

\* A WAV that is lost takes its job, one that is done with is forgotten.
RecoveredJobs(stuck) ==
  [t \in Segments |-> IF t \in LostJobs THEN NoJob
                      ELSE IF Pending(disk.jobs[t]) \/ t \in stuck THEN disk.jobs[t]
                      ELSE [disk.jobs[t] EXCEPT !.file = None]]

LEMMA RecoveredFields ==
  ASSUME NEW stuck, NEW dw, dw = RecoveredDevice(stuck)
  PROVE  /\ DevShape(dw) /\ dw.active = NoStream /\ dw.queue = <<>>
         /\ \A t \in Segments : dw.commits[t] = NoCommit
         /\ dw.durable = disk.durable \ LostJobs
         /\ dw.jobs = RecoveredJobs(stuck)
         /\ dw.progress = [t \in Segments |-> None]
         /\ \A t \in Segments : /\ End(t) \in dw.acks <=> t \notin LostJobs /\ End(t) \in disk.acks
                                /\ End(t) \in dw.persistent <=> t \notin LostJobs /\ End(t) \in disk.acks
<1> DEFINE dx   == RestoredDevice(disk)
           dv   == DiscardLedger(dx, LostJobs)
           jobs == [s \in Segments |-> IF Pending(dv.jobs[s]) \/ s \in stuck THEN dv.jobs[s]
                                       ELSE [dv.jobs[s] EXCEPT !.file = None]]
<1>1. /\ DevShape(dx) /\ dx.acks = disk.acks /\ dx.persistent = disk.acks
      /\ dx.durable = disk.durable /\ dx.jobs = disk.jobs
      /\ dx.progress = [t \in Segments |-> None] /\ dx.active = NoStream /\ dx.queue = <<>>
      /\ \A t \in Segments : dx.commits[t] = NoCommit
  BY RestoredFields
<1>2. dw = [dv EXCEPT !.jobs = jobs]
  BY DEF RecoveredDevice
<1> HIDE DEF dx
<1>3. /\ DevShape(dv) /\ Discards(dx, dv, LostJobs)
      /\ dv.queue = dx.queue /\ dv.commits = dx.commits /\ dv.active = dx.active
  BY <1>1, DiscardFields
<1> HIDE DEF dv
<1>4. [NoJob EXCEPT !.file = None] = NoJob /\ ~Pending(NoJob)
  BY DEF NoJob, Pending
<1>5. jobs = RecoveredJobs(stuck)
  <2> DEFINE this(t) == IF Pending(dv.jobs[t]) \/ t \in stuck THEN dv.jobs[t]
                        ELSE [dv.jobs[t] EXCEPT !.file = None]
             that(t) == IF t \in LostJobs THEN NoJob
                        ELSE IF Pending(disk.jobs[t]) \/ t \in stuck THEN disk.jobs[t]
                        ELSE [disk.jobs[t] EXCEPT !.file = None]
  <2>1. ASSUME NEW t \in Segments PROVE this(t) = that(t)
    <3>1. dv.jobs[t] = IF t \in LostJobs THEN NoJob ELSE disk.jobs[t]
      BY <1>1, <1>3 DEF Discards
    <3> QED BY <1>4, <3>1, Zenon
  <2> HIDE DEF this, that
  <2>2. [t \in Segments |-> this(t)] = [t \in Segments |-> that(t)]
    BY <2>1
  <2> QED BY <2>2 DEF this, that, RecoveredJobs
<1> HIDE DEF jobs
<1>6. /\ DevShape(dw) /\ dw.jobs = jobs /\ dw.persistent = dv.persistent
      /\ dw.durable = dv.durable /\ dw.progress = dv.progress /\ dw.acks = dv.acks
      /\ dw.active = dv.active /\ dw.commits = dv.commits /\ dw.queue = dv.queue
  BY <1>2, <1>3, JobFields
<1>7. dw.progress = [t \in Segments |-> None]
  BY <1>1, <1>3, <1>6 DEF Discards
<1>8. dw.durable = disk.durable \ LostJobs
  BY <1>1, <1>3, <1>6 DEF Discards
<1>9. \A t \in Segments : /\ End(t) \in dw.acks <=> t \notin LostJobs /\ End(t) \in disk.acks
                          /\ End(t) \in dw.persistent <=> t \notin LostJobs /\ End(t) \in disk.acks
  BY <1>1, <1>3, <1>6 DEF Discards
<1>10. \A t \in Segments : dw.commits[t] = NoCommit
  BY <1>1, <1>3, <1>6
<1> QED BY <1>1, <1>3, <1>5, <1>6, <1>7, <1>8, <1>9, <1>10

----------------------------------------------------------------------------
(* The transcription queue and the transactions of its entry at work.      *)

EntryShape(e) ==
  e = [s |-> e.s, file |-> e.file, stale |-> e.stale, step |-> e.step] /\ e.s \in Segments

QueueShape(queue) == IsSeq(queue) /\ \A i \in 1..Len(queue) : EntryShape(queue[i])

\* The step of the entry at work while a transaction for it is outstanding.
StepOf(op) == IF op = "begin" THEN "begin" ELSE IF op = "clean" THEN "clean" ELSE "settle"

WorkCall(call, queue) ==
  call.op \in WorkOps =>
    /\ queue # <<>> /\ Head(queue).s = call.s /\ Head(queue).step = StepOf(call.op)
    /\ call.op = "saved" => call.text \in Transcripts

\* There is at most one, and it is the first entry's.
WorkHolds(q, queue) ==
  /\ QueueShape(queue)
  /\ \A i \in 1..Len(q) : WorkCall(q[i], queue)
  /\ \A i, j \in 1..Len(q) : q[i].op \in WorkOps /\ q[j].op \in WorkOps => i = j

NoWork(q) == \A i \in 1..Len(q) : q[i].op \notin WorkOps

WorkInv == writable => WorkHolds(Outstanding, dev.queue)

LEMMA WorkQuiet ==
  ASSUME NEW q, NEW queue, WorkHolds(q, queue), NEW after, QueueShape(after),
         queue # <<>> => after # <<>> /\ Head(after).s = Head(queue).s
                         /\ Head(after).step = Head(queue).step
  PROVE  WorkHolds(q, after)
  BY DEF WorkHolds, WorkCall

LEMMA WorkDropped ==
  ASSUME NEW q, IsSeq(q), q # <<>>, NEW queue, WorkHolds(q, queue)
  PROVE  WorkHolds(Tail(q), queue)
<1>1. /\ Len(q) \in Nat \ {0} /\ Len(Tail(q)) = Len(q) - 1
      /\ \A i \in 1..Len(Tail(q)) : Tail(q)[i] = q[i + 1]
  BY SeqTail
<1>2. \A i \in 1..Len(Tail(q)) : i + 1 \in 1..Len(q)
  BY <1>1
<1>3. \A i \in 1..Len(Tail(q)) : WorkCall(Tail(q)[i], queue)
  BY <1>1, <1>2 DEF WorkHolds
<1>4. ASSUME NEW i \in 1..Len(Tail(q)), NEW j \in 1..Len(Tail(q)),
             Tail(q)[i].op \in WorkOps, Tail(q)[j].op \in WorkOps
      PROVE  i = j
  <2>1. i + 1 = j + 1
    BY <1>1, <1>2, <1>4 DEF WorkHolds
  <2> QED BY <1>1, <2>1
<1> QED BY <1>3, <1>4 DEF WorkHolds

LEMMA WorkGone ==
  ASSUME NEW q, IsSeq(q), q # <<>>, NEW queue, WorkHolds(q, queue), Head(q).op \in WorkOps
  PROVE  NoWork(Tail(q))
<1>1. /\ Len(q) \in Nat \ {0} /\ Len(Tail(q)) = Len(q) - 1 /\ Head(q) = q[1]
      /\ \A i \in 1..Len(Tail(q)) : Tail(q)[i] = q[i + 1]
  BY SeqTail
<1>2. \A i \in 1..Len(Tail(q)) : i + 1 \in 1..Len(q) /\ i + 1 # 1 /\ 1 \in 1..Len(q)
  BY <1>1
<1> QED BY <1>1, <1>2 DEF WorkHolds, NoWork

LEMMA WorkIdle ==
  ASSUME NEW q, NEW queue, WorkHolds(q, queue), Head(queue).step \in {"waiting", "asr"}
  PROVE  NoWork(q)
  BY DEF WorkHolds, WorkCall, NoWork, StepOf

LEMMA NoWorkHolds ==
  ASSUME NEW q, NoWork(q), NEW queue, QueueShape(queue) PROVE WorkHolds(q, queue)
  BY DEF WorkHolds, WorkCall, NoWork

LEMMA OtherAsked ==
  ASSUME NEW q, IsSeq(q), NEW queue, WorkHolds(q, queue), NEW call, call.op \notin WorkOps
  PROVE  WorkHolds(Append(q, call), queue)
<1> DEFINE r == Append(q, call)
<1>1. /\ IsSeq(r) /\ Len(q) \in Nat /\ Len(r) = Len(q) + 1
      /\ \A i \in 1..Len(q) : r[i] = q[i]
      /\ r[Len(q) + 1] = call
  BY SeqAppend
<1> HIDE DEF r
<1>2. \A i \in 1..Len(r) : i \in 1..Len(q) \/ i = Len(q) + 1
  BY <1>1
<1>3. \A i \in 1..Len(r) : WorkCall(r[i], queue)
  BY <1>1, <1>2 DEF WorkHolds, WorkCall
<1>4. \A i \in 1..Len(r) : r[i].op \in WorkOps => i \in 1..Len(q) /\ r[i] = q[i]
  BY <1>1, <1>2
<1>5. \A i, j \in 1..Len(r) : r[i].op \in WorkOps /\ r[j].op \in WorkOps => i = j
  BY <1>4 DEF WorkHolds
<1> QED BY <1>3, <1>5 DEF WorkHolds, r

LEMMA WorkAsked ==
  ASSUME NEW q, IsSeq(q), NoWork(q), NEW queue, QueueShape(queue),
         NEW call, WorkCall(call, queue)
  PROVE  WorkHolds(Append(q, call), queue)
<1> DEFINE r == Append(q, call)
<1>1. /\ IsSeq(r) /\ Len(q) \in Nat /\ Len(r) = Len(q) + 1
      /\ \A i \in 1..Len(q) : r[i] = q[i]
      /\ r[Len(q) + 1] = call
  BY SeqAppend
<1> HIDE DEF r
<1>2. \A i \in 1..Len(r) : i \in 1..Len(q) \/ i = Len(q) + 1
  BY <1>1
<1>3. \A i \in 1..Len(r) : WorkCall(r[i], queue)
  BY <1>1, <1>2 DEF NoWork, WorkCall
<1>4. \A i \in 1..Len(r) : r[i].op \in WorkOps => i = Len(q) + 1
  BY <1>1, <1>2 DEF NoWork
<1> QED BY <1>3, <1>4 DEF WorkHolds, r

LEMMA TailShape ==
  ASSUME NEW queue, QueueShape(queue), queue # <<>> PROVE QueueShape(Tail(queue))
<1>1. /\ IsSeq(Tail(queue)) /\ Len(queue) \in Nat \ {0} /\ Len(Tail(queue)) = Len(queue) - 1
      /\ \A i \in 1..Len(Tail(queue)) : Tail(queue)[i] = queue[i + 1]
  BY SeqTail DEF QueueShape
<1>2. \A i \in 1..Len(Tail(queue)) : i + 1 \in 1..Len(queue)
  BY <1>1
<1> QED BY <1>1, <1>2 DEF QueueShape

LEMMA AppendShape ==
  ASSUME NEW queue, QueueShape(queue), NEW e, EntryShape(e)
  PROVE  /\ QueueShape(Append(queue, e)) /\ Append(queue, e) # <<>>
         /\ queue # <<>> => Head(Append(queue, e)) = Head(queue)
<1> DEFINE r == Append(queue, e)
<1>1. /\ IsSeq(r) /\ Len(queue) \in Nat /\ Len(r) = Len(queue) + 1
      /\ \A i \in 1..Len(queue) : r[i] = queue[i]
      /\ r[Len(queue) + 1] = e
  BY SeqAppend DEF QueueShape
<1> HIDE DEF r
<1>2. \A i \in 1..Len(r) : i \in 1..Len(queue) \/ i = Len(queue) + 1
  BY <1>1
<1>3. QueueShape(r)
  BY <1>1, <1>2 DEF QueueShape
<1>4. r # <<>>
  BY <1>1
<1>5. queue # <<>> => Head(r) = Head(queue)
  <2>1. HAVE queue # <<>>
  <2>2. 1 \in 1..Len(queue) /\ Head(queue) = queue[1]
    BY <2>1, SeqTail DEF QueueShape
  <2>3. Head(r) = r[1]
    BY <1>1, <1>4, SeqTail
  <2> QED BY <1>1, <2>2, <2>3
<1> QED BY <1>3, <1>4, <1>5 DEF r

\* The entries of a queue are changed one by one.
LEMMA MapShape ==
  ASSUME NEW queue, QueueShape(queue), NEW after, after = [i \in DOMAIN queue |-> after[i]],
         \A i \in DOMAIN queue : EntryShape(queue[i]) => EntryShape(after[i])
  PROVE  /\ QueueShape(after) /\ DOMAIN queue = 1..Len(queue) /\ Len(after) = Len(queue)
         /\ queue # <<>> => 1 \in DOMAIN queue /\ after # <<>> /\ Head(after) = after[1]
                            /\ Head(queue) = queue[1]
<1>1. DOMAIN queue = 1..Len(queue) /\ Len(queue) \in Nat
  BY DEF QueueShape, IsSeq
<1>2. DOMAIN after = 1..Len(queue)
  BY <1>1
<1>3. after \in [1..Len(queue) -> {after[i] : i \in DOMAIN after}]
  BY <1>1
<1>4. after \in Seq({after[i] : i \in DOMAIN after})
  BY <1>1, <1>3
<1>5. IsSeq(after)
  BY <1>4 DEF IsSeq
<1>6. Len(after) = Len(queue)
  BY <1>1, <1>2, <1>4
<1>7. QueueShape(after)
  BY <1>1, <1>5, <1>6 DEF QueueShape
<1>8. queue # <<>> => 1 \in DOMAIN queue /\ after # <<>> /\ Head(after) = after[1]
                            /\ Head(queue) = queue[1]
  <2>1. HAVE queue # <<>>
  <2>2. 1 \in 1..Len(queue) /\ Head(queue) = queue[1]
    BY <2>1, SeqTail DEF QueueShape
  <2>3. after # <<>>
    BY <1>5, <1>6, <2>2
  <2>4. Head(after) = after[1]
    BY <1>5, <2>3, SeqTail
  <2> QED BY <1>1, <2>2, <2>3, <2>4
<1> QED BY <1>1, <1>6, <1>7, <1>8

LEMMA AtShape ==
  ASSUME NEW queue, QueueShape(queue), queue # <<>>, NEW step
  PROVE  LET after == [queue EXCEPT ![1].step = step]
         IN /\ QueueShape(after) /\ after # <<>>
            /\ Head(after).s = Head(queue).s /\ Head(after).step = step
            /\ Head(after).file = Head(queue).file /\ Head(after).stale = Head(queue).stale
<1> DEFINE old   == queue[1]
           new   == [old EXCEPT !.step = step]
           after == [queue EXCEPT ![1] = new]
<1>1. 1 \in DOMAIN queue /\ Head(queue) = old /\ EntryShape(old)
  BY SeqTail DEF QueueShape, IsSeq
<1>2. [queue EXCEPT ![1].step = step] = after
  OBVIOUS
<1>3. EntryShape(new) /\ new.s = old.s /\ new.step = step /\ new.file = old.file /\ new.stale = old.stale
  BY <1>1 DEF EntryShape
<1> HIDE DEF old, new
<1>4. /\ after = [i \in DOMAIN queue |-> after[i]] /\ after[1] = new
      /\ \A i \in DOMAIN queue : i # 1 => after[i] = queue[i]
  BY <1>1
<1> HIDE DEF after
<1>5. /\ QueueShape(after) /\ after # <<>> /\ Head(after) = after[1]
  BY <1>3, <1>4, MapShape
<1> QED BY <1>1, <1>2, <1>3, <1>4, <1>5

\* No transaction is asked for; the first may end.
Moves ==
  \/ Outstanding' = Outstanding
  \/ Outstanding # <<>> /\ Outstanding' = Tail(Outstanding)

LEMMA OutstandingIsSeq == ASSUME FramesInv PROVE IsSeq(Outstanding) /\ IsSeq(tail)
  BY DEF FramesInv, FramesHold, CallsHold

LEMMA OpenOrRefused ==
  ASSUME DevShape(dev), NEW k, NEW c, NEW s \in Segments,
         OpenStream(k, c, s) \/ RefuseStream(k, c, s)
  PROVE  dev'.queue = dev.queue
  BY OpenStreamFields DEF RefuseStream

\* What connections do asks for their own transactions, and not for work.
LEMMA ConnectionQueue ==
  ASSUME FramesInv, ConnectionStep
  PROVE  /\ dev'.queue = dev.queue /\ txn' = txn
         /\ \/ tail' = tail
            \/ \E call : call.op \in ConnOps /\ tail' = Append(tail, call)
<1>1. DevShape(dev)
  BY DevHasShape
<1>2. ASSUME NEW k \in Conns, SendHello(k) \/ \E c \in Cases : SendCaseStart(k, c)
      PROVE  /\ dev' = dev /\ txn' = txn
             /\ \E call : call.op \in ConnOps /\ tail' = Append(tail, call)
  <2>1. ASSUME NEW c, NEW op \in ConnOps, Enqueue(Call(op, k, c, None, None))
        PROVE  \E call : call.op \in ConnOps /\ tail' = Append(tail, call)
    <3>1. Call(op, k, c, None, None).op = op
      BY DEF Call
    <3> QED BY <2>1, <3>1 DEF Enqueue
  <2>2. {"hello", "case"} \subseteq ConnOps
    BY DEF ConnOps
  <2>3. CASE SendHello(k)
    BY <2>1, <2>2, <2>3 DEF SendHello
  <2>4. CASE \E c \in Cases : SendCaseStart(k, c)
    BY <2>1, <2>2, <2>4 DEF SendCaseStart
  <2> QED BY <1>2, <2>3, <2>4
<1>3. ASSUME NEW k \in Conns, CloseConnection(k) PROVE dev'.queue = dev.queue /\ UNCHANGED <<tail, txn>>
  BY <1>1, <1>3, AbandonFields DEF CloseConnection
<1>4. ASSUME NEW k \in Conns, ForgetConnection(k) PROVE dev' = dev /\ UNCHANGED <<tail, txn>>
  BY <1>4 DEF ForgetConnection
<1>5. ASSUME NEW k \in Conns, ResumeStart(k) PROVE dev'.queue = dev.queue /\ UNCHANGED <<tail, txn>>
  <2> DEFINE s == conn[k].on
             c == cm.seg[s].case
  <2>1. s \in Segments
    BY <1>5, ConnHasShape DEF ResumeStart, Resumable, ConnsHold
  <2>2. /\ UNCHANGED <<tail, txn>>
        /\ \/ dev' = dev \/ dev' = [dev EXCEPT !.active = Recording(k, s, TRUE)]
           \/ OpenStream(k, c, s) \/ RefuseStream(k, c, s)
    BY <1>5 DEF ResumeStart
  <2> DEFINE r == Recording(k, s, TRUE)
  <2>3. CASE dev' = [dev EXCEPT !.active = r]
    <3> HIDE DEF r
    <3> QED BY <1>1, <2>2, <2>3, ActiveFields
  <2> HIDE DEF s, c
  <2>4. CASE OpenStream(k, c, s) \/ RefuseStream(k, c, s)
    BY <1>1, <2>1, <2>2, <2>4, OpenOrRefused
  <2> QED BY <2>2, <2>3, <2>4 DEF s
<1>6. ASSUME NEW k \in Conns, NEW sequence \in 0..MaxPcm, AppendSpeech(k, sequence)
      PROVE  dev'.queue = dev.queue /\ UNCHANGED <<tail, txn>>
  <2> DEFINE s == dev.active.seg
             p == [dev.progress EXCEPT ![s] = @ + 1]
  <2>1. /\ UNCHANGED <<tail, txn>>
        /\ dev' = dev \/ dev' = [dev EXCEPT !.progress = p] \/ FailRecording(s)
    BY <1>6 DEF AppendSpeech
  <2> HIDE DEF s, p
  <2>2. CASE dev' = [dev EXCEPT !.progress = p]
    BY <1>1, <2>1, <2>2 DEF DevShape
  <2> QED BY <1>1, <2>1, <2>2, FailRecordingFields
<1>7. ASSUME NEW k \in Conns, NEW c \in Cases, NEW s \in Segments, StartSpeech(k, c, s)
      PROVE  dev'.queue = dev.queue /\ UNCHANGED <<tail, txn>>
  BY <1>1, <1>7, OpenOrRefused DEF StartSpeech
<1>8. ASSUME NEW k \in Conns, NEW s \in Segments,
             WaitForCommit(k, s) \/ EndMissing(k, s) \/ EndReplayed(k, s)
      PROVE  dev'.queue = dev.queue /\ UNCHANGED <<tail, txn>>
  <2>1. dev' = dev \/ dev' = [dev EXCEPT !.active = NoStream]
    BY <1>8 DEF WaitForCommit, EndMissing, EndReplayed
  <2>2. UNCHANGED <<tail, txn>>
    BY <1>8 DEF WaitForCommit, EndMissing, EndReplayed
  <2>3. CASE dev' = [dev EXCEPT !.active = NoStream]
    BY <1>1, <2>2, <2>3, ActiveFields
  <2> QED BY <2>1, <2>2, <2>3
<1>9. ASSUME NEW k \in Conns, NEW s \in Segments, EndMismatch(k, s)
      PROVE  dev'.queue = dev.queue /\ UNCHANGED <<tail, txn>>
  BY <1>1, <1>9, FailRecordingFields DEF EndMismatch
<1>10. ASSUME NEW k \in Conns, NEW s \in Segments, EndSpeech(k, s)
       PROVE  dev'.queue = dev.queue /\ UNCHANGED <<tail, txn>>
  BY <1>1, <1>10, EndSpeechFields DEF EndSpeech
<1>11. PICK k \in Conns :
        \/ SendHello(k) \/ CloseConnection(k) \/ ForgetConnection(k)
        \/ ResumeStart(k)
        \/ \E c \in Cases : SendCaseStart(k, c)
        \/ \E sequence \in 0..MaxPcm : AppendSpeech(k, sequence)
        \/ \E s \in Segments :
             \/ \E c \in Cases : StartSpeech(k, c, s)
             \/ WaitForCommit(k, s)
             \/ EndReplayed(k, s) \/ EndMismatch(k, s)
             \/ EndMissing(k, s) \/ EndSpeech(k, s)
  BY DEF ConnectionStep
<1>12. CASE SendHello(k) \/ \E c \in Cases : SendCaseStart(k, c)
  BY <1>2, <1>12
<1>13. CASE dev'.queue = dev.queue /\ UNCHANGED <<tail, txn>>
  BY <1>13
<1> QED BY <1>3, <1>4, <1>5, <1>6, <1>7, <1>8, <1>9, <1>10, <1>11, <1>12, <1>13

\* A transaction that is about no entry leaves the queue as it is.
QuietTransaction ==
  \/ BeginHello \/ BeginEnd \/ BeginForeign \/ BeginTranscribing \/ BeginSaved \/ BeginFailed
  \/ BeginRemoval \/ RenameState \/ CleanAudio
  \/ HelloReturns \/ CaseReturns \/ ForeignReturns \/ FinishFailCommit
  \/ UnwrittenHello \/ UnwrittenEnd \/ UnwrittenForeign

LEMMA BegunMoves ==
  ASSUME FramesInv, txn = NoTxn, tail # <<>>, tail' = Tail(tail), txn'.call = Head(tail)
  PROVE  Moves
  BY TxnBegins DEF FramesInv, Moves

LEMMA EndedMoves ==
  ASSUME FramesInv, txn # NoTxn, txn' = NoTxn, tail' = tail PROVE Moves
  BY TxnEnds DEF FramesInv, Moves

LEMMA QuietTransactionQueue ==
  ASSUME FramesInv, QuietTransaction PROVE dev'.queue = dev.queue /\ Moves
<1>1. DevShape(dev)
  BY DevHasShape
<1>2. CASE BeginHello
  <2>1. dev'.queue = dev.queue
    BY <1>1, <1>2, AbandonFields DEF BeginHello, SupersedeActive
  <2> QED BY <1>2, <2>1, BegunMoves DEF BeginHello, Starting, Persist, PersistFor, Call1
<1>3. CASE BeginEnd
  <2>1. dev'.queue = dev.queue
    BY <1>1, <1>3, BeginEndFields
  <2> QED BY <1>3, <2>1, BegunMoves DEF BeginEnd, Starting, Persist, PersistFor, Call1
<1>4. CASE BeginForeign \/ BeginTranscribing \/ BeginSaved \/ BeginFailed
  <2>1. dev' = dev \/ \E s, status : dev' = SetStatus(dev, s, status)
    BY <1>4 DEF BeginForeign, BeginTranscribing, BeginSaved, BeginFailed
  <2>2. dev'.queue = dev.queue
    <3>1. CASE dev' = dev
      BY <3>1
    <3>2. ASSUME NEW s, NEW status, dev' = SetStatus(dev, s, status) PROVE dev'.queue = dev.queue
      BY <1>1, <3>2, StatusFields
    <3> QED BY <2>1, <3>1, <3>2
  <2> QED BY <1>4, <2>2, BegunMoves DEF BeginForeign, BeginTranscribing, BeginSaved, BeginFailed,
           Starting, Persist, PersistFor, Call1
<1>5. CASE BeginRemoval
  BY <1>5, BegunMoves DEF BeginRemoval, Starting, Call1
<1>6. CASE RenameState
  <2>1. txn # NoTxn /\ txn'.phase = "renamed" /\ txn'.call = txn.call /\ tail' = tail /\ dev' = dev
    BY <1>6 DEF FramesInv, RenameState, TxnShape
  <2> QED BY <2>1, NoTxnPhase DEF Moves, Outstanding
<1>7. CASE CleanAudio
  <2>1. txn # NoTxn /\ txn'.phase = "writing" /\ txn'.call = txn.call /\ tail' = tail
    BY <1>7 DEF CleanAudio, Removing, PersistFor
  <2>2. dev'.queue = dev.queue
    BY <1>1, <1>7, CleanAudioFields
  <2> QED BY <2>1, <2>2, NoTxnPhase DEF Moves, Outstanding
<1>8. CASE HelloReturns \/ CaseReturns \/ ForeignReturns
  BY <1>8, EndedMoves DEF HelloReturns, CaseReturns, ForeignReturns, Returned, Running
<1>9. CASE FinishFailCommit \/ UnwrittenEnd
  <2>1. txn # NoTxn /\ txn.call.op \in EndOps /\ txn' = NoTxn /\ tail' = tail /\ FailCommit(txn.call.s)
    BY <1>9 DEF FinishFailCommit, UnwrittenEnd, Removing, Unwritten, EndOps
  <2> QED BY <1>1, <2>1, EndedMoves, FailCommitFields, EndingSegment
<1>10. CASE UnwrittenHello \/ UnwrittenForeign
  BY <1>10, EndedMoves DEF UnwrittenHello, UnwrittenForeign, Unwritten
<1> QED BY <1>2, <1>3, <1>4, <1>5, <1>6, <1>7, <1>8, <1>9, <1>10 DEF QuietTransaction

\* Each entry was there before.
QueueFrom(queue, after) ==
  \A i \in 1..Len(after) : \E j \in 1..Len(queue) :
    after[i].s = queue[j].s /\ after[i].file = queue[j].file

LEMMA TailFrom ==
  ASSUME NEW queue, QueueShape(queue), queue # <<>> PROVE QueueFrom(queue, Tail(queue))
<1>1. /\ Len(queue) \in Nat \ {0} /\ Len(Tail(queue)) = Len(queue) - 1
      /\ \A i \in 1..Len(Tail(queue)) : Tail(queue)[i] = queue[i + 1]
  BY SeqTail DEF QueueShape
<1>2. \A i \in 1..Len(Tail(queue)) : i + 1 \in 1..Len(queue)
  BY <1>1
<1> QED BY <1>1, <1>2 DEF QueueFrom

LEMMA AtFrom ==
  ASSUME NEW queue, QueueShape(queue), queue # <<>>, NEW step
  PROVE  QueueFrom(queue, [queue EXCEPT ![1].step = step])
<1> DEFINE old == queue[1]
           new == [old EXCEPT !.step = step]
           after == [queue EXCEPT ![1] = new]
<1>1. 1 \in DOMAIN queue /\ EntryShape(old) /\ DOMAIN queue = 1..Len(queue)
  BY SeqTail DEF QueueShape, IsSeq
<1>2. [queue EXCEPT ![1].step = step] = after
  OBVIOUS
<1>3. EntryShape(new) /\ new.s = old.s /\ new.file = old.file
  BY <1>1 DEF EntryShape
<1>4. QueueShape(after) /\ Len(after) = Len(queue)
  <2> HIDE DEF new, old
  <2>1. after = [i \in DOMAIN queue |-> after[i]] /\ after[1] = new
        /\ \A i \in DOMAIN queue : i # 1 => after[i] = queue[i]
    BY <1>1
  <2>2. \A i \in DOMAIN queue : EntryShape(queue[i]) => EntryShape(after[i])
    BY <1>3, <2>1
  <2> HIDE DEF old, after
  <2> QED BY <2>1, <2>2, MapShape
<1>5. \A i \in 1..Len(queue) : after[i].s = queue[i].s /\ after[i].file = queue[i].file
  <2> HIDE DEF new
  <2> QED BY <1>1, <1>3
<1>6. QueueFrom(queue, after)
  <2> HIDE DEF after
  <2> QED BY <1>4, <1>5 DEF QueueFrom
<1> HIDE DEF after
<1> QED BY <1>2, <1>6

LEMMA ToldEntry ==
  ASSUME NEW e, EntryShape(e)
  PROVE  EntryShape(Told(e)) /\ Told(e).s = e.s /\ Told(e).file = e.file /\ Told(e).step = e.step
<1>1. ASSUME NEW v
      PROVE  [e EXCEPT !.stale = v] = [s |-> e.s, file |-> e.file, stale |-> v, step |-> e.step]
  BY DEF EntryShape
<1>2. [e EXCEPT !.stale = TRUE] = [s |-> e.s, file |-> e.file, stale |-> TRUE, step |-> e.step]
  BY <1>1, Zenon
<1>3. Told(e) = [s |-> e.s, file |-> e.file, stale |-> TRUE, step |-> e.step]
  BY <1>2, Zenon DEF Told
<1> QED BY <1>3 DEF EntryShape

LEMMA StaleFrom ==
  ASSUME NEW queue, QueueShape(queue), NEW all, NEW after,
         after = [i \in DOMAIN queue |-> IF queue[i].s \in all THEN Told(queue[i])
                                                               ELSE queue[i]]
  PROVE  /\ QueueShape(after) /\ QueueFrom(queue, after)
         /\ queue # <<>> => after # <<>> /\ Head(after).s = Head(queue).s
                            /\ Head(after).step = Head(queue).step
<1>1. ASSUME NEW i \in DOMAIN queue, EntryShape(queue[i])
      PROVE  EntryShape(after[i]) /\ after[i].s = queue[i].s /\ after[i].file = queue[i].file
             /\ after[i].step = queue[i].step
  <2>1. after[i] \in {queue[i], Told(queue[i])}
    OBVIOUS
  <2> QED BY <1>1, <2>1, ToldEntry
<1>2. after = [i \in DOMAIN queue |-> after[i]]
  OBVIOUS
<1>3. /\ QueueShape(after) /\ DOMAIN queue = 1..Len(queue) /\ Len(after) = Len(queue)
      /\ queue # <<>> => 1 \in DOMAIN queue /\ after # <<>> /\ Head(after) = after[1]
                            /\ Head(queue) = queue[1]
  BY <1>1, <1>2, MapShape
<1>4. \A i \in 1..Len(queue) : EntryShape(queue[i])
  BY DEF QueueShape
<1> QED BY <1>1, <1>3, <1>4 DEF QueueFrom

\* What a step may do with the queue and the transactions of its work.
WorkMoves == WorkHolds(Outstanding', dev'.queue) /\ QueueFrom(dev.queue, dev'.queue)

LEMMA SameFrom == ASSUME NEW queue PROVE QueueFrom(queue, queue)
  BY DEF QueueFrom

LEMMA QuietMoves ==
  ASSUME FramesInv, WorkHolds(Outstanding, dev.queue), dev'.queue = dev.queue, Moves
  PROVE  WorkMoves
<1>1. QueueFrom(dev.queue, dev'.queue)
  BY SameFrom
<1>2. WorkHolds(Outstanding', dev'.queue)
  BY OutstandingIsSeq, WorkDropped DEF Moves
<1> QED BY <1>1, <1>2 DEF WorkMoves

LEMMA AskedMoves ==
  ASSUME FramesInv, WorkHolds(Outstanding, dev.queue), dev'.queue = dev.queue,
         NEW call, call.op \notin WorkOps, tail' = Append(tail, call), txn' = txn
  PROVE  WorkMoves
<1>1. Outstanding' = Append(Outstanding, call)
  BY OutstandingIsSeq, TxnAsked
<1> QED BY <1>1, OutstandingIsSeq, OtherAsked, SameFrom DEF WorkMoves

LEMMA ConnectionWork ==
  ASSUME FramesInv, WorkHolds(Outstanding, dev.queue), ConnectionStep PROVE WorkMoves
<1>1. CASE tail' = tail
  BY <1>1, ConnectionQueue, TxnSame, QuietMoves DEF Moves
<1>2. ASSUME NEW call, call.op \in ConnOps, tail' = Append(tail, call) PROVE WorkMoves
  <2>1. call.op \notin WorkOps
    BY <1>2 DEF ConnOps, WorkOps
  <2> QED BY <1>2, <2>1, ConnectionQueue, AskedMoves
<1> QED BY <1>1, <1>2, ConnectionQueue

LEMMA AskingWork ==
  ASSUME FramesInv, WorkHolds(Outstanding, dev.queue),
         SubmitForeign \/ \E s \in Segments : WriteWav(s) \/ WriteWavFails(s)
  PROVE  WorkMoves
<1>1. DevShape(dev)
  BY DevHasShape
<1>2. ASSUME NEW op, op \notin WorkOps, NEW k, NEW s, dev'.queue = dev.queue, txn' = txn,
             Enqueue(Call(op, k, None, s, None))
      PROVE  WorkMoves
  <2> DEFINE call == Call(op, k, None, s, None)
  <2>1. call.op \notin WorkOps /\ tail' = Append(tail, call)
    BY <1>2 DEF Call, Enqueue
  <2> HIDE DEF call
  <2> QED BY <1>2, <2>1, AskedMoves
<1>3. "foreign" \notin WorkOps /\ "end" \notin WorkOps /\ "failcommit" \notin WorkOps
  BY DEF WorkOps
<1>4. CASE SubmitForeign
  BY <1>2, <1>3, <1>4 DEF SubmitForeign
<1>5. ASSUME NEW s \in Segments, WriteWav(s) PROVE WorkMoves
  <2> DEFINE file == <<cm.seg[s].case, s, spent.tries[s] + 1>>
             row == [k |-> CommitOf(s).k, stale |-> CommitOf(s).stale, file |-> file, step |-> "done"]
  <2>1. dev' = SetCommit(dev, s, row) /\ RowShape(row)
    BY <1>5, WriteWavCommit
  <2> HIDE DEF row
  <2>2. dev'.queue = dev.queue
    BY <1>1, <2>1, CommitFields
  <2> QED BY <1>2, <1>3, <1>5, <2>2 DEF WriteWav, SegCall
<1>6. ASSUME NEW s \in Segments, WriteWavFails(s) PROVE WorkMoves
  <2> DEFINE f == [dev.commits EXCEPT ![s].step = "done"]
  <2>1. dev' = [dev EXCEPT !.commits = f]
    BY <1>6 DEF WriteWavFails
  <2> HIDE DEF f
  <2>2. dev'.queue = dev.queue
    BY <1>1, <2>1 DEF DevShape
  <2> QED BY <1>2, <1>3, <1>6, <2>2 DEF WriteWavFails, SegCall
<1> QED BY <1>4, <1>5, <1>6

LEMMA BeginCaseWork ==
  ASSUME FramesInv, WorkHolds(Outstanding, dev.queue), BeginCase PROVE WorkMoves
<1> DEFINE all == LeftFor(Call1.c)
           mapped == [i \in DOMAIN dev.queue |->
                               IF dev.queue[i].s \in all THEN Told(dev.queue[i])
                               ELSE dev.queue[i]]
<1>1. Moves
  BY BegunMoves DEF BeginCase, Starting, Persist, PersistFor, Call1
<1>2. dev'.queue = mapped \/ dev'.queue = dev.queue
  <2>2. DevShape(dev)
    BY DevHasShape
  <2> QED BY <2>2, BeginCaseFields
<1>3. CASE dev'.queue = dev.queue
  BY <1>1, <1>3, QuietMoves
<1>4. CASE dev'.queue = mapped
  <2>1. QueueShape(dev.queue)
    BY DEF WorkHolds
  <2> HIDE DEF all
  <2>2. /\ QueueShape(dev'.queue) /\ QueueFrom(dev.queue, dev'.queue)
        /\ dev.queue # <<>> => dev'.queue # <<>> /\ Head(dev'.queue).s = Head(dev.queue).s
                               /\ Head(dev'.queue).step = Head(dev.queue).step
    BY <1>4, <2>1, StaleFrom
  <2>3. WorkHolds(Outstanding, dev'.queue)
    BY <2>2, WorkQuiet
  <2>4. WorkHolds(Outstanding', dev'.queue)
    BY <1>1, <2>3, OutstandingIsSeq, WorkDropped DEF Moves
  <2> QED BY <2>2, <2>4 DEF WorkMoves
<1> QED BY <1>2, <1>3, <1>4

\* The first transaction is about work: it is the only one.
LEMMA HeadIsWork ==
  ASSUME FramesInv, WorkHolds(Outstanding, dev.queue), Outstanding # <<>>,
         Head(Outstanding).op \in WorkOps
  PROVE  /\ NoWork(Tail(Outstanding)) /\ QueueShape(dev.queue) /\ dev.queue # <<>>
         /\ Head(dev.queue).s = Head(Outstanding).s
<1>1. Head(Outstanding) = Outstanding[1] /\ 1 \in 1..Len(Outstanding)
  BY OutstandingIsSeq, SeqTail
<1>2. WorkCall(Head(Outstanding), dev.queue)
  BY <1>1 DEF WorkHolds
<1>3. dev.queue # <<>> /\ Head(dev.queue).s = Head(Outstanding).s
  BY <1>2 DEF WorkCall
<1> QED BY <1>3, OutstandingIsSeq, WorkGone DEF WorkHolds

LEMMA PoppedMoves ==
  ASSUME QueueShape(dev.queue), dev.queue # <<>>, NoWork(Outstanding'), dev' = Popped(dev), DevShape(dev)
  PROVE  WorkMoves
  BY PoppedFields, TailShape, TailFrom, NoWorkHolds DEF WorkMoves

LEMMA AtMoves ==
  ASSUME FramesInv, QueueShape(dev.queue), dev.queue # <<>>, NEW q, IsSeq(q), NoWork(q), NEW step,
         dev' = At(dev, step),
         \/ Outstanding' = q
         \/ \E call : /\ Outstanding' = Append(q, call) /\ call.s = Head(dev.queue).s
                      /\ call.op \in WorkOps /\ StepOf(call.op) = step
                      /\ call.op = "saved" => call.text \in Transcripts
  PROVE  WorkMoves
<1> DEFINE after == [dev.queue EXCEPT ![1].step = step]
<1>1. dev'.queue = after
  BY DevHasShape, AtFields
<1>2. QueueFrom(dev.queue, after)
  BY AtFrom
<1>3. QueueShape(after) /\ after # <<>> /\ Head(after).s = Head(dev.queue).s /\ Head(after).step = step
  BY AtShape
<1> HIDE DEF after
<1>4. CASE Outstanding' = q
  BY <1>1, <1>2, <1>3, <1>4, NoWorkHolds DEF WorkMoves
<1>5. ASSUME NEW call, Outstanding' = Append(q, call), call.s = Head(dev.queue).s,
             call.op \in WorkOps, StepOf(call.op) = step,
             call.op = "saved" => call.text \in Transcripts
      PROVE  WorkMoves
  <2>1. WorkCall(call, after)
    BY <1>3, <1>5 DEF WorkCall
  <2> QED BY <1>1, <1>2, <1>3, <1>5, <2>1, WorkAsked DEF WorkMoves
<1> QED BY <1>4, <1>5

\* The first transaction ends, or is refused, and it was about work.
EndsWork ==
  /\ dev.queue # <<>> /\ NoWork(Tail(Outstanding)) /\ IsSeq(Tail(Outstanding))
  /\ QueueShape(dev.queue)

LEMMA EndingWork ==
  ASSUME FramesInv, WorkHolds(Outstanding, dev.queue), txn # NoTxn, txn' = NoTxn,
         txn.call.op \in WorkOps
  PROVE  EndsWork /\ Tail(Outstanding) = tail
         /\ Outstanding' = IF tail' = tail THEN Tail(Outstanding) ELSE tail'
<1>1. Outstanding = <<txn.call>> \o tail /\ Outstanding' = tail'
  BY DEF Outstanding
<1>2. /\ Outstanding # <<>> /\ Head(Outstanding) = txn.call /\ Tail(Outstanding) = tail
  BY <1>1, OutstandingIsSeq, SeqCons
<1> QED BY <1>1, <1>2, HeadIsWork, OutstandingIsSeq DEF EndsWork

LEMMA RefusingWork ==
  ASSUME FramesInv, WorkHolds(Outstanding, dev.queue), txn = NoTxn, txn' = txn, tail # <<>>,
         tail' = Tail(tail), Head(tail).op \in WorkOps
  PROVE  EndsWork /\ Outstanding' = Tail(Outstanding)
<1>1. Outstanding = tail /\ Outstanding' = Tail(tail)
  BY DEF Outstanding
<1> QED BY <1>1, HeadIsWork, OutstandingIsSeq, SeqTail DEF EndsWork

LEMMA PoppedWork ==
  ASSUME FramesInv, WorkHolds(Outstanding, dev.queue),
         \/ CleanReturns \/ CleanFails \/ WorkAborts \/ UnwrittenWork
         \/ RefuseTransaction /\ Call1.op \in WorkOps
         \/ CommitFailsVisible /\ txn.call.op \in WorkOps
  PROVE  WorkMoves
<1>1. DevShape(dev)
  BY DevHasShape
<1>2. {"begin", "saved", "failed", "clean"} = WorkOps /\ "end" \notin WorkOps
  BY DEF WorkOps
<1>3. CASE WorkAborts \/ (RefuseTransaction /\ Call1.op \in WorkOps)
  <2>1. /\ txn = NoTxn /\ txn' = txn /\ tail # <<>> /\ tail' = Tail(tail)
        /\ Head(tail).op \in WorkOps /\ dev' = Popped(dev)
    BY <1>2, <1>3 DEF WorkAborts, RefuseTransaction, Call1
  <2> QED BY <1>1, <2>1, RefusingWork, PoppedMoves DEF EndsWork
<1>4. CASE CleanReturns \/ CleanFails \/ UnwrittenWork
  <2>1. /\ txn # NoTxn /\ txn' = NoTxn /\ tail' = tail /\ txn.call.op \in WorkOps
        /\ dev' = Popped(dev)
    BY <1>2, <1>4 DEF CleanReturns, CleanFails, UnwrittenWork, Returned, Running, Removing, Unwritten
  <2> QED BY <1>1, <2>1, EndingWork, PoppedMoves DEF EndsWork
<1>5. CASE CommitFailsVisible /\ txn.call.op \in WorkOps
  <2>1. /\ txn # NoTxn /\ txn' = NoTxn /\ tail' = tail /\ txn.call.op \in WorkOps
        /\ dev' = Popped(dev)
    BY <1>2, <1>5 DEF CommitFailsVisible
  <2> QED BY <1>1, <2>1, EndingWork, PoppedMoves DEF EndsWork
<1> QED BY <1>3, <1>4, <1>5

LEMMA StepNames ==
  /\ StepOf("begin") = "begin" /\ StepOf("saved") = "settle" /\ StepOf("failed") = "settle"
  /\ StepOf("clean") = "clean" /\ {"begin", "saved", "failed", "clean"} \subseteq WorkOps
  BY DEF StepOf, WorkOps

LEMMA ReturnedWork ==
  ASSUME FramesInv, WorkHolds(Outstanding, dev.queue), TranscribingReturns \/ OutcomeReturns
  PROVE  WorkMoves
<1>1. CASE TranscribingReturns
  <2>1. /\ txn # NoTxn /\ txn' = NoTxn /\ tail' = tail /\ txn.call.op \in WorkOps
        /\ dev' = At(dev, "asr")
    BY <1>1, StepNames DEF TranscribingReturns, Returned, Running
  <2>2. EndsWork /\ Outstanding' = Tail(Outstanding)
    BY <2>1, EndingWork
  <2> QED BY <2>1, <2>2, AtMoves DEF EndsWork
<1>2. CASE OutcomeReturns
  <2> DEFINE call == SegCall("clean", Work.s)
  <2>1. /\ txn # NoTxn /\ txn' = NoTxn /\ txn.call.op \in WorkOps
        /\ tail' = Append(tail, call) /\ dev' = At(dev, "clean")
    BY <1>2, StepNames DEF OutcomeReturns, Returned, Running, Enqueue
  <2>2. call.op = "clean" /\ call.s = Head(dev.queue).s
    BY DEF SegCall, Call, Work
  <2> HIDE DEF call
  <2>3. EndsWork /\ Tail(Outstanding) = tail
    BY <2>1, EndingWork
  <2>4. Outstanding' = Append(Tail(Outstanding), call)
    BY <2>1, <2>3 DEF Outstanding
  <2> QED BY <2>1, <2>2, <2>3, <2>4, StepNames, AtMoves DEF EndsWork
<1> QED BY <1>1, <1>2

\* The entry at work that asks for nothing: it does, or is dropped.
LEMMA IdleWork ==
  ASSUME FramesInv, WorkHolds(Outstanding, dev.queue), StartWork \/ Recognise
  PROVE  WorkMoves
<1>1. DevShape(dev)
  BY DevHasShape
<1>2. /\ dev.queue # <<>> /\ Head(dev.queue).step \in {"waiting", "asr"} /\ txn' = txn
  BY DEF StartWork, Recognise, Busy, Work
<1>3. NoWork(Outstanding) /\ IsSeq(Outstanding) /\ QueueShape(dev.queue)
  BY <1>2, WorkIdle, OutstandingIsSeq DEF WorkHolds
<1>4. CASE dev' = Popped(dev) /\ tail' = tail
  BY <1>1, <1>2, <1>3, <1>4, TxnSame, PoppedMoves
<1>5. ASSUME NEW op \in {"begin", "saved", "failed"}, NEW text, op = "saved" => text \in Transcripts,
             tail' = Append(tail, Call(op, None, None, Work.s, text)), dev' = At(dev, StepOf(op))
      PROVE  WorkMoves
  <2> DEFINE call == Call(op, None, None, Work.s, text)
  <2>1. call.op = op /\ call.s = Head(dev.queue).s /\ call.text = text
    BY DEF Call, Work
  <2>2. Outstanding' = Append(Outstanding, call)
    BY <1>2, <1>5, OutstandingIsSeq, TxnAsked
  <2> HIDE DEF call
  <2> QED BY <1>2, <1>3, <1>5, <2>1, <2>2, StepNames, AtMoves
<1>6. CASE StartWork
  <2>1. CASE mode = "up" /\ ~Work.stale
    BY <1>5, <1>6, <2>1, StepNames DEF StartWork, Enqueue, SegCall
  <2> QED BY <1>4, <1>6, <2>1 DEF StartWork
<1>7. CASE Recognise
  <2>1. CASE ~(mode # "up" \/ Work.stale)
    BY <1>5, <1>7, <2>1, StepNames DEF Recognise, Enqueue, SegCall
  <2> QED BY <1>4, <1>7, <2>1 DEF Recognise
<1> QED BY <1>6, <1>7

\* A commit ends and its recording is queued.
LEMMA QueuedWork ==
  ASSUME FramesInv, WorkHolds(Outstanding, dev.queue), EndReturns
  PROVE  /\ WorkHolds(Outstanding', dev'.queue)
         /\ \/ dev'.queue = dev.queue
            \/ mode = "up"
               /\ dev'.queue = Append(dev.queue, QueueEntry(txn.call.s, CommitOf(txn.call.s).file))
<1> DEFINE s == txn.call.s
           e == QueueEntry(s, CommitOf(s).file)
<1>1. s \in Segments /\ txn # NoTxn /\ txn' = NoTxn /\ tail' = tail
  BY EndingSegment DEF EndReturns, Returned, Running, EndOps
<1>2. dev'.queue = IF mode = "up" THEN Append(dev.queue, e) ELSE dev.queue
  BY <1>1, DevHasShape, EndReturnsFields
<1>3. EntryShape(e)
  BY <1>1 DEF EntryShape, QueueEntry
<1>4. WorkHolds(Outstanding', dev.queue)
  <2>1. Outstanding # <<>> /\ Outstanding' = Tail(Outstanding)
    BY <1>1, OutstandingIsSeq, TxnEnds
  <2> QED BY <2>1, OutstandingIsSeq, WorkDropped
<1> HIDE DEF e
<1>5. WorkHolds(Outstanding', Append(dev.queue, e))
  <2>1. QueueShape(dev.queue)
    BY DEF WorkHolds
  <2> DEFINE q == Append(dev.queue, e)
  <2>2. QueueShape(q) /\ q # <<>> /\ (dev.queue # <<>> => Head(q) = Head(dev.queue))
    BY <1>3, <2>1, AppendShape
  <2> HIDE DEF q
  <2>3. WorkHolds(Outstanding', q)
    BY <1>4, <2>2, WorkQuiet
  <2> QED BY <2>3 DEF q
<1> QED BY <1>2, <1>4, <1>5 DEF e

\* What is left: nothing about work.
LEMMA OtherWork ==
  ASSUME FramesInv, WorkHolds(Outstanding, dev.queue),
         \/ Stop \/ BeginExit \/ UNCHANGED vars
         \/ RefuseTransaction /\ Call1.op \notin WorkOps
         \/ CommitFailsVisible /\ txn.call.op \notin WorkOps
  PROVE  WorkMoves
<1>1. DevShape(dev)
  BY DevHasShape
<1>2. CASE Stop \/ UNCHANGED vars
  BY <1>2, TxnSame, QuietMoves DEF Stop, vars, Moves
<1>3. CASE BeginExit
  <2>1. dev'.queue = dev.queue
    BY <1>1, <1>3, BeginExitFields
  <2>2. UNCHANGED <<tail, txn>>
    BY <1>3 DEF BeginExit
  <2> QED BY <2>1, <2>2, TxnSame, QuietMoves DEF Moves
<1>4. CASE RefuseTransaction /\ Call1.op \notin WorkOps
  <2>1. txn = NoTxn /\ txn' = txn /\ tail # <<>> /\ tail' = Tail(tail) /\ dev' = dev
    BY <1>4 DEF RefuseTransaction
  <2> QED BY <2>1, OutstandingIsSeq, TxnRefused, QuietMoves DEF Moves
<1>5. CASE CommitFailsVisible /\ txn.call.op \notin WorkOps
  <2>1. /\ txn # NoTxn /\ txn' = NoTxn /\ tail' = tail
        /\ dev' = IF txn.call.op = "end" THEN FinishCommit(ReleaseOwner(dev, txn.call.s), txn.call.s)
                  ELSE dev
    BY <1>5 DEF CommitFailsVisible
  <2>2. dev'.queue = dev.queue
    <3>1. CASE txn.call.op = "end"
      <4>1. txn.call.s \in Segments
        BY <2>1, <3>1, EndingSegment DEF EndOps
      <4> DEFINE dv == ReleaseOwner(dev, txn.call.s)
      <4>2. DevShape(dv) /\ dv.queue = dev.queue
        BY <1>1, ReleaseFields
      <4>3. dev' = FinishCommit(dv, txn.call.s)
        BY <2>1, <3>1
      <4> HIDE DEF dv
      <4> QED BY <4>1, <4>2, <4>3, FinishFields
    <3> QED BY <2>1, <3>1
  <2> QED BY <2>1, <2>2, EndedMoves, QuietMoves
<1> QED BY <1>2, <1>3, <1>4, <1>5

\* The process ends.
Exits == Crash \/ FinishExit

LEMMA ExitsForget ==
  ASSUME Exits PROVE ForgetProcess /\ mode' = "down" /\ undo' = None /\ confirmed' = confirmed
BY DEF Exits, Crash, FinishExit

\* A halt is final for the process.
LEMMA WritableStays ==
  ASSUME LifeInv, [Next]_vars, ~Exits, writable' PROVE writable
<1>1. CASE ConnectionStep \/ WorkStep \/ SubmitForeign \/ \E s \in Segments : WriteWavFails(s)
  BY <1>1, ConnectionControl, QueueControl DEF control
<1>2. CASE TransactionStep
  <2>1. CASE RenameState
    BY <2>1 DEF RenameState, proc
  <2> QED BY <1>2, <2>1, TransactionControl DEF Begins, Commits, Gives, Halt, proc
<1>3. CASE FaultStep
  BY <1>1, <1>3, FaultControl DEF Gives, Halt, proc, Exits
<1>4. CASE LifeStep
  BY <1>1, <1>4 DEF LifeStep, Stop, BeginExit, Exits, Recover
<1>5. CASE UNCHANGED vars
  BY <1>5 DEF vars
<1> QED BY <1>1, <1>2, <1>3, <1>4, <1>5 DEF Next

\* After a restart, what was not transcribed is queued.
LEMMA RecoveredWork ==
  ASSUME FramesInv, Recover
  PROVE  /\ \/ UNCHANGED <<mode, dev, cm, disk>>
            \/ \E stuck \in SUBSET SettledFiles :
                 LET dw == RecoveredDevice(stuck)
                 IN /\ cm' = FailAllowed(RestoreState(disk.cm), LostJobs)
                    /\ mode' = "up"
                    /\ disk' = IF dw.jobs = disk.jobs THEN disk ELSE PersistentState'
                    /\ \E order \in Orders(UnfinishedJobs(dw.jobs)) :
                         dev' = [dw EXCEPT !.queue = RecoveredQueue(order, dw.jobs)]
         /\ mode = "down" /\ Outstanding = <<>> /\ Outstanding' = <<>>
  BY DEF Recover, FramesInv, DownIsEmpty, Outstanding

LEMMA RecoveredShape ==
  ASSUME NEW jobs, NEW order \in Orders(UnfinishedJobs(jobs)), NEW q, q = RecoveredQueue(order, jobs)
  PROVE  /\ QueueShape(q)
         /\ \A i \in 1..Len(q) : q[i].s \in UnfinishedJobs(jobs) /\ q[i].file = jobs[q[i].s].file
<1> DEFINE n == Cardinality(UnfinishedJobs(jobs))
<1>1. order \in [1..n -> UnfinishedJobs(jobs)]
  BY DEF Orders
<1>2. IsFiniteSet(UnfinishedJobs(jobs))
  BY FiniteAssumption, FS_Subset DEF UnfinishedJobs
<1>3. n \in Nat
  BY <1>2, FS_CardinalityType
<1> HIDE DEF n
<1>4. q = [i \in 1..n |-> q[i]]
      /\ \A i \in 1..n : q[i] = QueueEntry(order[i], jobs[order[i]].file)
  BY <1>1 DEF RecoveredQueue
<1>5. \A i \in 1..n : /\ EntryShape(q[i])
                      /\ q[i].s \in UnfinishedJobs(jobs) /\ q[i].file = jobs[q[i].s].file
  <2> TAKE i \in 1..n
  <2> DEFINE s == order[i]
             f == jobs[s].file
  <2>1. s \in UnfinishedJobs(jobs) /\ s \in Segments
    BY <1>1 DEF UnfinishedJobs
  <2> HIDE DEF s
  <2>2. q[i] = QueueEntry(s, f)
    BY <1>4 DEF s
  <2> HIDE DEF f
  <2>3. q[i].s = s /\ q[i].file = f /\ EntryShape(q[i])
    BY <2>1, <2>2 DEF QueueEntry, EntryShape
  <2> QED BY <2>1, <2>3 DEF f
<1>6. q \in Seq({q[i] : i \in DOMAIN q}) /\ Len(q) = n
  BY <1>3, <1>4
<1> QED BY <1>5, <1>6 DEF QueueShape, IsSeq

\* The queue of the next state: its entries are old, or one was added for the
\* recording whose commit ended, or it is the restart's.
QueueStep ==
  \/ QueueFrom(dev.queue, dev'.queue)
  \/ /\ EndReturns /\ mode = "up"
     /\ dev'.queue = Append(dev.queue, QueueEntry(txn.call.s, CommitOf(txn.call.s).file))
  \/ ForgetProcess \/ Recover

LEMMA EmptyWork == ASSUME NEW queue, QueueShape(queue) PROVE WorkHolds(<<>>, queue)
  BY DEF WorkHolds

LEMMA NoQueueShape == QueueShape(<<>>)
  BY DEF QueueShape, IsSeq

LEMMA WorkInvNext ==
  ASSUME FramesInv, ControlInv, WorkInv, [Next]_vars
  PROVE  WorkInv' /\ (writable' => QueueStep)
<1>1. CASE ~writable'
  BY <1>1 DEF WorkInv
<1>2. CASE ForgetProcess
  <2>1. Outstanding' = <<>> /\ dev'.queue = <<>>
    BY <1>2 DEF ForgetProcess, Outstanding, FreshDevice
  <2>2. WorkHolds(Outstanding', dev'.queue)
    BY <2>1, EmptyWork, NoQueueShape
  <2> QED BY <1>2, <2>2 DEF WorkInv, QueueStep
<1>3. CASE writable' /\ Recover
  <2>1. Outstanding' = <<>> /\ WorkHolds(Outstanding, dev.queue)
    BY <1>3, RecoveredWork DEF WorkInv, Recover
  <2>2. QueueShape(dev'.queue)
    <3>1. CASE dev' = dev
      BY <2>1, <3>1 DEF WorkHolds
    <3>2. ASSUME NEW stuck, NEW dw, dw = RecoveredDevice(stuck),
                 NEW order \in Orders(UnfinishedJobs(dw.jobs)),
                 dev' = [dw EXCEPT !.queue = RecoveredQueue(order, dw.jobs)]
          PROVE  QueueShape(dev'.queue)
      <4> DEFINE q == RecoveredQueue(order, dw.jobs)
      <4>1. QueueShape(q)
        BY RecoveredShape
      <4>2. DevShape(dw)
        BY <3>2, RecoveredFields
      <4> HIDE DEF q
      <4>3. dev'.queue = q
        BY <3>2, <4>2 DEF DevShape, q
      <4> QED BY <4>1, <4>3
    <3> QED BY <1>3, <3>1, <3>2, RecoveredWork
  <2> QED BY <1>3, <2>1, <2>2, EmptyWork DEF WorkInv, QueueStep
<1>4. CASE writable' /\ ~ForgetProcess /\ ~Recover
  <2>1. writable /\ WorkHolds(Outstanding, dev.queue)
    BY <1>4, WritableStays, ExitsForget DEF ControlInv, WorkInv
  <2>2. ASSUME WorkMoves PROVE WorkInv' /\ QueueStep
    BY <2>2 DEF WorkMoves, WorkInv, QueueStep
  <2>3. CASE EndReturns
    <3>1. QueueFrom(dev.queue, dev.queue)
      BY SameFrom
    <3> QED BY <2>1, <2>3, <3>1, QueuedWork DEF WorkInv, QueueStep
  <2>4. CASE QuietTransaction
    BY <2>1, <2>2, <2>4, QuietTransactionQueue, QuietMoves
  <2>5. CASE ConnectionStep
    BY <2>1, <2>2, <2>5, ConnectionWork
  <2>6. CASE SubmitForeign \/ \E s \in Segments : WriteWav(s) \/ WriteWavFails(s)
    BY <2>1, <2>2, <2>6, AskingWork
  <2>7. CASE BeginCase
    BY <2>1, <2>2, <2>7, BeginCaseWork
  <2>8. CASE CleanReturns \/ CleanFails \/ WorkAborts \/ UnwrittenWork
    BY <2>1, <2>2, <2>8, PoppedWork
  <2>9. CASE RefuseTransaction \/ CommitFailsVisible
    BY <2>1, <2>2, <2>9, PoppedWork, OtherWork
  <2>10. CASE TranscribingReturns \/ OutcomeReturns
    BY <2>1, <2>2, <2>10, ReturnedWork
  <2>11. CASE StartWork \/ Recognise
    BY <2>1, <2>2, <2>11, IdleWork
  <2>12. CASE Stop \/ BeginExit \/ UNCHANGED vars
    BY <2>1, <2>2, <2>12, OtherWork
  <2>13. CASE UnwrittenCase \/ Crash \/ FinishExit
    BY <1>4, <2>13 DEF UnwrittenCase, Halt, Crash, FinishExit
  <2>14. CASE TransactionStep
    BY <2>3, <2>4, <2>7, <2>8, <2>9, <2>10, <2>14 DEF TransactionStep, QuietTransaction
  <2>15. CASE FaultStep
    BY <2>4, <2>6, <2>8, <2>9, <2>13, <2>15 DEF FaultStep, QuietTransaction
  <2>16. CASE WorkStep \/ LifeStep
    BY <1>4, <2>6, <2>11, <2>12, <2>13, <2>16 DEF WorkStep, LifeStep
  <2> QED BY <2>5, <2>12, <2>14, <2>15, <2>16 DEF Next
<1> QED BY <1>1, <1>2, <1>3, <1>4

=============================================================================
