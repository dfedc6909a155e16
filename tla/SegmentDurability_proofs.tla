---------------------- MODULE SegmentDurability_proofs ----------------------
(***************************************************************************)
(* For every number of connections, cases, segments, transcriptions,       *)
(* faults, crashes and shutdowns, and devices that follow the protocol:    *)
(* every state that reaches the disk passes the validation of the next     *)
(* start, no open recording is left without its stream, a recording whose  *)
(* durable ACK was sent is never lost, and the disk only advances.         *)
(*                                                                         *)
(* While the process may write, its memory is Core: the rows of            *)
(* CaseManager, the ACKs, the durable segments, the jobs, the stream and   *)
(* the commits agree.  A snapshot exported from such memory restores       *)
(* (SnapFromCore), and what restores makes such memory again               *)
(* (CoreRecovers).  That a step keeps Core depends on the transactions     *)
(* that wait: a commit has its WAV and a removal finds its job ended       *)
(* (CallsOK), a queued transcription is of a durable recording (QueueOK),  *)
(* and the cases that wait to be started are in order (CasesOK).           *)
(*                                                                         *)
(* A durable ACK survives because between two transactions the disk has    *)
(* memory's ledger, and while one writes, its snapshot has it and the      *)
(* disk has it but for the recording that is being committed (AgreeInv);   *)
(* because what a shutdown took is still so when it is written (ExitInv)   *)
(* and nothing of a halted Bridge opens a durable recording again          *)
(* (HaltInv); because every job that is to be transcribed has its WAV, in  *)
(* memory, on the disk and in the snapshots that may get there (WavsInv);  *)
(* and because the ACK is sent when the recording is in all of these       *)
(* (SentInv).  The disk only advances because it is behind memory, and     *)
(* what a shutdown writes is ahead of it (AdvanceInv).                     *)
(***************************************************************************)
EXTENDS SegmentPipeline_proofs

----------------------------------------------------------------------------
(* What is true of the device's memory, and of what it writes.             *)

\* The device has left the case of the segment, and does not go back to it.
Past(m, s) == m.current[Device] # None /\ m.current[Device] > CaseOf[s]

\* A WAV of the segment.
FileOf(file, s) == file \in Files /\ file[1] = CaseOf[s] /\ file[2] = s

\* A recording that the table knows is of the current case,
RowSound(m, s) ==
  /\ m.seg[s].state # "absent" => m.seg[s].case = CaseOf[s] /\ m.current[Device] = CaseOf[s]
  /\ m.seg[s].state = "absent" => m.seg[s].case = None
  /\ m.seg[s].pcm = FALSE

\* is durable when its end has been acknowledged, and then has the job whose
\* status its row tells; one that is not has neither.
JobSound(m, acks, durable, jobs, s) ==
  /\ s \in durable <=> End(s) \in acks
  /\ s \in durable => jobs[s].status # "none" /\ m.seg[s].state = jobs[s].status
  /\ s \notin durable => jobs[s] = NoJob /\ m.seg[s].state \in {"absent", "receiving", "failed"}
  /\ Pending(jobs[s]) => FileOf(jobs[s].file, s)

Sound(m, acks, durable, jobs) ==
  /\ jobs \in [Segments -> Job] /\ durable \subseteq Segments
  /\ \A s \in Segments : RowSound(m, s) /\ JobSound(m, acks, durable, jobs, s)

\* Of a durable recording only a replay is streamed.
StreamSound(dv) ==
  /\ dv.progress = [s \in Segments |-> dv.progress[s]]
  /\ \A s \in Segments : /\ s \in dv.durable => dv.progress[s] = None
                         /\ End(s) \in dv.acks => s \in dv.durable
  /\ dv.active # NoStream /\ dv.active.seg \in dv.durable => dv.active.replay

\* ends are the recordings whose commit point is being written.
CommitSound(m, dv, ends, s) ==
  /\ dv.commits[s].step # "none" /\ s \in dv.durable => s \in ends
  /\ s \in ends => s \in dv.durable /\ dv.jobs[s].status = "queued"
  /\ dv.commits[s].step # "none" => IF dv.commits[s].stale THEN Past(m, s) ELSE Live(m, s)
  /\ dv.commits[s].file # None => FileOf(dv.commits[s].file, s)

\* The stream of a recording that is being committed is the one that ended it.
StreamShape(a) ==
  a = [owner |-> a.owner, seg |-> a.seg, replay |-> a.replay, committing |-> a.committing]

OwnerSound(dv) ==
  dv.active # NoStream =>
    /\ StreamShape(dv.active)
    /\ dv.active.committing <=> dv.commits[dv.active.seg].step # "none"
    /\ dv.active.committing => ~dv.active.replay

Core(m, dv, ends) ==
  /\ Good(m) /\ DevShape(dv)
  /\ Sound(m, dv.persistent, dv.durable, dv.jobs)
  /\ StreamSound(dv) /\ OwnerSound(dv)
  /\ \A s \in Segments : CommitSound(m, dv, ends, s)

\* What a restart finds is what memory had: it is valid, and makes a table.
SnapOK(snap) ==
  /\ snap.cm \in CaseManagerState /\ MayRestoreState(snap.cm) /\ Good(RestoreState(snap.cm))
  /\ Sound(snap.cm, snap.acks, snap.durable, snap.jobs)

Begun == txn.phase \in {"writing", "renamed"}

Ends == {s \in Segments : Begun /\ txn.call.op = "end" /\ txn.call.s = s}

MemoryInv == Core(cm, dev, Ends)

\* A transaction that commits a recording has its WAV; case.start never goes back.
CallsOK ==
  /\ \A i \in 1..Len(Outstanding) :
       /\ Outstanding[i].op = "end" => CommitOf(Outstanding[i].s).file # None
       /\ Outstanding[i].op = "clean" => ~Pending(dev.jobs[Outstanding[i].s])
  /\ Begun /\ txn.call.op \in {"saved", "failed"} => ~Pending(dev.jobs[txn.call.s])

CasesOK ==
  \A i \in 1..Len(tail) : tail[i].op = "case" =>
    /\ tail[i].c \in Cases
    /\ cm.current[Device] # None => cm.current[Device] <= tail[i].c
    /\ \A j \in 1..Len(tail) : i < j /\ tail[j].op = "case" => tail[i].c <= tail[j].c

\* An entry of the queue is of a recording that is durable, or was.
Held1(m, dv, s) == Past(m, s) \/ (s \in dv.durable /\ dv.commits[s].step = "none")

EntryOK(m, dv, e) == FileOf(e.file, e.s) /\ Held1(m, dv, e.s)

QueueOK == \A i \in 1..Len(dev.queue) : EntryOK(cm, dev, dev.queue[i])

TriesOK ==
  /\ spent = [tries |-> spent.tries, faults |-> spent.faults, stops |-> spent.stops,
              foreign |-> spent.foreign, failed |-> spent.failed]
  /\ spent.tries \in [Segments -> Nat]

SnapsOK ==
  /\ SnapOK(disk)
  /\ undo # None => SnapOK(undo)
  /\ Begun => SnapOK(txn.snap)
  /\ exit # None => SnapOK(exit)

RestoreInv ==
  /\ TriesOK /\ SnapsOK
  /\ writable => MemoryInv /\ CallsOK /\ QueueOK
  /\ mode = "up" => CasesOK

\* What a step may not do to a recording: take it from its entry, make its job
\* unfinished again, or take its WAV from its commit.
Steady(m, dv, n, dw) ==
  \A t \in Segments :
    /\ Held1(m, dv, t) => Held1(n, dw, t)
    /\ Held1(m, dv, t) /\ ~Pending(dv.jobs[t]) => ~Pending(dw.jobs[t])
    /\ dv.commits[t].step = "done" /\ dv.commits[t].file # None /\ dw.commits[t].step # "none" =>
         dw.commits[t].file # None

----------------------------------------------------------------------------
(* One lemma for each way a step may change it.                            *)

LEMMA CoreSame ==
  ASSUME NEW m, NEW dv, NEW ends, Core(m, dv, ends), NEW dw, DevShape(dw), SameLedger(dv, dw),
         dw.commits = dv.commits, dw.active \in {dv.active, NoStream}
  PROVE  Core(m, dw, ends) /\ Steady(m, dv, m, dw)
<1>1. Sound(m, dw.persistent, dw.durable, dw.jobs)
  BY DEF Core, SameLedger
<1>2. StreamSound(dw) /\ OwnerSound(dw)
  BY DEF Core, SameLedger, StreamSound, OwnerSound
<1>3. \A s \in Segments : CommitSound(m, dw, ends, s)
  BY DEF Core, SameLedger, CommitSound
<1>4. Steady(m, dv, m, dw)
  BY DEF SameLedger, Steady, Held1
<1> QED BY <1>1, <1>2, <1>3, <1>4 DEF Core

LEMMA SoundForgets ==
  ASSUME NEW m, NEW a, NEW d, NEW j, Sound(m, a, d, j), NEW S, NEW n, AllFailed(m, n, S),
         NEW b, NEW e, NEW k, e = d \ S, k = [t \in Segments |-> IF t \in S THEN NoJob ELSE j[t]],
         \A t \in Segments : End(t) \in b <=> t \notin S /\ End(t) \in a,
         \A t \in Segments : t \in S => m.seg[t].state # "saved"
  PROVE  Sound(n, b, e, k)
<1>1. NoJob \in Job
  BY DEF NoJob, Job, Statuses
<1>2. k \in [Segments -> Job] /\ e \subseteq Segments
  BY <1>1 DEF Sound
<1>3. ASSUME NEW t \in Segments PROVE RowSound(n, t) /\ JobSound(n, b, e, k, t)
  <2>1. RowSound(n, t)
    BY DEF Sound, RowSound, AllFailed, ActiveStates
  <2>2. CASE t \in S
    <3>1. k[t] = NoJob /\ t \notin e /\ End(t) \notin b /\ ~Pending(NoJob)
      BY <2>2 DEF NoJob, Pending
    <3>2. n.seg[t].state \in {"absent", "receiving", "failed"}
      <4>1. CASE t \notin d
        BY <2>2, <4>1 DEF Sound, JobSound, AllFailed, ActiveStates
      <4>2. CASE t \in d
        <5>1. j[t].status \in {"queued", "transcribing", "failed"}
          BY <2>2, <4>2 DEF Sound, JobSound, Job, Statuses
        <5> QED BY <2>2, <4>2, <5>1 DEF Sound, JobSound, AllFailed, ActiveStates
      <4> QED BY <4>1, <4>2
    <3> QED BY <2>1, <3>1, <3>2 DEF JobSound
  <2>3. CASE t \notin S
    <3>1. /\ k[t] = j[t] /\ (t \in e <=> t \in d) /\ (End(t) \in b <=> End(t) \in a)
          /\ n.seg[t].state = m.seg[t].state
      BY <2>3 DEF AllFailed
    <3> QED BY <2>1, <3>1 DEF Sound, JobSound
  <2> QED BY <2>2, <2>3
<1> QED BY <1>2, <1>3 DEF Sound

LEMMA CoreForgets ==
  ASSUME NEW m, NEW dv, NEW ends, Core(m, dv, ends), NEW S, NEW n, AllFailed(m, n, S),
         NEW dw, DevShape(dw), Discards(dv, dw, S),
         dw.commits = dv.commits, dw.active \in {dv.active, NoStream},
         \A t \in Segments : t \in S => m.seg[t].state # "saved" /\ t \notin ends
  PROVE  Core(n, dw, ends)
<1>1. Sound(n, dw.persistent, dw.durable, dw.jobs)
  BY SoundForgets DEF Core, Discards
<1>2. StreamSound(dw)
  BY DEF Core, Discards, StreamSound
<1>3. OwnerSound(dw)
  BY DEF Core, OwnerSound
<1>4. ASSUME NEW t \in Segments PROVE CommitSound(n, dw, ends, t)
  <2>1. /\ t \in dw.durable <=> t \in dv.durable /\ t \notin S
        /\ t \notin S => dw.jobs[t] = dv.jobs[t]
        /\ n.current = m.current /\ (Live(n, t) <=> Live(m, t))
    BY DEF Discards, AllFailed, Live, ActiveStates
  <2> QED BY <2>1 DEF Core, CommitSound, Past
<1>5. Good(n)
  BY DEF AllFailed
<1> QED BY <1>1, <1>2, <1>3, <1>4, <1>5 DEF Core

LEMMA SteadyForgets ==
  ASSUME NEW m, NEW dv, NEW S, NEW n, n.current = m.current, NEW dw, Discards(dv, dw, S),
         \A t \in Segments :
           IF t \in S THEN Past(m, t) \/ ~Held1(m, dv, t) ELSE dw.commits[t] = dv.commits[t],
         \A t \in Segments : dw.commits[t] = dv.commits[t] \/ dw.commits[t].step = "none"
  PROVE  Steady(m, dv, n, dw)
<1>1. ~Pending(NoJob)
  BY DEF NoJob, Pending
<1> QED BY <1>1 DEF Steady, Held1, Discards, Past

\* The commit of s ends, and releases its stream.
LEMMA CoreFinishes ==
  ASSUME NEW m, NEW dv, NEW ends, Core(m, dv, ends), NEW s \in Segments, NEW dw, DevShape(dw),
         dw.persistent = dv.persistent, dw.durable = dv.durable, dw.jobs = dv.jobs,
         dw.acks = dv.acks,
         dw.progress = dv.progress \/ dw.progress = [dv.progress EXCEPT ![s] = None],
         dw.active = IF dv.active # NoStream /\ dv.active.seg = s /\ dv.active.committing
                     THEN NoStream ELSE dv.active,
         dv.active # NoStream => dv.active.seg \in Segments,
         \A t \in Segments : dw.commits[t] = IF t = s THEN NoCommit ELSE dv.commits[t]
  PROVE  Core(m, dw, ends \ {s}) /\ Steady(m, dv, m, dw)
<1>1. Sound(m, dw.persistent, dw.durable, dw.jobs)
  BY DEF Core
<1>2. StreamSound(dw)
  <2>1. /\ dw.progress = [t \in Segments |-> dw.progress[t]]
        /\ \A t \in Segments : dw.progress[t] \in {dv.progress[t], None}
    BY DEF Core, StreamSound
  <2> QED BY <2>1 DEF Core, StreamSound
<1>3. NoCommit.step = "none" /\ NoCommit.file = None
  BY DEF NoCommit
<1>4. OwnerSound(dw)
  BY <1>3 DEF Core, OwnerSound
<1>5. ASSUME NEW t \in Segments PROVE CommitSound(m, dw, ends \ {s}, t)
  BY <1>3 DEF Core, CommitSound
<1>6. Steady(m, dv, m, dw)
  BY <1>3 DEF Steady, Held1
<1> QED BY <1>1, <1>2, <1>4, <1>5, <1>6 DEF Core

\* One recording that is not durable is recorded, or goes on being.
LEMMA CoreRow ==
  ASSUME NEW m, NEW dv, NEW ends, Core(m, dv, ends), NEW s \in Segments, NEW n,
         OneRow(m, n, s, CaseOf[s], "receiving"), m.current[Device] = CaseOf[s],
         s \notin dv.durable, dv.commits[s].step = "none",
         NEW dw, DevShape(dw), dw.persistent = dv.persistent, dw.durable = dv.durable,
         dw.jobs = dv.jobs, dw.commits = dv.commits,
         dw.progress = [t \in Segments |-> dw.progress[t]],
         \A t \in Segments : /\ t # s => dw.progress[t] = dv.progress[t]
                             /\ End(t) \in dw.acks <=> End(t) \in dv.acks,
         \/ dw.active = dv.active
         \/ StreamShape(dw.active) /\ dw.active.seg = s /\ ~dw.active.committing
  PROVE  Core(n, dw, ends) /\ Steady(m, dv, n, dw)
<1>1. Sound(n, dw.persistent, dw.durable, dw.jobs)
  <2>1. ASSUME NEW t \in Segments
        PROVE  RowSound(n, t) /\ JobSound(n, dw.persistent, dw.durable, dw.jobs, t)
    <3>1. CASE t = s
      BY <3>1 DEF Core, Sound, RowSound, JobSound, OneRow
    <3>2. CASE t # s
      BY <3>2 DEF Core, Sound, RowSound, JobSound, OneRow
    <3> QED BY <3>1, <3>2
  <2> QED BY <2>1 DEF Core, Sound
<1>2. StreamSound(dw)
  BY DEF Core, StreamSound
<1>3. OwnerSound(dw)
  BY DEF Core, OwnerSound
<1>4. ASSUME NEW t \in Segments PROVE CommitSound(n, dw, ends, t)
  <2>1. CASE t = s
    BY <2>1 DEF Core, CommitSound
  <2>2. CASE t # s
    BY <2>2 DEF Core, CommitSound, OneRow, Past, Live
  <2> QED BY <2>1, <2>2
<1>5. Good(n)
  BY DEF OneRow
<1>20. Steady(m, dv, n, dw)
  BY DEF Steady, Held1, OneRow, Past
<1> QED BY <1>1, <1>2, <1>3, <1>4, <1>5, <1>20 DEF Core

\* A stream opens for a recording that is not being committed.
LEMMA CoreStreams ==
  ASSUME NEW m, NEW dv, NEW ends, Core(m, dv, ends), NEW s \in Segments,
         dv.commits[s].step = "none",
         NEW dw, DevShape(dw), dw.persistent = dv.persistent, dw.durable = dv.durable,
         dw.jobs = dv.jobs, dw.commits = dv.commits, dw.progress = dv.progress,
         \A t \in Segments : End(t) \in dw.acks <=> End(t) \in dv.acks,
         StreamShape(dw.active), dw.active.seg = s, ~dw.active.committing,
         s \in dv.durable => dw.active.replay
  PROVE  Core(m, dw, ends) /\ Steady(m, dv, m, dw)
<1>1. Sound(m, dw.persistent, dw.durable, dw.jobs)
  BY DEF Core
<1>2. StreamSound(dw)
  BY DEF Core, StreamSound
<1>3. OwnerSound(dw)
  BY DEF Core, OwnerSound
<1>4. \A t \in Segments : CommitSound(m, dw, ends, t)
  BY DEF Core, CommitSound
<1>20. Steady(m, dv, m, dw)
  BY DEF Steady, Held1
<1> QED BY <1>1, <1>2, <1>3, <1>4, <1>20 DEF Core

\* The commit of a recording that is not durable begins, or moves on.
LEMMA CoreCommits ==
  ASSUME NEW m, NEW dv, NEW ends, Core(m, dv, ends), NEW s \in Segments, NEW row,
         NEW dw, OnlyCommit(dv, dw, s, row), SameLedger(dv, dw),
         row.step # "none", s \notin dv.durable, dv.commits[s].step # "done",
         IF row.stale THEN Past(m, s) ELSE Live(m, s),
         row.file # None => FileOf(row.file, s),
         StreamSound(dw), OwnerSound(dw)
  PROVE  Core(m, dw, ends) /\ Steady(m, dv, m, dw)
<1>1. Sound(m, dw.persistent, dw.durable, dw.jobs)
  BY DEF Core, SameLedger
<1>2. DevShape(dw)
  BY DEF OnlyCommit
<1>3. ASSUME NEW t \in Segments PROVE CommitSound(m, dw, ends, t)
  <2>1. CASE t = s
    BY <2>1 DEF Core, CommitSound, OnlyCommit, SameLedger
  <2>2. CASE t # s
    BY <2>2 DEF Core, CommitSound, OnlyCommit, SameLedger
  <2> QED BY <2>1, <2>2
<1>20. Steady(m, dv, m, dw)
  BY DEF Steady, Held1, OnlyCommit, SameLedger
<1> QED BY <1>1, <1>2, <1>3, <1>20 DEF Core

\* The job of a durable recording moves on with its row.
LEMMA CoreStatus ==
  ASSUME NEW m, NEW dv, NEW ends, Core(m, dv, ends), NEW s \in Segments, NEW n, NEW status,
         OneRow(m, n, s, m.seg[s].case, status), s \in dv.durable, s \notin ends,
         status \in {"transcribing", "saved", "failed"},
         NEW dw, DevShape(dw), dw.persistent = dv.persistent, dw.durable = dv.durable,
         dw.progress = dv.progress, dw.acks = dv.acks, dw.active = dv.active,
         dw.commits = dv.commits, dw.jobs \in [Segments -> Job],
         \A t \in Segments : t # s => dw.jobs[t] = dv.jobs[t],
         dw.jobs[s].status = status, dw.jobs[s].file = dv.jobs[s].file,
         status = "transcribing" => Pending(dv.jobs[s])
  PROVE  Core(n, dw, ends) /\ Steady(m, dv, n, dw)
<1>1. m.seg[s].state # "absent"
  BY DEF Core, Sound, JobSound, Job, Statuses
<1>2. Sound(n, dw.persistent, dw.durable, dw.jobs)
  <2>1. ASSUME NEW t \in Segments
        PROVE  RowSound(n, t) /\ JobSound(n, dw.persistent, dw.durable, dw.jobs, t)
    <3>1. CASE t = s
      BY <3>1, <1>1 DEF Core, Sound, RowSound, JobSound, OneRow, Pending
    <3>2. CASE t # s
      BY <3>2 DEF Core, Sound, RowSound, JobSound, OneRow
    <3> QED BY <3>1, <3>2
  <2> QED BY <2>1 DEF Core, Sound
<1>3. StreamSound(dw) /\ OwnerSound(dw)
  BY DEF Core, StreamSound, OwnerSound
<1>4. ASSUME NEW t \in Segments PROVE CommitSound(n, dw, ends, t)
  <2>1. CASE t = s
    BY <2>1, <1>1 DEF Core, CommitSound, OneRow, Past, Live
  <2>2. CASE t # s
    BY <2>2 DEF Core, CommitSound, OneRow, Past, Live
  <2> QED BY <2>1, <2>2
<1>20. Steady(m, dv, n, dw)
  BY DEF Steady, Held1, OneRow, Past, Pending
<1> QED BY <1>2, <1>3, <1>4, <1>20 DEF Core, OneRow

\* The job of a transcribed recording forgets its WAV.
LEMMA CoreForgetsWav ==
  ASSUME NEW m, NEW dv, NEW ends, Core(m, dv, ends), NEW s \in Segments, ~Pending(dv.jobs[s]),
         NEW dw, DevShape(dw), dw.persistent = dv.persistent, dw.durable = dv.durable,
         dw.progress = dv.progress, dw.acks = dv.acks, dw.active = dv.active,
         dw.commits = dv.commits, dw.jobs \in [Segments -> Job],
         \A t \in Segments : t # s => dw.jobs[t] = dv.jobs[t],
         dw.jobs[s].status = dv.jobs[s].status, dv.jobs[s] = NoJob => dw.jobs[s] = NoJob
  PROVE  Core(m, dw, ends) /\ Steady(m, dv, m, dw)
<1>1. ASSUME NEW t \in Segments
      PROVE  RowSound(m, t) /\ JobSound(m, dw.persistent, dw.durable, dw.jobs, t)
  <2>1. CASE t = s
    BY <2>1 DEF Core, Sound, JobSound, Pending
  <2>2. CASE t # s
    BY <2>2 DEF Core, Sound, JobSound
  <2> QED BY <2>1, <2>2
<1>2. Sound(m, dw.persistent, dw.durable, dw.jobs)
  BY <1>1 DEF Core, Sound
<1>3. StreamSound(dw) /\ OwnerSound(dw)
  BY DEF Core, StreamSound, OwnerSound
<1>4. ASSUME NEW t \in Segments PROVE CommitSound(m, dw, ends, t)
  <2>1. dw.jobs[t].status = dv.jobs[t].status
    OBVIOUS
  <2> QED BY <2>1 DEF Core, CommitSound
<1>20. Steady(m, dv, m, dw)
  BY DEF Steady, Held1, Pending
<1> QED BY <1>2, <1>3, <1>4, <1>20 DEF Core

\* The commit point: the recording is durable, and is queued.
LEMMA CoreEnds ==
  ASSUME NEW m, NEW dv, NEW ends, Core(m, dv, ends), NEW s \in Segments, NEW n,
         m.seg[s].state = "receiving", OneRow(m, n, s, m.seg[s].case, "queued"),
         dv.commits[s].step # "none", ~dv.commits[s].stale, dv.commits[s].file # None,
         NEW dw, DevShape(dw), dw.commits = dv.commits,
         dw.active = IF dv.active # NoStream /\ dv.active.seg = s /\ dv.active.committing
                     THEN NoStream ELSE dv.active,
         dw.durable = dv.durable \cup {s},
         dw.jobs = [dv.jobs EXCEPT ![s] = [status |-> "queued", file |-> dv.commits[s].file]],
         dw.progress = [dv.progress EXCEPT ![s] = None],
         \A t \in Segments : /\ End(t) \in dw.acks <=> t = s \/ End(t) \in dv.acks
                             /\ End(t) \in dw.persistent <=> t = s \/ End(t) \in dv.persistent
  PROVE  Core(n, dw, ends \cup {s}) /\ Steady(m, dv, n, dw)
<1> DEFINE job == [status |-> "queued", file |-> dv.commits[s].file]
<1>1. FileOf(dv.commits[s].file, s)
  BY DEF Core, CommitSound
<1>2. job \in Job
  BY <1>1 DEF Job, Statuses, FileOf
<1>3. job.status = "queued" /\ job.file = dv.commits[s].file
  OBVIOUS
<1> HIDE DEF job
<1>4. dw.jobs = [dv.jobs EXCEPT ![s] = job]
  BY DEF job
<1>5. /\ dw.jobs \in [Segments -> Job] /\ dw.jobs[s] = job
      /\ \A t \in Segments : t # s => dw.jobs[t] = dv.jobs[t]
  BY <1>2, <1>4 DEF Core, Sound
<1>6. Sound(n, dw.persistent, dw.durable, dw.jobs)
  <2>1. ASSUME NEW t \in Segments
        PROVE  RowSound(n, t) /\ JobSound(n, dw.persistent, dw.durable, dw.jobs, t)
    <3>1. CASE t = s
      BY <3>1, <1>1, <1>3, <1>5 DEF Core, Sound, RowSound, JobSound, OneRow
    <3>2. CASE t # s
      BY <3>2, <1>5 DEF Core, Sound, RowSound, JobSound, OneRow
    <3> QED BY <3>1, <3>2
  <2> QED BY <2>1, <1>5 DEF Core, Sound
<1>7. StreamSound(dw)
  <2>1. /\ dw.progress = [t \in Segments |-> dw.progress[t]]
        /\ \A t \in Segments : dw.progress[t] = IF t = s THEN None ELSE dv.progress[t]
    BY DEF Core, StreamSound
  <2>2. dv.active # NoStream /\ dv.active.seg = s => dv.active.committing
    BY DEF Core, OwnerSound
  <2> QED BY <2>1, <2>2 DEF Core, StreamSound
<1>8. OwnerSound(dw)
  BY DEF Core, OwnerSound
<1>9. ASSUME NEW t \in Segments PROVE CommitSound(n, dw, ends \cup {s}, t)
  <2>1. CASE t = s
    BY <2>1, <1>1, <1>3, <1>5 DEF Core, CommitSound, OneRow, Live
  <2>2. CASE t # s
    BY <2>2, <1>5 DEF Core, CommitSound, OneRow, Past, Live
  <2> QED BY <2>1, <2>2
<1>20. Steady(m, dv, n, dw)
  <2>1. ~Held1(m, dv, s) /\ dv.commits[s].step # "none"
    <3>1. m.current[Device] = CaseOf[s] /\ dv.commits[s].step # "none"
      BY DEF Core, Sound, RowSound
    <3>2. CaseOf[s] \in Nat
      BY PipelineAssumption
    <3> QED BY <3>1, <3>2 DEF Past, Held1
  <2>2. \A t \in Segments : t # s => dw.jobs[t] = dv.jobs[t] /\ n.current = m.current
    BY <1>5 DEF OneRow
  <2> QED BY <2>1, <2>2 DEF Steady, Held1, Past, OneRow
<1> QED BY <1>6, <1>7, <1>8, <1>9, <1>20 DEF Core, OneRow

\* The device starts a case: the recordings of the case it leaves are gone.
LEMMA CoreCaseStarts ==
  ASSUME NEW m, NEW dv, Core(m, dv, {}), NEW c \in Cases, MayStartCase(m, Device, c),
         m.current[Device] # None => m.current[Device] <= c,
         NEW n, n = StartCase(m, Device, c), NEW all,
         \A t \in Segments : t \in all <=> /\ m.current[Device] \notin {None, c}
                                           /\ m.seg[t].case = m.current[Device],
         NEW dw, DevShape(dw),
         \/ Discards(dv, dw, all)
         \/ /\ all = {} /\ dw.durable = dv.durable /\ dw.jobs = dv.jobs
            /\ dw.progress = dv.progress
            /\ \A t \in Segments : /\ End(t) \in dw.acks <=> End(t) \in dv.acks
                                   /\ End(t) \in dw.persistent <=> End(t) \in dv.persistent,
         \A t \in Segments : dw.commits[t] = IF t \in all /\ dv.commits[t].step # "none"
                                             THEN Told(dv.commits[t]) ELSE dv.commits[t],
         dw.active = IF dv.active # NoStream /\ dv.active.seg \in all THEN NoStream
                     ELSE dv.active,
         dv.active # NoStream => dv.active.seg \in Segments
  PROVE  Core(n, dw, {}) /\ Steady(m, dv, n, dw) /\ n.current[Device] = c
<1>1. /\ m \in CaseManagerState /\ HeldCurrent(m) /\ Device \in Devices
      /\ m.current[Device] \in Cases \cup {None} /\ Cases \subseteq Nat /\ c \in Nat
  BY PipelineAssumption DEF Core, Good, Shape, CaseManagerState
<1>2. \A t \in Segments : CaseOf[t] \in Nat
  BY PipelineAssumption
<1>3. NoJob \in Job /\ ~Pending(NoJob)
  BY DEF NoJob, Job, Statuses, Pending
<1>4. /\ dw.jobs = [t \in Segments |-> IF t \in all THEN NoJob ELSE dv.jobs[t]]
      /\ dw.jobs \in [Segments -> Job] /\ dw.durable = dv.durable \ all
      /\ dw.progress = [t \in Segments |-> IF t \in all THEN None ELSE dv.progress[t]]
      /\ \A t \in Segments : /\ End(t) \in dw.acks <=> t \notin all /\ End(t) \in dv.acks
                             /\ End(t) \in dw.persistent <=> t \notin all /\ End(t) \in dv.persistent
  <2>1. CASE Discards(dv, dw, all)
    BY <1>3, <2>1 DEF Discards, Core, Sound
  <2>2. CASE ~Discards(dv, dw, all)
    BY <2>2 DEF Core, Sound, StreamSound
  <2> QED BY <2>1, <2>2
<1>5. ASSUME NEW t \in Segments
      PROVE  /\ dw.commits[t].step = dv.commits[t].step /\ dw.commits[t].file = dv.commits[t].file
             /\ dw.commits[t].stale <=> (dv.commits[t].stale \/ (t \in all /\ dv.commits[t].step # "none"))
  <2> DEFINE d == dv.commits[t]
  <2>1. d = [k |-> d.k, stale |-> d.stale, file |-> d.file, step |-> d.step]
    BY DEF Core, DevShape
  <2>2. CASE t \in all /\ dv.commits[t].step # "none"
    <3> HIDE DEF d
    <3>1. Told(d) = [k |-> d.k, stale |-> TRUE, file |-> d.file, step |-> d.step]
      BY <2>1, ToldCommit
    <3>2. dw.commits[t] = Told(d)
      BY <2>2 DEF d
    <3>3. Told(d).step = d.step /\ Told(d).file = d.file /\ Told(d).stale = TRUE
      BY <3>1
    <3> QED BY <2>2, <3>2, <3>3 DEF d
  <2>3. CASE ~(t \in all /\ dv.commits[t].step # "none")
    <3>1. dw.commits[t] = dv.commits[t]
      BY <2>3
    <3> QED BY <2>3, <3>1
  <2> QED BY <2>2, <2>3
<1>6. OwnerSound(dw)
  BY <1>5 DEF Core, OwnerSound
<1>7. StreamSound(dw)
  BY <1>4 DEF Core, StreamSound
<1>8. \A t \in Segments : Pending(dw.jobs[t]) => dw.jobs[t] = dv.jobs[t]
  BY <1>3, <1>4
<1>9. CASE m.owner[c] = Device
  <2>1. n = m /\ m.current[Device] = c
    BY <1>1, <1>9, PipelineAssumption, NoneAssumption DEF StartCase, HeldCurrent
  <2>2. \A t \in Segments : t \notin all
    BY <2>1
  <2>3. \A t \in Segments : dw.commits[t] = dv.commits[t]
    BY <2>2
  <2>4. /\ dw.jobs = dv.jobs /\ dw.durable = dv.durable
        /\ \A t \in Segments : End(t) \in dw.persistent <=> End(t) \in dv.persistent
    BY <1>4, <2>2 DEF Core, Sound
  <2>5. Sound(n, dw.persistent, dw.durable, dw.jobs)
    BY <2>1, <2>4 DEF Core, Sound, JobSound
  <2>6. \A t \in Segments : CommitSound(n, dw, {}, t)
    BY <2>1, <2>3, <2>4 DEF Core, CommitSound
  <2>7. Steady(m, dv, n, dw)
    BY <1>8, <2>1, <2>3, <2>4 DEF Steady, Held1
  <2> QED BY <1>6, <1>7, <2>1, <2>5, <2>6, <2>7 DEF Core
<1>10. CASE m.owner[c] = None
  <2>1. /\ Good(n) /\ n.current[Device] = c
        /\ \A t \in Segments : /\ Live(m, t) => n.seg[t] = NoSegment
                               /\ ~Live(m, t) => n.seg[t] = m.seg[t]
    <3>1. \A t \in Segments : Live(m, t) => m.current[Device] # None /\ m.seg[t].case = m.current[Device]
      BY PipelineAssumption, NoneAssumption DEF Core, Sound, RowSound, Live
    <3> QED BY <1>1, <1>10, <3>1, StartCaseRows DEF Core
  <2>2. m.current[Device] # c
    BY <1>1, <1>10, PipelineAssumption, NoneAssumption DEF HeldCurrent
  <2>3. \A t \in Segments : t \in all <=> Live(m, t)
    BY <2>2, PipelineAssumption, NoneAssumption DEF Core, Sound, RowSound, Live
  <2>4. \A t \in Segments : /\ Live(m, t) => Past(n, t)
                            /\ Past(m, t) => Past(n, t)
    <3>1. TAKE t \in Segments
    <3>2. Past(n, t) <=> c > CaseOf[t]
      BY <2>1, NoneAssumption DEF Past
    <3>3. ASSUME Live(m, t) PROVE c > CaseOf[t]
      <4>1. m.current[Device] = CaseOf[t] /\ CaseOf[t] \in Nat /\ CaseOf[t] # None
        BY <1>2, <3>3, PipelineAssumption, NoneAssumption DEF Core, Sound, RowSound, Live
      <4> QED BY <1>1, <2>2, <4>1
    <3>4. ASSUME Past(m, t) PROVE c > CaseOf[t]
      <4>1. m.current[Device] \in Nat /\ m.current[Device] <= c /\ CaseOf[t] \in Nat
        BY <1>1, <1>2, <3>4 DEF Past
      <4> QED BY <1>1, <3>4, <4>1 DEF Past
    <3> QED BY <3>2, <3>3, <3>4
  <2>5. \A t \in Segments : t \in dv.durable => Live(m, t)
    BY DEF Core, Sound, JobSound, Job, Statuses, Live
  <2>6. ASSUME NEW t \in Segments
        PROVE  RowSound(n, t) /\ JobSound(n, dw.persistent, dw.durable, dw.jobs, t)
    <3>1. n.seg[t].state = "absent" /\ n.seg[t].case = None /\ n.seg[t].pcm = FALSE
      BY <2>1 DEF NoSegment, Core, Sound, RowSound, Live
    <3>2. t \notin dw.durable /\ dw.jobs[t] = NoJob /\ End(t) \notin dw.persistent
      BY <1>4, <2>3, <2>5 DEF Core, Sound, JobSound
    <3> QED BY <1>3, <3>1, <3>2 DEF RowSound, JobSound
  <2>7. Sound(n, dw.persistent, dw.durable, dw.jobs)
    BY <1>4, <2>6 DEF Core, Sound
  <2>8. ASSUME NEW t \in Segments PROVE CommitSound(n, dw, {}, t)
    <3>1. t \notin dw.durable
      BY <1>4, <2>3, <2>5
    <3> QED BY <1>5, <2>3, <2>4, <3>1 DEF Core, CommitSound
  <2>9. Steady(m, dv, n, dw)
    BY <1>5, <1>8, <2>4, <2>5 DEF Steady, Held1
  <2> QED BY <1>6, <1>7, <2>1, <2>7, <2>8, <2>9 DEF Core
<1> QED BY <1>9, <1>10 DEF MayStartCase

LEMMA FreshIsEmpty ==
  /\ FreshDevice.acks = {} /\ FreshDevice.persistent = {} /\ FreshDevice.durable = {}
  /\ FreshDevice.jobs = [s \in Segments |-> NoJob]
  /\ FreshDevice.progress = [s \in Segments |-> None]
  /\ FreshDevice.active = NoStream /\ FreshDevice.queue = <<>>
BY DEF FreshDevice

LEMMA SoundEmpty ==
  Sound(EmptyCaseManager, {}, {}, [s \in Segments |-> NoJob])
<1>1. NoJob \in Job /\ ~Pending(NoJob)
  BY DEF NoJob, Job, Statuses, Pending
<1>2. \A s \in Segments : EmptyCaseManager.seg[s] = NoSegment
  BY DEF EmptyCaseManager
<1>3. NoSegment.state = "absent" /\ NoSegment.case = None /\ NoSegment.pcm = FALSE
  BY DEF NoSegment
<1> QED BY <1>1, <1>2, <1>3 DEF Sound, RowSound, JobSound

\* A process that has just begun.
LEMMA CoreFresh == Core(EmptyCaseManager, FreshDevice, {})
<1>1. Sound(EmptyCaseManager, FreshDevice.persistent, FreshDevice.durable, FreshDevice.jobs)
  BY SoundEmpty, FreshIsEmpty
<1>2. StreamSound(FreshDevice) /\ OwnerSound(FreshDevice)
  BY FreshIsEmpty DEF StreamSound, OwnerSound
<1>3. \A s \in Segments : CommitSound(EmptyCaseManager, FreshDevice, {}, s)
  BY FreshIsEmpty, FreshKeepsNothing DEF CommitSound, NoCommit
<1> QED BY <1>1, <1>2, <1>3, EmptyGood, FreshKeepsNothing DEF Core

----------------------------------------------------------------------------
(* What each action does to memory.                                        *)

CoreStep == Core(cm', dev', Ends') /\ Steady(cm, dev, cm', dev')

LEMMA EndsFacts ==
  /\ txn = NoTxn => Ends = {}
  /\ txn' = NoTxn => Ends' = {}
  /\ txn.call.op # "end" => Ends = {}
  /\ txn'.call.op # "end" => Ends' = {}
  /\ UNCHANGED txn => Ends' = Ends
BY NoTxnPhase DEF Ends, Begun

\* The commit that is being written.
LEMMA EndsOne ==
  ASSUME FramesInv, txn # NoTxn, txn.call.op = "end", Begun
  PROVE  txn.call.s \in Segments /\ Ends = {txn.call.s}
<1>1. txn.call.s \in Segments
  BY EndingSegment DEF EndOps
<1> QED BY <1>1 DEF Ends

\* Nothing but the queue changes, or the stream goes.
LEMMA SameStep ==
  ASSUME FramesInv, MemoryInv, cm' = cm, Ends' = Ends,
         \/ dev' = dev
         \/ OnlyQueue(dev, dev')
         \/ dev' = [dev EXCEPT !.active = NoStream]
  PROVE  CoreStep
<1>1. DevShape(dev)
  BY DevHasShape
<1>2. /\ DevShape(dev') /\ SameLedger(dev, dev')
      /\ dev'.commits = dev.commits /\ dev'.active \in {dev.active, NoStream}
  <2>1. CASE dev' = dev
    BY <1>1, <2>1 DEF SameLedger
  <2>2. CASE OnlyQueue(dev, dev')
    BY <2>2 DEF OnlyQueue
  <2>3. CASE dev' = [dev EXCEPT !.active = NoStream]
    <3> DEFINE a == NoStream
    <3>1. dev' = [dev EXCEPT !.active = a]
      BY <2>3
    <3> HIDE DEF a
    <3>2. /\ DevShape(dev') /\ SameLedger(dev, dev') /\ dev'.active = a
          /\ dev'.commits = dev.commits
      BY <1>1, <3>1, ActiveFields
    <3> QED BY <3>2 DEF a
  <2> QED BY <2>1, <2>2, <2>3
<1>3. Core(cm, dev', Ends) /\ Steady(cm, dev, cm, dev')
  BY <1>2, CoreSame DEF MemoryInv
<1> QED BY <1>3 DEF CoreStep

LEMMA QueueKinds ==
  ASSUME FramesInv
  PROVE  /\ dev' = Popped(dev) => OnlyQueue(dev, dev')
         /\ \A step : dev' = At(dev, step) => OnlyQueue(dev, dev')
<1>1. DevShape(dev)
  BY DevHasShape
<1>2. dev' = Popped(dev) => OnlyQueue(dev, dev')
  BY <1>1, PoppedFields
<1>3. ASSUME NEW step, dev' = At(dev, step) PROVE OnlyQueue(dev, dev')
  <2>1. OnlyQueue(dev, At(dev, step))
    BY <1>1, AtFields
  <2> QED BY <1>3, <2>1
<1> QED BY <1>2, <1>3

LEMMA QuietCore ==
  ASSUME FramesInv, MemoryInv,
         \/ \E k \in Conns : \/ SendHello(k) \/ ForgetConnection(k)
                             \/ \E c \in Cases : SendCaseStart(k, c)
                             \/ \E s \in Segments : \/ WaitForCommit(k, s) \/ EndMissing(k, s)
                                                    \/ EndReplayed(k, s)
         \/ SubmitForeign \/ Stop \/ UNCHANGED vars
  PROVE  CoreStep
<1>1. cm' = cm /\ Ends' = Ends /\ (dev' = dev \/ dev' = [dev EXCEPT !.active = NoStream])
  <2>1. cm' = cm /\ txn' = txn /\ (dev' = dev \/ dev' = [dev EXCEPT !.active = NoStream])
    BY DEF SendHello, ForgetConnection, SendCaseStart, WaitForCommit, EndMissing, EndReplayed,
           SubmitForeign, Stop, vars
  <2> QED BY <2>1, EndsFacts
<1> QED BY <1>1, SameStep

LEMMA QuietTransactionCore ==
  ASSUME FramesInv, MemoryInv, BeginRemoval \/ BeginForeign \/ RenameState
  PROVE  CoreStep
<1>1. cm' = cm /\ dev' = dev
  BY DEF BeginRemoval, BeginForeign, RenameState
<1>2. Ends' = Ends
  <2>1. CASE BeginRemoval
    <3>1. txn = NoTxn /\ txn'.phase = "removing"
      BY <2>1 DEF BeginRemoval, Starting
    <3> QED BY <3>1, EndsFacts DEF Ends, Begun
  <2>2. CASE BeginForeign
    <3>1. txn = NoTxn /\ txn'.call.op = "foreign"
      BY <2>2 DEF BeginForeign, Starting, Persist, PersistFor, Call1
    <3> QED BY <3>1, EndsFacts
  <2>3. CASE RenameState
    <3>1. txn = [call |-> txn.call, snap |-> txn.snap, back |-> txn.back, phase |-> txn.phase]
      BY <2>3 DEF RenameState, FramesInv, TxnShape
    <3>2. txn.phase = "writing" /\ txn'.phase = "renamed" /\ txn'.call = txn.call
      BY <2>3, <3>1 DEF RenameState
    <3> QED BY <3>2 DEF Ends, Begun
  <2> QED BY <2>1, <2>2, <2>3
<1> QED BY <1>1, <1>2, SameStep

LEMMA EndedCore ==
  ASSUME FramesInv, MemoryInv,
         \/ HelloReturns \/ CaseReturns \/ ForeignReturns \/ TranscribingReturns \/ OutcomeReturns
         \/ CleanReturns \/ CleanFails \/ UnwrittenHello \/ UnwrittenWork \/ UnwrittenForeign
         \/ CommitFailsVisible /\ txn.call.op # "end"
  PROVE  CoreStep
<1>1. cm' = cm /\ txn' = NoTxn /\ txn.call.op # "end"
  BY DEF HelloReturns, CaseReturns, ForeignReturns, TranscribingReturns, OutcomeReturns,
         CleanReturns, CleanFails, UnwrittenHello, UnwrittenWork, UnwrittenForeign,
         CommitFailsVisible, Returned, Running, Removing, Unwritten, WorkOps
<1>2. dev' = dev \/ OnlyQueue(dev, dev')
  <2>1. dev' = dev \/ dev' = Popped(dev) \/ \E step : dev' = At(dev, step)
    BY DEF HelloReturns, CaseReturns, ForeignReturns, TranscribingReturns, OutcomeReturns,
         CleanReturns, CleanFails, UnwrittenHello, UnwrittenWork, UnwrittenForeign,
         CommitFailsVisible
  <2> QED BY <2>1, QueueKinds
<1>3. Ends' = Ends
  BY <1>1, EndsFacts
<1> QED BY <1>1, <1>2, <1>3, SameStep

LEMMA QueueCore ==
  ASSUME FramesInv, MemoryInv, StartWork \/ Recognise \/ WorkAborts \/ RefuseTransaction
  PROVE  CoreStep
<1>1. cm' = cm /\ txn' = txn
  BY DEF StartWork, Recognise, WorkAborts, RefuseTransaction
<1>2. dev' = dev \/ OnlyQueue(dev, dev')
  <2>1. dev' = dev \/ dev' = Popped(dev) \/ \E step : dev' = At(dev, step)
    BY DEF StartWork, Recognise, WorkAborts, RefuseTransaction
  <2> QED BY <2>1, QueueKinds
<1> QED BY <1>1, <1>2, SameStep, EndsFacts

LEMMA NoPcm ==
  ASSUME MemoryInv PROVE Good(cm) /\ \A t \in Segments : cm.seg[t].pcm = FALSE
BY DEF MemoryInv, Core, Sound, RowSound

\* A recording that is not durable is not saved, and its end is not being committed.
LEMMA NotDurable ==
  ASSUME MemoryInv, NEW s \in Segments, s \notin dev.durable
  PROVE  cm.seg[s].state # "saved" /\ s \notin Ends /\ dev.jobs[s] = NoJob
BY DEF MemoryInv, Core, Sound, JobSound, CommitSound

\* The recordings of a set fail, and their ledger goes.
LEMMA ForgetStep ==
  ASSUME FramesInv, MemoryInv, NEW S, cm' = FailAllowed(cm, S), DevShape(dev'),
         Discards(dev, dev', S), dev'.commits = dev.commits,
         dev'.active \in {dev.active, NoStream}, Ends' = Ends,
         \A t \in Segments : t \in S => t \notin dev.durable
  PROVE  CoreStep
<1>1. AllFailed(cm, cm', S)
  BY NoPcm, FailAllowedRows
<1>2. \A t \in Segments : t \in S => cm.seg[t].state # "saved" /\ t \notin Ends
  BY NotDurable
<1>3. Core(cm', dev', Ends)
  BY <1>1, <1>2, CoreForgets DEF MemoryInv
<1>4. Steady(cm, dev, cm', dev')
  BY <1>1, SteadyForgets DEF AllFailed, Held1
<1> QED BY <1>3, <1>4 DEF CoreStep

LEMMA AbandonCore ==
  ASSUME FramesInv, MemoryInv, dev.active # NoStream, AbandonActive, Ends' = Ends
  PROVE  CoreStep
<1>1. DevShape(dev)
  BY DevHasShape
<1>2. /\ DevShape(dev') /\ dev'.active = NoStream /\ dev'.commits = dev.commits
      /\ IF Abandonable(dev.active)
         THEN /\ cm' = FailAllowed(cm, {dev.active.seg})
              /\ Discards(dev, dev', {dev.active.seg})
         ELSE cm' = cm /\ SameLedger(dev, dev')
  BY <1>1, AbandonFields
<1>3. CASE Abandonable(dev.active)
  <2>1. dev.active.seg \notin dev.durable
    BY <1>3 DEF MemoryInv, Core, StreamSound, Abandonable
  <2> QED BY <1>2, <1>3, <2>1, ForgetStep
<1>4. CASE ~Abandonable(dev.active)
  <2>1. Core(cm, dev', Ends) /\ Steady(cm, dev, cm, dev')
    BY <1>2, <1>4, CoreSame DEF MemoryInv
  <2> QED BY <1>2, <1>4, <2>1 DEF CoreStep
<1> QED BY <1>3, <1>4

LEMMA CloseCore ==
  ASSUME FramesInv, MemoryInv, NEW k \in Conns, CloseConnection(k) PROVE CoreStep
<1>1. Ends' = Ends
  BY EndsFacts DEF CloseConnection
<1>2. CASE dev.active # NoStream /\ dev.active.owner = k
  BY <1>1, <1>2, AbandonCore DEF CloseConnection
<1>3. CASE ~(dev.active # NoStream /\ dev.active.owner = k)
  BY <1>1, <1>3, SameStep DEF CloseConnection
<1> QED BY <1>2, <1>3

LEMMA BeginHelloCore ==
  ASSUME FramesInv, MemoryInv, BeginHello PROVE CoreStep
<1>1. Ends' = Ends
  <2>1. txn = NoTxn /\ txn'.call.op = "hello"
    BY DEF BeginHello, Starting, Persist, PersistFor, Call1
  <2> QED BY <2>1, EndsFacts
<1>2. CASE dev.active # NoStream
  BY <1>1, <1>2, AbandonCore DEF BeginHello, SupersedeActive
<1>3. CASE dev.active = NoStream
  BY <1>1, <1>3, SameStep DEF BeginHello, SupersedeActive
<1> QED BY <1>2, <1>3

\* The recording that is being received fails.
LEMMA FailRecordingCore ==
  ASSUME FramesInv, MemoryInv, dev.active # NoStream, ~dev.active.replay,
         FailRecording(dev.active.seg), Ends' = Ends
  PROVE  CoreStep
<1> DEFINE s == dev.active.seg
<1>1. DevShape(dev)
  BY DevHasShape
<1>2. s \notin dev.durable
  BY DEF MemoryInv, Core, StreamSound
<1> HIDE DEF s
<1>3. FailRecording(s)
  BY DEF s
<1>4. /\ DevShape(dev') /\ dev'.active = NoStream /\ dev'.commits = dev.commits
      /\ cm' = FailAllowed(cm, {s}) /\ Discards(dev, dev', {s})
  BY <1>1, <1>3, FailRecordingFields
<1> QED BY <1>2, <1>4, ForgetStep

\* The recordings that the shutdown fails.
LEMMA BeginExitCore ==
  ASSUME FramesInv, MemoryInv, BeginExit PROVE CoreStep
<1>1. DevShape(dev)
  BY DevHasShape
<1>2. /\ DevShape(dev') /\ dev'.active \in {dev.active, NoStream}
      /\ dev'.commits = dev.commits /\ cm' = FailAllowed(cm, Cut) /\ Discards(dev, dev', Cut)
  BY <1>1, BeginExitFields
<1>3. \A t \in Segments : t \in Cut => t \notin dev.durable
  BY DEF Cut, MemoryInv, Core, Sound, JobSound, NoJob
<1>4. Ends' = Ends
  BY EndsFacts DEF BeginExit
<1> QED BY <1>2, <1>3, <1>4, ForgetStep

\* What CommitSound says of a commit whose transaction has come to its end.
LEMMA CommitIs ==
  ASSUME FramesInv, MemoryInv, txn # NoTxn, txn.call.op \in EndOps, NEW s, s = txn.call.s
  PROVE  /\ s \in Segments /\ dev.commits[s].step = "done" /\ cm.seg[s].state # "saved"
         /\ ~dev.commits[s].stale => ~Held1(cm, dev, s)
         /\ dev.active # NoStream => dev.active.seg \in Segments
<1>1. s \in Segments
  BY EndingSegment
<1>2. dev.commits[s].step = "done"
  <2>1. /\ CallsHold(Outstanding, conn, dev) /\ IsSeq(tail) /\ Outstanding = <<txn.call>> \o tail
    BY DEF FramesInv, FramesHold, Outstanding
  <2>2. 1 \in 1..Len(Outstanding) /\ Outstanding[1] = txn.call
    BY <2>1, SeqCons, SeqTail
  <2> QED BY <2>1, <2>2 DEF CallsHold, CallHolds
<1>3. cm.seg[s].state # "saved"
  <2>1. CASE s \in dev.durable
    BY <1>1, <1>2, <2>1 DEF MemoryInv, Core, CommitSound, Sound, JobSound
  <2>2. CASE s \notin dev.durable
    BY <1>1, <2>2, NotDurable
  <2> QED BY <2>1, <2>2
<1>4. ASSUME ~dev.commits[s].stale PROVE ~Held1(cm, dev, s)
  <2>1. Live(cm, s)
    BY <1>1, <1>2, <1>4 DEF MemoryInv, Core, CommitSound
  <2>2. cm.current[Device] = CaseOf[s] /\ CaseOf[s] \in Nat
    BY <1>1, <2>1, PipelineAssumption DEF MemoryInv, Core, Sound, RowSound, Live
  <2> QED BY <1>2, <2>2 DEF Held1, Past
<1>5. dev.active # NoStream => dev.active.seg \in Segments
  BY DEF FramesInv, FramesHold, StreamHolds
<1> QED BY <1>1, <1>2, <1>3, <1>4, <1>5

LEMMA FailCommitCore ==
  ASSUME FramesInv, MemoryInv, txn # NoTxn, txn.call.op \in EndOps, NEW s, s = txn.call.s,
         FailCommit(s), Ends' = Ends \ {s}
  PROVE  CoreStep
<1>1. DevShape(dev)
  BY DevHasShape
<1>2. /\ s \in Segments /\ dev.commits[s].step = "done" /\ cm.seg[s].state # "saved"
      /\ ~dev.commits[s].stale => ~Held1(cm, dev, s)
      /\ dev.active # NoStream => dev.active.seg \in Segments
  BY CommitIs
<1>3. /\ DevShape(dev')
      /\ dev'.active = IF dev.active # NoStream /\ dev.active.seg = s /\ dev.active.committing
                       THEN NoStream ELSE dev.active
      /\ \A t \in Segments : dev'.commits[t] = IF t = s THEN NoCommit ELSE dev.commits[t]
      /\ IF mode # "up" \/ CommitOf(s).stale
         THEN /\ cm' = cm /\ dev'.persistent = dev.persistent /\ dev'.durable = dev.durable
              /\ dev'.jobs = dev.jobs /\ dev'.acks = dev.acks
              /\ dev'.progress = [dev.progress EXCEPT ![s] = None]
         ELSE cm' = FailAllowed(cm, {s}) /\ Discards(dev, dev', {s})
  BY <1>1, <1>2, FailCommitFields
<1>4. CASE mode # "up" \/ CommitOf(s).stale
  <2>1. Core(cm, dev', Ends \ {s}) /\ Steady(cm, dev, cm, dev')
    BY <1>2, <1>3, <1>4, CoreFinishes DEF MemoryInv
  <2> QED BY <1>3, <1>4, <2>1 DEF CoreStep
<1>5. CASE ~(mode # "up" \/ CommitOf(s).stale)
  <2> DEFINE dv == ReleaseOwner(dev, s)
             dx == FinishCommit(dv, s)
  <2>1. /\ DevShape(dv) /\ SameLedger(dev, dv)
        /\ dv.active = IF dev.active # NoStream /\ dev.active.seg = s /\ dev.active.committing
                       THEN NoStream ELSE dev.active
        /\ dv.commits = dev.commits
    BY <1>1, ReleaseFields
  <2> HIDE DEF dv
  <2>2. /\ DevShape(dx) /\ SameLedger(dv, dx) /\ dx.active = dv.active
        /\ \A t \in Segments : dx.commits[t] = IF t = s THEN NoCommit ELSE dv.commits[t]
    BY <1>2, <2>1, FinishFields
  <2> HIDE DEF dx
  <2>3. SameLedger(dev, dx) /\ dx.active = dev'.active
        /\ \A t \in Segments : dx.commits[t] = IF t = s THEN NoCommit ELSE dev.commits[t]
    BY <1>3, <2>1, <2>2 DEF SameLedger
  <2>4. Core(cm, dx, Ends \ {s})
    BY <1>2, <1>3, <2>2, <2>3, CoreFinishes DEF MemoryInv, SameLedger
  <2>5. AllFailed(cm, cm', {s})
    BY <1>3, <1>5, NoPcm, FailAllowedRows
  <2>6. Discards(dx, dev', {s})
    BY <1>3, <1>5, <2>3 DEF Discards, SameLedger
  <2>7. dev'.commits = dx.commits
    <3>1. dev'.commits = [t \in Segments |-> dev'.commits[t]]
      BY <1>3 DEF DevShape
    <3>2. dx.commits = [t \in Segments |-> dx.commits[t]]
      BY <2>2 DEF DevShape
    <3>3. \A t \in Segments : dev'.commits[t] = dx.commits[t]
      BY <1>3, <2>3
    <3> QED BY <3>1, <3>2, <3>3
  <2>8. Core(cm', dev', Ends \ {s})
    BY <1>2, <1>3, <2>3, <2>4, <2>5, <2>6, <2>7, CoreForgets
  <2>9. Steady(cm, dev, cm', dev')
    <3>1. ~Held1(cm, dev, s) /\ NoCommit.step = "none" /\ cm'.current = cm.current
      BY <1>2, <1>5, <2>5 DEF NoCommit, CommitOf, AllFailed
    <3> QED BY <1>3, <1>5, <3>1, SteadyForgets
  <2> QED BY <2>8, <2>9 DEF CoreStep
<1> QED BY <1>4, <1>5

LEMMA CommitEndsCore ==
  ASSUME FramesInv, MemoryInv, FinishFailCommit \/ UnwrittenEnd PROVE CoreStep
<1> DEFINE s == txn.call.s
<1>1. /\ txn # NoTxn /\ txn.call.op \in EndOps /\ FailCommit(s) /\ txn' = NoTxn
  BY DEF FinishFailCommit, UnwrittenEnd, Removing, Unwritten, EndOps
<1>2. Ends \subseteq {s}
  BY DEF Ends
<1>3. Ends' = Ends \ {s}
  BY <1>1, <1>2, EndsFacts
<1> HIDE DEF s
<1>4. s = txn.call.s
  BY DEF s
<1> QED BY <1>1, <1>3, <1>4, FailCommitCore

LEMMA CommitReturnsCore ==
  ASSUME FramesInv, MemoryInv, EndReturns \/ (CommitFailsVisible /\ txn.call.op = "end")
  PROVE  CoreStep
<1> DEFINE s == txn.call.s
<1>1. DevShape(dev)
  BY DevHasShape
<1>2. /\ txn # NoTxn /\ txn.call.op = "end" /\ txn.call.op \in EndOps /\ txn.phase = "renamed"
      /\ txn' = NoTxn /\ cm' = cm
  BY DEF EndReturns, CommitFailsVisible, Returned, Running, EndOps
<1>3. /\ s \in Segments /\ dev.commits[s].step = "done"
      /\ dev.active # NoStream => dev.active.seg \in Segments
  BY <1>2, CommitIs
<1>4. Ends = {s} /\ Ends' = Ends \ {s}
  BY <1>2, EndsOne, EndsFacts DEF Begun
<1>5. /\ DevShape(dev') /\ SameLedger(dev, dev')
      /\ dev'.active = IF dev.active # NoStream /\ dev.active.seg = s /\ dev.active.committing
                       THEN NoStream ELSE dev.active
      /\ \A t \in Segments : dev'.commits[t] = IF t = s THEN NoCommit ELSE dev.commits[t]
  <2>1. CASE EndReturns
    <3>1. ~(dev.active # NoStream /\ dev.active.seg = s /\ dev.active.committing)
      BY <1>3, <1>4 DEF MemoryInv, Core, StreamSound, OwnerSound, CommitSound
    <3> QED BY <1>1, <1>3, <2>1, <3>1, EndReturnsFields
  <2>2. CASE CommitFailsVisible
    <3> DEFINE dv == ReleaseOwner(dev, s)
    <3>1. dev' = FinishCommit(dv, s)
      BY <1>2, <2>2 DEF CommitFailsVisible
    <3>2. /\ DevShape(dv) /\ SameLedger(dev, dv)
          /\ dv.active = IF dev.active # NoStream /\ dev.active.seg = s /\ dev.active.committing
                         THEN NoStream ELSE dev.active
          /\ dv.commits = dev.commits
      BY <1>1, ReleaseFields
    <3> HIDE DEF dv, s
    <3>3. /\ DevShape(dev') /\ SameLedger(dv, dev') /\ dev'.active = dv.active
          /\ \A t \in Segments : dev'.commits[t] = IF t = s THEN NoCommit ELSE dv.commits[t]
      BY <1>3, <3>1, <3>2, FinishFields
    <3> QED BY <3>2, <3>3 DEF SameLedger
  <2> QED BY <2>1, <2>2
<1> HIDE DEF s
<1>6. Core(cm, dev', Ends \ {s}) /\ Steady(cm, dev, cm, dev')
  BY <1>3, <1>5, CoreFinishes DEF MemoryInv, SameLedger
<1> QED BY <1>2, <1>4, <1>6 DEF CoreStep

LEMMA AnyStream ==
  ASSUME NEW k, NEW s, NEW r, NEW b
  PROVE  LET a == [owner |-> k, seg |-> s, replay |-> r, committing |-> b]
         IN StreamShape(a) /\ a.seg = s /\ a.replay = r /\ a.committing = b
BY DEF StreamShape

NewStream(a, s) == StreamShape(a) /\ a.seg = s /\ ~a.committing

LEMMA StreamFields ==
  ASSUME NEW k, NEW s
  PROVE  /\ NewStream(FirstStream(k, s), s)
         /\ NewStream(ReplayStream(k, s), s) /\ ReplayStream(k, s).replay
BY AnyStream, Zenon DEF FirstStream, ReplayStream, Recording, NewStream

\* With the stream as a name.
LEMMA OpenStreamAs ==
  ASSUME DevShape(dev), NEW k, NEW c, NEW s \in Segments, OpenStream(k, c, s)
  PROVE  \E a : /\ NewStream(a, s) /\ dev'.active = a
               /\ \/ ResumesProgress(k, c, s) /\ dev'.progress = dev.progress /\ cm' = cm
                  \/ /\ ReplaysDurable(c, s) /\ a.replay
                     /\ dev'.progress = dev.progress /\ cm' = cm
                  \/ /\ OpensSegment(c, s)
                     /\ dev'.progress = FirstSequence(dev.progress, s)
                     /\ cm' = StartSegment(cm, c, s, SpeakerOf[s])
<1> DEFINE first == FirstStream(k, s)
           again == ReplayStream(k, s)
<1>1. NewStream(first, s) /\ NewStream(again, s) /\ again.replay
  BY StreamFields
<1>2. \/ /\ ResumesProgress(k, c, s) /\ dev'.active = first
         /\ dev'.progress = dev.progress /\ cm' = cm
      \/ /\ ReplaysDurable(c, s) /\ dev'.active = again
         /\ dev'.progress = dev.progress /\ cm' = cm
      \/ /\ OpensSegment(c, s) /\ dev'.active = first
         /\ dev'.progress = FirstSequence(dev.progress, s)
         /\ cm' = StartSegment(cm, c, s, SpeakerOf[s])
  BY OpenStreamFields
<1> HIDE DEF first, again
<1>3. CASE dev'.active = first /\ ~ReplaysDurable(c, s)
  BY <1>1, <1>2, <1>3
<1>4. CASE dev'.active = again /\ ReplaysDurable(c, s)
  BY <1>1, <1>2, <1>4
<1>5. CASE ReplaysDurable(c, s) /\ dev'.active # again
  BY <1>1, <1>2, <1>5
<1> QED BY <1>2, <1>3, <1>4, <1>5

\* A recording that is received is of the current case.
LEMMA LiveIsCurrent ==
  ASSUME MemoryInv, NEW s \in Segments, cm.seg[s].state # "absent" \/ cm.seg[s].case # None
  PROVE  /\ Live(cm, s) /\ cm.seg[s].case = CaseOf[s] /\ cm.current[Device] = CaseOf[s]
         /\ CaseOf[s] \in Cases /\ CaseOf[s] \in Nat
BY PipelineAssumption DEF MemoryInv, Core, Sound, RowSound, Live

LEMMA OpenStreamCore ==
  ASSUME FramesInv, MemoryInv, NEW k, NEW c, NEW s \in Segments, c = CaseOf[s],
         cm.current[Device] = c, dev.commits[s].step = "none", OpenStream(k, c, s), Ends' = Ends
  PROVE  CoreStep
<1>1. DevShape(dev)
  BY DevHasShape
<1>2. /\ DevShape(dev') /\ dev'.commits = dev.commits
      /\ dev'.durable = dev.durable /\ dev'.jobs = dev.jobs /\ dev'.persistent = dev.persistent
      /\ \A t \in Segments : End(t) \in dev'.acks <=> End(t) \in dev.acks
  BY <1>1, OpenStreamFields
<1>20. PICK a : /\ NewStream(a, s) /\ dev'.active = a
               /\ \/ ResumesProgress(k, c, s) /\ dev'.progress = dev.progress /\ cm' = cm
                  \/ /\ ReplaysDurable(c, s) /\ a.replay
                     /\ dev'.progress = dev.progress /\ cm' = cm
                  \/ /\ OpensSegment(c, s)
                     /\ dev'.progress = FirstSequence(dev.progress, s)
                     /\ cm' = StartSegment(cm, c, s, SpeakerOf[s])
  BY <1>1, OpenStreamAs
<1>21. StreamShape(dev'.active) /\ dev'.active.seg = s /\ ~dev'.active.committing
  BY <1>20 DEF NewStream
<1>3. CASE /\ ResumesProgress(k, c, s)
           /\ dev'.progress = dev.progress /\ cm' = cm
  <2>1. s \notin dev.durable
    BY <1>3 DEF ResumesProgress, MemoryInv, Core, StreamSound
  <2>2. Core(cm, dev', Ends) /\ Steady(cm, dev, cm, dev')
    BY <1>2, <1>3, <1>21, <2>1, CoreStreams DEF MemoryInv
  <2> QED BY <1>3, <2>2 DEF CoreStep
<1>4. CASE /\ ReplaysDurable(c, s) /\ dev'.active.replay
           /\ dev'.progress = dev.progress /\ cm' = cm
  <2>3. Core(cm, dev', Ends) /\ Steady(cm, dev, cm, dev')
    BY <1>2, <1>4, <1>21, CoreStreams DEF MemoryInv
  <2> QED BY <1>4, <2>3 DEF CoreStep
<1>5. CASE /\ OpensSegment(c, s)
           /\ dev'.progress = FirstSequence(dev.progress, s)
           /\ cm' = StartSegment(cm, c, s, SpeakerOf[s])
  <2>1. /\ s \notin dev.durable /\ MayStartSegment(cm, c, s, SpeakerOf[s])
        /\ c \in Cases /\ SpeakerOf[s] \in Speakers
    BY <1>5, PipelineAssumption DEF OpensSegment
  <2>2. cm.seg[s].state \in {"absent", "receiving", "failed"}
    BY <2>1 DEF MemoryInv, Core, Sound, JobSound
  <2>3. OneRow(cm, cm', s, c, IF Live(cm, s) /\ cm.seg[s].state # "failed" THEN cm.seg[s].state
                              ELSE "receiving")
    BY <1>5, <2>1, NoPcm, StartSegmentRow
  <2>4. (IF Live(cm, s) /\ cm.seg[s].state # "failed" THEN cm.seg[s].state ELSE "receiving")
           = "receiving"
    BY <2>2 DEF Live
  <2>5. OneRow(cm, cm', s, CaseOf[s], "receiving")
    BY <2>3, <2>4
  <2>6. /\ dev'.progress = [t \in Segments |-> dev'.progress[t]]
        /\ \A t \in Segments : t # s => dev'.progress[t] = dev.progress[t]
    <3> DEFINE p == IF dev.progress[s] = None THEN 0 ELSE dev.progress[s]
    <3>1. dev'.progress = [dev.progress EXCEPT ![s] = p]
      BY <1>5 DEF FirstSequence
    <3> HIDE DEF p
    <3>2. dev.progress = [t \in Segments |-> dev.progress[t]]
      BY DEF MemoryInv, Core, StreamSound
    <3> QED BY <3>1, <3>2
  <2>7. Core(cm', dev', Ends) /\ Steady(cm, dev, cm', dev')
    BY <1>2, <1>5, <1>21, <2>1, <2>5, <2>6, CoreRow DEF MemoryInv
  <2> QED BY <2>7 DEF CoreStep
<1> QED BY <1>20, <1>3, <1>4, <1>5

LEMMA StartSpeechCore ==
  ASSUME Disciplined, FramesInv, MemoryInv, NEW k \in Conns, NEW c \in Cases, NEW s \in Segments,
         StartSpeech(k, c, s)
  PROVE  CoreStep
<1>1. c = CaseOf[s] /\ cm.owner[c] = Device /\ dev.commits[s].step = "none"
      /\ OpenStream(k, c, s) /\ txn' = txn
  BY DEF StartSpeech, InCommit, CommitOf
<1>2. cm.current[Device] = c
  BY <1>1, NoPcm, PipelineAssumption DEF Good, Shape, HeldCurrent
<1> QED BY <1>1, <1>2, OpenStreamCore, EndsFacts

LEMMA ResumeStartCore ==
  ASSUME FramesInv, MemoryInv, NEW k \in Conns, ResumeStart(k) PROVE CoreStep
<1> DEFINE s == conn[k].on
           c == cm.seg[s].case
<1>1. s \in Segments /\ dev.commits[s].step = "none" /\ Ends' = Ends
  <2>1. conn[k].busy = "wait" /\ ~InCommit(s) /\ txn' = txn
    BY DEF ResumeStart, Resumable
  <2> QED BY <2>1, EndsFacts DEF FramesInv, FramesHold, ConnsHold, InCommit, CommitOf
<1>2. \/ cm' = cm /\ dev' = dev
      \/ s \in dev.durable /\ dev' = [dev EXCEPT !.active = ReplayStream(k, s)] /\ cm' = cm
      \/ c # None /\ OpenStream(k, c, s)
  <2>1. RefuseStream(k, c, s) => cm' = cm /\ dev' = dev
    BY DEF RefuseStream
  <2> QED BY <2>1 DEF ResumeStart, ReplayStream
<1>3. CASE cm' = cm /\ dev' = dev
  BY <1>1, <1>3, SameStep
<1>4. CASE s \in dev.durable /\ dev' = [dev EXCEPT !.active = ReplayStream(k, s)] /\ cm' = cm
  <2> DEFINE a == ReplayStream(k, s)
  <2>6. NewStream(a, s) /\ a.replay
    BY StreamFields
  <2>1. StreamShape(a) /\ a.seg = s /\ ~a.committing
    BY <2>6, Zenon DEF NewStream
  <2>2. a.replay
    BY <2>6, Zenon
  <2>3. dev' = [dev EXCEPT !.active = a]
    BY <1>4
  <2> HIDE DEF a, s
  <2>4. /\ DevShape(dev') /\ SameLedger(dev, dev') /\ dev'.active = a
        /\ dev'.commits = dev.commits
    BY <2>3, DevHasShape, ActiveFields
  <2>5. Core(cm, dev', Ends) /\ Steady(cm, dev, cm, dev')
    BY <1>1, <2>1, <2>2, <2>4, CoreStreams DEF MemoryInv, SameLedger
  <2> QED BY <1>1, <1>4, <2>5 DEF CoreStep
<1>5. CASE c # None /\ OpenStream(k, c, s)
  <2> HIDE DEF s
  <2>1. c = CaseOf[s] /\ cm.current[Device] = CaseOf[s]
    BY <1>1, <1>5, LiveIsCurrent
  <2> HIDE DEF c
  <2> QED BY <1>1, <1>5, <2>1, OpenStreamCore
<1> QED BY <1>2, <1>3, <1>4, <1>5

\* The recording of an idle connection's stream is not being committed.
LEMMA OwnIsIdle ==
  ASSUME FramesInv, NEW k \in Conns, conn[k].busy = "no", Owns(k)
  PROVE  dev.active.seg \in Segments /\ dev.commits[dev.active.seg].step = "none"
BY DEF Owns, FramesInv, FramesHold, StreamHolds, CommitsHold

LEMMA AppendSpeechCore ==
  ASSUME FramesInv, MemoryInv, NEW k \in Conns, NEW sequence \in 0..MaxPcm,
         AppendSpeech(k, sequence)
  PROVE  CoreStep
<1> DEFINE s == dev.active.seg
           next == dev.progress[s]
           one == [dev EXCEPT !.progress[s] = @ + 1]
<1>1. Ends' = Ends
  <2>1. txn' = txn
    BY DEF AppendSpeech
  <2> QED BY <2>1, EndsFacts
<1>2. dev.active # NoStream /\ ~dev.active.replay
  BY DEF AppendSpeech, Owns
<1>3. s \in Segments /\ dev.commits[s].step = "none" /\ s \notin dev.durable
  <2>1. Owns(k) /\ conn[k].busy = "no"
    BY DEF AppendSpeech, Ready
  <2>2. s \in Segments /\ dev.commits[s].step = "none"
    BY <2>1, OwnIsIdle
  <2> QED BY <1>2, <2>2 DEF MemoryInv, Core, StreamSound
<1>4. \/ FailRecording(s)
      \/ /\ dev' = one \/ dev' = dev
         /\ \E payload \in Payloads : /\ MayAppendChunk(cm, s, sequence, payload)
                                      /\ cm' = AppendChunk(cm, s, sequence, payload)
  BY DEF AppendSpeech
<1>5. CASE FailRecording(s)
  BY <1>1, <1>2, <1>5, FailRecordingCore
<1>6. ASSUME NEW payload \in Payloads, MayAppendChunk(cm, s, sequence, payload),
             cm' = AppendChunk(cm, s, sequence, payload), dev' = one \/ dev' = dev
      PROVE  CoreStep
  <2> HIDE DEF s, one
  <2>0. sequence \in Nat
    BY LimitAssumption
  <2>1. sequence \in Nat /\ Good(cm) /\ cm.seg[s].pcm = FALSE
    BY <1>3, <2>0, NoPcm
  <2>2. OneRow(cm, cm', s, cm.seg[s].case, cm.seg[s].state)
    BY <1>3, <1>6, <2>1, AppendChunkRow
  <2>3. cm.seg[s].state = "receiving"
    <3>1. cm.seg[s].state \in {"absent", "receiving", "failed"}
      BY <1>3 DEF MemoryInv, Core, Sound, JobSound
    <3>2. cm.seg[s].state # "absent"
      BY <1>6 DEF MayAppendChunk, Live
    <3>3. ASSUME cm.seg[s].state = "failed" PROVE FALSE
      <4>1. cm.seg[s].chunks = <<>>
        BY <1>3, <2>1, <3>3, RowIsSegment DEF GoodRow, ActiveStates
      <4>2. ~(sequence < Len(cm.seg[s].chunks))
        BY <2>1, <4>1
      <4> QED BY <1>6, <3>3, <4>2 DEF MayAppendChunk
    <3> QED BY <3>1, <3>2, <3>3
  <2>4. cm.seg[s].case = CaseOf[s] /\ cm.current[Device] = CaseOf[s]
    BY <1>3, <2>3, LiveIsCurrent
  <2>5. /\ DevShape(dev') /\ dev'.persistent = dev.persistent /\ dev'.durable = dev.durable
        /\ dev'.jobs = dev.jobs /\ dev'.commits = dev.commits /\ dev'.acks = dev.acks
        /\ dev'.active = dev.active
        /\ dev'.progress = [t \in Segments |-> dev'.progress[t]]
        /\ \A t \in Segments : t # s => dev'.progress[t] = dev.progress[t]
    <3>1. dev.progress = [t \in Segments |-> dev.progress[t]] /\ DevShape(dev)
      BY DevHasShape DEF MemoryInv, Core, StreamSound
    <3>2. CASE dev' = dev
      BY <3>1, <3>2
    <3>3. CASE dev' = one
      <4> USE DEF one
      <4> DEFINE p == [dev.progress EXCEPT ![s] = @ + 1]
      <4>1. dev' = [dev EXCEPT !.progress = p]
        BY <3>3
      <4>2. p = [t \in Segments |-> p[t]] /\ \A t \in Segments : t # s => p[t] = dev.progress[t]
        BY <3>1
      <4> HIDE DEF p
      <4>3. /\ DevShape(dev') /\ dev'.persistent = dev.persistent /\ dev'.durable = dev.durable
            /\ dev'.jobs = dev.jobs /\ dev'.commits = dev.commits /\ dev'.acks = dev.acks
            /\ dev'.active = dev.active /\ dev'.progress = p
        BY <3>1, <4>1 DEF DevShape
      <4> QED BY <4>2, <4>3
    <3> HIDE DEF one
    <3> QED BY <1>6, <3>2, <3>3
  <2>6. Core(cm', dev', Ends) /\ Steady(cm, dev, cm', dev')
    BY <1>3, <2>2, <2>3, <2>4, <2>5, CoreRow DEF MemoryInv
  <2> QED BY <1>1, <2>6 DEF CoreStep
<1> HIDE DEF s, one
<1> QED BY <1>4, <1>5, <1>6

LEMMA EndMismatchCore ==
  ASSUME FramesInv, MemoryInv, NEW k \in Conns, NEW s \in Segments, EndMismatch(k, s)
  PROVE  CoreStep
<1>1. txn' = txn /\ dev.active # NoStream /\ ~dev.active.replay /\ FailRecording(dev.active.seg)
  BY DEF EndMismatch, Owns
<1> QED BY <1>1, FailRecordingCore, EndsFacts

LEMMA CommittingFields ==
  ASSUME NEW a, StreamShape(a)
  PROVE  /\ StreamShape(Committing(a)) /\ Committing(a).seg = a.seg
         /\ Committing(a).replay <=> a.replay
         /\ Committing(a).committing /\ Committing(a) # NoStream
<1>1. ASSUME NEW v, NEW x, x = [a EXCEPT !.committing = v]
      PROVE  /\ StreamShape(x) /\ x.seg = a.seg /\ x.replay = a.replay /\ x.committing = v
  <2>1. x = [owner |-> a.owner, seg |-> a.seg, replay |-> a.replay, committing |-> v]
    BY <1>1 DEF StreamShape
  <2> QED BY <2>1 DEF StreamShape
<1>2. /\ StreamShape(Committing(a)) /\ Committing(a).seg = a.seg
      /\ Committing(a).replay = a.replay /\ Committing(a).committing = TRUE
  BY <1>1, Zenon DEF Committing
<1>3. ~NoStream.committing
  BY DEF NoStream
<1>4. Committing(a).committing
  BY <1>2
<1>5. Committing(a) # NoStream
  BY <1>3, <1>4
<1> QED BY <1>2, <1>4, <1>5

LEMMA EndSpeechCore ==
  ASSUME FramesInv, MemoryInv, NEW k \in Conns, NEW s \in Segments, EndSpeech(k, s)
  PROVE  CoreStep
<1> DEFINE row == [k |-> k, stale |-> FALSE, file |-> None, step |-> "writing"]
           a == Committing(dev.active)
<1>1. /\ cm' = cm /\ Ends' = Ends /\ dev.active # NoStream /\ ~dev.active.replay
      /\ dev.active.seg = s /\ Owns(k) /\ conn[k].busy = "no" /\ MayCopyReceivingAudio(cm, s)
  BY EndsFacts DEF EndSpeech, Owns, Ready
<1>2. OnlyCommit(dev, dev', s, row) /\ SameLedger(dev, dev') /\ dev'.active = a
  BY DevHasShape, EndSpeechFields
<1>3. dev.commits[s].step = "none" /\ s \notin dev.durable
  <2>1. dev.commits[s].step = "none"
    BY <1>1, OwnIsIdle
  <2> QED BY <1>1, <2>1 DEF MemoryInv, Core, StreamSound
<1>4. Live(cm, s)
  BY <1>1 DEF MayCopyReceivingAudio, Live
<1>5. StreamShape(dev.active)
  BY <1>1 DEF MemoryInv, Core, OwnerSound
<1>6. /\ StreamShape(a) /\ a.seg = s /\ ~a.replay /\ a.committing
  BY <1>1, <1>5, CommittingFields
<1>7. row.step = "writing" /\ row.file = None /\ ~row.stale
  OBVIOUS
<1> HIDE DEF row, a
<1>8. StreamSound(dev')
  BY <1>2, <1>3, <1>6 DEF MemoryInv, Core, StreamSound, SameLedger
<1>9. OwnerSound(dev')
  BY <1>2, <1>6, <1>7 DEF OwnerSound, OnlyCommit
<1>10. Core(cm, dev', Ends) /\ Steady(cm, dev, cm, dev')
  BY <1>2, <1>3, <1>4, <1>7, <1>8, <1>9, CoreCommits DEF MemoryInv
<1> QED BY <1>1, <1>10 DEF CoreStep

\* A recording whose WAV is being written is not durable yet.
LEMMA WritingIsNotDurable ==
  ASSUME FramesInv, MemoryInv, NEW s \in Segments, dev.commits[s].step = "writing"
  PROVE  s \notin dev.durable
<1>1. ASSUME s \in Ends PROVE FALSE
  <2>1. Begun /\ txn.call.op = "end" /\ txn.call.s = s
    BY <1>1 DEF Ends
  <2>2. txn # NoTxn
    BY <2>1, NoTxnPhase DEF Begun
  <2>3. dev.commits[s].step = "done"
    BY <2>1, <2>2, CommitIs DEF EndOps
  <2> QED BY <2>3
<1> QED BY <1>1 DEF MemoryInv, Core, CommitSound

LEMMA WavRow ==
  ASSUME FramesInv, MemoryInv, NEW s \in Segments, Writing(s), cm' = cm, txn' = txn,
         NEW row, RowShape(row), dev' = SetCommit(dev, s, row), row.step = "done",
         row.stale = CommitOf(s).stale, row.file # None => FileOf(row.file, s)
  PROVE  CoreStep
<1>1. OnlyCommit(dev, dev', s, row) /\ SameLedger(dev, dev') /\ dev'.active = dev.active
  BY DevHasShape, CommitFields
<1>2. dev.commits[s].step = "writing"
  BY DEF Writing, CommitOf
<1>3. s \notin dev.durable
  BY <1>2, WritingIsNotDurable
<1>4. IF row.stale THEN Past(cm, s) ELSE Live(cm, s)
  BY <1>2 DEF MemoryInv, Core, CommitSound, CommitOf
<1>5. StreamSound(dev')
  BY <1>1 DEF MemoryInv, Core, StreamSound, SameLedger
<1>6. OwnerSound(dev')
  <2>1. dev.active # NoStream => dev.active.seg \in Segments
    BY DEF FramesInv, FramesHold, StreamHolds
  <2>2. \A t \in Segments : dev'.commits[t].step = "none" <=> dev.commits[t].step = "none"
    BY <1>1, <1>2 DEF OnlyCommit
  <2> QED BY <1>1, <2>1, <2>2 DEF MemoryInv, Core, OwnerSound
<1>7. Core(cm, dev', Ends) /\ Steady(cm, dev, cm, dev')
  BY <1>1, <1>2, <1>3, <1>4, <1>5, <1>6, CoreCommits DEF MemoryInv
<1> QED BY <1>7, EndsFacts DEF CoreStep

LEMMA WriteWavCore ==
  ASSUME FramesInv, MemoryInv, TriesOK, NEW s \in Segments, WriteWav(s) PROVE CoreStep
<1> DEFINE n == spent.tries[s] + 1
           file == <<cm.seg[s].case, s, n>>
           row == [k |-> CommitOf(s).k, stale |-> CommitOf(s).stale, file |-> file,
                   step |-> "done"]
<1>1. Writing(s) /\ cm' = cm /\ txn' = txn /\ ~CommitOf(s).stale /\ n <= MaxTries
  BY DEF WriteWav
<1>2. n \in 1..MaxTries
  <2>1. spent.tries[s] \in Nat /\ MaxTries \in Nat
    BY PipelineAssumption DEF TriesOK
  <2> QED BY <1>1, <2>1
<1>3. Live(cm, s)
  BY <1>1 DEF MemoryInv, Core, CommitSound, Writing, CommitOf
<1>4. cm.seg[s].case = CaseOf[s] /\ CaseOf[s] \in Cases
  BY <1>3, LiveIsCurrent DEF Live
<1> HIDE DEF n
<1>5. FileOf(file, s)
  BY <1>2, <1>4 DEF FileOf, Files
<1>6. dev' = SetCommit(dev, s, row) /\ RowShape(row)
  <2> HIDE DEF file, row
  <2>1. file = <<cm.seg[s].case, s, spent.tries[s] + 1>>
    BY DEF file, n
  <2>2. row = [k |-> CommitOf(s).k, stale |-> CommitOf(s).stale, file |-> file, step |-> "done"]
    BY DEF row
  <2> QED BY <2>1, <2>2, WriteWavCommit
<1> HIDE DEF file
<1>7. row.step = "done" /\ row.stale = CommitOf(s).stale /\ row.file = file
  OBVIOUS
<1> HIDE DEF row
<1> QED BY <1>1, <1>5, <1>6, <1>7, WavRow

LEMMA WriteWavFailsCore ==
  ASSUME FramesInv, MemoryInv, NEW s \in Segments, WriteWavFails(s) PROVE CoreStep
<1> DEFINE old == CommitOf(s)
           row == [old EXCEPT !.step = "done"]
<1>1. Writing(s) /\ cm' = cm /\ txn' = txn /\ dev' = SetCommit(dev, s, row)
  BY DEF WriteWavFails, SetCommit, CommitOf
<1>2. RowShape(old)
  BY DEF FramesInv, FramesHold, DevShape, RowShape, CommitOf
<1> HIDE DEF old
<1>3. row = [k |-> old.k, stale |-> old.stale, file |-> old.file, step |-> "done"]
  BY <1>2 DEF RowShape
<1>4. RowShape(row) /\ row.step = "done" /\ row.stale = old.stale /\ row.file = old.file
  BY <1>3 DEF RowShape
<1> HIDE DEF row
<1>5. row.file # None => FileOf(row.file, s)
  BY <1>4 DEF MemoryInv, Core, CommitSound, old, CommitOf
<1> QED BY <1>1, <1>4, <1>5, WavRow DEF old

\* The transaction that starts is the first one outstanding.
LEMMA FirstCall ==
  ASSUME FramesInv, txn = NoTxn, tail # <<>>
  PROVE  /\ 1 \in 1..Len(tail) /\ tail[1] = Call1
         /\ Outstanding = tail /\ 1 \in 1..Len(Outstanding) /\ Outstanding[1] = Call1
BY OutstandingIsSeq, SeqTail DEF Outstanding, Call1

LEMMA BeginCaseCore ==
  ASSUME FramesInv, MemoryInv, CasesOK, BeginCase
  PROVE  CoreStep /\ cm'.current[Device] = Call1.c
<1> DEFINE c == Call1.c
           all == LeftFor(c)
<1>1. /\ txn = NoTxn /\ tail # <<>> /\ Call1.op = "case" /\ txn'.call.op = "case"
  BY DEF BeginCase, Starting, Persist, PersistFor, Call1
<1>2. Ends = {} /\ Ends' = {}
  BY <1>1, EndsFacts
<1>3. c \in Cases /\ (cm.current[Device] # None => cm.current[Device] <= c)
  BY <1>1, FirstCall DEF CasesOK
<1>4. \A t \in Segments : t \in all <=> /\ cm.current[Device] \notin {None, c}
                                        /\ cm.seg[t].case = cm.current[Device]
  BY DEF LeftFor
<1>5. dev.active # NoStream => dev.active.seg \in Segments
  BY DEF FramesInv, FramesHold, StreamHolds
<1>6. Core(cm, dev, {})
  BY <1>2 DEF MemoryInv
<1>7. DevShape(dev)
  BY DevHasShape
<1> HIDE DEF c, all
<1>8. c = Call1.c /\ all = LeftFor(c)
  BY DEF c, all
<1>9. /\ cm' = StartCase(cm, Device, c) /\ MayStartCase(cm, Device, c)
      /\ DevShape(dev')
      /\ \/ Discards(dev, dev', all)
         \/ /\ all = {} /\ dev'.durable = dev.durable /\ dev'.jobs = dev.jobs
            /\ dev'.progress = dev.progress
            /\ \A t \in Segments : /\ End(t) \in dev'.acks <=> End(t) \in dev.acks
                                   /\ End(t) \in dev'.persistent <=> End(t) \in dev.persistent
      /\ \A t \in Segments :
           dev'.commits[t] = IF t \in all /\ dev.commits[t].step # "none"
                             THEN Told(dev.commits[t]) ELSE dev.commits[t]
      /\ dev'.active = IF dev.active # NoStream /\ dev.active.seg \in all THEN NoStream
                       ELSE dev.active
  BY <1>7, <1>8, BeginCaseFields
<1>10. Core(cm', dev', {}) /\ Steady(cm, dev, cm', dev') /\ cm'.current[Device] = c
  BY <1>3, <1>4, <1>5, <1>6, <1>9, CoreCaseStarts
<1> QED BY <1>2, <1>8, <1>10 DEF CoreStep

LEMMA BeginEndCore ==
  ASSUME FramesInv, MemoryInv, CallsOK, BeginEnd PROVE CoreStep
<1> DEFINE s == Call1.s
<1>1. /\ txn = NoTxn /\ tail # <<>> /\ Call1.op = "end"
      /\ txn'.call = Call1 /\ txn'.phase = "writing"
  BY DEF BeginEnd, Starting, Persist, PersistFor, Call1
<1>2. Outstanding[1] = Call1 /\ 1 \in 1..Len(Outstanding)
  BY <1>1, FirstCall
<1>3. s \in Segments /\ dev.commits[s].step = "done" /\ dev.commits[s].file # None
  <2>1. CallHolds(Call1, conn, dev)
    BY <1>2 DEF FramesInv, FramesHold, CallsHold
  <2> QED BY <1>1, <1>2, <2>1 DEF CallHolds, EndOps, CallsOK, CommitOf
<1>4. Ends = {} /\ Ends' = {s}
  <2>1. Ends = {}
    BY <1>1, EndsFacts
  <2> QED BY <1>1, <1>3, <2>1 DEF Ends, Begun
<1> HIDE DEF s
<1>5. s = Call1.s
  BY DEF s
<1>6. /\ cm' = ReleaseAudio(EndSegment(cm, s), s) /\ MayEndSegment(cm, s)
      /\ ~CommitOf(s).stale
      /\ DevShape(dev') /\ dev'.commits = dev.commits
      /\ dev'.active = IF dev.active # NoStream /\ dev.active.seg = s /\ dev.active.committing
                       THEN NoStream ELSE dev.active
      /\ dev'.durable = dev.durable \cup {s}
      /\ dev'.jobs = [dev.jobs EXCEPT ![s] = [status |-> "queued", file |-> CommitOf(s).file]]
      /\ dev'.progress = [dev.progress EXCEPT ![s] = None]
      /\ \A t \in Segments : /\ End(t) \in dev'.acks <=> t = s \/ End(t) \in dev.acks
                             /\ End(t) \in dev'.persistent <=> t = s \/ End(t) \in dev.persistent
  BY <1>5, DevHasShape, BeginEndFields
<1>7. cm.seg[s].state = "receiving" /\ OneRow(cm, cm', s, cm.seg[s].case, "queued")
  <2> DEFINE n == ReleaseAudio(EndSegment(cm, s), s)
  <2>1. MayEndSegment(cm, s) /\ Good(cm) /\ cm.seg[s].pcm = FALSE /\ cm' = n
    BY <1>3, <1>6, NoPcm
  <2>2. cm.seg[s].state = "receiving" /\ OneRow(cm, n, s, cm.seg[s].case, "queued")
    BY <1>3, <2>1, CommittedRow
  <2> HIDE DEF n
  <2> QED BY <2>1, <2>2
<1>8. Core(cm', dev', Ends \cup {s}) /\ Steady(cm, dev, cm', dev')
  BY <1>3, <1>6, <1>7, CoreEnds DEF MemoryInv, CommitOf
<1>9. Ends' = Ends \cup {s}
  BY <1>4
<1> QED BY <1>8, <1>9 DEF CoreStep

\* The entry at work is of a recording that is durable, or whose case is past.
LEMMA AtWork ==
  ASSUME FramesInv, WorkHolds(Outstanding, dev.queue), QueueOK, NEW i \in 1..Len(Outstanding),
         Outstanding[i].op \in WorkOps
  PROVE  /\ Outstanding[i].s \in Segments /\ dev.queue # <<>>
         /\ Head(dev.queue).s = Outstanding[i].s /\ EntryOK(cm, dev, Head(dev.queue))
         /\ Outstanding[i].op = "saved" => Outstanding[i].text \in Transcripts
<1>1. /\ QueueShape(dev.queue) /\ dev.queue # <<>> /\ Head(dev.queue).s = Outstanding[i].s
      /\ Outstanding[i].op = "saved" => Outstanding[i].text \in Transcripts
  BY DEF WorkHolds, WorkCall
<1>2. 1 \in 1..Len(dev.queue) /\ Head(dev.queue) = dev.queue[1]
  BY <1>1, SeqTail DEF QueueShape
<1>3. EntryShape(dev.queue[1]) /\ EntryOK(cm, dev, dev.queue[1])
  BY <1>1, <1>2 DEF QueueShape, QueueOK
<1> QED BY <1>1, <1>2, <1>3 DEF EntryShape

\* Its status changes with its row.
LEMMA StatusStep ==
  ASSUME FramesInv, MemoryInv, NEW s \in Segments, Held1(cm, dev, s), Live(cm, s),
         NEW status \in {"transcribing", "saved", "failed"},
         OneRow(cm, cm', s, cm.seg[s].case, status), dev' = SetStatus(dev, s, status),
         status = "transcribing" => cm.seg[s].state \in {"queued", "transcribing"},
         txn = NoTxn, txn'.call.op # "end"
  PROVE  CoreStep
<1>1. cm.current[Device] = CaseOf[s] /\ CaseOf[s] \in Nat
  BY LiveIsCurrent DEF Live
<1>2. s \in dev.durable /\ dev.commits[s].step = "none"
  BY <1>1 DEF Held1, Past
<1>3. Ends = {} /\ Ends' = {}
  BY EndsFacts
<1>4. /\ DevShape(dev') /\ dev'.persistent = dev.persistent
      /\ dev'.durable = dev.durable /\ dev'.progress = dev.progress /\ dev'.acks = dev.acks
      /\ dev'.active = dev.active /\ dev'.commits = dev.commits
  BY DevHasShape, StatusFields
<1>5. dev'.jobs = IF dev.jobs[s] = NoJob THEN dev.jobs ELSE [dev.jobs EXCEPT ![s].status = status]
  BY DevHasShape, StatusJobs
<1>6. dev.jobs[s].status # "none" /\ cm.seg[s].state = dev.jobs[s].status
  BY <1>2 DEF MemoryInv, Core, Sound, JobSound
<1>7. dev.jobs[s] # NoJob
  BY <1>6 DEF NoJob
<1> DEFINE job == [dev.jobs[s] EXCEPT !.status = status]
<1>8. dev.jobs \in [Segments -> Job]
  BY DEF MemoryInv, Core, Sound
<1>9. job \in Job /\ job.status = status /\ job.file = dev.jobs[s].file
  BY <1>8 DEF Job, Statuses
<1>10. dev'.jobs = [dev.jobs EXCEPT ![s] = job]
  BY <1>5, <1>7
<1> HIDE DEF job
<1>11. /\ dev'.jobs \in [Segments -> Job] /\ dev'.jobs[s] = job
       /\ \A t \in Segments : t # s => dev'.jobs[t] = dev.jobs[t]
  BY <1>8, <1>9, <1>10
<1>12. status = "transcribing" => Pending(dev.jobs[s])
  BY <1>6 DEF Pending
<1>13. dev'.jobs[s].status = status /\ dev'.jobs[s].file = dev.jobs[s].file /\ s \notin Ends
  BY <1>3, <1>9, <1>11
<1>14. Core(cm, dev, Ends) /\ status \in {"transcribing", "saved", "failed"}
  BY DEF MemoryInv
<1>15. Core(cm', dev', Ends) /\ Steady(cm, dev, cm', dev')
  BY <1>2, <1>4, <1>11, <1>12, <1>13, <1>14, CoreStatus
<1> QED BY <1>3, <1>15 DEF CoreStep

LEMMA BeginWorkCore ==
  ASSUME FramesInv, MemoryInv, WorkHolds(Outstanding, dev.queue), QueueOK,
         BeginTranscribing \/ BeginSaved \/ BeginFailed
  PROVE  CoreStep
<1> DEFINE s == Call1.s
<1>1. /\ txn = NoTxn /\ tail # <<>> /\ Call1.op \in {"begin", "saved", "failed"}
      /\ txn'.call.op = Call1.op
      /\ Call1.op = "begin" => MayBeginTranscription(cm, s) /\ cm' = BeginTranscription(cm, s)
                               /\ dev' = SetStatus(dev, s, "transcribing")
      /\ Call1.op = "saved" => MaySaveTranscript(cm, s, Call1.text) /\ dev' = SetStatus(dev, s, "saved")
                               /\ cm' = SaveTranscript(cm, s, Call1.text)
      /\ Call1.op = "failed" => MayFailSegment(cm, s, Interrupted)
                                /\ cm' = FailSegment(cm, s, Interrupted)
                                /\ dev' = SetStatus(dev, s, "failed")
  BY DEF BeginTranscribing, BeginSaved, BeginFailed, Starting, Persist, PersistFor, Call1
<1>2. /\ s \in Segments /\ EntryOK(cm, dev, Head(dev.queue)) /\ Head(dev.queue).s = s
      /\ Call1.op = "saved" => Call1.text \in Transcripts
  BY <1>1, FirstCall, AtWork DEF WorkOps
<1>3. Held1(cm, dev, s)
  BY <1>2 DEF EntryOK
<1>4. Good(cm) /\ cm.seg[s].pcm = FALSE
  BY <1>2, NoPcm
<1> HIDE DEF s
<1>5. CASE Call1.op = "begin"
  <2>1. /\ OneRow(cm, cm', s, cm.seg[s].case, "transcribing") /\ Live(cm, s)
        /\ cm.seg[s].state \in {"queued", "transcribing"}
    BY <1>1, <1>2, <1>4, <1>5, BeginTranscriptionRow DEF MayBeginTranscription, Live
  <2> QED BY <1>1, <1>2, <1>3, <1>5, <2>1, StatusStep
<1>6. CASE Call1.op = "saved"
  <2>1. /\ OneRow(cm, cm', s, cm.seg[s].case, "saved") /\ Live(cm, s)
    BY <1>1, <1>2, <1>4, <1>6, SaveTranscriptRow DEF MaySaveTranscript, Live
  <2> QED BY <1>1, <1>2, <1>3, <1>6, <2>1, StatusStep
<1>7. CASE Call1.op = "failed"
  <2>1. /\ OneRow(cm, cm', s, cm.seg[s].case, "failed") /\ Live(cm, s)
    <3>1. MayFailSegment(cm, s, Interrupted) /\ cm' = FailSegment(cm, s, Interrupted)
      BY <1>1, <1>7
    <3>2. Live(cm, s)
      BY <3>1 DEF MayFailSegment, Live, ActiveStates
    <3>3. OneRow(cm, FailSegment(cm, s, Interrupted), s, cm.seg[s].case, "failed")
      BY <1>2, <1>4, <3>1, FailSegmentRow
    <3> QED BY <3>1, <3>2, <3>3
  <2> QED BY <1>1, <1>2, <1>3, <1>7, <2>1, StatusStep
<1> QED BY <1>1, <1>5, <1>6, <1>7

LEMMA CleanAudioCore ==
  ASSUME FramesInv, MemoryInv, CallsOK, WorkHolds(Outstanding, dev.queue), QueueOK, CleanAudio
  PROVE  CoreStep
<1> DEFINE s == txn.call.s
<1>1. /\ txn # NoTxn /\ txn.call.op = "clean" /\ txn'.call = txn.call
  BY DEF CleanAudio, Removing, PersistFor
<1>2. /\ Ends = {} /\ Ends' = {}
  BY <1>1, EndsFacts
<1>3. Outstanding[1] = txn.call /\ 1 \in 1..Len(Outstanding)
  BY <1>1, OutstandingIsSeq, SeqCons, SeqTail DEF Outstanding
<1>4. s \in Segments /\ ~Pending(dev.jobs[s])
  <2>1. s \in Segments
    BY <1>1, <1>3, AtWork DEF WorkOps
  <2> QED BY <1>1, <1>3, <2>1 DEF CallsOK
<1> HIDE DEF s
<1>5. s = txn.call.s
  BY DEF s
<1>6. /\ cm' = cm /\ DevShape(dev') /\ dev'.persistent = dev.persistent
      /\ dev'.durable = dev.durable /\ dev'.progress = dev.progress /\ dev'.acks = dev.acks
      /\ dev'.active = dev.active /\ dev'.commits = dev.commits
      /\ dev'.jobs = IF dev.jobs[s] = NoJob THEN dev.jobs
                     ELSE [dev.jobs EXCEPT ![s].file = None]
  BY <1>5, DevHasShape, CleanAudioFields
<1>7. dev.jobs \in [Segments -> Job]
  BY DEF MemoryInv, Core, Sound
<1>8. /\ dev'.jobs \in [Segments -> Job]
      /\ \A t \in Segments : t # s => dev'.jobs[t] = dev.jobs[t]
      /\ dev'.jobs[s].status = dev.jobs[s].status /\ (dev.jobs[s] = NoJob => dev'.jobs[s] = NoJob)
  <2>1. CASE dev.jobs[s] = NoJob
    BY <1>6, <1>7, <2>1
  <2>2. CASE dev.jobs[s] # NoJob
    <3> DEFINE job == [dev.jobs[s] EXCEPT !.file = None]
    <3>1. job \in Job /\ job.status = dev.jobs[s].status
      BY <1>4, <1>7 DEF Job
    <3>2. dev'.jobs = [dev.jobs EXCEPT ![s] = job]
      BY <1>6, <2>2
    <3> HIDE DEF job
    <3> QED BY <1>4, <1>7, <2>2, <3>1, <3>2
  <2> QED BY <2>1, <2>2
<1>9. Core(cm, dev', Ends) /\ Steady(cm, dev, cm, dev')
  BY <1>4, <1>6, <1>8, CoreForgetsWav DEF MemoryInv
<1> QED BY <1>2, <1>6, <1>9 DEF CoreStep

----------------------------------------------------------------------------
(* A restart makes such memory from a sound file.                          *)

\* What is restored from a snapshot that is sound.
LEMMA SoundRestored ==
  ASSUME NEW ex \in CaseManagerState, NEW a, NEW d, NEW j, Sound(ex, a, d, j)
  PROVE  Sound(RestoreState(ex), a, d, j)
<1> DEFINE n == RestoreState(ex)
<1>1. /\ n.current = ex.current
      /\ \A t \in Segments :
           /\ n.seg[t].case = ex.seg[t].case /\ n.seg[t].pcm = ex.seg[t].pcm
           /\ n.seg[t].state = IF ex.seg[t].state = "receiving" THEN "failed"
                                                                ELSE ex.seg[t].state
  BY RestoredRows
<1> HIDE DEF n
<1>2. ASSUME NEW t \in Segments PROVE RowSound(n, t) /\ JobSound(n, a, d, j, t)
  <2>1. RowSound(n, t)
    BY <1>1 DEF Sound, RowSound
  <2>2. JobSound(n, a, d, j, t)
    <3>1. JobSound(ex, a, d, j, t) /\ j[t].status \in Statuses
      BY DEF Sound, Job
    <3> QED BY <1>1, <3>1 DEF JobSound, Statuses
  <2> QED BY <2>1, <2>2
<1>3. Sound(n, a, d, j)
  BY <1>2 DEF Sound
<1> QED BY <1>3 DEF n

\* A job that is done may forget its file.
LEMMA SoundCleaned ==
  ASSUME NEW m, NEW a, NEW d, NEW j, Sound(m, a, d, j), NEW k, k = [t \in Segments |-> k[t]],
         \A t \in Segments :
           \/ k[t] = j[t]
           \/ ~Pending(j[t]) /\ k[t] = [j[t] EXCEPT !.file = None]
  PROVE  Sound(m, a, d, k)
<1>1. ASSUME NEW t \in Segments PROVE k[t] \in Job /\ JobSound(m, a, d, k, t)
  <2>1. CASE k[t] = j[t]
    BY <2>1 DEF Sound, JobSound
  <2>2. CASE ~Pending(j[t]) /\ k[t] = [j[t] EXCEPT !.file = None]
    <3>1. j[t] = [status |-> j[t].status, file |-> j[t].file] /\ j[t].status \in Statuses
      BY DEF Sound, Job
    <3>2. k[t] = [status |-> j[t].status, file |-> None]
      BY <2>2, <3>1
    <3>3. k[t] \in Job /\ ~Pending(k[t]) /\ k[t].status = j[t].status /\ (j[t] = NoJob => k[t] = NoJob)
      BY <2>2, <3>1, <3>2 DEF Job, Pending, NoJob
    <3> QED BY <3>3 DEF Sound, JobSound
  <2> QED BY <2>1, <2>2
<1>2. k \in [Segments -> Job]
  BY <1>1
<1> QED BY <1>1, <1>2 DEF Sound

LEMMA UnfinishedSound ==
  ASSUME NEW m, NEW a, NEW d, NEW j, Sound(m, a, d, j), NEW t \in Segments, Pending(j[t])
  PROVE  t \in d /\ m.seg[t].state = j[t].status /\ m.seg[t].state # "saved" /\ FileOf(j[t].file, t)
<1>1. JobSound(m, a, d, j, t)
  BY DEF Sound
<1>2. ~Pending(NoJob)
  BY DEF Pending, NoJob
<1>3. t \in d
  BY <1>1, <1>2 DEF JobSound
<1>4. m.seg[t].state = j[t].status /\ j[t].status # "saved"
  BY <1>1, <1>3 DEF JobSound, Pending
<1> QED BY <1>1, <1>3, <1>4 DEF JobSound

LEMMA RecoveredSound ==
  ASSUME SnapOK(disk), NEW stuck, NEW dw, dw = RecoveredDevice(stuck),
         NEW n, n = FailAllowed(RestoreState(disk.cm), LostJobs)
  PROVE  Good(n) /\ Sound(n, dw.persistent, dw.durable, dw.jobs)
<1> DEFINE r == RestoreState(disk.cm)
           k == [t \in Segments |-> IF t \in LostJobs THEN NoJob ELSE disk.jobs[t]]
<1>1. Good(r) /\ Sound(r, disk.acks, disk.durable, disk.jobs)
  BY SoundRestored DEF SnapOK
<1>2. n = FailAllowed(r, LostJobs)
  OBVIOUS
<1> HIDE DEF r
<1>3. AllFailed(r, n, LostJobs)
  <2>1. \A t \in Segments : r.seg[t].pcm = FALSE
    BY <1>1 DEF Sound, RowSound
  <2> QED BY <1>1, <1>2, <2>1, FailAllowedRows
<1>4. /\ dw.durable = disk.durable \ LostJobs
      /\ dw.jobs = [t \in Segments |->
           IF t \in LostJobs THEN NoJob
           ELSE IF Pending(disk.jobs[t]) \/ t \in stuck THEN disk.jobs[t]
           ELSE [disk.jobs[t] EXCEPT !.file = None]]
      /\ \A t \in Segments : End(t) \in dw.persistent <=> t \notin LostJobs /\ End(t) \in disk.acks
  BY RecoveredFields DEF RecoveredJobs
<1>5. \A t \in Segments : t \in LostJobs => r.seg[t].state # "saved"
  <2>1. \A t \in Segments : t \in LostJobs => Pending(disk.jobs[t])
    BY DEF LostJobs
  <2> QED BY <1>1, <2>1, UnfinishedSound
<1>6. Sound(n, dw.persistent, dw.durable, k)
  <2> HIDE DEF k
  <2>1. k = [t \in Segments |-> IF t \in LostJobs THEN NoJob ELSE disk.jobs[t]]
    BY DEF k
  <2> QED BY <1>1, <1>3, <1>4, <1>5, <2>1, SoundForgets
<1>7. /\ dw.jobs = [t \in Segments |-> dw.jobs[t]]
      /\ \A t \in Segments : \/ dw.jobs[t] = k[t]
                             \/ ~Pending(k[t]) /\ dw.jobs[t] = [k[t] EXCEPT !.file = None]
  <2>1. dw.jobs = [t \in Segments |-> dw.jobs[t]]
    BY <1>4
  <2>2. ASSUME NEW t \in Segments
        PROVE  \/ dw.jobs[t] = k[t]
               \/ ~Pending(k[t]) /\ dw.jobs[t] = [k[t] EXCEPT !.file = None]
    <3>1. CASE t \in LostJobs \/ Pending(disk.jobs[t]) \/ t \in stuck
      BY <1>4, <3>1
    <3>2. CASE ~(t \in LostJobs \/ Pending(disk.jobs[t]) \/ t \in stuck)
      <4>1. k[t] = disk.jobs[t]
        BY <3>2
      <4>2. dw.jobs[t] = [disk.jobs[t] EXCEPT !.file = None]
        BY <1>4, <3>2
      <4> QED BY <3>2, <4>1, <4>2
    <3> QED BY <3>1, <3>2
  <2> QED BY <2>1, <2>2
<1> HIDE DEF k
<1>8. Sound(n, dw.persistent, dw.durable, dw.jobs)
  BY <1>6, <1>7, SoundCleaned
<1> QED BY <1>3, <1>8 DEF AllFailed

\* A restart makes memory from the file, and queues what is not transcribed.
LEMMA CoreRecovers ==
  ASSUME SnapOK(disk), NEW stuck, NEW dw, dw = RecoveredDevice(stuck),
         cm' = FailAllowed(RestoreState(disk.cm), LostJobs),
         NEW order \in Orders(UnfinishedJobs(dw.jobs)),
         dev' = [dw EXCEPT !.queue = RecoveredQueue(order, dw.jobs)]
  PROVE  Core(cm', dev', {}) /\ QueueOK'
<1> DEFINE q == RecoveredQueue(order, dw.jobs)
<1>1. Good(cm') /\ Sound(cm', dw.persistent, dw.durable, dw.jobs)
  BY RecoveredSound
<1>2. /\ DevShape(dw) /\ dw.active = NoStream
      /\ \A t \in Segments : dw.commits[t] = NoCommit
      /\ dw.durable = disk.durable \ LostJobs
      /\ dw.progress = [t \in Segments |-> None]
      /\ \A t \in Segments : End(t) \in dw.acks <=> t \notin LostJobs /\ End(t) \in disk.acks
  BY RecoveredFields
<1> HIDE DEF q
<1>3. /\ DevShape(dev') /\ dev'.active = dw.active /\ dev'.commits = dw.commits
      /\ dev'.durable = dw.durable /\ dev'.progress = dw.progress /\ dev'.acks = dw.acks
      /\ dev'.persistent = dw.persistent /\ dev'.jobs = dw.jobs /\ dev'.queue = q
  <2>1. dev' = [dw EXCEPT !.queue = q]
    BY DEF q
  <2> QED BY <1>2, <2>1 DEF DevShape
<1>4. NoCommit.step = "none" /\ NoCommit.file = None
  BY DEF NoCommit
<1>5. StreamSound(dev')
  <2>1. \A t \in Segments : End(t) \in disk.acks => t \in disk.durable
    BY DEF SnapOK, Sound, JobSound
  <2> QED BY <1>2, <1>3, <2>1 DEF StreamSound
<1>6. OwnerSound(dev')
  BY <1>2, <1>3 DEF OwnerSound
<1>7. \A t \in Segments : CommitSound(cm', dev', {}, t)
  BY <1>2, <1>3, <1>4 DEF CommitSound
<1>8. Core(cm', dev', {})
  BY <1>1, <1>3, <1>5, <1>6, <1>7 DEF Core
<1>9. QueueOK'
  <2>1. \A i \in 1..Len(q) : q[i].s \in UnfinishedJobs(dw.jobs) /\ q[i].file = dw.jobs[q[i].s].file
    BY RecoveredShape DEF q
  <2>2. ASSUME NEW i \in 1..Len(q) PROVE EntryOK(cm', dev', q[i])
    <3> DEFINE t == q[i].s
    <3>1. t \in Segments /\ Pending(dw.jobs[t]) /\ q[i].file = dw.jobs[t].file
      BY <2>1 DEF UnfinishedJobs
    <3>2. t \in dw.durable /\ FileOf(dw.jobs[t].file, t)
      BY <1>1, <3>1, UnfinishedSound
    <3> QED BY <1>2, <1>3, <1>4, <3>1, <3>2 DEF EntryOK, Held1
  <2> QED BY <1>3, <2>2 DEF QueueOK
<1> QED BY <1>8, <1>9

----------------------------------------------------------------------------
(* Every step that leaves the process writing keeps it.                    *)

\* Only case.start changes the current case.
LEMMA CurrentKept ==
  ASSUME NEW m \in CaseManagerState, NEW s, NEW c, NEW p, NEW i, NEW x, NEW S
  PROVE  /\ StartSegment(m, c, s, p).current = m.current
         /\ AppendChunk(m, s, i, x).current = m.current
         /\ BeginTranscription(m, s).current = m.current
         /\ SaveTranscript(m, s, x).current = m.current
         /\ FailSegment(m, s, x).current = m.current
         /\ FailAllowed(m, S).current = m.current
<1>1. m = [owner |-> m.owner, listed |-> m.listed, current |-> m.current, seg |-> m.seg,
           tomb |-> m.tomb]
  BY DEF CaseManagerState
<1>2. ASSUME NEW n, n = [owner |-> n.owner, listed |-> n.listed, current |-> n.current,
                         seg |-> n.seg, tomb |-> n.tomb], NEW seg, NEW listed
      PROVE  LET one == [n EXCEPT !.seg = seg]
                 two == [n EXCEPT !.seg = seg, !.listed = listed]
             IN /\ one.current = n.current /\ two.current = n.current
                /\ one = [owner |-> one.owner, listed |-> one.listed, current |-> one.current,
                          seg |-> one.seg, tomb |-> one.tomb]
  BY <1>2
<1>3. StartSegment(m, c, s, p).current = m.current
  BY <1>1, <1>2 DEF StartSegment
<1>4. AppendChunk(m, s, i, x).current = m.current
  <2> DEFINE a == [m.seg EXCEPT ![s].chunks = Append(@, x)]
             b == [a EXCEPT ![s].bytes = @ + 1]
             n == [m EXCEPT !.seg = a]
  <2>1. n.current = m.current /\ n.seg = a
    <3> HIDE DEF a
    <3> QED BY <1>1
  <2>2. AppendChunk(m, s, i, x) = m \/ AppendChunk(m, s, i, x) = [n EXCEPT !.seg = b]
    BY <2>1 DEF AppendChunk
  <2>3. n = [owner |-> n.owner, listed |-> n.listed, current |-> n.current, seg |-> n.seg,
             tomb |-> n.tomb]
    <3> HIDE DEF a
    <3> QED BY <1>1
  <2> HIDE DEF n, b
  <2> QED BY <2>1, <2>2, <2>3
<1>6. BeginTranscription(m, s).current = m.current
  BY <1>1 DEF BeginTranscription
<1>7. SaveTranscript(m, s, x).current = m.current
  BY <1>1 DEF SaveTranscript
<1>8. FailSegment(m, s, x).current = m.current
  BY <1>1 DEF FailSegment
<1>9. FailAllowed(m, S).current = m.current
  BY <1>1 DEF FailAllowed
<1> QED BY <1>3, <1>4, <1>6, <1>7, <1>8, <1>9

LEMMA CaseBegins ==
  ASSUME FramesInv, MemoryInv, RestoreInv, BeginCase
  PROVE  CoreStep /\ cm'.current[Device] = Call1.c /\ CasesOK
<1>1. CasesOK
  BY DEF BeginCase, Starting, RestoreInv
<1> QED BY <1>1, BeginCaseCore

LEMMA ConnectionCore ==
  ASSUME Disciplined, FramesInv, MemoryInv, ConnectionStep PROVE CoreStep
<1>1. PICK k \in Conns :
        \/ SendHello(k) \/ CloseConnection(k) \/ ForgetConnection(k)
        \/ ResumeStart(k)
        \/ \E c \in Cases : SendCaseStart(k, c)
        \/ \E sequence \in 0..MaxPcm : AppendSpeech(k, sequence)
        \/ \E s \in Segments :
             \/ \E c \in Cases : StartSpeech(k, c, s)
             \/ WaitForCommit(k, s)
             \/ EndReplayed(k, s) \/ EndMismatch(k, s)
             \/ EndMissing(k, s) \/ EndSpeech(k, s)
  BY DEF ConnectionStep
<1> QED BY <1>1, QuietCore, CloseCore, ResumeStartCore, AppendSpeechCore, StartSpeechCore,
           EndMismatchCore, EndSpeechCore

\* Whatever a running process does, its memory stays sound.
LEMMA MemoryStep ==
  ASSUME Disciplined, FramesInv, ControlInv, WorkInv, RestoreInv, [Next]_vars, writable,
         ~Exits, ~Recover, ~UnwrittenCase
  PROVE  /\ writable /\ MemoryInv /\ CallsOK /\ QueueOK /\ WorkHolds(Outstanding, dev.queue)
         /\ CoreStep
<1>1. /\ writable /\ MemoryInv /\ CallsOK /\ QueueOK /\ WorkHolds(Outstanding, dev.queue)
      /\ TriesOK
  BY DEF ControlInv, WorkInv, RestoreInv
<1>2. CASE ConnectionStep
  BY <1>1, <1>2, ConnectionCore
<1>3. CASE TransactionStep
  <2>1. CASE BeginHello \/ BeginCase \/ BeginRemoval \/ FinishFailCommit \/ BeginEnd \/ BeginForeign
             \/ BeginTranscribing \/ BeginSaved \/ BeginFailed \/ CleanAudio
    BY <1>1, <2>1, BeginHelloCore, CaseBegins, QuietTransactionCore, CommitEndsCore, BeginEndCore,
       BeginWorkCore, CleanAudioCore
  <2>2. CASE WorkAborts \/ RefuseTransaction \/ RenameState \/ HelloReturns \/ CaseReturns
             \/ EndReturns \/ TranscribingReturns \/ OutcomeReturns \/ CleanReturns \/ ForeignReturns
    BY <1>1, <2>2, QueueCore, QuietTransactionCore, EndedCore, CommitReturnsCore
  <2> QED BY <1>3, <2>1, <2>2 DEF TransactionStep
<1>4. CASE WorkStep
  BY <1>1, <1>4, WriteWavCore, QueueCore DEF WorkStep
<1>5. CASE FaultStep
  <2>1. ~UnwrittenCase /\ ~Crash
    BY DEF Exits
  <2>2. CASE CommitFailsVisible
    BY <1>1, <2>2, EndedCore, CommitReturnsCore
  <2> QED BY <1>1, <1>5, <2>1, <2>2, WriteWavFailsCore, EndedCore, CommitEndsCore DEF FaultStep
<1>6. CASE LifeStep
  <2>1. ~FinishExit
    BY DEF Exits
  <2> QED BY <1>1, <1>6, <2>1, QuietCore, BeginExitCore DEF LifeStep
<1>7. CASE UNCHANGED vars
  BY <1>1, <1>7, QuietCore
<1> QED BY <1>1, <1>2, <1>3, <1>4, <1>5, <1>6, <1>7 DEF Next

LEMMA MemoryNext ==
  ASSUME Disciplined, FramesInv, ControlInv, WorkInv, RestoreInv, [Next]_vars, writable',
         ~Exits, ~Recover
  PROVE  /\ writable /\ MemoryInv /\ CallsOK /\ QueueOK /\ WorkHolds(Outstanding, dev.queue)
         /\ CoreStep
<1>1. writable
  BY WritableStays DEF ControlInv
<1>2. ~UnwrittenCase
  BY DEF UnwrittenCase, Halt
<1> QED BY <1>1, <1>2, MemoryStep

\* It stays in its case, unless it starts another.
LEMMA CurrentSame ==
  ASSUME FramesInv, MemoryInv, ~BeginCase, ~UnwrittenCase, ~Exits, ~Recover, [Next]_vars
  PROVE  cm'.current = cm.current
<1>1. cm \in CaseManagerState /\ Good(cm) /\ DevShape(dev)
      /\ \A t \in Segments : cm.seg[t].pcm = FALSE
  BY NoPcm DEF Good, MemoryInv, Core
<1>2. ASSUME NEW S, cm' = FailAllowed(cm, S) PROVE cm'.current = cm.current
  BY <1>1, <1>2, CurrentKept
<1>3. ASSUME NEW k, NEW c, NEW s, OpenStream(k, c, s) \/ RefuseStream(k, c, s)
      PROVE  cm'.current = cm.current
  <2>1. cm' = cm \/ cm' = StartSegment(cm, c, s, SpeakerOf[s])
    BY <1>3 DEF OpenStream, RefuseStream
  <2> QED BY <1>1, <2>1, CurrentKept
<1>4. ASSUME AbandonActive \/ SupersedeActive PROVE cm'.current = cm.current
  BY <1>2, <1>4 DEF AbandonActive, SupersedeActive
<1>5. CASE ConnectionStep
  <2>1. PICK k \in Conns :
          \/ SendHello(k) \/ CloseConnection(k) \/ ForgetConnection(k)
          \/ ResumeStart(k)
          \/ \E c \in Cases : SendCaseStart(k, c)
          \/ \E sequence \in 0..MaxPcm : AppendSpeech(k, sequence)
          \/ \E s \in Segments :
               \/ \E c \in Cases : StartSpeech(k, c, s)
               \/ WaitForCommit(k, s)
               \/ EndReplayed(k, s) \/ EndMismatch(k, s)
               \/ EndMissing(k, s) \/ EndSpeech(k, s)
    BY <1>5 DEF ConnectionStep
  <2>2. CASE SendHello(k) \/ ForgetConnection(k) \/ (\E c \in Cases : SendCaseStart(k, c))
             \/ (\E s \in Segments : \/ WaitForCommit(k, s) \/ EndReplayed(k, s)
                                     \/ EndMissing(k, s) \/ EndSpeech(k, s))
    BY <2>2 DEF SendHello, ForgetConnection, SendCaseStart, WaitForCommit, EndReplayed, EndMissing,
         EndSpeech
  <2>3. CASE CloseConnection(k)
    BY <2>3, <1>4 DEF CloseConnection
  <2>4. CASE ResumeStart(k)
    BY <2>4, <1>3 DEF ResumeStart
  <2>5. ASSUME NEW sequence \in 0..MaxPcm, AppendSpeech(k, sequence) PROVE cm'.current = cm.current
    <3>1. \/ \E payload \in Payloads : cm' = AppendChunk(cm, dev.active.seg, sequence, payload)
          \/ FailRecording(dev.active.seg)
      BY <2>5 DEF AppendSpeech
    <3> QED BY <1>1, <1>2, <3>1, CurrentKept DEF FailRecording
  <2>6. ASSUME NEW s \in Segments, (\E c \in Cases : StartSpeech(k, c, s)) \/ EndMismatch(k, s)
        PROVE  cm'.current = cm.current
    BY <1>2, <1>3, <2>6 DEF StartSpeech, EndMismatch, FailRecording
  <2> QED BY <2>1, <2>2, <2>3, <2>4, <2>5, <2>6
<1>6. ASSUME txn # NoTxn, txn.call.op \in EndOps, FailCommit(txn.call.s)
      PROVE  cm'.current = cm.current
  BY <1>2, <1>6 DEF FailCommit
<1>7. CASE BeginHello
  BY <1>4, <1>7 DEF BeginHello
<1>8. CASE FinishFailCommit \/ UnwrittenEnd
  BY <1>6, <1>8 DEF FinishFailCommit, UnwrittenEnd, Removing, Unwritten, EndOps
<1>9. CASE BeginEnd
  <2>1. Call1.s \in Segments /\ MayEndSegment(cm, Call1.s)
    <3>1. txn = NoTxn /\ tail # <<>> /\ Call1.op = "end"
      BY <1>9 DEF BeginEnd, Starting, Call1
    <3>2. CallHolds(Call1, conn, dev)
      BY <3>1, FirstCall DEF FramesInv, FramesHold, CallsHold
    <3> QED BY <1>9, <3>1, <3>2 DEF BeginEnd, EndIsAborted, CallHolds, EndOps
  <2> QED BY <1>1, <1>9, <2>1, CommittedRow DEF BeginEnd, OneRow
<1>10. CASE BeginTranscribing \/ BeginSaved \/ BeginFailed
  BY <1>1, <1>10, CurrentKept DEF BeginTranscribing, BeginSaved, BeginFailed
<1>11. CASE BeginRemoval \/ BeginForeign \/ WorkAborts \/ CleanAudio \/ RefuseTransaction \/ RenameState
            \/ HelloReturns \/ CaseReturns \/ EndReturns \/ TranscribingReturns \/ OutcomeReturns
            \/ CleanReturns \/ ForeignReturns
  BY <1>11 DEF BeginRemoval, BeginForeign, WorkAborts, CleanAudio, RefuseTransaction, RenameState,
       HelloReturns, CaseReturns, EndReturns, TranscribingReturns, OutcomeReturns, CleanReturns,
       ForeignReturns
<1>12. CASE TransactionStep
  BY <1>7, <1>8, <1>9, <1>10, <1>11, <1>12 DEF TransactionStep
<1>13. CASE WorkStep
  BY <1>13 DEF WorkStep, WriteWav, StartWork, Recognise
<1>14. CASE FaultStep
  BY <1>8, <1>14 DEF FaultStep, WriteWavFails, CleanFails, UnwrittenHello, UnwrittenWork,
       UnwrittenForeign, CommitFailsVisible, Exits
<1>15. CASE LifeStep
  BY <1>2, <1>15 DEF LifeStep, SubmitForeign, Stop, BeginExit, Exits
<1>16. CASE UNCHANGED vars
  BY <1>16 DEF vars
<1> QED BY <1>5, <1>12, <1>13, <1>14, <1>15, <1>16 DEF Next

----------------------------------------------------------------------------
(* The transactions that wait.                                             *)

\* What CallsOK says of a call.
CallOK(call, dv) ==
  /\ call.op = "end" => dv.commits[call.s].file # None
  /\ call.op = "clean" => ~Pending(dv.jobs[call.s])

\* The outstanding calls move on, and one may be asked for.
CallsMove ==
  \/ Moves
  \/ \E call : /\ CallOK(call, dev')
               /\ \/ Outstanding' = Append(Outstanding, call)
                  \/ Outstanding # <<>> /\ Outstanding' = Append(Tail(Outstanding), call)

LEMMA OtherCallOK ==
  ASSUME NEW call, NEW dv, call.op \notin {"end", "clean"} PROVE CallOK(call, dv)
BY DEF CallOK

LEMMA AskedCall ==
  ASSUME FramesInv, NEW op, NEW k, NEW c, NEW s, NEW text, op \notin {"end", "clean"}, txn' = txn,
         Enqueue(Call(op, k, c, s, text))
  PROVE  CallsMove
<1> DEFINE call == Call(op, k, c, s, text)
<1>1. call.op = op
  BY DEF Call
<1>2. tail' = Append(tail, call)
  BY DEF Enqueue
<1> HIDE DEF call
<1>3. Outstanding' = Append(Outstanding, call)
  BY <1>2, OutstandingIsSeq, TxnAsked
<1>4. CallOK(call, dev')
  BY <1>1, OtherCallOK
<1> QED BY <1>3, <1>4 DEF CallsMove

\* The WAV that was written is named.
LEMMA WavCall ==
  ASSUME FramesInv, MemoryInv, TriesOK, NEW s \in Segments, WriteWav(s) PROVE CallsMove
<1> DEFINE n == spent.tries[s] + 1
           file == <<cm.seg[s].case, s, n>>
           row == [k |-> CommitOf(s).k, stale |-> CommitOf(s).stale, file |-> file,
                   step |-> "done"]
           call == SegCall("end", s)
<1>1. /\ Writing(s) /\ txn' = txn /\ ~CommitOf(s).stale /\ n <= MaxTries
      /\ tail' = Append(tail, call)
  BY DEF WriteWav, Enqueue
<1>2. n \in 1..MaxTries
  <2>1. spent.tries[s] \in Nat /\ MaxTries \in Nat
    BY PipelineAssumption DEF TriesOK
  <2> QED BY <1>1, <2>1
<1>3. Live(cm, s)
  BY <1>1 DEF MemoryInv, Core, CommitSound, Writing, CommitOf
<1>4. cm.seg[s].case = CaseOf[s] /\ CaseOf[s] \in Cases
  BY <1>3, LiveIsCurrent DEF Live
<1> HIDE DEF n
<1>5. file # None
  BY <1>2, <1>4, PipelineAssumption
<1>6. dev' = SetCommit(dev, s, row) /\ RowShape(row)
  <2> HIDE DEF file, row
  <2>1. file = <<cm.seg[s].case, s, spent.tries[s] + 1>>
    BY DEF file, n
  <2>2. row = [k |-> CommitOf(s).k, stale |-> CommitOf(s).stale, file |-> file, step |-> "done"]
    BY DEF row
  <2> QED BY <2>1, <2>2, WriteWavCommit
<1> HIDE DEF file
<1>7. row.file = file
  OBVIOUS
<1> HIDE DEF row
<1>8. dev'.commits[s] = row
  BY <1>6, DevHasShape, CommitFields DEF OnlyCommit
<1>9. call.op = "end" /\ call.s = s
  BY DEF SegCall, Call
<1> HIDE DEF call
<1>10. Outstanding' = Append(Outstanding, call)
  BY <1>1, OutstandingIsSeq, TxnAsked
<1>11. CallOK(call, dev')
  BY <1>5, <1>7, <1>8, <1>9 DEF CallOK
<1> QED BY <1>10, <1>11 DEF CallsMove

\* A transaction that ended with an outcome asks for the WAV to be removed.
LEMMA OutcomeCall ==
  ASSUME FramesInv, WorkHolds(Outstanding, dev.queue), CallsOK, QueueOK, OutcomeReturns
  PROVE  CallsMove
<1> DEFINE call == SegCall("clean", Work.s)
<1>1. /\ txn # NoTxn /\ txn' = NoTxn /\ txn.call.op \in {"saved", "failed"} /\ Begun
      /\ tail' = Append(tail, call) /\ dev' = At(dev, "clean")
  BY DEF OutcomeReturns, Returned, Running, Enqueue, Begun
<1>2. /\ Outstanding # <<>> /\ Tail(Outstanding) = tail /\ Outstanding' = tail'
      /\ 1 \in 1..Len(Outstanding) /\ Outstanding[1] = txn.call
  <2>1. Outstanding = <<txn.call>> \o tail /\ Outstanding' = tail'
    BY <1>1 DEF Outstanding
  <2>2. Outstanding # <<>> /\ Tail(Outstanding) = tail /\ Head(Outstanding) = txn.call
    BY <2>1, OutstandingIsSeq, SeqCons
  <2>3. 1 \in 1..Len(Outstanding) /\ Outstanding[1] = txn.call
    BY <2>2, OutstandingIsSeq, SeqTail
  <2> QED BY <2>1, <2>2, <2>3
<1>3. Head(dev.queue).s = txn.call.s
  BY <1>1, <1>2, AtWork DEF WorkOps
<1>4. call.op = "clean" /\ call.s = txn.call.s
  BY <1>3 DEF SegCall, Call, Work
<1> HIDE DEF call
<1>5. dev'.jobs = dev.jobs
  BY <1>1, QueueKinds DEF OnlyQueue, SameLedger
<1>6. CallOK(call, dev')
  BY <1>1, <1>4, <1>5 DEF CallsOK, CallOK
<1> QED BY <1>1, <1>2, <1>6 DEF CallsMove

LEMMA CallsNext ==
  ASSUME FramesInv, MemoryInv, TriesOK, WorkHolds(Outstanding, dev.queue), CallsOK, QueueOK,
         ~ForgetProcess, ~Recover, ~UnwrittenCase, [Next]_vars
  PROVE  CallsMove
<1>1. ASSUME Moves PROVE CallsMove
  BY <1>1 DEF CallsMove
<1>2. CASE ConnectionStep
  <2>1. CASE tail' = tail
    BY <1>1, <1>2, <2>1, ConnectionQueue, TxnSame DEF Moves
  <2>2. ASSUME NEW call, call.op \in ConnOps, tail' = Append(tail, call) PROVE CallsMove
    <3>1. CallOK(call, dev')
      BY <2>2, OtherCallOK DEF ConnOps
    <3>2. Outstanding' = Append(Outstanding, call)
      BY <1>2, <2>2, ConnectionQueue, OutstandingIsSeq, TxnAsked
    <3> QED BY <3>1, <3>2 DEF CallsMove
  <2> QED BY <1>2, <2>1, <2>2, ConnectionQueue
<1>3. CASE QuietTransaction
  BY <1>1, <1>3, QuietTransactionQueue
<1>4. CASE BeginCase
  BY <1>1, <1>4, BegunMoves DEF BeginCase, Starting, Persist, PersistFor, Call1
<1>5. CASE CleanReturns \/ CleanFails \/ UnwrittenWork \/ CommitFailsVisible \/ TranscribingReturns
           \/ EndReturns
  BY <1>1, <1>5, EndedMoves DEF CleanReturns, CleanFails, UnwrittenWork, CommitFailsVisible,
     TranscribingReturns, EndReturns, Returned, Running, Removing, Unwritten
<1>6. CASE WorkAborts \/ RefuseTransaction
  BY <1>1, <1>6, OutstandingIsSeq, TxnRefused DEF WorkAborts, RefuseTransaction, Moves
<1>7. CASE OutcomeReturns
  BY <1>7, OutcomeCall
<1>8. CASE SubmitForeign
  BY <1>8, AskedCall DEF SubmitForeign
<1>9. ASSUME NEW s \in Segments, WriteWavFails(s) PROVE CallsMove
  BY <1>9, AskedCall DEF WriteWavFails, SegCall
<1>10. CASE StartWork
  BY <1>1, <1>10, AskedCall, TxnSame DEF StartWork, SegCall, Moves
<1>11. CASE Recognise
  BY <1>1, <1>11, AskedCall, TxnSame DEF Recognise, SegCall, Moves
<1>12. CASE Stop \/ BeginExit \/ UNCHANGED vars
  BY <1>1, <1>12, TxnSame DEF Stop, BeginExit, vars, Moves
<1>13. CASE TransactionStep
  BY <1>3, <1>4, <1>5, <1>6, <1>7, <1>13 DEF TransactionStep, QuietTransaction
<1>14. CASE FaultStep
  BY <1>3, <1>5, <1>9, <1>14 DEF FaultStep, QuietTransaction, Crash
<1>15. CASE WorkStep
  BY <1>10, <1>11, <1>15, WavCall DEF WorkStep
<1>16. CASE LifeStep
  BY <1>8, <1>12, <1>16 DEF LifeStep, FinishExit
<1> QED BY <1>2, <1>12, <1>13, <1>14, <1>15, <1>16 DEF Next

\* An outstanding call that was sound still is.
LEMMA CallStays ==
  ASSUME FramesInv, QueueOK, WorkHolds(Outstanding, dev.queue), CallsOK, CoreStep,
         NEW i \in 1..Len(Outstanding),
         Outstanding[i].op = "end" => dev'.commits[Outstanding[i].s].step # "none"
  PROVE  CallOK(Outstanding[i], dev')
<1> DEFINE call == Outstanding[i]
<1>1. CASE call.op = "end"
  <2>1. call.s \in Segments /\ dev.commits[call.s].step = "done"
    BY <1>1 DEF FramesInv, FramesHold, CallsHold, CallHolds, EndOps
  <2>2. dev.commits[call.s].file # None
    BY <1>1 DEF CallsOK, CommitOf
  <2> HIDE DEF call
  <2>3. dev'.commits[call.s].file # None
    BY <1>1, <2>1, <2>2 DEF CoreStep, Steady, call
  <2> QED BY <1>1, <2>3 DEF CallOK, call
<1>2. CASE call.op = "clean"
  <2>1. call.s \in Segments /\ Held1(cm, dev, call.s)
    BY <1>2, AtWork DEF WorkOps, EntryOK
  <2>2. ~Pending(dev.jobs[call.s])
    BY <1>2 DEF CallsOK
  <2> HIDE DEF call
  <2>3. ~Pending(dev'.jobs[call.s])
    BY <2>1, <2>2 DEF CoreStep, Steady
  <2> QED BY <1>2, <2>3 DEF CallOK, call
<1> QED BY <1>1, <1>2 DEF CallOK

\* Those that remain are among those that were outstanding.
LEMMA CallsStay ==
  ASSUME FramesInv, FramesInv', QueueOK, WorkHolds(Outstanding, dev.queue), CallsOK, CoreStep,
         CallsMove
  PROVE  \A i \in 1..Len(Outstanding') : CallOK(Outstanding'[i], dev')
<1>1. \A i \in 1..Len(Outstanding') :
        Outstanding'[i].op = "end" => dev'.commits[Outstanding'[i].s].step # "none"
  BY DEF FramesInv, FramesHold, CallsHold, CallHolds, EndOps
<1>2. ASSUME NEW i \in 1..Len(Outstanding'), NEW j \in 1..Len(Outstanding),
             Outstanding'[i] = Outstanding[j]
      PROVE  CallOK(Outstanding'[i], dev')
  BY <1>1, <1>2, CallStays
<1> DEFINE q == Outstanding'
           p == Outstanding
<1>3. IsSeq(p) /\ (p # <<>> => /\ IsSeq(Tail(p)) /\ Len(p) \in Nat \ {0} /\ Len(Tail(p)) = Len(p) - 1
                              /\ \A i \in 1..Len(Tail(p)) : Tail(p)[i] = p[i + 1] /\ i + 1 \in 1..Len(p))
  <2>1. p # <<>> => /\ IsSeq(Tail(p)) /\ Len(p) \in Nat \ {0} /\ Len(Tail(p)) = Len(p) - 1
                    /\ \A i \in 1..Len(Tail(p)) : Tail(p)[i] = p[i + 1]
    BY OutstandingIsSeq, SeqTail
  <2> HIDE DEF p
  <2> QED BY <2>1, OutstandingIsSeq DEF p
<1>4. CASE q = p
  BY <1>2, <1>4
<1>5. CASE p # <<>> /\ q = Tail(p)
  <2>1. \A i \in 1..Len(q) : \E j \in 1..Len(p) : q[i] = p[j]
    <3> HIDE DEF p, q
    <3> QED BY <1>3, <1>5
  <2> QED BY <1>2, <2>1
<1>6. ASSUME NEW r, IsSeq(r), NEW call, CallOK(call, dev'), q = Append(r, call),
             \A i \in 1..Len(r) : \E j \in 1..Len(p) : r[i] = p[j]
      PROVE  \A i \in 1..Len(q) : CallOK(q[i], dev')
  <2>1. /\ Len(r) \in Nat /\ Len(q) = Len(r) + 1 /\ q[Len(r) + 1] = call
        /\ \A i \in 1..Len(r) : q[i] = r[i]
    BY <1>6, SeqAppend
  <2>2. ASSUME NEW i \in 1..Len(q) PROVE i = Len(r) + 1 \/ \E j \in 1..Len(p) : q[i] = p[j]
    <3> HIDE DEF p, q
    <3>1. i = Len(r) + 1 \/ i \in 1..Len(r)
      BY <2>1
    <3> QED BY <1>6, <2>1, <3>1
  <2>3. ASSUME NEW i \in 1..Len(q) PROVE CallOK(q[i], dev')
    <3>1. CASE i = Len(r) + 1
      BY <1>6, <2>1, <3>1
    <3>2. ASSUME NEW j \in 1..Len(p), q[i] = p[j] PROVE CallOK(q[i], dev')
      BY <1>2, <3>2
    <3> QED BY <2>2, <3>1, <3>2
  <2> QED BY <2>3
<1>7. ASSUME NEW call, CallOK(call, dev'), q = Append(p, call)
      PROVE  \A i \in 1..Len(q) : CallOK(q[i], dev')
  <2>1. \A i \in 1..Len(p) : \E j \in 1..Len(p) : p[i] = p[j]
    OBVIOUS
  <2> QED BY <1>3, <1>6, <1>7, <2>1
<1>8. ASSUME NEW call, CallOK(call, dev'), p # <<>>, q = Append(Tail(p), call)
      PROVE  \A i \in 1..Len(q) : CallOK(q[i], dev')
  <2>1. IsSeq(Tail(p)) /\ \A i \in 1..Len(Tail(p)) : \E j \in 1..Len(p) : Tail(p)[i] = p[j]
    <3> HIDE DEF p
    <3> QED BY <1>3, <1>8
  <2> QED BY <1>6, <1>8, <2>1
<1> QED BY <1>4, <1>5, <1>7, <1>8 DEF CallsMove, Moves

----------------------------------------------------------------------------
(* The transaction that runs, and the queue.                               *)

\* A transaction takes the snapshot that it writes.
Takes ==
  \/ BeginHello \/ BeginCase \/ BeginEnd \/ BeginForeign \/ BeginTranscribing \/ BeginSaved
  \/ BeginFailed

\* How a transaction comes to write, or goes on doing so.
LEMMA BegunStep ==
  ASSUME FramesInv, LifeInv, [Next]_vars, Begun', ~Exits
  PROVE  (txn' = txn /\ Begun) \/ (RenameState /\ Begun) \/ CleanAudio \/ Takes
<1>1. txn' # NoTxn
  BY NoTxnPhase DEF Begun
<1>2. ASSUME txn' = txn PROVE txn' = txn /\ Begun
  BY <1>2 DEF Begun
<1>3. CASE ConnectionStep
  BY <1>2, <1>3, ConnectionControl DEF control
<1>4. CASE WorkStep \/ SubmitForeign \/ \E s \in Segments : WriteWavFails(s)
  BY <1>2, <1>4, QueueControl DEF control
<1>5. CASE FaultStep
  BY <1>1, <1>4, <1>5, FaultControl DEF Gives, Exits
<1>6. CASE LifeStep
  BY <1>2, <1>4, <1>6 DEF LifeStep, Stop, BeginExit, Exits, Recover
<1>7. CASE UNCHANGED vars
  BY <1>2, <1>7 DEF vars
<1>8. CASE TransactionStep
  <2>1. CASE BeginRemoval
    <3>1. txn'.phase = "removing"
      BY <2>1 DEF BeginRemoval
    <3> QED BY <3>1 DEF Begun
  <2>2. CASE HelloReturns \/ CaseReturns \/ EndReturns \/ TranscribingReturns \/ OutcomeReturns
             \/ CleanReturns \/ ForeignReturns \/ FinishFailCommit \/ WorkAborts \/ RefuseTransaction
    BY <1>1, <2>2 DEF HelloReturns, CaseReturns, EndReturns, TranscribingReturns, OutcomeReturns,
       CleanReturns, ForeignReturns, Returned, FinishFailCommit, WorkAborts, RefuseTransaction
  <2>3. CASE RenameState
    <3>1. Begun
      BY <2>3 DEF RenameState, Begun
    <3> QED BY <2>3, <3>1
  <2> QED BY <1>8, <2>1, <2>2, <2>3 DEF TransactionStep, Takes
<1> QED BY <1>3, <1>4, <1>5, <1>6, <1>7, <1>8 DEF Next

TxnAtWork == txn # NoTxn /\ txn.call.op \in WorkOps

\* The transaction that runs is the first one outstanding.
LEMMA RunningCall ==
  ASSUME FramesInv, txn # NoTxn
  PROVE  1 \in 1..Len(Outstanding) /\ Outstanding[1] = txn.call
<1>1. Outstanding = <<txn.call>> \o tail
  BY DEF Outstanding
<1>2. Outstanding # <<>> /\ Head(Outstanding) = txn.call
  BY <1>1, OutstandingIsSeq, SeqCons
<1> QED BY <1>2, OutstandingIsSeq, SeqTail

OutcomeOK == Begun /\ txn.call.op \in {"saved", "failed"} => ~Pending(dev.jobs[txn.call.s])

\* A recording whose outcome is being written is not pending.
LEMMA OutcomeNext ==
  ASSUME FramesInv, LifeInv, CallsOK, QueueOK, WorkHolds(Outstanding, dev.queue), CoreStep,
         ~Crash, ~ForgetProcess, [Next]_vars
  PROVE  OutcomeOK'
<1> SUFFICES ASSUME Begun', txn'.call.op \in {"saved", "failed"}
             PROVE  ~Pending(dev'.jobs[txn'.call.s])
  BY DEF OutcomeOK
<1>1. ASSUME Begun, txn'.call = txn.call PROVE ~Pending(dev'.jobs[txn'.call.s])
  <2>1. txn # NoTxn /\ txn.call.op \in {"saved", "failed"} /\ ~Pending(dev.jobs[txn.call.s])
    BY <1>1, NoTxnPhase DEF Begun, CallsOK
  <2>2. txn.call.s \in Segments /\ Held1(cm, dev, txn.call.s)
    BY <2>1, RunningCall, AtWork DEF WorkOps, EntryOK
  <2> QED BY <1>1, <2>1, <2>2 DEF CoreStep, Steady
<1>2. CASE txn' = txn /\ Begun
  BY <1>1, <1>2
<1>3. CASE RenameState /\ Begun
  <2>1. txn'.call = txn.call
    BY <1>3 DEF RenameState, FramesInv, TxnShape
  <2> QED BY <1>1, <1>3, <2>1
<1>4. CASE CleanAudio
  <2>1. txn'.call.op = "clean"
    BY <1>4 DEF CleanAudio, Removing, PersistFor
  <2> QED BY <2>1
<1>5. CASE Takes
  <2>1. /\ txn = NoTxn /\ tail # <<>> /\ txn'.call = Call1
        /\ BeginSaved \/ BeginFailed
    BY <1>5 DEF Takes, BeginHello, BeginCase, BeginEnd, BeginForeign, BeginTranscribing, BeginSaved,
       BeginFailed, Starting, Persist, PersistFor, Call1
  <2> DEFINE s == Call1.s
  <2>2. \E status \in {"saved", "failed"} : dev' = SetStatus(dev, s, status)
    BY <2>1 DEF BeginSaved, BeginFailed
  <2>3. s \in Segments
    BY <2>1, FirstCall, AtWork DEF WorkOps
  <2> HIDE DEF s
  <2>4. PICK status \in {"saved", "failed"} : dev' = SetStatus(dev, s, status)
    BY <2>2
  <2>5. dev'.jobs = IF dev.jobs[s] = NoJob THEN dev.jobs ELSE [dev.jobs EXCEPT ![s].status = status]
    <3>1. DevShape(dev)
      BY DevHasShape
    <3>2. SetStatus(dev, s, status).jobs =
            IF dev.jobs[s] = NoJob THEN dev.jobs ELSE [dev.jobs EXCEPT ![s].status = status]
      BY <3>1, StatusJobs
    <3> QED BY <2>4, <3>2, Zenon
  <2>6. ~Pending(dev'.jobs[s])
    <3>1. CASE dev.jobs[s] = NoJob
      BY <2>5, <3>1 DEF NoJob, Pending
    <3>2. CASE dev.jobs[s] # NoJob
      <4>1. dev'.jobs \in [Segments -> Job]
        BY DEF CoreStep, Core, Sound
      <4> DEFINE job == [dev.jobs[s] EXCEPT !.status = status]
      <4>2. dev'.jobs = [dev.jobs EXCEPT ![s] = job]
        BY <2>5, <3>2
      <4>3. dev'.jobs[s] = job
        <5> HIDE DEF job
        <5> QED BY <2>3, <4>1, <4>2
      <4>4. dev'.jobs[s] \in Job
        BY <2>3, <4>1
      <4>5. dev'.jobs[s].status = status
        BY <4>3, <4>4 DEF Job
      <4> QED BY <4>5 DEF Pending
    <3> QED BY <3>1, <3>2
  <2> QED BY <2>1, <2>6 DEF s
<1> QED BY <1>2, <1>3, <1>4, <1>5, ExitsForget, BegunStep

LEMMA CallsOKNext ==
  ASSUME FramesInv, FramesInv', LifeInv, QueueOK, WorkHolds(Outstanding, dev.queue), CallsOK, CoreStep,
         MemoryInv, TriesOK, ~Crash, ~ForgetProcess, ~Recover, ~UnwrittenCase, [Next]_vars
  PROVE  CallsOK'
<1>1. \A i \in 1..Len(Outstanding') : CallOK(Outstanding'[i], dev')
  BY CallsNext, CallsStay
<1>2. OutcomeOK'
  BY OutcomeNext
<1> QED BY <1>1, <1>2 DEF CallOK, OutcomeOK, CallsOK, CommitOf

\* The recording whose commit ends is queued with its WAV.
LEMMA NewEntry ==
  ASSUME FramesInv, MemoryInv, CallsOK, CoreStep, EndReturns
  PROVE  /\ txn.call.s \in Segments
         /\ EntryOK(cm', dev', QueueEntry(txn.call.s, CommitOf(txn.call.s).file))
<1> DEFINE s == txn.call.s
           f == CommitOf(s).file
<1>1. txn # NoTxn /\ txn.call.op = "end" /\ Begun /\ cm' = cm
  BY DEF EndReturns, Returned, Running, Begun
<1>2. s \in Segments /\ Ends = {s}
  BY <1>1, EndsOne
<1>3. f # None
  BY <1>1, RunningCall DEF CallsOK
<1>4. FileOf(f, s) /\ s \in dev.durable
  BY <1>2, <1>3 DEF MemoryInv, Core, CommitSound, CommitOf
<1> HIDE DEF f
<1>5. s = txn.call.s
  OBVIOUS
<1> HIDE DEF s
<1>6. dev'.durable = dev.durable /\ dev'.commits[s] = NoCommit
  BY <1>2, <1>5, DevHasShape, EndReturnsFields DEF SameLedger
<1>7. Held1(cm', dev', s)
  BY <1>4, <1>6 DEF Held1, NoCommit
<1>8. QueueEntry(s, f).s = s /\ QueueEntry(s, f).file = f
  BY DEF QueueEntry
<1>9. EntryOK(cm', dev', QueueEntry(s, f))
  BY <1>4, <1>7, <1>8 DEF EntryOK
<1> QED BY <1>2, <1>9 DEF s, f

LEMMA QueueOKNext ==
  ASSUME FramesInv, MemoryInv, CallsOK, QueueOK, CoreStep, QueueStep, ~ForgetProcess, ~Recover,
         WorkHolds(Outstanding, dev.queue)
  PROVE  QueueOK'
<1>1. ASSUME NEW i \in 1..Len(dev.queue) PROVE EntryOK(cm', dev', dev.queue[i])
  <2>1. EntryOK(cm, dev, dev.queue[i]) /\ dev.queue[i].s \in Segments
    BY DEF QueueOK, WorkHolds, QueueShape, EntryShape
  <2> QED BY <2>1 DEF EntryOK, CoreStep, Steady
<1>2. CASE QueueFrom(dev.queue, dev'.queue)
  <2>1. ASSUME NEW i \in 1..Len(dev'.queue) PROVE EntryOK(cm', dev', dev'.queue[i])
    <3>1. PICK j \in 1..Len(dev.queue) : dev'.queue[i].s = dev.queue[j].s
                                         /\ dev'.queue[i].file = dev.queue[j].file
      BY <1>2 DEF QueueFrom
    <3> QED BY <1>1, <3>1 DEF EntryOK
  <2> QED BY <2>1 DEF QueueOK
<1>3. CASE EndReturns /\ dev'.queue = Append(dev.queue, QueueEntry(txn.call.s, CommitOf(txn.call.s).file))
  <2> DEFINE e == QueueEntry(txn.call.s, CommitOf(txn.call.s).file)
  <2>1. EntryOK(cm', dev', e)
    BY <1>3, NewEntry
  <2>2. dev'.queue = Append(dev.queue, e)
    BY <1>3
  <2> HIDE DEF e
  <2>3. IsSeq(dev.queue)
    BY DEF WorkHolds, QueueShape
  <2>4. /\ Len(dev.queue) \in Nat /\ Len(dev'.queue) = Len(dev.queue) + 1
        /\ \A i \in 1..Len(dev.queue) : dev'.queue[i] = dev.queue[i]
        /\ dev'.queue[Len(dev.queue) + 1] = e
    BY <2>2, <2>3, SeqAppend
  <2>5. ASSUME NEW i \in 1..Len(dev'.queue) PROVE EntryOK(cm', dev', dev'.queue[i])
    <3>1. i = Len(dev.queue) + 1 \/ i \in 1..Len(dev.queue)
      BY <2>4
    <3> QED BY <1>1, <2>1, <2>4, <3>1
  <2> QED BY <2>5 DEF QueueOK
<1> QED BY <1>2, <1>3 DEF QueueStep

----------------------------------------------------------------------------
(* The cases that wait to be started.                                      *)

\* The device asks for no case that is behind one it asked for.
CaseInOrder(call) ==
  call.op = "case" =>
    /\ call.c \in Cases
    /\ cm.current[Device] # None => cm.current[Device] <= call.c
    /\ \A i \in 1..Len(tail) : tail[i].op = "case" => tail[i].c <= call.c

TailMoves ==
  \/ tail' = tail \/ (tail # <<>> /\ tail' = Tail(tail))
  \/ \E call : CaseInOrder(call) /\ tail' = Append(tail, call)

LEMMA AskedTail ==
  ASSUME NEW op, NEW k, NEW c, NEW s, NEW text, op # "case", Enqueue(Call(op, k, c, s, text))
  PROVE  TailMoves
<1> DEFINE call == Call(op, k, c, s, text)
<1>1. call.op = op /\ tail' = Append(tail, call)
  BY DEF Call, Enqueue
<1> HIDE DEF call
<1>2. CaseInOrder(call)
  BY <1>1 DEF CaseInOrder
<1> QED BY <1>1, <1>2 DEF TailMoves

LEMMA CaseTail ==
  ASSUME FramesInv, NEW k, NEW c \in Cases, SendCaseStart(k, c) PROVE TailMoves
<1> DEFINE call == Call("case", k, c, None, None)
<1>1. call.op = "case" /\ call.c = c /\ tail' = Append(tail, call)
  BY DEF Call, Enqueue, SendCaseStart
<1> HIDE DEF call
<1>2. DOMAIN tail = 1..Len(tail)
  BY OutstandingIsSeq DEF IsSeq
<1>3. CaseInOrder(call)
  BY <1>1, <1>2 DEF CaseInOrder, SendCaseStart
<1> QED BY <1>1, <1>3 DEF TailMoves

LEMMA TailNext ==
  ASSUME FramesInv, [Next]_vars, ~ForgetProcess PROVE TailMoves
<1>1. ASSUME tail' = tail PROVE TailMoves
  BY <1>1 DEF TailMoves
<1>2. CASE ConnectionStep
  <2>1. PICK k \in Conns :
          \/ SendHello(k) \/ CloseConnection(k) \/ ForgetConnection(k)
          \/ ResumeStart(k)
          \/ \E c \in Cases : SendCaseStart(k, c)
          \/ \E sequence \in 0..MaxPcm : AppendSpeech(k, sequence)
          \/ \E s \in Segments :
               \/ \E c \in Cases : StartSpeech(k, c, s)
               \/ WaitForCommit(k, s)
               \/ EndReplayed(k, s) \/ EndMismatch(k, s)
               \/ EndMissing(k, s) \/ EndSpeech(k, s)
    BY <1>2 DEF ConnectionStep
  <2>2. CASE SendHello(k)
    BY <2>2, AskedTail DEF SendHello
  <2>3. CASE \E c \in Cases : SendCaseStart(k, c)
    BY <2>3, CaseTail
  <2>4. ASSUME ~SendHello(k), ~\E c \in Cases : SendCaseStart(k, c) PROVE tail' = tail
    BY <2>1, <2>4 DEF CloseConnection, ForgetConnection, ResumeStart, AppendSpeech, StartSpeech,
       WaitForCommit, EndReplayed, EndMismatch, EndMissing, EndSpeech
  <2> QED BY <1>1, <2>2, <2>3, <2>4
<1>3. CASE WorkStep \/ SubmitForeign \/ \E s \in Segments : WriteWavFails(s)
  <2>1. ASSUME NEW s \in Segments, WriteWav(s) \/ WriteWavFails(s) PROVE TailMoves
    BY <2>1, AskedTail DEF WriteWav, WriteWavFails, SegCall
  <2>2. CASE StartWork
    BY <1>1, <2>2, AskedTail DEF StartWork, SegCall
  <2>3. CASE Recognise
    BY <1>1, <2>3, AskedTail DEF Recognise, SegCall
  <2>4. CASE SubmitForeign
    BY <2>4, AskedTail DEF SubmitForeign
  <2> QED BY <1>3, <2>1, <2>2, <2>3, <2>4 DEF WorkStep
<1>4. CASE TransactionStep
  <2>1. CASE \/ BeginHello \/ BeginCase \/ BeginRemoval \/ BeginEnd \/ BeginForeign
             \/ BeginTranscribing \/ BeginSaved \/ BeginFailed \/ WorkAborts \/ RefuseTransaction
    BY <2>1 DEF BeginHello, BeginCase, BeginRemoval, BeginEnd, BeginForeign, BeginTranscribing,
       BeginSaved, BeginFailed, WorkAborts, RefuseTransaction, Starting, TailMoves
  <2>2. CASE OutcomeReturns
    BY <2>2, AskedTail DEF OutcomeReturns, SegCall
  <2>3. CASE \/ FinishFailCommit \/ CleanAudio \/ RenameState \/ HelloReturns \/ CaseReturns
             \/ EndReturns \/ TranscribingReturns \/ CleanReturns \/ ForeignReturns
    BY <1>1, <2>3 DEF FinishFailCommit, CleanAudio, RenameState, HelloReturns, CaseReturns,
       EndReturns, TranscribingReturns, CleanReturns, ForeignReturns
  <2> QED BY <1>4, <2>1, <2>2, <2>3 DEF TransactionStep
<1>5. CASE FaultStep
  BY <1>1, <1>3, <1>5 DEF FaultStep, CleanFails, UnwrittenHello, UnwrittenCase, UnwrittenEnd,
     UnwrittenWork, UnwrittenForeign, Unwritten, CommitFailsVisible, Crash
<1>6. CASE LifeStep
  BY <1>1, <1>3, <1>6 DEF LifeStep, Stop, BeginExit, FinishExit, Recover
<1>7. CASE UNCHANGED vars
  BY <1>1, <1>7 DEF vars
<1> QED BY <1>2, <1>3, <1>4, <1>5, <1>6, <1>7 DEF Next

\* The process that is up was up, unless it restarts.
LEMMA UpStays ==
  ASSUME LifeInv, [Next]_vars, mode' = "up", ~Recover PROVE mode = "up"
<1>1. CASE ConnectionStep \/ WorkStep \/ SubmitForeign \/ \E s \in Segments : WriteWavFails(s)
  BY <1>1, ConnectionControl, QueueControl DEF control
<1>2. CASE TransactionStep
  <2>1. CASE RenameState
    BY <2>1 DEF RenameState, proc
  <2> QED BY <1>2, <2>1, TransactionControl DEF Begins, Commits, Gives, Halt, proc
<1>3. CASE FaultStep
  BY <1>1, <1>3, FaultControl DEF Gives, Halt, proc, Crash
<1>4. CASE LifeStep
  BY <1>1, <1>4 DEF LifeStep, Stop, BeginExit, FinishExit
<1>5. CASE UNCHANGED vars
  BY <1>5 DEF vars
<1> QED BY <1>1, <1>2, <1>3, <1>4, <1>5 DEF Next

\* The current case stays, or the first call's becomes it.
LEMMA CasesMove ==
  ASSUME FramesInv, CasesOK, TailMoves,
         \/ cm'.current = cm.current
         \/ /\ tail # <<>> /\ tail' = Tail(tail) /\ tail[1].op = "case"
            /\ cm'.current[Device] = tail[1].c
  PROVE  CasesOK'
<1> DEFINE now == cm.current[Device]
           next == cm'.current[Device]
           CaseOK(q, i, d) ==
             q[i].op = "case" =>
               /\ q[i].c \in Cases
               /\ d # None => d <= q[i].c
               /\ \A j \in 1..Len(q) : i < j /\ q[j].op = "case" => q[i].c <= q[j].c
<1>1. \A i \in 1..Len(tail) : CaseOK(tail, i, now)
  BY DEF CasesOK
<1>2. ASSUME \A i \in 1..Len(tail') : CaseOK(tail', i, next) PROVE CasesOK'
  BY <1>2 DEF CasesOK
<1>3. IsSeq(tail)
  BY OutstandingIsSeq
<1>4. CASE tail # <<>> /\ tail' = Tail(tail)
  <2>1. /\ Len(tail) \in Nat \ {0} /\ Len(tail') = Len(tail) - 1
        /\ \A i \in 1..Len(tail') : tail'[i] = tail[i + 1]
    BY <1>3, <1>4, SeqTail
  <2>2. 1 \in 1..Len(tail) /\ \A i \in 1..Len(tail') : i + 1 \in 1..Len(tail) /\ 1 < i + 1
    BY <2>1
  <2>3. ASSUME NEW i \in 1..Len(tail') PROVE CaseOK(tail', i, next)
    <3>1. CaseOK(tail, i + 1, now) /\ CaseOK(tail, 1, now)
      BY <1>1, <2>2
    <3>2. \A j \in 1..Len(tail') : i < j => j + 1 \in 1..Len(tail) /\ i + 1 < j + 1
                                            /\ tail'[j] = tail[j + 1]
      BY <2>1, <2>2
    <3>3. tail'[i] = tail[i + 1]
      BY <2>1
    <3>4. next = now \/ (tail[1].op = "case" /\ next = tail[1].c)
      BY <1>4 DEF TailMoves
    <3>5. SUFFICES ASSUME tail'[i].op = "case"
          PROVE  /\ tail'[i].c \in Cases
                 /\ next # None => next <= tail'[i].c
                 /\ \A j \in 1..Len(tail') : i < j /\ tail'[j].op = "case" => tail'[i].c <= tail'[j].c
      OBVIOUS
    <3>6. tail'[i].c \in Cases
      BY <3>1, <3>3, <3>5
    <3>7. next # None => next <= tail'[i].c
      BY <2>2, <3>1, <3>3, <3>4, <3>5
    <3>8. \A j \in 1..Len(tail') : i < j /\ tail'[j].op = "case" => tail'[i].c <= tail'[j].c
      BY <3>1, <3>2, <3>3, <3>5
    <3> QED BY <3>6, <3>7, <3>8
  <2> QED BY <1>2, <2>3
<1>5. CASE tail' = tail /\ cm'.current = cm.current
  BY <1>1, <1>2, <1>5
<1>6. ASSUME NEW call, CaseInOrder(call), tail' = Append(tail, call), cm'.current = cm.current
      PROVE  CasesOK'
  <2>1. /\ Len(tail) \in Nat /\ Len(tail') = Len(tail) + 1 /\ tail'[Len(tail) + 1] = call
        /\ \A i \in 1..Len(tail) : tail'[i] = tail[i]
    BY <1>3, <1>6, SeqAppend
  <2>2. \A i \in 1..Len(tail') : i = Len(tail) + 1 \/ i \in 1..Len(tail)
    BY <2>1
  <2>3. ASSUME NEW i \in 1..Len(tail') PROVE CaseOK(tail', i, next)
    <3>1. CASE i = Len(tail) + 1
      <4>1. \A j \in 1..Len(tail') : ~(i < j)
        BY <2>1, <3>1
      <4> QED BY <1>6, <2>1, <3>1, <4>1 DEF CaseInOrder
    <3>2. CASE i \in 1..Len(tail)
      <4>1. CaseOK(tail, i, now) /\ tail'[i] = tail[i]
        BY <1>1, <2>1, <3>2
      <4>2. ASSUME NEW j \in 1..Len(tail'), i < j, tail'[i].op = "case", tail'[j].op = "case"
            PROVE  tail'[i].c <= tail'[j].c
        <5>1. CASE j = Len(tail) + 1
          BY <1>6, <2>1, <3>2, <4>1, <4>2, <5>1 DEF CaseInOrder
        <5>2. CASE j \in 1..Len(tail)
          BY <2>1, <4>1, <4>2, <5>2
        <5> QED BY <2>2, <5>1, <5>2
      <4> QED BY <1>6, <4>1, <4>2
    <3> QED BY <2>2, <3>1, <3>2
  <2> QED BY <1>2, <2>3
<1>7. ASSUME tail # <<>> PROVE Tail(tail) # tail
  <2>1. Len(tail) \in Nat /\ Len(Tail(tail)) = Len(tail) - 1
    BY <1>3, <1>7, SeqTail
  <2> QED BY <2>1
<1> QED BY <1>4, <1>5, <1>6, <1>7 DEF TailMoves

LEMMA CasesNext ==
  ASSUME FramesInv, ControlInv, ControlInv', RestoreInv, [Next]_vars, mode' = "up", ~ForgetProcess
  PROVE  CasesOK'
<1>1. CASE Recover
  <2>1. tail' = <<>>
    BY <1>1 DEF Recover, FramesInv, DownIsEmpty
  <2> QED BY <2>1 DEF CasesOK
<1>2. CASE ~Recover
  <2>1. mode = "up" /\ writable /\ CasesOK /\ MemoryInv
    BY <1>2, UpStays DEF ControlInv, LifeInv, RestoreInv
  <2>2. TailMoves
    BY TailNext
  <2>3. CASE BeginCase
    <3>1. /\ txn = NoTxn /\ tail # <<>> /\ tail' = Tail(tail) /\ Call1.op = "case" /\ Call1 = tail[1]
      BY <2>3, FirstCall DEF BeginCase, Starting, Call1
    <3>2. cm'.current[Device] = tail[1].c
      BY <2>1, <2>3, <3>1, BeginCaseCore
    <3> QED BY <2>1, <2>2, <3>1, <3>2, CasesMove
  <2>4. CASE ~BeginCase
    <3>1. ~UnwrittenCase
      BY DEF UnwrittenCase, Halt
    <3> QED BY <1>2, <2>1, <2>2, <2>4, <3>1, ExitsForget, CurrentSame, CasesMove
  <2> QED BY <2>3, <2>4
<1> QED BY <1>1, <1>2

----------------------------------------------------------------------------
(* What is written.                                                        *)

\* What is exported from memory makes a snapshot that a restart accepts.
LEMMA SnapFromCore ==
  ASSUME NEW m, NEW dv, NEW ends, Core(m, dv, ends), NEW snap,
         snap = [cm |-> ExportState(m), acks |-> dv.persistent, durable |-> dv.durable,
                 jobs |-> dv.jobs]
  PROVE  SnapOK(snap)
<1> DEFINE ex == ExportState(m)
<1>1. Good(m) /\ Sound(m, dv.persistent, dv.durable, dv.jobs)
  BY DEF Core
<1>2. MayRestoreState(ex) /\ Good(RestoreState(ex))
  BY <1>1, GoodMayRestore, RestartGood
<1>3. /\ ex \in CaseManagerState /\ ex.current = m.current
      /\ \A t \in Segments : /\ ex.seg[t].case = m.seg[t].case
                             /\ ex.seg[t].state = m.seg[t].state /\ ex.seg[t].pcm = FALSE
  BY <1>1, ExportedRows
<1> HIDE DEF ex
<1>4. snap.cm = ex /\ snap.acks = dv.persistent /\ snap.durable = dv.durable /\ snap.jobs = dv.jobs
  BY DEF ex
<1>5. ASSUME NEW t \in Segments
      PROVE  RowSound(ex, t) /\ JobSound(ex, dv.persistent, dv.durable, dv.jobs, t)
  <2>1. RowSound(m, t) /\ JobSound(m, dv.persistent, dv.durable, dv.jobs, t)
    BY <1>1 DEF Sound
  <2> QED BY <1>3, <2>1 DEF RowSound, JobSound
<1>6. Sound(ex, dv.persistent, dv.durable, dv.jobs)
  BY <1>1, <1>5 DEF Sound
<1> QED BY <1>2, <1>3, <1>4, <1>6 DEF SnapOK

LEMMA SnapTaken ==
  ASSUME CoreStep PROVE SnapOK(PersistentState')
<1> DEFINE snap == PersistentState'
<1>1. snap = [cm |-> ExportState(cm'), acks |-> dev'.persistent, durable |-> dev'.durable,
              jobs |-> dev'.jobs]
  BY DEF PersistentState
<1> HIDE DEF snap
<1>2. Core(cm', dev', Ends')
  BY DEF CoreStep
<1>3. SnapOK(snap)
  BY <1>1, <1>2, SnapFromCore
<1> QED BY <1>3 DEF snap

LEMMA EmptyDiskOK == SnapOK(EmptyDisk)
<1> DEFINE m == EmptyCaseManager
<1>1. Good(m) /\ m \in CaseManagerState
  BY EmptyGood DEF Good
<1>2. m.seg = [s \in Segments |-> NoSegment] /\ (\A c \in Cases : m.owner[c] = None)
      /\ (\A d \in Devices : m.current[d] = None) /\ (\A s \in Segments : m.tomb[s] = NoTombstone)
  BY DEF EmptyCaseManager
<1>3. NoSegment.state = "absent" /\ NoTombstone.case = None
  BY DEF NoSegment, NoTombstone
<1> HIDE DEF m
<1>4. RestoreState(m) = m
  <2>1. [s \in Segments |-> RestoredRow(m.seg[s])] = m.seg
    BY <1>2, <1>3 DEF RestoredRow
  <2> QED BY <1>1, <2>1 DEF RestoreState, CaseManagerState
<1>5. \A s \in Segments : ~Live(m, s) /\ ~Buried(m, s)
  BY <1>2, <1>3 DEF Live, Buried
<1>6. Held(m) = {} /\ {d \in Devices : m.current[d] # None} = {}
      /\ {s \in Segments : Live(m, s)} = {} /\ {s \in Segments : Buried(m, s)} = {}
  BY <1>2, <1>5 DEF Held
<1>7. WithinLimits(m)
  <2>1. Cardinality({}) = 0
    BY FS_EmptySet
  <2>2. MaxCases \in Nat /\ MaxSegments \in Nat /\ MaxTombstones \in Nat
    BY LimitAssumption
  <2>3. 0 <= MaxCases * MaxSegments
    BY <2>2
  <2> QED BY <1>6, <2>1, <2>2, <2>3 DEF WithinLimits
<1>8. RollsAreValid(m) /\ RowsAreValid(m) /\ CurrentCasesAreValid(m) /\ TombstonesAreValid(m)
  BY <1>2, <1>5, <1>6 DEF RollsAreValid, RowsAreValid, CurrentCasesAreValid, TombstonesAreValid
<1>9. Sound(m, {}, {}, [s \in Segments |-> NoJob])
  BY SoundEmpty DEF m
<1> QED BY <1>1, <1>4, <1>7, <1>8, <1>9 DEF SnapOK, EmptyDisk, MayRestoreState, m

\* How the file changes, and what a power failure or the shutdown may write.
LEMMA StoreMoves ==
  ASSUME LifeInv, [Next]_vars
  PROVE  /\ \/ disk' = disk
            \/ undo # None /\ disk' = undo
            \/ RenameState /\ disk' = txn.snap /\ Begun
            \/ exit # None /\ disk' = exit
            \/ Recover
         /\ undo' \in {undo, None, disk}
         /\ exit' \in {exit, None} \/ BeginExit
<1>1. CASE ConnectionStep \/ WorkStep \/ SubmitForeign \/ \E s \in Segments : WriteWavFails(s)
  BY <1>1, ConnectionControl, QueueControl DEF control
<1>2. CASE TransactionStep
  <2>1. CASE RenameState
    BY <2>1 DEF RenameState, Begun, proc
  <2> QED BY <1>2, <2>1, TransactionControl DEF Begins, Commits, Gives, Halt, proc
<1>3. CASE Crash
  BY <1>3 DEF Crash, ForgetProcess
<1>4. CASE FaultStep /\ ~Crash
  BY <1>1, <1>4, FaultControl DEF Gives, Halt, proc
<1>5. CASE LifeStep
  BY <1>1, <1>5 DEF LifeStep, Stop, BeginExit, FinishExit, Recover, ForgetProcess, store
<1>6. CASE UNCHANGED vars
  BY <1>6 DEF vars
<1> QED BY <1>1, <1>2, <1>3, <1>4, <1>5, <1>6 DEF Next

\* The bounds' record keeps its fields.
LEMMA SpentKept ==
  ASSUME TriesOK, NEW x, NEW y, NEW v,
         \/ spent' = spent
         \/ spent' = [spent EXCEPT !.faults = x]
         \/ spent' = [spent EXCEPT !.stops = x]
         \/ spent' = [spent EXCEPT !.foreign = x]
         \/ spent' = [spent EXCEPT !.faults = x, !.stops = y]
         \/ spent' = [spent EXCEPT !.faults = x, !.failed = v]
  PROVE  TriesOK'
BY DEF TriesOK

LEMMA TriesNext ==
  ASSUME TriesOK, [Next]_vars PROVE TriesOK'
<1>1. CASE spent' = spent
  BY <1>1 DEF TriesOK
<1>2. ASSUME NEW x, spent' = [spent EXCEPT !.faults = x] PROVE TriesOK'
  BY <1>2, SpentKept
<1>3. ASSUME NEW x, spent' = [spent EXCEPT !.stops = x] PROVE TriesOK'
  BY <1>3, SpentKept
<1>4. CASE DiskFault
  <2> DEFINE x == spent.faults + 1
             v == TRUE
  <2>1. spent' = [spent EXCEPT !.faults = x, !.failed = v]
    BY <1>4, Zenon DEF DiskFault
  <2> HIDE DEF x, v
  <2> QED BY <2>1, SpentKept
<1>5. CASE ConnectionStep
  <2>1. PICK k \in Conns :
          \/ SendHello(k) \/ CloseConnection(k) \/ ForgetConnection(k)
          \/ ResumeStart(k)
          \/ \E c \in Cases : SendCaseStart(k, c)
          \/ \E sequence \in 0..MaxPcm : AppendSpeech(k, sequence)
          \/ \E s \in Segments :
               \/ \E c \in Cases : StartSpeech(k, c, s)
               \/ WaitForCommit(k, s)
               \/ EndReplayed(k, s) \/ EndMismatch(k, s)
               \/ EndMissing(k, s) \/ EndSpeech(k, s)
    BY <1>5 DEF ConnectionStep
  <2> QED BY <1>1, <2>1 DEF SendHello, CloseConnection, ForgetConnection, ResumeStart,
           SendCaseStart, AppendSpeech, StartSpeech, WaitForCommit, EndReplayed, EndMismatch,
           EndMissing, EndSpeech
<1>6. CASE TransactionStep
  BY <1>1, <1>6 DEF TransactionStep, BeginHello, BeginCase, BeginRemoval, FinishFailCommit,
     BeginEnd, BeginForeign, BeginTranscribing, BeginSaved, BeginFailed, WorkAborts, CleanAudio,
     RefuseTransaction, RenameState, HelloReturns, CaseReturns, EndReturns, TranscribingReturns,
     OutcomeReturns, CleanReturns, ForeignReturns
<1>7. ASSUME NEW s \in Segments, WriteWav(s) PROVE TriesOK'
  <2> DEFINE n == spent.tries[s] + 1
             f == [spent.tries EXCEPT ![s] = n]
  <2>1. spent' = [spent EXCEPT !.tries = f]
    BY <1>7 DEF WriteWav
  <2>2. n \in Nat /\ f \in [Segments -> Nat]
    BY DEF TriesOK
  <2> HIDE DEF f
  <2> QED BY <2>1, <2>2 DEF TriesOK
<1>8. CASE StartWork \/ Recognise
  BY <1>1, <1>8 DEF StartWork, Recognise
<1>9. ASSUME NEW s \in Segments, WriteWavFails(s) PROVE TriesOK'
  BY <1>1, <1>2, <1>9 DEF WriteWavFails
<1>10. CASE CleanFails
  BY <1>2, <1>10 DEF CleanFails
<1>11. CASE \/ UnwrittenHello \/ UnwrittenCase \/ UnwrittenEnd \/ UnwrittenWork \/ UnwrittenForeign
            \/ CommitFailsVisible
  BY <1>4, <1>11 DEF UnwrittenHello, UnwrittenCase, UnwrittenEnd, UnwrittenWork, UnwrittenForeign,
     CommitFailsVisible, Unwritten
<1>12. CASE Crash
  BY <1>1, <1>3, <1>12 DEF Crash
<1>13. CASE Stop
  BY <1>3, <1>13 DEF Stop
<1>14. CASE SubmitForeign
  <2> DEFINE x == spent.foreign + 1
  <2>1. spent' = [spent EXCEPT !.foreign = x]
    BY <1>14 DEF SubmitForeign
  <2> HIDE DEF x
  <2> QED BY <2>1, SpentKept
<1>15. CASE Recover
  <2>1. \E x, y : \/ spent' = [spent EXCEPT !.faults = x]
                  \/ spent' = [spent EXCEPT !.faults = x, !.stops = y]
    BY <1>15 DEF Recover
  <2>2. ASSUME NEW x, NEW y, spent' = [spent EXCEPT !.faults = x, !.stops = y] PROVE TriesOK'
    BY <2>2, SpentKept
  <2> QED BY <1>2, <2>1, <2>2
<1>16. CASE BeginExit \/ FinishExit \/ UNCHANGED vars
  BY <1>1, <1>16 DEF BeginExit, FinishExit, vars
<1>17. CASE WorkStep \/ FaultStep \/ LifeStep
  BY <1>7, <1>8, <1>9, <1>10, <1>11, <1>12, <1>13, <1>14, <1>15, <1>16, <1>17
     DEF WorkStep, FaultStep, LifeStep
<1> QED BY <1>5, <1>6, <1>16, <1>17 DEF Next

\* A step that takes a snapshot of the device does so from sound memory.
Captures == Takes \/ CleanAudio \/ BeginExit

LEMMA CapturesCore ==
  ASSUME Disciplined, FramesInv, ControlInv, WorkInv, RestoreInv, [Next]_vars, Captures,
         ~ForgetProcess
  PROVE  SnapOK(PersistentState')
<1>1. mode # "down" /\ writable /\ writable' = writable
  <2>1. CASE Takes
    BY <2>1 DEF Takes, Starting, BeginHello, BeginCase, BeginEnd, BeginForeign,
       BeginTranscribing, BeginSaved, BeginFailed, proc, ControlInv, LifeInv
  <2>2. CASE CleanAudio
    BY <2>2 DEF CleanAudio, Removing, proc, ControlInv, LifeInv
  <2>3. CASE BeginExit
    BY <2>3 DEF BeginExit
  <2> QED BY <2>1, <2>2, <2>3 DEF Captures
<1>2. ~Recover
  BY <1>1 DEF Recover
<1>3. CoreStep
  BY <1>1, <1>2, ExitsForget, MemoryNext
<1> QED BY <1>3, SnapTaken

\* The snapshot of the transaction that begins, and of the shutdown.
LEMMA CapturedSnap ==
  /\ Takes \/ CleanAudio => txn'.snap = PersistentState'
  /\ BeginExit => exit' = PersistentState'
<1>1. ASSUME NEW call, NEW back, PersistFor(call, back) PROVE txn'.snap = PersistentState'
  <2> DEFINE p == PersistentState'
  <2>1. txn' = [call |-> call, snap |-> p, back |-> back, phase |-> "writing"]
    BY <1>1 DEF PersistFor
  <2> HIDE DEF p
  <2>2. txn'.snap = p
    BY <2>1
  <2> QED BY <2>2 DEF p
<1>2. ASSUME Takes PROVE txn'.snap = PersistentState'
  <2>1. PICK call, back : PersistFor(call, back)
    BY <1>2 DEF Takes, BeginHello, BeginCase, BeginEnd, BeginForeign, BeginTranscribing,
       BeginSaved, BeginFailed, Persist
  <2> QED BY <1>1, <2>1
<1>3. ASSUME CleanAudio PROVE txn'.snap = PersistentState'
  <2>1. PersistFor(txn.call, None)
    BY <1>3 DEF CleanAudio
  <2> QED BY <1>1, <2>1
<1>4. ASSUME BeginExit PROVE exit' = PersistentState'
  BY <1>4 DEF BeginExit
<1> QED BY <1>2, <1>3, <1>4

\* A restart writes what it restored.
LEMMA RecoverSnaps ==
  ASSUME FramesInv, SnapsOK, Recover
  PROVE  SnapOK(disk') /\ undo' = undo /\ exit' = exit /\ ~Begun'
<1>1. undo' = undo /\ exit' = exit
  BY DEF Recover
<1>2. ~Begun'
  BY NoTxnPhase DEF Recover, FramesInv, DownIsEmpty, Begun
<1>3. SnapOK(disk)
  BY DEF SnapsOK
<1>4. CASE disk' = disk
  BY <1>1, <1>2, <1>3, <1>4
<1>5. CASE disk' # disk
  <2>1. PICK stuck \in SUBSET SettledFiles :
          LET dw == RecoveredDevice(stuck)
          IN /\ cm' = FailAllowed(RestoreState(disk.cm), LostJobs)
             /\ disk' = IF dw.jobs = disk.jobs THEN disk ELSE PersistentState'
             /\ \E order \in Orders(UnfinishedJobs(dw.jobs)) :
                  dev' = [dw EXCEPT !.queue = RecoveredQueue(order, dw.jobs)]
    BY <1>5, RecoveredWork
  <2> DEFINE dw == RecoveredDevice(stuck)
             p  == PersistentState'
  <2>2. PICK order \in Orders(UnfinishedJobs(dw.jobs)) :
          dev' = [dw EXCEPT !.queue = RecoveredQueue(order, dw.jobs)]
    BY <2>1
  <2>3. Core(cm', dev', {})
    BY <1>3, <2>1, <2>2, CoreRecovers
  <2>4. p = [cm |-> ExportState(cm'), acks |-> dev'.persistent, durable |-> dev'.durable,
             jobs |-> dev'.jobs]
    BY DEF PersistentState
  <2>5. disk' = p
    BY <1>5, <2>1
  <2> HIDE DEF p, dw
  <2>6. SnapOK(p)
    BY <2>3, <2>4, SnapFromCore
  <2> QED BY <1>1, <1>2, <2>5, <2>6
<1> QED BY <1>4, <1>5

LEMMA SnapsNext ==
  ASSUME Disciplined, FramesInv, ControlInv, WorkInv, RestoreInv, [Next]_vars
  PROVE  SnapsOK'
<1>1. SnapsOK /\ LifeInv
  BY DEF RestoreInv, ControlInv
<1>2. CASE Recover
  <2>1. SnapOK(disk') /\ undo' = undo /\ exit' = exit /\ ~Begun'
    BY <1>1, <1>2, RecoverSnaps
  <2> QED BY <1>1, <2>1 DEF SnapsOK
<1>3. ASSUME ~Recover PROVE SnapOK(disk')
  BY <1>1, <1>3, StoreMoves DEF SnapsOK
<1>4. ASSUME ~Recover, undo' # None PROVE SnapOK(undo')
  BY <1>1, <1>4, StoreMoves DEF SnapsOK
<1>5. ASSUME ~Recover, exit' # None PROVE SnapOK(exit')
  <2>1. CASE ~BeginExit
    BY <1>1, <1>5, <2>1, StoreMoves DEF SnapsOK
  <2>2. CASE BeginExit
    <3>1. ~ForgetProcess
      BY <1>5 DEF ForgetProcess
    <3>2. SnapOK(PersistentState') /\ exit' = PersistentState'
      BY <2>2, <3>1, CapturesCore, CapturedSnap DEF Captures
    <3> QED BY <3>2
  <2> QED BY <2>1, <2>2
<1>6. ASSUME ~Recover, Begun' PROVE SnapOK(txn'.snap)
  <2>1. ~ForgetProcess /\ ~Crash
    BY <1>6, NoTxnPhase DEF Begun, ForgetProcess, Crash
  <2>2. CASE txn' = txn /\ Begun
    BY <1>1, <2>2 DEF SnapsOK
  <2>3. CASE RenameState /\ Begun
    <3>1. txn # NoTxn /\ txn' = [txn EXCEPT !.phase = "renamed"]
      BY <2>3 DEF RenameState
    <3>2. txn'.snap = txn.snap
      BY <3>1 DEF FramesInv, TxnShape
    <3> QED BY <1>1, <2>3, <3>2 DEF SnapsOK
  <2>4. CASE CleanAudio \/ Takes
    <3>1. SnapOK(PersistentState') /\ txn'.snap = PersistentState'
      BY <2>1, <2>4, CapturesCore, CapturedSnap DEF Captures
    <3> QED BY <3>1
  <2> QED BY <1>1, <1>6, <2>1, <2>2, <2>3, <2>4, ExitsForget, BegunStep
<1> QED BY <1>2, <1>3, <1>4, <1>5, <1>6 DEF SnapsOK

----------------------------------------------------------------------------
(* The invariant, and the theorem.                                         *)

\* A new process knows nothing yet.
LEMMA MemoryFresh ==
  ASSUME txn = NoTxn, tail = <<>>, cm = EmptyCaseManager, dev = FreshDevice
  PROVE  MemoryInv /\ CallsOK /\ QueueOK
<1>1. MemoryInv
  BY EndsFacts, CoreFresh DEF MemoryInv
<1>2. CallsOK
  BY NoTxnPhase DEF CallsOK, Outstanding, Begun
<1>3. QueueOK
  BY FreshIsEmpty DEF QueueOK
<1> QED BY <1>1, <1>2, <1>3

LEMMA MemoryForgotten ==
  ASSUME ForgetProcess PROVE MemoryInv' /\ CallsOK' /\ QueueOK'
<1>1. /\ txn' = NoTxn /\ tail' = <<>> /\ cm' = EmptyCaseManager /\ dev' = FreshDevice
  BY DEF ForgetProcess
<1>2. MemoryInv'
  BY <1>1, EndsFacts, CoreFresh DEF MemoryInv
<1>3. CallsOK'
  BY <1>1, NoTxnPhase DEF CallsOK, Outstanding, Begun
<1>4. QueueOK'
  BY <1>1, FreshIsEmpty DEF QueueOK
<1> QED BY <1>2, <1>3, <1>4

LEMMA MemoryRecovers ==
  ASSUME FramesInv, LifeInv, RestoreInv, Recover PROVE MemoryInv' /\ CallsOK' /\ QueueOK'
<1>1. /\ writable /\ txn = NoTxn /\ txn' = txn /\ tail' = <<>> /\ Ends' = {}
      /\ SnapOK(disk)
  BY EndsFacts DEF Recover, FramesInv, DownIsEmpty, LifeInv, RestoreInv, SnapsOK
<1>2. MemoryInv /\ CallsOK /\ QueueOK
  BY <1>1 DEF RestoreInv
<1>3. CallsOK'
  BY <1>1, NoTxnPhase DEF CallsOK, Outstanding, Begun
<1>4. CASE UNCHANGED <<mode, dev, cm, disk>>
  <2>1. Ends' = Ends
    BY <1>1, EndsFacts
  <2> QED BY <1>2, <1>3, <1>4, <2>1 DEF MemoryInv, QueueOK
<1>5. CASE ~UNCHANGED <<mode, dev, cm, disk>>
  <2>1. PICK stuck \in SUBSET SettledFiles :
          LET dw == RecoveredDevice(stuck)
          IN /\ cm' = FailAllowed(RestoreState(disk.cm), LostJobs)
             /\ \E order \in Orders(UnfinishedJobs(dw.jobs)) :
                  dev' = [dw EXCEPT !.queue = RecoveredQueue(order, dw.jobs)]
    BY <1>5, RecoveredWork
  <2> DEFINE dw == RecoveredDevice(stuck)
  <2>2. PICK order \in Orders(UnfinishedJobs(dw.jobs)) :
          dev' = [dw EXCEPT !.queue = RecoveredQueue(order, dw.jobs)]
    BY <2>1
  <2>3. Core(cm', dev', {}) /\ QueueOK'
    BY <1>1, <2>1, <2>2, CoreRecovers
  <2> QED BY <1>1, <1>3, <2>3 DEF MemoryInv
<1> QED BY <1>4, <1>5

LEMMA RestoreNext ==
  ASSUME Disciplined, FramesInv, FramesInv', ControlInv, ControlInv', WorkInv, RestoreInv, [Next]_vars
  PROVE  RestoreInv'
<1>1. TriesOK'
  BY TriesNext DEF RestoreInv
<1>2. SnapsOK'
  BY SnapsNext
<1>3. ASSUME writable' PROVE MemoryInv' /\ CallsOK' /\ QueueOK'
  <2>1. CASE ForgetProcess
    BY <2>1, MemoryForgotten
  <2>2. CASE Recover
    BY <2>2, MemoryRecovers DEF ControlInv
  <2>3. CASE ~ForgetProcess /\ ~Recover
    <3>1. /\ writable /\ MemoryInv /\ CallsOK /\ QueueOK /\ WorkHolds(Outstanding, dev.queue)
          /\ CoreStep /\ QueueStep /\ LifeInv /\ TriesOK
      BY <1>3, <2>3, ExitsForget, MemoryNext, WorkInvNext DEF ControlInv, RestoreInv
    <3>2. ~UnwrittenCase /\ ~Crash
      BY <1>3, <2>3 DEF UnwrittenCase, Halt, Crash
    <3>3. MemoryInv'
      BY <3>1 DEF CoreStep, MemoryInv
    <3> QED BY <2>3, <3>1, <3>2, <3>3, CallsOKNext, QueueOKNext
  <2> QED BY <2>1, <2>2, <2>3
<1>4. ASSUME mode' = "up" PROVE CasesOK'
  <2>1. CASE ForgetProcess
    BY <2>1 DEF ForgetProcess, CasesOK
  <2> QED BY <1>4, <2>1, CasesNext
<1> QED BY <1>1, <1>2, <1>3, <1>4 DEF RestoreInv

\* The bounds' record of a new process.
LEMMA TriesFresh == ASSUME Init PROVE TriesOK
<1>1. ASSUME NEW v, NEW n, n \in [Segments -> Nat],
             spent = [tries |-> n, faults |-> 0, stops |-> 0, foreign |-> 0, failed |-> v]
      PROVE  TriesOK
  BY <1>1 DEF TriesOK
<1> DEFINE n == [s \in Segments |-> 0]
           v == FALSE
<1>2. n \in [Segments -> Nat]
  OBVIOUS
<1>3. spent = [tries |-> n, faults |-> 0, stops |-> 0, foreign |-> 0, failed |-> v]
  BY Zenon DEF Init
<1> HIDE DEF n, v
<1> QED BY <1>1, <1>2, <1>3

LEMMA RestoreInit == ASSUME Init PROVE ControlInv /\ WorkInv /\ RestoreInv
<1>1. /\ mode = "up" /\ writable /\ exit = None /\ txn = NoTxn /\ tail = <<>> /\ undo = None
      /\ cm = EmptyCaseManager /\ dev = FreshDevice /\ disk = EmptyDisk
  BY DEF Init
<1>2. ControlInv
  BY <1>1, NoTxnPhase DEF ControlInv, LifeInv, UndoInv
<1>3. WorkInv
  BY <1>1, FreshIsEmpty, EmptyWork, NoQueueShape DEF WorkInv, Outstanding
<1>4. SnapsOK
  BY <1>1, NoTxnPhase, EmptyDiskOK DEF SnapsOK, Begun
<1>5. CasesOK
  BY <1>1 DEF CasesOK
<1> QED BY <1>1, <1>2, <1>3, <1>4, <1>5, MemoryFresh, TriesFresh DEF RestoreInv

\* The validation of a restart is implied by what was true in memory.
LEMMA SnapRestores == ASSUME NEW snap, SnapOK(snap) PROVE Restorable(snap)
<1>1. /\ MayRestoreState(snap.cm) /\ snap.jobs \in [Segments -> Job] /\ snap.durable \subseteq Segments
      /\ \A s \in Segments : /\ RowSound(snap.cm, s)
                             /\ JobSound(snap.cm, snap.acks, snap.durable, snap.jobs, s)
  BY DEF SnapOK, Sound
<1>2. None \notin Files
  BY PipelineAssumption DEF Files
<1>3. ASSUME NEW s \in Segments, s \in snap.durable
      PROVE  /\ snap.cm.seg[s].case = snap.cm.current[Device] /\ Live(snap.cm, s)
             /\ End(s) \in snap.acks
  BY <1>1, <1>3 DEF RowSound, JobSound, Live, Job, Statuses
<1>4. ASSUME NEW s \in Segments, snap.jobs[s].status # "none"
      PROVE  /\ s \in snap.durable /\ snap.cm.seg[s].state = snap.jobs[s].status
             /\ Pending(snap.jobs[s]) => snap.jobs[s].file # None
  <2>1. s \in snap.durable
    BY <1>1, <1>4 DEF JobSound, NoJob
  <2> QED BY <1>1, <1>2, <2>1 DEF JobSound, FileOf
<1> QED BY <1>1, <1>3, <1>4 DEF Restorable

LedgerInv == FramesInv /\ ControlInv /\ WorkInv /\ RestoreInv

\* While the process may write, rows, ACKs, durable segments, jobs, stream, commits
\* and waiting transactions of a device that follows the protocol agree, and every
\* snapshot is of such memory (createDeviceRecord, #persistentState).
THEOREM LedgerIsSound == Disciplined => (Spec => []LedgerInv)
<1> SUFFICES ASSUME Disciplined PROVE Spec => []LedgerInv
  OBVIOUS
<1>1. Init => LedgerInv
  BY InitFrames, RestoreInit DEF LedgerInv
<1>2. PipelineInv /\ PipelineInv' /\ LedgerInv /\ [Next]_vars => LedgerInv'
  <2>1. PipelineInv' => FramesInv'
    BY DEF PipelineInv
  <2> QED BY <2>1, ControlNext, WorkInvNext, RestoreNext DEF LedgerInv
<1>3. Spec => []PipelineInv
  BY FramesAreOrderly
<1> QED BY <1>1, <1>2, <1>3, PTL DEF Spec, Safety

\* Every state that reaches the disk, or that a power failure brings back, passes
\* the validation of the next start (restorePersistentState, L457-582), for a
\* device that follows the protocol.
THEOREM SnapshotsRestore == Disciplined => (Spec => []EverySnapshotRestores)
<1> SUFFICES ASSUME Disciplined PROVE Spec => []EverySnapshotRestores
  OBVIOUS
<1>1. LedgerInv => EverySnapshotRestores
  BY SnapRestores DEF LedgerInv, RestoreInv, SnapsOK, EverySnapshotRestores, OnDisk
<1>2. Spec => []LedgerInv
  BY LedgerIsSound
<1> QED BY <1>1, <1>2, PTL

----------------------------------------------------------------------------
(* The recordings that are open.                                           *)

\* The stream belongs to the recording its connection is in, unless that ended.
StreamOn(cn, dv) ==
  dv.active # NoStream => dv.active.committing \/ cn[dv.active.owner].on = dv.active.seg

OpenHeld(m, dv) ==
  \A s \in Segments : m.seg[s].state = "receiving" =>
    \/ dv.active # NoStream /\ dv.active.seg = s /\ ~dv.active.replay
    \/ dv.commits[s].step # "none"

\* The current connection has said hello.
CurrentIsKnown == \A k \in Conns : current = k => conn[k].phase # "fresh"

OpenInv ==
  /\ CurrentIsKnown
  /\ mode = "up" => StreamOn(conn, dev) /\ OpenHeld(cm, dev)

\* No connection says hello twice, and none changes the recording it is in.
ConnKept ==
  /\ current' = current
  /\ \A j \in Conns : /\ conn'[j].on = conn[j].on
                      /\ conn'[j].phase = "fresh" => conn[j].phase = "fresh"

OpenKept == StreamOn(conn', dev') /\ OpenHeld(cm', dev')

LEMMA KnownStays == ASSUME ConnKept, CurrentIsKnown PROVE CurrentIsKnown'
BY DEF ConnKept, CurrentIsKnown

LEMMA StreamLeaves ==
  ASSUME FramesInv, StreamOn(conn, dev), dev'.active \in {dev.active, NoStream},
         \A j \in Conns : conn'[j].on = conn[j].on
  PROVE  StreamOn(conn', dev')
BY DEF StreamOn, FramesInv, FramesHold, StreamHolds

\* What is still received has the stream or the commit it had.
LEMMA HeldStays ==
  ASSUME NEW m, NEW dv, OpenHeld(m, dv), NEW n, NEW dw,
         \A t \in Segments : n.seg[t].state = "receiving" =>
           /\ m.seg[t].state = "receiving"
           /\ dv.commits[t].step # "none" => dw.commits[t].step # "none"
           /\ dv.active # NoStream /\ dv.active.seg = t /\ ~dv.active.replay =>
                dw.active = dv.active \/ dw.commits[t].step # "none"
  PROVE  OpenHeld(n, dw)
BY DEF OpenHeld

\* Neither the rows nor the stream nor a commit changes.
LEMMA QuietOpen ==
  ASSUME FramesInv, StreamOn(conn, dev), OpenHeld(cm, dev), cm' = cm,
         dev' = dev \/ OnlyQueue(dev, dev'), \A j \in Conns : conn'[j].on = conn[j].on
  PROVE  OpenKept
<1>1. dev'.active = dev.active /\ dev'.commits = dev.commits
  BY DEF OnlyQueue
<1>2. StreamOn(conn', dev')
  BY <1>1, StreamLeaves
<1>3. OpenHeld(cm', dev')
  BY <1>1, HeldStays
<1> QED BY <1>2, <1>3 DEF OpenKept

\* A connection that is in no recording owns no stream, and nobody else does.
LEMMA NothingOwned ==
  ASSUME FramesInv, MemoryInv, OwnerIsCurrent, StreamOn(conn, dev), NEW k \in Conns, Ready(k),
         conn[k].on = None
  PROVE  dev.active = NoStream
<1> SUFFICES ASSUME dev.active # NoStream PROVE FALSE
  OBVIOUS
<1>1. mode = "up" /\ current = k /\ conn[k].busy = "no"
  BY DEF Ready
<1>2. Owns(k)
  BY <1>1 DEF OwnerIsCurrent, Owns
<1>3. dev.active.seg \in Segments /\ dev.commits[dev.active.seg].step = "none"
  BY <1>1, <1>2, OwnIsIdle
<1>4. dev.active.seg = None
  BY <1>2, <1>3 DEF StreamOn, Owns, MemoryInv, Core, OwnerSound
<1> QED BY <1>3, <1>4, PipelineAssumption

\* Of an idle connection: its stream is of the recording it is in.
LEMMA OwnedIsOn ==
  ASSUME FramesInv, MemoryInv, OwnerIsCurrent, StreamOn(conn, dev), mode = "up",
         NEW k \in Conns, current = k, conn[k].busy \in {"no", "wait"}, dev.active # NoStream
  PROVE  Owns(k) /\ dev.active.seg \in Segments /\ dev.active.seg = conn[k].on
         /\ dev.commits[dev.active.seg].step = "none"
<1>1. Owns(k)
  BY DEF OwnerIsCurrent, Owns
<1>2. dev.active.seg \in Segments /\ dev.commits[dev.active.seg].step = "none"
  BY <1>1 DEF Owns, FramesInv, FramesHold, StreamHolds, CommitsHold
<1>3. ~dev.active.committing
  BY <1>2 DEF MemoryInv, Core, OwnerSound
<1> QED BY <1>1, <1>2, <1>3 DEF StreamOn, Owns

\* A durable recording is received no more.
LEMMA DurableIsEnded ==
  ASSUME NEW m, NEW dv, NEW ends, Core(m, dv, ends), NEW s \in Segments, s \in dv.durable
  PROVE  m.seg[s].state # "receiving"
BY DEF Core, Sound, JobSound, Job, Statuses

\* A stream for a recording that is the only one streamed.
LEMMA StreamTaken ==
  ASSUME OpenHeld(cm, dev), NEW s \in Segments,
         dev.active # NoStream => dev.active.seg = s,
         dev'.commits = dev.commits, dev'.active # NoStream, dev'.active.seg = s,
         dev'.active.replay => cm'.seg[s].state # "receiving",
         \A t \in Segments : t # s => cm'.seg[t].state = cm.seg[t].state
  PROVE  OpenHeld(cm', dev')
BY DEF OpenHeld

LEMMA OpenStreamOpen ==
  ASSUME FramesInv, MemoryInv, CoreStep, OpenHeld(cm, dev), NEW k \in Conns, NEW c,
         NEW s \in Segments, OpenStream(k, c, s), c \in Cases,
         dev.active # NoStream => dev.active.seg = s
  PROVE  OpenHeld(cm', dev') /\ dev'.active # NoStream /\ dev'.active.owner = k
         /\ dev'.active.seg = s
<1>1. DevShape(dev)
  BY DevHasShape
<1>2. dev'.commits = dev.commits /\ dev'.durable = dev.durable
  BY <1>1, OpenStreamFields
<1>3. PICK a : /\ NewStream(a, s) /\ dev'.active = a
               /\ \/ ResumesProgress(k, c, s) /\ dev'.progress = dev.progress /\ cm' = cm
                  \/ /\ ReplaysDurable(c, s) /\ a.replay
                     /\ dev'.progress = dev.progress /\ cm' = cm
                  \/ /\ OpensSegment(c, s)
                     /\ dev'.progress = FirstSequence(dev.progress, s)
                     /\ cm' = StartSegment(cm, c, s, SpeakerOf[s])
  BY <1>1, OpenStreamAs
<1>4. dev'.active.owner = k /\ dev'.active.seg = s
  <2> DEFINE first == FirstStream(k, s)
             again == ReplayStream(k, s)
  <2>1. dev'.active \in {first, again}
    BY <1>1, OpenStreamFields
  <2>2. first.owner = k /\ first.seg = s /\ again.owner = k /\ again.seg = s
    BY DEF FirstStream, ReplayStream, Recording
  <2> HIDE DEF first, again
  <2> QED BY <2>1, <2>2
<1>5. dev'.active # NoStream
  BY <1>4, PipelineAssumption DEF NoStream
<1>6. \A t \in Segments : t # s => cm'.seg[t].state = cm.seg[t].state
  <2>1. CASE cm' = cm
    BY <2>1
  <2>2. CASE cm' = StartSegment(cm, c, s, SpeakerOf[s]) /\ OpensSegment(c, s)
    <3>1. MayStartSegment(cm, c, s, SpeakerOf[s]) /\ SpeakerOf[s] \in Speakers
      BY <2>2, PipelineAssumption DEF OpensSegment
    <3>2. OneRow(cm, cm', s, c, IF Live(cm, s) /\ cm.seg[s].state # "failed" THEN cm.seg[s].state
                                ELSE "receiving")
      BY <2>2, <3>1, NoPcm, StartSegmentRow
    <3> QED BY <3>2 DEF OneRow
  <2> QED BY <1>3, <2>1, <2>2
<1>7. dev'.active.replay => cm'.seg[s].state # "receiving"
  <2>1. CASE s \in dev.durable
    BY <1>2, <2>1, DurableIsEnded DEF CoreStep
  <2>2. CASE s \notin dev.durable
    <3>1. ~dev'.active.replay
      <4> DEFINE first == FirstStream(k, s)
      <4>1. dev'.active = first
        BY <1>1, <2>2, OpenStreamFields DEF ReplaysDurable
      <4>2. first.replay = FALSE
        BY DEF FirstStream, Recording
      <4> HIDE DEF first
      <4> QED BY <4>1, <4>2
    <3> QED BY <3>1
  <2> QED BY <2>1, <2>2
<1> QED BY <1>2, <1>4, <1>5, <1>6, <1>7, StreamTaken

----------------------------------------------------------------------------
(* What each action does to them.                                          *)

OpenGiven ==
  /\ Disciplined /\ FramesInv /\ MemoryInv /\ OwnerIsCurrent /\ mode = "up" /\ CoreStep
  /\ CurrentIsKnown /\ StreamOn(conn, dev) /\ OpenHeld(cm, dev)

LEMMA OnStays ==
  ASSUME FramesInv, NEW k \in Conns, NEW busy, NEW on,
         conn' = [conn EXCEPT ![k].busy = busy, ![k].on = on]
  PROVE  \A j \in Conns : conn'[j].on = IF j = k THEN on ELSE conn[j].on
<1> DEFINE row == [conn[k] EXCEPT !.busy = busy]
           cn  == [conn EXCEPT ![k] = row]
<1>1. conn = [j \in Conns |-> conn[j]]
      /\ conn[k] = [phase |-> conn[k].phase, busy |-> conn[k].busy, on |-> conn[k].on]
  BY ConnHasShape DEF ConnsHold, ConnShape
<1>2. row = [phase |-> conn[k].phase, busy |-> busy, on |-> conn[k].on]
  BY <1>1
<1>3. conn' = [cn EXCEPT ![k].on = on]
  OBVIOUS
<1> HIDE DEF row
<1>4. /\ cn = [j \in Conns |-> cn[j]] /\ \A j \in Conns : j # k => cn[j] = conn[j]
      /\ cn[k] = row
  BY <1>1
<1> HIDE DEF cn
<1> DEFINE last == [row EXCEPT !.on = on]
<1>5. last.on = on
  BY <1>2
<1>6. conn' = [cn EXCEPT ![k] = last]
  BY <1>3, <1>4
<1> HIDE DEF last
<1> QED BY <1>4, <1>5, <1>6

LEMMA StartSpeechOpen ==
  ASSUME OpenGiven, NEW k \in Conns, NEW c \in Cases, NEW s \in Segments, StartSpeech(k, c, s)
  PROVE  CurrentIsKnown' /\ OpenKept
<1>1. /\ Ready(k) /\ conn[k].on = None /\ OpenStream(k, c, s) /\ current' = current
      /\ conn' = [conn EXCEPT ![k].on = s]
  BY DEF StartSpeech, OpenGiven
<1>2. dev.active = NoStream
  BY <1>1, NothingOwned DEF OpenGiven
<1>3. OpenHeld(cm', dev') /\ dev'.active.owner = k /\ dev'.active.seg = s
  BY <1>1, <1>2, OpenStreamOpen DEF OpenGiven
<1>4. conn'[k].on = s /\ \A j \in Conns : conn'[j].phase = conn[j].phase
  BY <1>1, ConnHasShape DEF OpenGiven, ConnsHold, ConnShape
<1> QED BY <1>1, <1>3, <1>4 DEF OpenKept, StreamOn, CurrentIsKnown, OpenGiven

LEMMA IdleKept ==
  ASSUME FramesInv, NEW k, conn' = Idle(k), current' = current PROVE ConnKept
BY ConnHasShape, IdleHolds DEF ConnKept

LEMMA ResumeStartOpen ==
  ASSUME OpenGiven, NEW k \in Conns, ResumeStart(k) PROVE CurrentIsKnown' /\ OpenKept
<1> DEFINE s == conn[k].on
           c == cm.seg[s].case
<1>1. /\ conn[k].busy = "wait" /\ conn' = Idle(k) /\ current' = current
      /\ \/ cm' = cm /\ dev' = dev
         \/ /\ StillCurrent(k)
            /\ \/ /\ s \in dev.durable
                  /\ dev' = [dev EXCEPT !.active = ReplayStream(k, s)] /\ cm' = cm
               \/ c # None /\ OpenStream(k, c, s)
  <2>1. RefuseStream(k, c, s) => cm' = cm /\ dev' = dev
    BY DEF RefuseStream
  <2> QED BY <2>1 DEF ResumeStart, Resumable, ReplayStream
<1>2. ConnKept
  BY <1>1, IdleKept DEF OpenGiven
<1>3. s \in Segments
  BY <1>1, ConnHasShape DEF OpenGiven, ConnsHold
<1>4. CASE cm' = cm /\ dev' = dev
  BY <1>2, <1>4, QuietOpen, KnownStays DEF OpenGiven, ConnKept
<1>5. CASE StillCurrent(k) /\ ~(cm' = cm /\ dev' = dev)
  <2>1. dev.active # NoStream => dev.active.seg = s
    BY <1>1, <1>5, OwnedIsOn DEF StillCurrent, OpenGiven
  <2>2. OpenHeld(cm', dev') /\ dev'.active.owner = k /\ dev'.active.seg = s
    <3>1. CASE s \in dev.durable /\ dev' = [dev EXCEPT !.active = ReplayStream(k, s)] /\ cm' = cm
      <4> DEFINE a == ReplayStream(k, s)
      <4>1. a.owner = k /\ a.seg = s
        BY DEF ReplayStream, Recording
      <4>2. dev' = [dev EXCEPT !.active = a]
        BY <3>1
      <4> HIDE DEF a, s
      <4>3. dev'.active = a /\ dev'.commits = dev.commits
        BY <4>2, DevHasShape, ActiveFields DEF OpenGiven
      <4>4. cm.seg[s].state # "receiving"
        BY <1>3, <3>1, DurableIsEnded DEF OpenGiven, MemoryInv
      <4>5. dev'.active # NoStream
        BY <4>1, <4>3, PipelineAssumption DEF NoStream
      <4> QED BY <1>3, <2>1, <3>1, <4>1, <4>3, <4>4, <4>5, StreamTaken DEF OpenGiven
    <3>2. CASE c # None /\ OpenStream(k, c, s)
      <4> HIDE DEF s
      <4>1. c = CaseOf[s] /\ CaseOf[s] \in Cases
        BY <1>3, <3>2, LiveIsCurrent DEF OpenGiven
      <4> HIDE DEF c
      <4> QED BY <1>3, <2>1, <3>2, <4>1, OpenStreamOpen DEF OpenGiven
    <3> HIDE DEF s, c
    <3> QED BY <1>1, <1>5, <3>1, <3>2
  <2>3. StreamOn(conn', dev')
    BY <1>2, <2>2 DEF StreamOn, ConnKept
  <2> QED BY <1>2, <2>2, <2>3, KnownStays DEF OpenKept, OpenGiven
<1> HIDE DEF s, c
<1> QED BY <1>1, <1>4, <1>5

\* The recordings of a set fail.
LEMMA FailedHeld ==
  ASSUME MemoryInv, OpenHeld(cm, dev), NEW S, cm' = FailAllowed(cm, S),
         \A t \in Segments : t \notin S =>
           /\ dev.commits[t].step # "none" => dev'.commits[t].step # "none"
           /\ dev.active # NoStream /\ dev.active.seg = t /\ ~dev.active.replay =>
                dev'.active = dev.active
  PROVE  OpenHeld(cm', dev')
<1>1. AllFailed(cm, cm', S)
  BY NoPcm, FailAllowedRows
<1>2. \A t \in Segments : cm'.seg[t].state = "receiving" =>
        t \notin S /\ cm.seg[t].state = "receiving"
  BY <1>1 DEF AllFailed, ActiveStates
<1> QED BY <1>2, HeldStays

LEMMA FailRecordingHeld ==
  ASSUME FramesInv, MemoryInv, OpenHeld(cm, dev), FailRecording(dev.active.seg)
  PROVE  OpenHeld(cm', dev') /\ dev'.active = NoStream
<1> DEFINE s == dev.active.seg
<1> HIDE DEF s
<1>1. FailRecording(s)
  BY DEF s
<1>2. /\ dev'.active = NoStream /\ dev'.commits = dev.commits /\ cm' = FailAllowed(cm, {s})
  BY <1>1, DevHasShape, FailRecordingFields
<1>3. \A t \in Segments : t \notin {s} => dev.active.seg # t
  BY DEF s
<1> QED BY <1>2, <1>3, FailedHeld

\* The owner of the stream goes.
LEMMA AbandonHeld ==
  ASSUME FramesInv, MemoryInv, OpenHeld(cm, dev), dev.active # NoStream, AbandonActive
  PROVE  OpenHeld(cm', dev') /\ dev'.active = NoStream
<1>1. /\ dev'.active = NoStream /\ dev'.commits = dev.commits
      /\ IF Abandonable(dev.active)
         THEN cm' = FailAllowed(cm, {dev.active.seg})
         ELSE cm' = cm
  BY DevHasShape, AbandonFields
<1>2. CASE Abandonable(dev.active)
  <2>1. \A t \in Segments : t \notin {dev.active.seg} => dev.active.seg # t
    OBVIOUS
  <2> QED BY <1>1, <1>2, <2>1, FailedHeld
<1>3. CASE ~Abandonable(dev.active)
  <2>1. ~dev.active.replay => dev.commits[dev.active.seg].step # "none"
    BY <1>3 DEF Abandonable, MemoryInv, Core, OwnerSound
  <2> QED BY <1>1, <1>3, <2>1, HeldStays
<1> QED BY <1>2, <1>3

LEMMA AppendSpeechOpen ==
  ASSUME OpenGiven, NEW k \in Conns, NEW sequence \in 0..MaxPcm, AppendSpeech(k, sequence)
  PROVE  CurrentIsKnown' /\ OpenKept
<1> DEFINE s == dev.active.seg
           one == [dev EXCEPT !.progress[s] = @ + 1]
<1>1. ConnKept /\ conn' = conn
  BY DEF AppendSpeech, ConnKept
<1>2. \/ FailRecording(dev.active.seg)
      \/ /\ dev' = one \/ dev' = dev
         /\ \E payload \in Payloads : /\ MayAppendChunk(cm, s, sequence, payload)
                                      /\ cm' = AppendChunk(cm, s, sequence, payload)
  BY DEF AppendSpeech
<1>3. CASE FailRecording(dev.active.seg)
  <2>1. OpenHeld(cm', dev') /\ dev'.active = NoStream
    BY <1>3, FailRecordingHeld DEF OpenGiven
  <2> QED BY <1>1, <2>1, KnownStays DEF OpenKept, StreamOn, OpenGiven
<1>4. ASSUME NEW payload \in Payloads, MayAppendChunk(cm, s, sequence, payload),
             cm' = AppendChunk(cm, s, sequence, payload), dev' = one \/ dev' = dev
      PROVE  OpenKept
  <2>1. s \in Segments
    BY OwnIsIdle DEF AppendSpeech, Ready, OpenGiven
  <2>2. dev'.active = dev.active /\ dev'.commits = dev.commits
    <3>1. DevShape(dev)
      BY DevHasShape DEF OpenGiven
    <3>2. CASE dev' = one
      <4> DEFINE p == [dev.progress EXCEPT ![s] = @ + 1]
      <4>1. dev' = [dev EXCEPT !.progress = p]
        BY <3>2
      <4> HIDE DEF p
      <4> QED BY <3>1, <4>1 DEF DevShape
    <3> HIDE DEF one
    <3> QED BY <1>4, <3>2
  <2>3. sequence \in Nat /\ Good(cm) /\ cm.seg[s].pcm = FALSE
    <3>1. sequence \in Nat
      BY LimitAssumption
    <3> QED BY <2>1, <3>1, NoPcm DEF OpenGiven
  <2> HIDE DEF s, one
  <2>4. OneRow(cm, cm', s, cm.seg[s].case, cm.seg[s].state)
    BY <1>4, <2>1, <2>3, AppendChunkRow
  <2>5. \A t \in Segments : cm'.seg[t].state = cm.seg[t].state
    BY <2>4 DEF OneRow
  <2>6. OpenHeld(cm', dev')
    BY <2>2, <2>5, HeldStays DEF OpenGiven
  <2> QED BY <1>1, <2>2, <2>6, StreamLeaves DEF OpenKept, OpenGiven
<1> HIDE DEF s, one
<1> QED BY <1>1, <1>2, <1>3, <1>4, KnownStays DEF OpenGiven

\* The frame that a connection ends: its own stream.
LEMMA EndOpen ==
  ASSUME OpenGiven, NEW k \in Conns, NEW s \in Segments,
         EndReplayed(k, s) \/ EndMismatch(k, s) \/ EndMissing(k, s)
  PROVE  CurrentIsKnown' /\ OpenKept
<1>1. /\ Ready(k) /\ conn[k].on = s /\ current' = current
      /\ conn' = [conn EXCEPT ![k].on = None]
  BY DEF EndReplayed, EndMismatch, EndMissing, MayEnd, OpenGiven
<1>2. \A j \in Conns : conn'[j].phase = conn[j].phase
  BY <1>1, ConnHasShape DEF OpenGiven, ConnsHold, ConnShape
<1>3. CurrentIsKnown'
  BY <1>1, <1>2 DEF CurrentIsKnown, OpenGiven
<1>4. dev.active # NoStream => Owns(k) /\ dev.active.seg = s
  BY <1>1, OwnedIsOn DEF Ready, OpenGiven
<1>5. CASE EndMismatch(k, s)
  <2>1. FailRecording(dev.active.seg)
    BY <1>5 DEF EndMismatch
  <2>2. OpenHeld(cm', dev') /\ dev'.active = NoStream
    BY <2>1, FailRecordingHeld DEF OpenGiven
  <2> QED BY <1>3, <2>2 DEF OpenKept, StreamOn
<1>6. CASE EndMissing(k, s)
  <2>1. dev.active = NoStream /\ dev' = dev /\ cm' = cm
    BY <1>4, <1>6 DEF EndMissing
  <2> QED BY <1>3, <2>1 DEF OpenKept, StreamOn, OpenGiven
<1>7. CASE EndReplayed(k, s)
  <2>1. /\ cm' = cm /\ End(s) \in dev.acks
        /\ dev' = IF Owns(k) /\ dev.active.replay /\ dev.active.seg = s
                  THEN [dev EXCEPT !.active = NoStream] ELSE dev
    BY <1>7 DEF EndReplayed
  <2>2. dev.active # NoStream => dev.active.replay
    BY <1>4, <2>1 DEF OpenGiven, MemoryInv, Core, StreamSound
  <2>3. dev'.active = NoStream /\ dev'.commits = dev.commits
    BY <1>4, <2>1, <2>2, DevHasShape DEF OpenGiven, DevShape
  <2>4. OpenHeld(cm', dev')
    <3>1. OpenHeld(cm, dev) /\ cm' = cm
      BY <2>1 DEF OpenGiven
    <3>2. ASSUME NEW t \in Segments, cm.seg[t].state = "receiving"
          PROVE  dev'.commits[t].step # "none"
      BY <2>2, <2>3, <3>1, <3>2 DEF OpenHeld
    <3> QED BY <3>1, <3>2 DEF OpenHeld
  <2> QED BY <1>3, <2>3, <2>4 DEF OpenKept, StreamOn
<1> QED BY <1>5, <1>6, <1>7

LEMMA EndSpeechOpen ==
  ASSUME OpenGiven, NEW k \in Conns, NEW s \in Segments, EndSpeech(k, s)
  PROVE  CurrentIsKnown' /\ OpenKept
<1> DEFINE row == [k |-> k, stale |-> FALSE, file |-> None, step |-> "writing"]
           a == Committing(dev.active)
<1>1. /\ cm' = cm /\ current' = current /\ dev.active # NoStream /\ dev.active.seg = s
      /\ conn' = [conn EXCEPT ![k].busy = "commit", ![k].on = None]
  BY DEF EndSpeech, Owns
<1>2. OnlyCommit(dev, dev', s, row) /\ dev'.active = a
  BY DevHasShape, EndSpeechFields DEF OpenGiven
<1>3. a.committing
  BY <1>1, CommittingFields DEF OpenGiven, MemoryInv, Core, OwnerSound
<1>4. row.step = "writing"
  OBVIOUS
<1> HIDE DEF row, a
<1>5. OpenHeld(cm', dev')
  BY <1>1, <1>2, <1>4, HeldStays DEF OnlyCommit, OpenGiven
<1>6. CurrentIsKnown'
  BY <1>1, PhaseStays DEF CurrentIsKnown, OpenGiven
<1> QED BY <1>2, <1>3, <1>5, <1>6 DEF OpenKept, StreamOn

LEMMA AskedOpen ==
  ASSUME OpenGiven, NEW k \in Conns,
         \/ \E c \in Cases : SendCaseStart(k, c)
         \/ \E s \in Segments : WaitForCommit(k, s)
  PROVE  CurrentIsKnown' /\ OpenKept
<1>1. Ready(k) /\ conn[k].on = None /\ UNCHANGED <<cm, dev, current>>
  BY DEF SendCaseStart, WaitForCommit, OpenGiven
<1>2. dev.active = NoStream
  BY <1>1, NothingOwned DEF OpenGiven
<1>3. \A j \in Conns : conn'[j].phase = conn[j].phase
  <2>1. CASE \E c \in Cases : SendCaseStart(k, c)
    BY <2>1, ConnHasShape DEF SendCaseStart, ConnsHold, ConnShape, OpenGiven
  <2>2. CASE \E s \in Segments : WaitForCommit(k, s)
    <3>1. PICK s \in Segments : conn' = [conn EXCEPT ![k].busy = "wait", ![k].on = s]
      BY <2>2 DEF WaitForCommit
    <3> QED BY <3>1, PhaseStays DEF OpenGiven
  <2> QED BY <2>1, <2>2
<1>4. CurrentIsKnown'
  BY <1>1, <1>3 DEF CurrentIsKnown, OpenGiven
<1> QED BY <1>1, <1>2, <1>4 DEF OpenKept, StreamOn, OpenGiven

LEMMA CloseOpen ==
  ASSUME OpenGiven, NEW k \in Conns, CloseConnection(k) PROVE CurrentIsKnown' /\ OpenKept
<1>1. ConnKept
  BY ConnHasShape DEF CloseConnection, ConnKept, ConnsHold, ConnShape, OpenGiven
<1>2. CASE dev.active # NoStream /\ dev.active.owner = k
  <2>1. OpenHeld(cm', dev') /\ dev'.active = NoStream
    BY <1>2, AbandonHeld DEF CloseConnection, OpenGiven
  <2> QED BY <1>1, <2>1, KnownStays DEF OpenKept, StreamOn, OpenGiven
<1>3. CASE ~(dev.active # NoStream /\ dev.active.owner = k)
  <2>1. cm' = cm /\ dev' = dev
    BY <1>3 DEF CloseConnection
  <2> QED BY <1>1, <2>1, KnownStays, QuietOpen DEF ConnKept, OpenGiven
<1> QED BY <1>2, <1>3

\* A connection whose name is used again is not the current one.
LEMMA NamedOpen ==
  ASSUME OpenGiven, NEW k \in Conns, SendHello(k) \/ ForgetConnection(k)
  PROVE  CurrentIsKnown' /\ OpenKept
<1>1. cm' = cm /\ dev' = dev /\ \A j \in Conns : j # k => conn'[j] = conn[j]
  BY ConnHasShape DEF SendHello, ForgetConnection, ConnsHold, ConnShape, OpenGiven
<1>2. dev.active # NoStream => dev.active.owner \in Conns /\ dev.active.owner # k
  BY DEF SendHello, ForgetConnection, OpenGiven, CurrentIsKnown, OwnerIsCurrent, FramesInv,
         FramesHold, StreamHolds
<1>3. StreamOn(conn', dev')
  BY <1>1, <1>2 DEF StreamOn, OpenGiven
<1>4. OpenHeld(cm', dev')
  BY <1>1 DEF OpenGiven
<1>5. CurrentIsKnown'
  <2>1. CASE SendHello(k)
    <3>1. current' = current /\ current # k
      BY <2>1 DEF SendHello, CurrentIsKnown, OpenGiven
    <3> QED BY <1>1, <3>1 DEF CurrentIsKnown, OpenGiven
  <2>2. CASE ForgetConnection(k)
    <3>1. current' = IF current = k THEN None ELSE current
      BY <2>2 DEF ForgetConnection
    <3> QED BY <1>1, <3>1, PipelineAssumption DEF CurrentIsKnown, OpenGiven
  <2> QED BY <2>1, <2>2
<1> QED BY <1>3, <1>4, <1>5 DEF OpenKept

LEMMA ConnectionOpen ==
  ASSUME OpenGiven, ConnectionStep PROVE CurrentIsKnown' /\ OpenKept
<1>1. PICK k \in Conns :
        \/ SendHello(k) \/ CloseConnection(k) \/ ForgetConnection(k)
        \/ ResumeStart(k)
        \/ \E c \in Cases : SendCaseStart(k, c)
        \/ \E sequence \in 0..MaxPcm : AppendSpeech(k, sequence)
        \/ \E s \in Segments :
             \/ \E c \in Cases : StartSpeech(k, c, s)
             \/ WaitForCommit(k, s)
             \/ EndReplayed(k, s) \/ EndMismatch(k, s)
             \/ EndMissing(k, s) \/ EndSpeech(k, s)
  BY DEF ConnectionStep
<1> QED BY <1>1, NamedOpen, CloseOpen, ResumeStartOpen, AskedOpen, AppendSpeechOpen,
           StartSpeechOpen, EndOpen, EndSpeechOpen

----------------------------------------------------------------------------
(* The other steps.                                                        *)

\* hello: the connection it makes the current one is past its first frame.
LEMMA BeginHelloKnown ==
  ASSUME FramesInv, BeginHello
  PROVE  CurrentIsKnown' /\ \A j \in Conns : conn'[j].on = conn[j].on
<1> DEFINE k == Call1.k
<1>1. /\ txn = NoTxn /\ tail # <<>> /\ Call1.op = "hello" /\ current' = k
      /\ conn' = [j \in Conns |->
          IF j = k /\ conn[j].phase = "hello" THEN [conn[j] EXCEPT !.phase = "open"]
          ELSE IF j # k /\ conn[j].phase = "open"
          THEN [conn[j] EXCEPT !.phase = "closing"] ELSE conn[j]]
  BY DEF BeginHello, Starting, Call1
<1>2. k \in Conns /\ conn[k].phase # "fresh"
  <2>1. CallHolds(Call1, conn, dev)
    BY <1>1, FirstCall DEF FramesInv, FramesHold, CallsHold
  <2> QED BY <1>1, <2>1, ConnHasShape DEF CallHolds, ConnOps, ConnsHold
<1> HIDE DEF k
<1>3. ASSUME NEW j \in Conns
      PROVE  /\ conn'[j].on = conn[j].on
             /\ conn'[j].phase = "fresh" => conn[j].phase = "fresh"
  <2>1. conn[j] = [phase |-> conn[j].phase, busy |-> conn[j].busy, on |-> conn[j].on]
    BY ConnHasShape DEF ConnsHold, ConnShape
  <2>2. \/ conn'[j] = conn[j]
        \/ conn'[j] = [conn[j] EXCEPT !.phase = "open"]
        \/ conn'[j] = [conn[j] EXCEPT !.phase = "closing"]
    BY <1>1, Zenon
  <2> QED BY <2>1, <2>2
<1> QED BY <1>1, <1>2, <1>3 DEF CurrentIsKnown

LEMMA BeginHelloOpen ==
  ASSUME OpenGiven, BeginHello PROVE CurrentIsKnown' /\ OpenKept
<1>1. CurrentIsKnown' /\ \A j \in Conns : conn'[j].on = conn[j].on
  BY BeginHelloKnown DEF OpenGiven
<1>2. CASE dev.active # NoStream
  <2>1. OpenHeld(cm', dev') /\ dev'.active = NoStream
    BY <1>2, AbandonHeld DEF BeginHello, SupersedeActive, OpenGiven
  <2> QED BY <1>1, <2>1 DEF OpenKept, StreamOn
<1>3. CASE dev.active = NoStream
  <2>1. cm' = cm /\ dev' = dev
    BY <1>3 DEF BeginHello, SupersedeActive
  <2> QED BY <1>1, <2>1, QuietOpen DEF OpenGiven
<1> QED BY <1>2, <1>3

\* No other step starts a connection, or makes one the current one.
LEMMA ConnNext ==
  ASSUME FramesInv, [Next]_vars, ~ConnectionStep, ~BeginHello, ~ForgetProcess
  PROVE  ConnKept
<1>1. ASSUME current' = current, conn' = conn \/ (\E k : conn' = Idle(k)) PROVE ConnKept
  BY <1>1, IdleKept DEF ConnKept
<1>2. CASE UnwrittenHello
  <2> DEFINE k  == txn.call.k
             cn == Idle(k)
  <2>1. /\ current' = current
        /\ conn' = [cn EXCEPT ![k].phase = IF @ = "open" THEN "closing" ELSE @]
    BY <1>2 DEF UnwrittenHello, Unwritten
  <2>2. /\ ConnsHold(cn)
        /\ \A j \in Conns : cn[j].phase = conn[j].phase /\ cn[j].on = conn[j].on
    BY ConnHasShape, IdleHolds
  <2> HIDE DEF cn
  <2>3. \A j \in Conns : /\ conn'[j].phase = "fresh" => cn[j].phase = "fresh"
                         /\ conn'[j].on = cn[j].on
    BY <2>1, <2>2 DEF ConnsHold, ConnShape
  <2> QED BY <2>1, <2>2, <2>3 DEF ConnKept
<1>3. CASE TransactionStep
  BY <1>1, <1>3
     DEF TransactionStep, BeginCase, BeginRemoval, FinishFailCommit, BeginEnd, BeginForeign,
         BeginTranscribing, BeginSaved, BeginFailed, WorkAborts, CleanAudio, RefuseTransaction,
         RenameState, HelloReturns, CaseReturns, EndReturns, TranscribingReturns, OutcomeReturns,
         CleanReturns, ForeignReturns
<1>4. CASE WorkStep
  BY <1>1, <1>4 DEF WorkStep, WriteWav, StartWork, Recognise
<1>5. CASE FaultStep /\ ~UnwrittenHello
  BY <1>1, <1>5
     DEF FaultStep, WriteWavFails, CleanFails, UnwrittenCase, UnwrittenEnd, UnwrittenWork,
         UnwrittenForeign, Unwritten, CommitFailsVisible, Crash
<1>6. CASE LifeStep
  BY <1>1, <1>6 DEF LifeStep, SubmitForeign, Stop, BeginExit, FinishExit, Recover
<1>7. CASE UNCHANGED vars
  BY <1>1, <1>7 DEF vars
<1> QED BY <1>2, <1>3, <1>4, <1>5, <1>6, <1>7 DEF Next

LEMMA BeginCaseOpen ==
  ASSUME FramesInv, MemoryInv, CasesOK, StreamOn(conn, dev), OpenHeld(cm, dev), BeginCase,
         ConnKept
  PROVE  OpenKept
<1> DEFINE c == Call1.c
           all == LeftFor(c)
<1>1. c = Call1.c /\ all = LeftFor(c)
  OBVIOUS
<1>2. c \in Cases
  <2>1. txn = NoTxn /\ tail # <<>> /\ Call1.op = "case"
    BY DEF BeginCase, Starting, Call1
  <2> QED BY <2>1, FirstCall DEF CasesOK
<1> HIDE DEF c, all
<1>3. /\ cm' = StartCase(cm, Device, c) /\ MayStartCase(cm, Device, c)
      /\ \A t \in Segments :
           dev'.commits[t] = IF t \in all /\ dev.commits[t].step # "none"
                             THEN Told(dev.commits[t]) ELSE dev.commits[t]
      /\ dev'.active = IF dev.active # NoStream /\ dev.active.seg \in all THEN NoStream
                       ELSE dev.active
  BY <1>1, DevHasShape, BeginCaseFields
<1>4. /\ cm \in CaseManagerState /\ HeldCurrent(cm) /\ Device \in Devices /\ Good(cm)
  BY PipelineAssumption DEF MemoryInv, Core, Good, Shape
<1>5. StreamOn(conn', dev')
  BY <1>3, StreamLeaves DEF ConnKept
<1>6. OpenHeld(cm', dev')
  <2>1. CASE cm.owner[c] = Device
    <3>1. cm' = cm /\ cm.current[Device] = c
      BY <1>2, <1>3, <1>4, <2>1, PipelineAssumption, NoneAssumption DEF StartCase, HeldCurrent
    <3>2. \A t : t \notin all
      BY <1>1, <3>1 DEF LeftFor
    <3>3. dev'.active = dev.active /\ \A t \in Segments : dev'.commits[t] = dev.commits[t]
      BY <1>3, <3>2
    <3> QED BY <3>1, <3>3, HeldStays
  <2>2. CASE cm.owner[c] = None
    <3>1. \A t \in Segments : Live(cm, t) => cm.current[Device] # None
                                             /\ cm.seg[t].case = cm.current[Device]
      BY LiveIsCurrent, NoneAssumption DEF Live
    <3>2. \A t \in Segments : /\ Live(cm, t) => cm'.seg[t] = NoSegment
                              /\ ~Live(cm, t) => cm'.seg[t] = cm.seg[t]
      BY <1>2, <1>3, <1>4, <2>2, <3>1, StartCaseRows
    <3>3. \A t \in Segments : cm'.seg[t].state # "receiving"
      BY <3>2 DEF NoSegment, Live
    <3> QED BY <3>3 DEF OpenHeld
  <2> QED BY <1>3, <2>1, <2>2 DEF MayStartCase
<1> QED BY <1>5, <1>6 DEF OpenKept

\* A commit that fails leaves its recording failed, or gone with its case.
LEMMA FailCommitOpen ==
  ASSUME FramesInv, MemoryInv, mode = "up", StreamOn(conn, dev), OpenHeld(cm, dev),
         FinishFailCommit \/ UnwrittenEnd, ConnKept
  PROVE  OpenKept
<1> DEFINE s == txn.call.s
<1>1. /\ txn # NoTxn /\ txn.call.op \in EndOps /\ FailCommit(s)
  BY DEF FinishFailCommit, UnwrittenEnd, Removing, Unwritten, EndOps
<1>2. s \in Segments /\ dev.commits[s].step = "done"
  BY <1>1, CommitIs
<1> HIDE DEF s
<1>3. /\ dev'.active = IF dev.active # NoStream /\ dev.active.seg = s /\ dev.active.committing
                       THEN NoStream ELSE dev.active
      /\ \A t \in Segments : dev'.commits[t] = IF t = s THEN NoCommit ELSE dev.commits[t]
      /\ IF CommitOf(s).stale THEN cm' = cm ELSE cm' = FailAllowed(cm, {s})
  BY <1>1, <1>2, DevHasShape, FailCommitFields
<1>4. StreamOn(conn', dev')
  BY <1>3, StreamLeaves DEF ConnKept
<1>5. CASE CommitOf(s).stale
  <2>1. Past(cm, s)
    BY <1>2, <1>5 DEF MemoryInv, Core, CommitSound, CommitOf
  <2>2. cm.seg[s].state # "receiving"
    <3> SUFFICES ASSUME cm.seg[s].state = "receiving" PROVE FALSE
      OBVIOUS
    <3>1. cm.current[Device] = CaseOf[s] /\ CaseOf[s] \in Nat
      BY <1>2, LiveIsCurrent
    <3> QED BY <2>1, <3>1 DEF Past
  <2>3. OpenHeld(cm', dev')
    BY <1>3, <1>5, <2>2, HeldStays
  <2> QED BY <1>4, <2>3 DEF OpenKept
<1>6. CASE ~CommitOf(s).stale
  <2>1. OpenHeld(cm', dev')
    BY <1>3, <1>6, FailedHeld
  <2> QED BY <1>4, <2>1 DEF OpenKept
<1> QED BY <1>5, <1>6

\* The recording whose commit returns is durable.
LEMMA EndReturnsOpen ==
  ASSUME FramesInv, MemoryInv, StreamOn(conn, dev), OpenHeld(cm, dev), EndReturns, ConnKept
  PROVE  OpenKept
<1> DEFINE s == txn.call.s
<1>1. /\ txn # NoTxn /\ txn.call.op = "end" /\ Begun /\ cm' = cm
  BY DEF EndReturns, Returned, Running, Begun
<1>2. s \in Segments /\ s \in Ends
  BY <1>1, EndsOne
<1>3. s = txn.call.s
  OBVIOUS
<1> HIDE DEF s
<1>4. dev'.active = dev.active
      /\ \A t \in Segments : dev'.commits[t] = IF t = s THEN NoCommit ELSE dev.commits[t]
  BY <1>2, <1>3, DevHasShape, EndReturnsFields
<1>5. cm.seg[s].state # "receiving"
  <2>1. s \in dev.durable
    BY <1>2 DEF MemoryInv, Core, CommitSound
  <2> QED BY <1>2, <2>1, DurableIsEnded DEF MemoryInv
<1>6. OpenHeld(cm', dev')
  BY <1>1, <1>4, <1>5, HeldStays
<1> QED BY <1>4, <1>6, StreamLeaves DEF OpenKept, ConnKept

\* The row of a recording takes a status that is not "receiving".
LEMMA RowOpen ==
  ASSUME FramesInv, StreamOn(conn, dev), OpenHeld(cm, dev), ConnKept,
         NEW s \in Segments, NEW c, NEW status, OneRow(cm, cm', s, c, status),
         status # "receiving", dev'.commits = dev.commits,
         \/ dev'.active = dev.active
         \/ dev'.active = NoStream /\ dev.active.seg = s
  PROVE  OpenKept
<1>1. \A t \in Segments : cm'.seg[t].state = "receiving" =>
                            t # s /\ cm.seg[t].state = "receiving"
  BY DEF OneRow
<1>2. OpenHeld(cm', dev')
  BY <1>1, HeldStays
<1> QED BY <1>2, StreamLeaves DEF OpenKept, ConnKept

LEMMA BeginEndOpen ==
  ASSUME FramesInv, MemoryInv, StreamOn(conn, dev), OpenHeld(cm, dev), BeginEnd, ConnKept
  PROVE  OpenKept
<1> DEFINE s == Call1.s
<1>1. txn = NoTxn /\ tail # <<>> /\ Call1.op = "end"
  BY DEF BeginEnd, Starting, Call1
<1>2. s \in Segments
  <2>1. CallHolds(Call1, conn, dev)
    BY <1>1, FirstCall DEF FramesInv, FramesHold, CallsHold
  <2> QED BY <1>1, <2>1 DEF CallHolds, EndOps
<1>3. s = Call1.s
  OBVIOUS
<1> HIDE DEF s
<1>4. /\ cm' = ReleaseAudio(EndSegment(cm, s), s) /\ MayEndSegment(cm, s)
      /\ dev'.commits = dev.commits
      /\ dev'.active = IF dev.active # NoStream /\ dev.active.seg = s /\ dev.active.committing
                       THEN NoStream ELSE dev.active
  BY <1>3, DevHasShape, BeginEndFields
<1>5. OneRow(cm, cm', s, cm.seg[s].case, "queued")
  <2> DEFINE n == ReleaseAudio(EndSegment(cm, s), s)
  <2>1. OneRow(cm, n, s, cm.seg[s].case, "queued") /\ cm' = n
    BY <1>2, <1>4, NoPcm, CommittedRow
  <2> HIDE DEF n
  <2> QED BY <2>1
<1> DEFINE status == "queued"
<1>6. OneRow(cm, cm', s, cm.seg[s].case, status) /\ status # "receiving"
  BY <1>5
<1> HIDE DEF status
<1> QED BY <1>2, <1>4, <1>6, RowOpen

LEMMA BeginWorkOpen ==
  ASSUME FramesInv, MemoryInv, WorkHolds(Outstanding, dev.queue), QueueOK, StreamOn(conn, dev),
         OpenHeld(cm, dev), BeginTranscribing \/ BeginSaved \/ BeginFailed, ConnKept
  PROVE  OpenKept
<1> DEFINE s == Call1.s
<1>1. /\ txn = NoTxn /\ tail # <<>> /\ Call1.op \in {"begin", "saved", "failed"}
      /\ Call1.op = "begin" => MayBeginTranscription(cm, s) /\ cm' = BeginTranscription(cm, s)
      /\ Call1.op = "saved" => MaySaveTranscript(cm, s, Call1.text)
                               /\ cm' = SaveTranscript(cm, s, Call1.text)
      /\ Call1.op = "failed" => MayFailSegment(cm, s, Interrupted)
                                /\ cm' = FailSegment(cm, s, Interrupted)
      /\ \E status : dev' = SetStatus(dev, s, status)
  BY DEF BeginTranscribing, BeginSaved, BeginFailed, Starting, Call1
<1>2. s \in Segments /\ (Call1.op = "saved" => Call1.text \in Transcripts)
  BY <1>1, FirstCall, AtWork DEF WorkOps
<1>3. Good(cm) /\ cm.seg[s].pcm = FALSE
  BY <1>2, NoPcm
<1> HIDE DEF s
<1>4. dev'.active = dev.active /\ dev'.commits = dev.commits
  <2>1. PICK status : dev' = SetStatus(dev, s, status)
    BY <1>1
  <2> QED BY <2>1, DevHasShape, StatusFields
<1>5. \E status : status # "receiving" /\ OneRow(cm, cm', s, cm.seg[s].case, status)
  <2>1. CASE Call1.op = "begin"
    BY <1>1, <1>2, <1>3, <2>1, BeginTranscriptionRow
  <2>2. CASE Call1.op = "saved"
    BY <1>1, <1>2, <1>3, <2>2, SaveTranscriptRow
  <2>3. CASE Call1.op = "failed"
    BY <1>1, <1>2, <1>3, <2>3, FailSegmentRow
  <2> QED BY <1>1, <2>1, <2>2, <2>3
<1> QED BY <1>2, <1>4, <1>5, RowOpen

LEMMA WavOpen ==
  ASSUME FramesInv, StreamOn(conn, dev), OpenHeld(cm, dev), ConnKept, NEW s \in Segments,
         WriteWav(s) \/ WriteWavFails(s)
  PROVE  OpenKept
<1>1. /\ cm' = cm
      /\ \E row : RowShape(row) /\ row.step = "done" /\ dev' = SetCommit(dev, s, row)
  <2>1. CASE WriteWav(s)
    <3> DEFINE file == <<cm.seg[s].case, s, spent.tries[s] + 1>>
               row == [k |-> CommitOf(s).k, stale |-> CommitOf(s).stale, file |-> file,
                       step |-> "done"]
    <3>1. dev' = SetCommit(dev, s, row) /\ RowShape(row)
      BY <2>1, WriteWavCommit
    <3>2. row.step = "done"
      OBVIOUS
    <3> HIDE DEF row
    <3> QED BY <2>1, <3>1, <3>2 DEF WriteWav
  <2>2. CASE WriteWavFails(s)
    <3> DEFINE old == CommitOf(s)
               row == [old EXCEPT !.step = "done"]
    <3>1. cm' = cm /\ dev' = SetCommit(dev, s, row)
      BY <2>2 DEF WriteWavFails, SetCommit, CommitOf
    <3>2. RowShape(old)
      BY DevHasShape DEF DevShape, RowShape, CommitOf
    <3> HIDE DEF old
    <3>3. row = [k |-> old.k, stale |-> old.stale, file |-> old.file, step |-> "done"]
      BY <3>2 DEF RowShape
    <3>4. RowShape(row) /\ row.step = "done"
      BY <3>3 DEF RowShape
    <3> HIDE DEF row
    <3> QED BY <3>1, <3>4
  <2> QED BY <2>1, <2>2
<1>2. PICK row : RowShape(row) /\ row.step = "done" /\ dev' = SetCommit(dev, s, row)
  BY <1>1
<1>3. OnlyCommit(dev, dev', s, row) /\ dev'.active = dev.active
  BY <1>2, DevHasShape, CommitFields
<1>4. OpenHeld(cm', dev')
  BY <1>1, <1>2, <1>3, HeldStays DEF OnlyCommit
<1> QED BY <1>3, <1>4, StreamLeaves DEF OpenKept, ConnKept

\* Steps that touch neither rows, stream nor commits of a Bridge that goes on.
LEMMA QuietStepsOpen ==
  ASSUME FramesInv, StreamOn(conn, dev), OpenHeld(cm, dev), ConnKept,
         \/ BeginRemoval \/ BeginForeign \/ RenameState
         \/ HelloReturns \/ CaseReturns \/ ForeignReturns \/ TranscribingReturns \/ OutcomeReturns
         \/ CleanReturns \/ CleanFails \/ UnwrittenHello \/ UnwrittenWork \/ UnwrittenForeign
         \/ StartWork \/ Recognise \/ WorkAborts \/ RefuseTransaction
         \/ SubmitForeign \/ UNCHANGED vars
  PROVE  OpenKept
<1>1. /\ cm' = cm
      /\ dev' = dev \/ dev' = Popped(dev) \/ \E step : dev' = At(dev, step)
  BY DEF BeginRemoval, BeginForeign, RenameState, HelloReturns, CaseReturns, ForeignReturns,
         TranscribingReturns, OutcomeReturns, CleanReturns, CleanFails, UnwrittenHello,
         UnwrittenWork, UnwrittenForeign, StartWork, Recognise, WorkAborts, RefuseTransaction,
         SubmitForeign, vars
<1>2. dev' = dev \/ OnlyQueue(dev, dev')
  BY <1>1, QueueKinds
<1> QED BY <1>1, <1>2, QuietOpen DEF ConnKept

LEMMA CleanAudioOpen ==
  ASSUME FramesInv, StreamOn(conn, dev), OpenHeld(cm, dev), ConnKept, CleanAudio PROVE OpenKept
<1>1. cm' = cm /\ dev'.active = dev.active /\ dev'.commits = dev.commits
  BY DevHasShape, CleanAudioFields
<1>2. OpenHeld(cm', dev')
  BY <1>1, HeldStays
<1> QED BY <1>1, <1>2, StreamLeaves DEF OpenKept, ConnKept

\* A restart fails what was being received (CaseManager.fromState).
LEMMA RecoverOpen ==
  ASSUME FramesInv, SnapOK(disk), Recover, mode' = "up" PROVE OpenKept
<1>1. ~UNCHANGED <<mode, dev, cm, disk>>
  BY DEF Recover
<1>2. PICK stuck \in SUBSET SettledFiles :
        LET dw == RecoveredDevice(stuck)
        IN /\ cm' = FailAllowed(RestoreState(disk.cm), LostJobs)
           /\ \E order \in Orders(UnfinishedJobs(dw.jobs)) :
                dev' = [dw EXCEPT !.queue = RecoveredQueue(order, dw.jobs)]
  BY <1>1, RecoveredWork
<1>3. PICK queue : dev' = [RecoveredDevice(stuck) EXCEPT !.queue = queue]
  BY <1>2
<1>4. dev'.active = NoStream
  BY <1>3, RecoveredIsFresh
<1> DEFINE m == RestoreState(disk.cm)
<1>5. /\ Good(m)
      /\ \A t \in Segments : m.seg[t].pcm = FALSE /\ m.seg[t].state # "receiving"
  BY RestoredRows DEF SnapOK, Sound, RowSound
<1> HIDE DEF m
<1>6. AllFailed(m, cm', LostJobs)
  BY <1>2, <1>5, FailAllowedRows DEF m
<1>7. \A t \in Segments : cm'.seg[t].state # "receiving"
  BY <1>5, <1>6 DEF AllFailed
<1> QED BY <1>4, <1>7 DEF OpenKept, StreamOn, OpenHeld

\* A step of a Bridge that goes on.
LEMMA UpOpen ==
  ASSUME OpenGiven, WorkHolds(Outstanding, dev.queue), QueueOK, CasesOK, LifeInv, [Next]_vars,
         mode' = "up", ~ForgetProcess, ~Recover
  PROVE  CurrentIsKnown' /\ OpenKept
<1>1. CASE ConnectionStep
  BY <1>1, ConnectionOpen
<1>2. CASE BeginHello
  BY <1>2, BeginHelloOpen
<1>3. CASE ~ConnectionStep /\ ~BeginHello
  <2>1. ConnKept /\ CurrentIsKnown'
    BY <1>3, ConnNext, KnownStays DEF OpenGiven
  <2>2. /\ FramesInv /\ MemoryInv /\ mode = "up" /\ StreamOn(conn, dev) /\ OpenHeld(cm, dev)
    BY DEF OpenGiven
  <2>3. CASE TransactionStep
    <3>1. CASE BeginCase \/ FinishFailCommit \/ BeginEnd \/ BeginTranscribing \/ BeginSaved
               \/ BeginFailed \/ CleanAudio \/ EndReturns
      BY <2>1, <2>2, <3>1, BeginCaseOpen, FailCommitOpen, BeginEndOpen, BeginWorkOpen,
         CleanAudioOpen, EndReturnsOpen
    <3>2. CASE BeginRemoval \/ BeginForeign \/ WorkAborts \/ RefuseTransaction \/ RenameState
               \/ HelloReturns \/ CaseReturns \/ TranscribingReturns \/ OutcomeReturns
               \/ CleanReturns \/ ForeignReturns
      BY <2>1, <2>2, <3>2, QuietStepsOpen
    <3> QED BY <1>3, <2>1, <2>3, <3>1, <3>2 DEF TransactionStep
  <2>4. CASE WorkStep
    BY <2>1, <2>2, <2>4, WavOpen, QuietStepsOpen DEF WorkStep
  <2>5. CASE FaultStep
    <3>1. ~UnwrittenCase /\ ~Crash
      BY DEF UnwrittenCase, Halt, Crash
    <3>2. ~CommitFailsVisible
      BY <2>2 DEF CommitFailsVisible, HaltsFor, Halt
    <3> QED BY <2>1, <2>2, <2>5, <3>1, <3>2, WavOpen, FailCommitOpen, QuietStepsOpen DEF FaultStep
  <2>6. CASE LifeStep
    <3>1. ~Stop /\ ~BeginExit /\ ~FinishExit
      BY <2>2 DEF Stop, BeginExit, FinishExit
    <3> QED BY <2>1, <2>2, <2>6, <3>1, QuietStepsOpen DEF LifeStep
  <2>7. CASE UNCHANGED vars
    BY <2>1, <2>2, <2>7, QuietStepsOpen
  <2> QED BY <1>3, <2>3, <2>4, <2>5, <2>6, <2>7 DEF Next
<1> QED BY <1>1, <1>2, <1>3

\* Whatever becomes of the Bridge, its current connection has said hello.
LEMMA KnownNext ==
  ASSUME FramesInv, CurrentIsKnown, [Next]_vars, ConnectionStep => mode # "up"
  PROVE  CurrentIsKnown'
<1>1. CASE ForgetProcess
  BY <1>1, PipelineAssumption DEF ForgetProcess, CurrentIsKnown
<1>2. CASE BeginHello
  BY <1>2, BeginHelloKnown
<1>3. CASE ConnectionStep
  <2>1. PICK k \in Conns : CloseConnection(k) \/ ResumeStart(k)
    <3>1. mode # "up"
      BY <1>3
    <3>2. \A k \in Conns : /\ ~SendHello(k) /\ ~ForgetConnection(k) /\ ~Ready(k)
      BY <3>1 DEF SendHello, ForgetConnection, Ready
    <3>3. ASSUME NEW k \in Conns
          PROVE  /\ \A c \in Cases : ~SendCaseStart(k, c)
                 /\ \A sequence \in 0..MaxPcm : ~AppendSpeech(k, sequence)
                 /\ \A s \in Segments :
                      /\ \A c \in Cases : ~StartSpeech(k, c, s)
                      /\ ~WaitForCommit(k, s) /\ ~EndReplayed(k, s) /\ ~EndMismatch(k, s)
                      /\ ~EndMissing(k, s) /\ ~EndSpeech(k, s)
      BY <3>2, Zenon DEF SendCaseStart, AppendSpeech, StartSpeech, WaitForCommit, EndReplayed,
                         EndMismatch, EndMissing, EndSpeech
    <3> QED BY <1>3, <3>2, <3>3 DEF ConnectionStep
  <2>2. ConnKept
    <3>1. CASE CloseConnection(k)
      BY <3>1, ConnHasShape DEF CloseConnection, ConnKept, ConnsHold, ConnShape
    <3>2. CASE ResumeStart(k)
      BY <3>2, IdleKept DEF ResumeStart
    <3> QED BY <2>1, <3>1, <3>2
  <2> QED BY <2>2, KnownStays
<1> QED BY <1>1, <1>2, <1>3, ConnNext, KnownStays

LEMMA NothingOpen ==
  ASSUME ForgetProcess PROVE OpenKept
<1>1. dev'.active = NoStream
  BY FreshIsEmpty DEF ForgetProcess
<1>2. \A t \in Segments : cm'.seg[t] = NoSegment
  BY DEF ForgetProcess, EmptyCaseManager
<1> QED BY <1>1, <1>2 DEF OpenKept, StreamOn, OpenHeld, NoSegment

LEMMA OpenNext ==
  ASSUME Disciplined, PipelineInv, LedgerInv, ControlInv', OpenInv, [Next]_vars
  PROVE  OpenInv'
<1>0. /\ FramesInv /\ OwnerIsCurrent /\ ControlInv /\ LifeInv /\ WorkInv /\ RestoreInv
      /\ CurrentIsKnown
  BY DEF PipelineInv, LedgerInv, ControlInv, OpenInv
<1>1. CASE mode' # "up"
  <2>1. ConnectionStep => mode # "up"
    BY <1>1, ConnectionControl DEF control
  <2> QED BY <1>0, <1>1, <2>1, KnownNext DEF OpenInv
<1>2. CASE mode' = "up" /\ Recover
  <2>1. ConnectionStep => mode # "up"
    BY <1>2 DEF Recover
  <2>2. CurrentIsKnown'
    BY <1>0, <2>1, KnownNext
  <2>3. OpenKept
    BY <1>0, <1>2, RecoverOpen DEF RestoreInv, SnapsOK
  <2> QED BY <2>2, <2>3 DEF OpenInv, OpenKept
<1>3. CASE mode' = "up" /\ ForgetProcess
  <2>1. CurrentIsKnown'
    BY <1>3, PipelineAssumption DEF ForgetProcess, CurrentIsKnown
  <2>2. OpenKept
    BY <1>3, NothingOpen
  <2> QED BY <2>1, <2>2 DEF OpenInv, OpenKept
<1>4. CASE mode' = "up" /\ ~Recover /\ ~ForgetProcess
  <2>1. writable'
    BY <1>4 DEF ControlInv, LifeInv
  <2>2. mode = "up"
    BY <1>0, <1>4, UpStays
  <2>3. MemoryInv /\ QueueOK /\ WorkHolds(Outstanding, dev.queue) /\ CoreStep
    BY <1>0, <1>4, <2>1, ExitsForget, MemoryNext
  <2>4. CasesOK
    BY <1>0, <2>2 DEF RestoreInv
  <2>5. OpenGiven
    BY <1>0, <2>2, <2>3 DEF OpenGiven, OpenInv
  <2>6. CurrentIsKnown' /\ OpenKept
    BY <1>0, <1>4, <2>3, <2>4, <2>5, UpOpen
  <2> QED BY <2>6 DEF OpenInv, OpenKept
<1> QED BY <1>1, <1>2, <1>3, <1>4

\* While a recording is received, a stream that will end it is there, or a commit
\* of it: none stays open for ever and keeps its case from being mediated
\* (startSpeech, endSpeech, failAndForgetRecording), for a device that follows the
\* protocol.
THEOREM NothingIsOrphaned == Disciplined => (Spec => []NoOrphanedRecording)
<1> SUFFICES ASSUME Disciplined PROVE Spec => []NoOrphanedRecording
  OBVIOUS
<1>1. Init => OpenInv
  <2> SUFFICES ASSUME Init PROVE OpenInv
    OBVIOUS
  <2>1. current = None /\ dev.active = NoStream /\ \A t \in Segments : cm.seg[t] = NoSegment
    BY FreshIsEmpty DEF Init, EmptyCaseManager
  <2> QED BY <2>1, PipelineAssumption
          DEF OpenInv, CurrentIsKnown, StreamOn, OpenHeld, NoSegment
<1>2. PipelineInv /\ LedgerInv /\ LedgerInv' /\ OpenInv /\ [Next]_vars => OpenInv'
  BY OpenNext DEF LedgerInv
<1>3. Spec => []PipelineInv
  BY FramesAreOrderly
<1>4. Spec => []LedgerInv
  BY LedgerIsSound
<1>5. OpenInv => NoOrphanedRecording
  BY DEF OpenInv, OpenHeld, NoOrphanedRecording, IsActive, InCommit, CommitOf
<1> QED BY <1>1, <1>2, <1>3, <1>4, <1>5, PTL DEF Spec, Safety

----------------------------------------------------------------------------
(* Memory, the disk and the WAV files.                                     *)

\* The ledger of a snapshot is the one in memory.
Agrees(m, dv, snap) ==
  /\ snap.durable = dv.durable /\ snap.jobs = dv.jobs
  /\ snap.cm.current[Device] = m.current[Device]

\* It is, but for a recording that is not durable in the snapshot.
AgreesBut(m, dv, snap, s) ==
  /\ snap.durable = dv.durable \ {s}
  /\ snap.jobs = [t \in Segments |-> IF t = s THEN NoJob ELSE dv.jobs[t]]
  /\ snap.cm.current[Device] = m.current[Device]

\* A snapshot has every durable recording, but the one whose commit is written.
HasDurable(dv, ends, snap) == dv.durable \ ends \subseteq snap.durable

\* What is written is memory, and until it is renamed the disk is as before it.
WrittenAgrees ==
  Begun =>
    /\ Agrees(cm, dev, txn.snap)
    /\ txn.phase = "writing" => HasDurable(dev, Ends, disk)
    /\ txn.phase = "renamed" => HasDurable(dev, Ends, undo)
    /\ txn.phase = "writing" /\ txn.call.op \in {"hello", "foreign"} => Agrees(cm, dev, disk)
    /\ txn.phase = "writing" /\ txn.call.op = "end" => AgreesBut(cm, dev, disk, txn.call.s)

\* Between transactions the disk is memory, until the process stops.
DiskAgrees ==
  writable /\ ~Begun /\ (mode = "up" \/ txn # NoTxn) => Agrees(cm, dev, disk)

\* A case that is written is the current one, and what it may restore has its jobs.
CaseAgrees ==
  Begun /\ txn.call.op = "case" =>
    /\ cm.current[Device] = txn.call.c
    /\ \A s \in Segments : Pending(dev.jobs[s]) => txn.back.jobs[s] = dev.jobs[s]

\* Memory and the disk agree, as far as the step in progress allows.
AgreeInv == WrittenAgrees /\ DiskAgrees /\ CaseAgrees

\* No step begins a commit, or gives it a WAV, unless it says so.
StepsKept ==
  \A t \in Segments : dev'.commits[t].step # "none" => dev.commits[t].step # "none"

\* No live commit gets another WAV.
FilesKept ==
  \A t \in Segments :
    dev'.commits[t].step # "none" /\ ~dev'.commits[t].stale /\ dev'.commits[t].file # None =>
      /\ dev.commits[t].step # "none" /\ ~dev.commits[t].stale
      /\ dev'.commits[t].file = dev.commits[t].file

\* Which recordings are durable, and their jobs, stay.
LedgerKept == dev'.durable = dev.durable /\ dev'.jobs = dev.jobs

\* A commit's row stays, ends, or is marked stale.
RowKept(a, b) ==
  \/ b = a \/ b = NoCommit
  \/ a.step # "none" /\ b.file = a.file /\ (a.stale => b.stale)

LEMMA RowsKept ==
  ASSUME \A t \in Segments : RowKept(dev.commits[t], dev'.commits[t])
  PROVE  StepsKept /\ FilesKept
BY DEF RowKept, StepsKept, FilesKept, NoCommit

LEMMA SameCommits ==
  ASSUME dev' = dev \/ dev'.commits = dev.commits PROVE StepsKept /\ FilesKept
BY DEF StepsKept, FilesKept

\* What is forgotten was not durable.
LEMMA DiscardsNothing ==
  ASSUME MemoryInv, NEW S, Discards(dev, dev', S),
         \A t \in Segments : t \in S => t \notin dev.durable
  PROVE  LedgerKept
<1>1. dev.jobs \in [Segments -> Job] /\ dev.durable \subseteq Segments
  BY DEF MemoryInv, Core, Sound
<1>2. \A t \in Segments : t \in S => dev.jobs[t] = NoJob
  BY NotDurable
<1>3. dev'.durable = dev.durable
  BY <1>1 DEF Discards
<1>4. dev'.jobs = dev.jobs
  BY <1>1, <1>2 DEF Discards
<1> QED BY <1>3, <1>4 DEF LedgerKept

LEMMA QueueSteps ==
  ASSUME FramesInv,
         \/ BeginRemoval \/ BeginForeign \/ RenameState
         \/ HelloReturns \/ CaseReturns \/ ForeignReturns \/ TranscribingReturns \/ OutcomeReturns
         \/ CleanReturns \/ CleanFails \/ UnwrittenHello \/ UnwrittenWork \/ UnwrittenForeign
         \/ StartWork \/ Recognise \/ WorkAborts \/ RefuseTransaction
         \/ CommitFailsVisible /\ txn.call.op # "end"
         \/ SubmitForeign \/ Stop \/ UNCHANGED vars
  PROVE  cm' = cm /\ (dev' = dev \/ OnlyQueue(dev, dev'))
<1>1. /\ cm' = cm
      /\ dev' = dev \/ dev' = Popped(dev) \/ \E step : dev' = At(dev, step)
  BY DEF BeginRemoval, BeginForeign, RenameState, HelloReturns, CaseReturns, ForeignReturns,
         TranscribingReturns, OutcomeReturns, CleanReturns, CleanFails, UnwrittenHello,
         UnwrittenWork, UnwrittenForeign, StartWork, Recognise, WorkAborts, RefuseTransaction,
         CommitFailsVisible, SubmitForeign, Stop, vars
<1> QED BY <1>1, QueueKinds

\* The commit that ends, of a recording that is durable or not.
LEMMA CommitFinishes ==
  ASSUME FramesInv, EndReturns \/ (CommitFailsVisible /\ txn.call.op = "end")
  PROVE  /\ txn.call.s \in Segments /\ SameLedger(dev, dev')
         /\ \A t \in Segments : dev'.commits[t] = IF t = txn.call.s THEN NoCommit
                                                                    ELSE dev.commits[t]
<1> DEFINE s == txn.call.s
<1>1. DevShape(dev)
  BY DevHasShape
<1>2. s \in Segments
  BY EndingSegment DEF EndReturns, Returned, Running, CommitFailsVisible, EndOps
<1>3. CASE EndReturns
  BY <1>1, <1>2, <1>3, EndReturnsFields
<1>4. CASE CommitFailsVisible /\ txn.call.op = "end"
  <2> DEFINE dv == ReleaseOwner(dev, s)
  <2>1. dev' = FinishCommit(dv, s)
    BY <1>4 DEF CommitFailsVisible
  <2>2. DevShape(dv) /\ SameLedger(dev, dv) /\ dv.commits = dev.commits
    BY <1>1, ReleaseFields
  <2> HIDE DEF dv, s
  <2>3. /\ SameLedger(dv, dev')
        /\ \A t \in Segments : dev'.commits[t] = IF t = s THEN NoCommit ELSE dv.commits[t]
    BY <1>2, <2>1, <2>2, FinishFields
  <2>4. SameLedger(dev, dev')
    BY <2>2, <2>3 DEF SameLedger
  <2>5. s = txn.call.s
    BY DEF s
  <2> QED BY <1>2, <2>2, <2>3, <2>4, <2>5
<1> QED BY <1>3, <1>4

LEMMA FailsCommit ==
  ASSUME FramesInv, FinishFailCommit \/ UnwrittenEnd
  PROVE  /\ txn # NoTxn /\ txn.call.op \in EndOps /\ txn.call.s \in Segments
         /\ \A t \in Segments : dev'.commits[t] = IF t = txn.call.s THEN NoCommit
                                                                    ELSE dev.commits[t]
         /\ IF mode # "up" \/ CommitOf(txn.call.s).stale
            THEN LedgerKept ELSE Discards(dev, dev', {txn.call.s})
<1> DEFINE s == txn.call.s
<1>1. /\ txn # NoTxn /\ txn.call.op \in EndOps /\ FailCommit(s)
  BY DEF FinishFailCommit, UnwrittenEnd, Removing, Unwritten, EndOps
<1>2. s \in Segments /\ DevShape(dev)
  BY <1>1, EndingSegment, DevHasShape
<1> HIDE DEF s
<1>3. /\ \A t \in Segments : dev'.commits[t] = IF t = s THEN NoCommit ELSE dev.commits[t]
      /\ IF mode # "up" \/ CommitOf(s).stale THEN LedgerKept ELSE Discards(dev, dev', {s})
  BY <1>1, <1>2, FailCommitFields DEF LedgerKept
<1> QED BY <1>1, <1>2, <1>3 DEF s

----------------------------------------------------------------------------
(* What was confirmed.                                                     *)

\* Every job that is to be transcribed has its WAV.
KeepsWavs(jobs, files) == \A s \in Segments : Pending(jobs[s]) => jobs[s].file \in files

\* The shutdown may write what it took, whatever ends meanwhile.
ExitInv ==
  exit # None =>
    /\ writable => exit.jobs = dev.jobs
    /\ \A s \in Segments : Pending(exit.jobs[s]) => dev.jobs[s] = exit.jobs[s]
    /\ Begun /\ txn.call.op = "case" =>
         \A s \in Segments : Pending(exit.jobs[s]) => txn.back.jobs[s] = exit.jobs[s]

\* Nothing of a halted Bridge opens a durable recording again.
HaltInv ==
  ~writable =>
    /\ \A s \in Segments : Pending(dev.jobs[s]) => s \in dev.durable
    /\ dev.active # NoStream /\ ~dev.active.replay => dev.active.seg \notin dev.durable

\* A commit of the current case that has its WAV.
LiveRow(row) == row.step # "none" /\ ~row.stale /\ row.file # None

\* The WAVs that memory names are there,
MemoryWavs ==
  /\ KeepsWavs(dev.jobs, wavs)
  /\ \A s \in Segments : LiveRow(dev.commits[s]) => dev.commits[s].file \in wavs

\* and those that a state names which a restart may find, or a commit may write.
WavsInv ==
  /\ KeepsWavs(disk.jobs, wavs)
  /\ undo # None => KeepsWavs(undo.jobs, wavs)
  /\ Begun => KeepsWavs(txn.snap.jobs, wavs)
  /\ exit # None => KeepsWavs(exit.jobs, wavs)
  /\ writable /\ mode # "down" => MemoryWavs

\* Whoever sends a speech.end has no commit of that recording in progress.
OnFree(cn, dv) ==
  \A k \in Conns :
    /\ cn[k].busy \in {"txn", "commit"} => cn[k].on = None
    /\ current = k /\ cn[k].busy = "no" /\ cn[k].on \in Segments =>
         dv.commits[cn[k].on].step = "none"

\* A state has a recording, or its case was replaced.
Has(snap, s) == Past(snap.cm, s) \/ s \in snap.durable

\* The durable ACK of the recording was sent.
Sent(s) == <<CaseOf[s], s>> \in confirmed

\* Whatever a restart may find, or a commit may write, has it.
EveryHas(s) ==
  /\ Has(disk, s)
  /\ undo # None => Has(undo, s)
  /\ Begun => Has(txn.snap, s)
  /\ exit # None => Has(exit, s)
  /\ writable /\ mode # "down" => Held1(cm, dev, s)

\* A recording whose durable ACK was sent is nowhere missing.
SentInv ==
  /\ confirmed \subseteq {<<CaseOf[s], s>> : s \in Segments}
  /\ \A s \in Segments : Sent(s) => EveryHas(s)

\* The recording of a first stream is forgotten with its stream.
LetsGo ==
  /\ dev.active # NoStream /\ ~dev.active.replay /\ dev.active.seg \in Segments
  /\ Discards(dev, dev', {dev.active.seg})

\* The commit that a speech.end of the connection begins.
NewCommit(k, s) == [k |-> k, stale |-> FALSE, file |-> None, step |-> "writing"]

----------------------------------------------------------------------------
(* What a step does to the recordings and to their commits.                *)

LEMMA ActiveIsSegment ==
  ASSUME FramesInv, dev.active # NoStream PROVE dev.active.seg \in Segments
BY DEF FramesInv, FramesHold, StreamHolds

LEMMA AbandonLedger ==
  ASSUME FramesInv, dev.active # NoStream, AbandonActive
  PROVE  dev'.commits = dev.commits /\ (LedgerKept \/ LetsGo)
<1>1. DevShape(dev) /\ dev.active.seg \in Segments
  BY DevHasShape, ActiveIsSegment
<1>2. /\ dev'.commits = dev.commits
      /\ IF Abandonable(dev.active) THEN Discards(dev, dev', {dev.active.seg})
                                    ELSE SameLedger(dev, dev')
  BY <1>1, AbandonFields
<1> QED BY <1>1, <1>2 DEF LetsGo, Abandonable, LedgerKept, SameLedger

LEMMA FailedLedger ==
  ASSUME FramesInv, dev.active # NoStream, ~dev.active.replay, FailRecording(dev.active.seg)
  PROVE  dev'.commits = dev.commits /\ LetsGo
<1>1. DevShape(dev) /\ dev.active.seg \in Segments
  BY DevHasShape, ActiveIsSegment
<1>2. dev'.commits = dev.commits /\ Discards(dev, dev', {dev.active.seg})
  BY <1>1, FailRecordingFields
<1> QED BY <1>1, <1>2 DEF LetsGo

LEMMA OpenedLedger ==
  ASSUME FramesInv, NEW k, NEW c, NEW s \in Segments, OpenStream(k, c, s) \/ RefuseStream(k, c, s)
  PROVE  dev'.commits = dev.commits /\ LedgerKept
<1>1. CASE OpenStream(k, c, s)
  BY <1>1, DevHasShape, OpenStreamFields DEF LedgerKept
<1>2. CASE RefuseStream(k, c, s)
  BY <1>2 DEF RefuseStream, LedgerKept
<1> QED BY <1>1, <1>2

LEMMA StreamLedger ==
  ASSUME FramesInv, NEW a, dev' = dev \/ dev' = [dev EXCEPT !.active = a]
  PROVE  dev'.commits = dev.commits /\ LedgerKept
<1>1. CASE dev' = dev
  BY <1>1 DEF LedgerKept
<1>2. CASE dev' = [dev EXCEPT !.active = a]
  BY <1>2, DevHasShape, ActiveFields DEF LedgerKept, SameLedger
<1> QED BY <1>1, <1>2

\* A frame changes the ledger only by forgetting a first stream's recording,
\* and the commits only by beginning one.
LEMMA ConnectionLedger ==
  ASSUME FramesInv, ConnectionStep
  PROVE  \/ dev'.commits = dev.commits /\ (LedgerKept \/ LetsGo)
         \/ \E k \in Conns, s \in Segments :
              /\ EndSpeech(k, s) /\ LedgerKept
              /\ \A t \in Segments : dev'.commits[t] = IF t = s THEN NewCommit(k, s)
                                                                ELSE dev.commits[t]
<1> DEFINE Kept1 == dev'.commits = dev.commits /\ (LedgerKept \/ LetsGo)
<1>1. DevShape(dev)
  BY DevHasShape
<1>2. ASSUME NEW k \in Conns,
             \/ SendHello(k) \/ ForgetConnection(k) \/ \E c \in Cases : SendCaseStart(k, c)
             \/ \E s \in Segments : WaitForCommit(k, s) \/ EndMissing(k, s) \/ EndReplayed(k, s)
      PROVE  Kept1
  <2>1. dev' = dev \/ dev' = [dev EXCEPT !.active = NoStream]
    BY <1>2 DEF SendHello, ForgetConnection, SendCaseStart, WaitForCommit, EndMissing, EndReplayed
  <2> QED BY <2>1, StreamLedger
<1>3. ASSUME NEW k \in Conns, CloseConnection(k) PROVE Kept1
  <2>1. dev' = dev \/ (dev.active # NoStream /\ AbandonActive)
    BY <1>3 DEF CloseConnection
  <2> QED BY <2>1, AbandonLedger, StreamLedger
<1>4. ASSUME NEW k \in Conns, ResumeStart(k) PROVE Kept1
  <2> DEFINE s == conn[k].on
             c == cm.seg[s].case
             r == Recording(k, s, TRUE)
  <2>1. s \in Segments
    BY <1>4, ConnHasShape DEF ResumeStart, Resumable, ConnsHold
  <2>2. \/ dev' = dev \/ dev' = [dev EXCEPT !.active = r]
        \/ OpenStream(k, c, s) \/ RefuseStream(k, c, s)
    BY <1>4 DEF ResumeStart
  <2> HIDE DEF s, c, r
  <2> QED BY <2>1, <2>2, OpenedLedger, StreamLedger
<1>5. ASSUME NEW k \in Conns, NEW sequence \in 0..MaxPcm, AppendSpeech(k, sequence)
      PROVE  Kept1
  <2> DEFINE s == dev.active.seg
             p == [dev.progress EXCEPT ![s] = @ + 1]
  <2>1. /\ dev.active # NoStream /\ ~dev.active.replay
        /\ dev' = dev \/ dev' = [dev EXCEPT !.progress = p] \/ FailRecording(s)
    BY <1>5 DEF AppendSpeech, Owns
  <2>2. CASE FailRecording(s)
    BY <2>1, <2>2, FailedLedger
  <2> HIDE DEF s, p
  <2>3. CASE dev' = [dev EXCEPT !.progress = p]
    BY <1>1, <2>3 DEF DevShape, LedgerKept
  <2> QED BY <2>1, <2>2, <2>3, StreamLedger
<1>6. ASSUME NEW k \in Conns, NEW c \in Cases, NEW s \in Segments, StartSpeech(k, c, s)
      PROVE  Kept1
  BY <1>6, OpenedLedger DEF StartSpeech
<1>7. ASSUME NEW k \in Conns, NEW s \in Segments, EndMismatch(k, s) PROVE Kept1
  BY <1>7, FailedLedger DEF EndMismatch, Owns
<1>8. ASSUME NEW k \in Conns, NEW s \in Segments, EndSpeech(k, s)
      PROVE  /\ LedgerKept
             /\ \A t \in Segments : dev'.commits[t] = IF t = s THEN NewCommit(k, s)
                                                               ELSE dev.commits[t]
  BY <1>1, <1>8, EndSpeechFields DEF OnlyCommit, SameLedger, LedgerKept, NewCommit
<1>9. PICK k \in Conns :
        \/ SendHello(k) \/ CloseConnection(k) \/ ForgetConnection(k)
        \/ ResumeStart(k)
        \/ \E c \in Cases : SendCaseStart(k, c)
        \/ \E sequence \in 0..MaxPcm : AppendSpeech(k, sequence)
        \/ \E s \in Segments :
             \/ \E c \in Cases : StartSpeech(k, c, s)
             \/ WaitForCommit(k, s)
             \/ EndReplayed(k, s) \/ EndMismatch(k, s)
             \/ EndMissing(k, s) \/ EndSpeech(k, s)
  BY DEF ConnectionStep
<1>10. CASE \E s \in Segments : EndSpeech(k, s)
  BY <1>8, <1>10
<1> HIDE DEF Kept1
<1>11. CASE ~\E s \in Segments : EndSpeech(k, s)
  <2>1. Kept1
    BY <1>2, <1>3, <1>4, <1>5, <1>6, <1>7, <1>9, <1>11
  <2> QED BY <2>1 DEF Kept1
<1> QED BY <1>10, <1>11

\* The transactions of a transcription.
BeginWork == BeginTranscribing \/ BeginSaved \/ BeginFailed

LEMMA AllForgotten ==
  ASSUME \A t \in Segments : dev'.commits[t] = NoCommit PROVE StepsKept /\ FilesKept
BY DEF StepsKept, FilesKept, NoCommit

LEMMA WavCommits ==
  ASSUME FramesInv, NEW s \in Segments, WriteWav(s) \/ WriteWavFails(s)
  PROVE  /\ StepsKept /\ LedgerKept
         /\ WriteWavFails(s) => FilesKept
         /\ \A t \in Segments : t # s => dev'.commits[t] = dev.commits[t]
<1> DEFINE a == CommitOf(s)
           file == <<cm.seg[s].case, s, spent.tries[s] + 1>>
           row == [k |-> a.k, stale |-> a.stale, file |-> file, step |-> "done"]
           lost == [a EXCEPT !.step = "done"]
<1>1. DevShape(dev) /\ a.step = "writing"
  BY DevHasShape DEF WriteWav, WriteWavFails, Writing
<1>2. ASSUME NEW r, RowShape(r), r.step = "done", dev' = SetCommit(dev, s, r)
      PROVE  /\ StepsKept /\ LedgerKept /\ OnlyCommit(dev, dev', s, r)
  <2>1. OnlyCommit(dev, dev', s, r) /\ SameLedger(dev, dev')
    BY <1>1, <1>2, CommitFields
  <2>2. StepsKept
    BY <1>1, <2>1 DEF OnlyCommit, StepsKept, CommitOf
  <2> QED BY <2>1, <2>2 DEF LedgerKept, SameLedger
<1>3. CASE WriteWav(s)
  <2>1. dev' = SetCommit(dev, s, row) /\ RowShape(row)
    BY <1>3, WriteWavCommit
  <2>2. row.step = "done" /\ ~WriteWavFails(s)
    BY <1>3 DEF WriteWav, WriteWavFails, Enqueue, SegCall, Call, proc
  <2> HIDE DEF row
  <2> QED BY <1>2, <2>1, <2>2 DEF OnlyCommit
<1>4. CASE WriteWavFails(s)
  <2>1. dev' = SetCommit(dev, s, lost)
    BY <1>4 DEF WriteWavFails, SetCommit, CommitOf
  <2>2. RowShape(lost) /\ lost.step = "done" /\ RowKept(a, lost)
    <3>1. RowShape(a) /\ a.step # "none"
      BY <1>1 DEF DevShape, RowShape, CommitOf
    <3> HIDE DEF a
    <3>2. lost = [k |-> a.k, stale |-> a.stale, file |-> a.file, step |-> "done"]
      BY <3>1 DEF RowShape
    <3>3. RowShape(lost) /\ lost.step = "done" /\ lost.file = a.file /\ lost.stale = a.stale
      BY <3>2 DEF RowShape
    <3> HIDE DEF lost
    <3> QED BY <3>1, <3>3 DEF RowKept
  <2> HIDE DEF lost
  <2>3. StepsKept /\ LedgerKept /\ OnlyCommit(dev, dev', s, lost)
    BY <1>2, <2>1, <2>2
  <2>4. \A t \in Segments : RowKept(dev.commits[t], dev'.commits[t])
    BY <2>2, <2>3 DEF OnlyCommit, RowKept, CommitOf
  <2> QED BY <2>3, <2>4, RowsKept DEF OnlyCommit
<1> QED BY <1>3, <1>4

LEMMA ToldRow ==
  ASSUME NEW c, c = [k |-> c.k, stale |-> c.stale, file |-> c.file, step |-> c.step]
  PROVE  Told(c).file = c.file /\ Told(c).stale
<1> DEFINE d == Told(c)
<1>1. d = [k |-> c.k, stale |-> TRUE, file |-> c.file, step |-> c.step]
  BY ToldCommit
<1> HIDE DEF d
<1>2. d.stale
  BY <1>1, Zenon
<1>3. d.file = c.file
  BY <1>1
<1> QED BY <1>2, <1>3 DEF d

LEMMA BegunCommits ==
  ASSUME FramesInv, BeginHello \/ BeginCase \/ BeginEnd \/ BeginWork \/ CleanAudio \/ BeginExit
  PROVE  StepsKept /\ FilesKept
<1>1. DevShape(dev)
  BY DevHasShape
<1>2. CASE BeginHello
  BY <1>2, AbandonLedger, SameCommits DEF BeginHello, SupersedeActive
<1>3. CASE BeginCase
  <2> DEFINE all == LeftFor(Call1.c)
  <2>1. \A t \in Segments :
          dev'.commits[t] = IF t \in all /\ dev.commits[t].step # "none"
                            THEN Told(dev.commits[t]) ELSE dev.commits[t]
    BY <1>1, <1>3, BeginCaseFields
  <2> HIDE DEF all
  <2>2. \A t \in Segments : RowKept(dev.commits[t], dev'.commits[t])
    <3>1. ASSUME NEW t \in Segments, dev.commits[t].step # "none"
          PROVE  RowKept(dev.commits[t], Told(dev.commits[t]))
      BY <1>1, <3>1, ToldRow DEF RowKept, DevShape
    <3> QED BY <2>1, <3>1 DEF RowKept
  <2> QED BY <2>2, RowsKept
<1>4. CASE BeginEnd
  BY <1>1, <1>4, BeginEndFields, SameCommits
<1>5. CASE BeginWork
  <2>1. PICK status : dev' = SetStatus(dev, Call1.s, status)
    BY <1>5 DEF BeginWork, BeginTranscribing, BeginSaved, BeginFailed
  <2> QED BY <1>1, <2>1, StatusFields, SameCommits
<1>6. CASE CleanAudio
  BY <1>1, <1>6, CleanAudioFields, SameCommits
<1>7. CASE BeginExit
  BY <1>1, <1>7, BeginExitFields, SameCommits
<1> QED BY <1>2, <1>3, <1>4, <1>5, <1>6, <1>7

LEMMA EndedCommits ==
  ASSUME FramesInv,
         \/ FinishFailCommit \/ UnwrittenEnd \/ EndReturns
         \/ (CommitFailsVisible /\ txn.call.op = "end")
  PROVE  StepsKept /\ FilesKept
<1>1. \E s \in Segments :
        \A t \in Segments : dev'.commits[t] = IF t = s THEN NoCommit ELSE dev.commits[t]
  <2>1. CASE FinishFailCommit \/ UnwrittenEnd
    BY <2>1, FailsCommit
  <2>2. CASE EndReturns \/ (CommitFailsVisible /\ txn.call.op = "end")
    BY <2>2, CommitFinishes
  <2> QED BY <2>1, <2>2
<1> QED BY <1>1, RowsKept DEF RowKept

LEMMA RestoredCommits ==
  ASSUME FramesInv, UnwrittenCase \/ Exits \/ Recover
  PROVE  StepsKept /\ FilesKept
<1>1. CASE UnwrittenCase
  <2> DEFINE dv == RestoredDevice(txn.back)
  <2>1. dev' = [dv EXCEPT !.commits = dev.commits, !.queue = dev.queue]
    BY <1>1 DEF UnwrittenCase
  <2>2. DevShape(dv)
    BY RestoredFields
  <2> HIDE DEF dv
  <2>3. dev'.commits = dev.commits
    BY <2>1, <2>2 DEF DevShape
  <2> QED BY <2>3, SameCommits
<1>2. CASE Exits
  BY <1>2, ExitsForget, FreshKeepsNothing, AllForgotten DEF ForgetProcess
<1>3. CASE Recover
  <2>1. CASE UNCHANGED <<mode, dev, cm, disk>>
    BY <2>1, SameCommits
  <2>2. CASE \E stuck \in SUBSET SettledFiles :
               \E order : dev' = [RecoveredDevice(stuck) EXCEPT
                             !.queue = RecoveredQueue(order, RecoveredDevice(stuck).jobs)]
    <3>1. PICK stuck \in SUBSET SettledFiles : \E order :
                 dev' = [RecoveredDevice(stuck) EXCEPT
                             !.queue = RecoveredQueue(order, RecoveredDevice(stuck).jobs)]
      BY <2>2
    <3> DEFINE dw == RecoveredDevice(stuck)
    <3>2. DevShape(dw) /\ \A t \in Segments : dw.commits[t] = NoCommit
      BY RecoveredFields
    <3>3. PICK q : dev' = [dw EXCEPT !.queue = q]
      BY <3>1
    <3> HIDE DEF dw
    <3>4. \A t \in Segments : dev'.commits[t] = NoCommit
      BY <3>2, <3>3 DEF DevShape
    <3> QED BY <3>4, AllForgotten
  <2> QED BY <1>3, <2>1, <2>2, RecoveredWork
<1> QED BY <1>1, <1>2, <1>3

\* Only a speech.end that matches begins a commit, and only a written WAV
\* gives it a file.
LEMMA CommitsNext ==
  ASSUME FramesInv, [Next]_vars
  PROVE  /\ StepsKept \/ \E k \in Conns, s \in Segments : EndSpeech(k, s)
         /\ FilesKept \/ \E s \in Segments : WriteWav(s)
<1>1. CASE ConnectionStep
  <2>1. CASE dev'.commits = dev.commits
    BY <2>1, SameCommits
  <2>2. CASE \E k \in Conns, s \in Segments :
               /\ EndSpeech(k, s)
               /\ \A t \in Segments : dev'.commits[t] = IF t = s THEN NewCommit(k, s)
                                                                 ELSE dev.commits[t]
    <3>1. FilesKept
      BY <2>2 DEF FilesKept, NewCommit
    <3> QED BY <2>2, <3>1
  <2> QED BY <1>1, <2>1, <2>2, ConnectionLedger
<1>2. CASE \E s \in Segments : WriteWav(s) \/ WriteWavFails(s)
  BY <1>2, WavCommits
<1>3. CASE \/ BeginHello \/ BeginCase \/ BeginEnd \/ BeginTranscribing \/ BeginSaved \/ BeginFailed
           \/ CleanAudio \/ BeginExit
  BY <1>3, BegunCommits DEF BeginWork
<1>4. CASE \/ FinishFailCommit \/ UnwrittenEnd \/ EndReturns
           \/ CommitFailsVisible /\ txn.call.op = "end"
  BY <1>4, EndedCommits
<1>5. CASE UnwrittenCase \/ Crash \/ FinishExit \/ Recover
  BY <1>5, RestoredCommits DEF Exits
<1>6. CASE \/ BeginRemoval \/ BeginForeign \/ RenameState
           \/ HelloReturns \/ CaseReturns \/ ForeignReturns \/ TranscribingReturns \/ OutcomeReturns
           \/ CleanReturns \/ CleanFails \/ UnwrittenHello \/ UnwrittenWork \/ UnwrittenForeign
           \/ StartWork \/ Recognise \/ WorkAborts \/ RefuseTransaction
           \/ CommitFailsVisible /\ txn.call.op # "end"
           \/ SubmitForeign \/ Stop \/ UNCHANGED vars
  BY <1>6, QueueSteps, SameCommits DEF OnlyQueue
<1> QED BY <1>1, <1>2, <1>3, <1>4, <1>5, <1>6
        DEF Next, TransactionStep, WorkStep, FaultStep, LifeStep

\* What changes the ledger of durable recordings.
Writes ==
  \/ BeginCase \/ BeginEnd \/ BeginWork \/ CleanAudio
  \/ UnwrittenEnd /\ mode = "up"
  \/ UnwrittenCase

LEMMA LetsGoNothing ==
  ASSUME MemoryInv, LetsGo PROVE LedgerKept
<1> DEFINE s == dev.active.seg
<1>1. s \in Segments /\ Discards(dev, dev', {s}) /\ s \notin dev.durable
  BY DEF LetsGo, MemoryInv, Core, StreamSound
<1> HIDE DEF s
<1> QED BY <1>1, DiscardsNothing

LEMMA RemovedNothing ==
  ASSUME FramesInv, MemoryInv, FinishFailCommit PROVE LedgerKept
<1> DEFINE s == txn.call.s
<1>1. /\ txn # NoTxn /\ txn.call.op \in EndOps /\ s \in Segments
      /\ IF mode # "up" \/ CommitOf(s).stale THEN LedgerKept ELSE Discards(dev, dev', {s})
  BY FailsCommit
<1>2. dev.commits[s].step = "done"
  BY <1>1, CommitIs
<1>3. s \notin Ends
  BY DEF Ends, Begun, FinishFailCommit, Removing
<1> HIDE DEF s
<1>4. s \notin dev.durable
  BY <1>1, <1>2, <1>3 DEF MemoryInv, Core, CommitSound
<1> QED BY <1>1, <1>4, DiscardsNothing

LEMMA LedgerNext ==
  ASSUME FramesInv, MemoryInv, [Next]_vars, ~Writes, ~Exits, ~Recover
  PROVE  LedgerKept
<1>1. CASE ConnectionStep
  BY <1>1, ConnectionLedger, LetsGoNothing
<1>2. CASE \E s \in Segments : WriteWav(s) \/ WriteWavFails(s)
  BY <1>2, WavCommits
<1>3. CASE BeginHello
  BY <1>3, AbandonLedger, LetsGoNothing DEF BeginHello, SupersedeActive, LedgerKept
<1>4. CASE BeginExit
  <2>1. Discards(dev, dev', Cut)
    BY <1>4, DevHasShape, BeginExitFields
  <2>2. \A t \in Segments : t \in Cut => t \notin dev.durable
    BY DEF Cut, MemoryInv, Core, Sound, JobSound, NoJob
  <2> QED BY <2>1, <2>2, DiscardsNothing
<1>5. CASE FinishFailCommit
  BY <1>5, RemovedNothing
<1>6. CASE UnwrittenEnd
  BY <1>6, FailsCommit DEF Writes
<1>7. CASE EndReturns \/ (CommitFailsVisible /\ txn.call.op = "end")
  BY <1>7, CommitFinishes DEF LedgerKept, SameLedger
<1>8. CASE \/ BeginRemoval \/ BeginForeign \/ RenameState
           \/ HelloReturns \/ CaseReturns \/ ForeignReturns \/ TranscribingReturns \/ OutcomeReturns
           \/ CleanReturns \/ CleanFails \/ UnwrittenHello \/ UnwrittenWork \/ UnwrittenForeign
           \/ StartWork \/ Recognise \/ WorkAborts \/ RefuseTransaction
           \/ CommitFailsVisible /\ txn.call.op # "end"
           \/ SubmitForeign \/ Stop \/ UNCHANGED vars
  BY <1>8, QueueSteps DEF OnlyQueue, LedgerKept, SameLedger
<1>9. /\ ~BeginCase /\ ~BeginEnd /\ ~BeginTranscribing /\ ~BeginSaved /\ ~BeginFailed
      /\ ~CleanAudio /\ ~UnwrittenCase /\ ~Crash /\ ~FinishExit
  BY DEF Writes, BeginWork, Exits
<1> QED BY <1>1, <1>2, <1>3, <1>4, <1>5, <1>6, <1>7, <1>8, <1>9
        DEF Next, TransactionStep, WorkStep, FaultStep, LifeStep

LEMMA DurableIsCurrent ==
  ASSUME MemoryInv, NEW s \in Segments, s \in dev.durable
  PROVE  /\ cm.seg[s].case = CaseOf[s] /\ cm.current[Device] = CaseOf[s]
         /\ ~Past(cm, s) /\ cm.seg[s].state # "absent"
<1>1. cm.seg[s].state # "absent"
  BY DEF MemoryInv, Core, Sound, JobSound, Job, Statuses
<1>2. /\ cm.seg[s].case = CaseOf[s] /\ cm.current[Device] = CaseOf[s] /\ CaseOf[s] \in Nat
  BY <1>1, LiveIsCurrent
<1> QED BY <1>1, <1>2 DEF Past

\* A recording whose state could not be written is forgotten.
LEMMA UnwrittenForgets ==
  ASSUME FramesInv, MemoryInv, UnwrittenEnd, mode = "up"
  PROVE  Discards(dev, dev', {txn.call.s}) /\ txn.call.s \in Segments
<1> DEFINE s == txn.call.s
<1>1. /\ txn # NoTxn /\ txn.call.op \in EndOps /\ s \in Segments
      /\ CommitOf(s).stale \/ Discards(dev, dev', {s})
  BY FailsCommit
<1>2. dev.commits[s].step = "done"
  BY <1>1, CommitIs
<1>3. s \in Ends
  BY <1>1 DEF Ends, Begun, UnwrittenEnd, Unwritten
<1> HIDE DEF s
<1>4. s \in dev.durable /\ (CommitOf(s).stale => Past(cm, s))
  BY <1>1, <1>2, <1>3 DEF MemoryInv, Core, CommitSound, CommitOf
<1>5. ~Past(cm, s)
  BY <1>1, <1>4, DurableIsCurrent
<1> QED BY <1>1, <1>4, <1>5 DEF s

\* The store is written by a rename, a start or the end of the process only.
LEMMA StoreStays ==
  ASSUME LifeInv, [Next]_vars, ~Exits, ~Recover, ~RenameState
  PROVE  /\ disk' = disk
         /\ \/ undo' = undo
            \/ txn.phase = "renamed" /\ txn' = NoTxn /\ undo' = None
         /\ mode' # "down" => mode # "down"
         /\ exit' = exit \/ (BeginExit /\ txn' = txn)
<1>1. CASE ConnectionStep \/ WorkStep \/ SubmitForeign \/ \E s \in Segments : WriteWavFails(s)
  BY <1>1, ConnectionControl, QueueControl DEF control
<1>2. CASE TransactionStep
  BY <1>2, TransactionControl DEF Begins, Commits, Gives, Halt, proc
<1>3. CASE FaultStep
  BY <1>1, <1>3, FaultControl DEF Gives, Halt, proc, Exits
<1>4. CASE LifeStep
  BY <1>1, <1>4 DEF LifeStep, Stop, BeginExit, Exits, store
<1>5. CASE UNCHANGED vars
  BY <1>5 DEF vars
<1> QED BY <1>1, <1>2, <1>3, <1>4, <1>5 DEF Next

\* A transaction that ends was committed, or failed before or after its rename.
Fails == \/ UnwrittenHello \/ UnwrittenCase \/ UnwrittenEnd \/ UnwrittenWork \/ UnwrittenForeign

----------------------------------------------------------------------------
(* What a step does to the transaction.                                    *)

LEMMA TxnNext ==
  ASSUME LifeInv, [Next]_vars, ~Exits, ~Recover
  PROVE  \/ txn' = txn
         \/ RenameState \/ CleanAudio
         \/ /\ mode = "up" /\ txn = NoTxn /\ mode' = mode
            /\ Takes \/ (BeginRemoval /\ ~Begun')
         \/ txn # NoTxn /\ txn' = NoTxn
            /\ \/ txn.phase = "renamed" /\ (mode' # "up" \/ Commits)
               \/ txn.phase = "writing" /\ Fails
               \/ txn.phase = "removing"
<1>1. CASE ConnectionStep \/ WorkStep \/ SubmitForeign \/ \E s \in Segments : WriteWavFails(s)
  BY <1>1, ConnectionControl, QueueControl DEF control
<1>2. CASE LifeStep \/ UNCHANGED vars
  BY <1>1, <1>2 DEF LifeStep, Stop, BeginExit, Exits, vars
<1>3. CASE BeginRemoval
  BY <1>3 DEF BeginRemoval, Starting, Begun, proc
<1>4. CASE Takes
  BY <1>4 DEF Takes, BeginHello, BeginCase, BeginEnd, BeginForeign, BeginTranscribing,
         BeginSaved, BeginFailed, Starting, proc
<1>5. CASE \/ HelloReturns \/ CaseReturns \/ EndReturns \/ TranscribingReturns \/ OutcomeReturns
           \/ CleanReturns \/ ForeignReturns
  BY <1>5 DEF HelloReturns, CaseReturns, EndReturns, TranscribingReturns, OutcomeReturns,
       CleanReturns, ForeignReturns, Returned, Running, Commits, proc
<1>6. CASE FinishFailCommit \/ CleanFails
  BY <1>6 DEF FinishFailCommit, CleanFails, Removing
<1>7. CASE WorkAborts \/ RefuseTransaction
  BY <1>7 DEF WorkAborts, RefuseTransaction
<1>8. CASE Fails
  BY <1>8 DEF Fails, UnwrittenHello, UnwrittenCase, UnwrittenEnd, UnwrittenWork, UnwrittenForeign,
       Unwritten
<1>9. CASE CommitFailsVisible
  BY <1>9 DEF CommitFailsVisible, HaltsFor, Halt, proc
<1> QED BY <1>1, <1>2, <1>3, <1>4, <1>5, <1>6, <1>7, <1>8, <1>9
        DEF Next, TransactionStep, FaultStep, Takes, Fails, Exits

LEMMA AgreesKept ==
  ASSUME LedgerKept, cm'.current = cm.current, NEW snap, Agrees(cm, dev, snap)
  PROVE  Agrees(cm', dev', snap)
BY DEF LedgerKept, Agrees

LEMMA CapturedAgrees ==
  ASSUME Good(cm'), NEW snap, snap = PersistentState'
  PROVE  Agrees(cm', dev', snap)
<1>1. /\ snap.durable = dev'.durable /\ snap.jobs = dev'.jobs /\ snap.cm = ExportState(cm')
  BY DEF PersistentState
<1> QED BY <1>1, ExportedRows DEF Agrees

\* A step that does not write the ledger leaves it and the current case.
LEMMA QuietLedger ==
  ASSUME FramesInv, MemoryInv, [Next]_vars, ~Writes, ~Exits, ~Recover
  PROVE  LedgerKept /\ cm'.current = cm.current
<1>1. ~BeginCase /\ ~UnwrittenCase
  BY DEF Writes
<1> QED BY <1>1, LedgerNext, CurrentSame

LEMMA TakenTxn ==
  ASSUME Takes
  PROVE  /\ txn = NoTxn /\ tail # <<>> /\ mode = "up" /\ mode' = mode /\ writable' = writable
         /\ txn'.call = Call1 /\ txn'.phase = "writing" /\ txn'.snap = PersistentState'
         /\ disk' = disk /\ undo' = undo /\ exit' = exit /\ wavs' = wavs
         /\ confirmed' = confirmed /\ Begun' /\ ~Begun
<1>1. PICK op : Starting(op)
  BY DEF Takes, BeginHello, BeginCase, BeginEnd, BeginForeign, BeginTranscribing, BeginSaved,
         BeginFailed
<1>2. \E back : Persist(back)
  BY DEF Takes, BeginHello, BeginCase, BeginEnd, BeginForeign, BeginTranscribing, BeginSaved,
         BeginFailed
<1>3. UNCHANGED <<proc, store, confirmed>>
  BY DEF Takes, BeginHello, BeginCase, BeginEnd, BeginForeign, BeginTranscribing, BeginSaved,
         BeginFailed
<1>4. /\ txn'.call = Call1 /\ txn'.phase = "writing" /\ txn'.snap = PersistentState'
  BY <1>2 DEF Persist, PersistFor
<1>5. Begun' /\ ~Begun
  BY <1>1, <1>4, NoTxnPhase DEF Begun, Starting
<1> QED BY <1>1, <1>3, <1>4, <1>5 DEF Starting, proc, store

LEMMA CleanedTxn ==
  ASSUME CleanAudio
  PROVE  /\ txn # NoTxn /\ txn.phase = "removing" /\ mode # "down" /\ txn.call.op = "clean"
         /\ mode' = mode /\ writable' = writable
         /\ txn'.call = txn.call /\ txn'.phase = "writing" /\ txn'.snap = PersistentState'
         /\ disk' = disk /\ undo' = undo /\ exit' = exit /\ confirmed' = confirmed
         /\ Begun' /\ ~Begun
BY DEF CleanAudio, Removing, PersistFor, Begun, proc

LEMMA RenamedTxn ==
  ASSUME FramesInv, RenameState
  PROVE  /\ txn # NoTxn /\ txn.phase = "writing" /\ mode # "down"
         /\ txn'.call = txn.call /\ txn'.snap = txn.snap /\ txn'.back = txn.back
         /\ txn'.phase = "renamed" /\ txn' # NoTxn
         /\ disk' = txn.snap /\ undo' = disk /\ Begun /\ Begun' /\ Ends' = Ends
         /\ UNCHANGED <<mode, writable, exit, wavs, confirmed, cm, dev>>
<1>1. /\ txn = [call |-> txn.call, snap |-> txn.snap, back |-> txn.back, phase |-> txn.phase]
      /\ txn' = [txn EXCEPT !.phase = "renamed"]
  BY DEF RenameState, FramesInv, TxnShape
<1>2. /\ txn'.call = txn.call /\ txn'.snap = txn.snap /\ txn'.back = txn.back
      /\ txn'.phase = "renamed"
  BY <1>1
<1>3. txn.phase = "writing" /\ Begun /\ Begun' /\ txn' # NoTxn
  BY <1>2, NoTxnPhase DEF RenameState, Begun
<1>4. Ends' = Ends
  BY <1>2, <1>3 DEF Ends
<1> QED BY <1>2, <1>3, <1>4 DEF RenameState, proc

\* The transaction in progress goes on: nothing writes the ledger.
LEMMA SameTxn ==
  ASSUME FramesInv, txn' = txn PROVE ~Writes /\ ~RenameState /\ ~CleanAudio /\ ~Takes /\ ~Fails
<1>1. ~Takes
  BY TakenTxn DEF Begun
<1>2. ~CleanAudio
  BY CleanedTxn DEF Begun
<1>3. ~RenameState
  BY RenamedTxn
<1>4. ~Fails
  BY DEF Fails, UnwrittenHello, UnwrittenCase, UnwrittenEnd, UnwrittenWork, UnwrittenForeign,
         Unwritten
<1> QED BY <1>1, <1>2, <1>3, <1>4 DEF Writes, BeginWork, Takes, Fails

LEMMA GoesOn ==
  ASSUME FramesInv, ControlInv, MemoryInv, AgreeInv, [Next]_vars, ~Exits, ~Recover, txn' = txn
  PROVE  AgreeInv'
<1>1. ~Writes /\ ~RenameState
  BY SameTxn
<1>2. LedgerKept /\ cm'.current = cm.current
  BY <1>1, QuietLedger
<1>3. disk' = disk /\ (Begun => undo' = undo) /\ (mode' = "up" => mode = "up") /\ LifeInv
  <2>1. Begun => txn' # NoTxn
    BY NoTxnPhase DEF Begun
  <2> QED BY <1>1, <2>1, StoreStays, UpStays DEF ControlInv
<1>4. Begun' = Begun /\ Ends' = Ends /\ (writable' => writable)
  BY <1>3, EndsFacts, WritableStays DEF Begun
<1>5. WrittenAgrees'
  BY <1>2, <1>3, <1>4 DEF AgreeInv, WrittenAgrees, LedgerKept, Agrees, AgreesBut, HasDurable
<1>6. DiskAgrees'
  BY <1>2, <1>3, <1>4 DEF AgreeInv, DiskAgrees, LedgerKept, Agrees
<1>7. CaseAgrees'
  BY <1>2, <1>3, <1>4 DEF AgreeInv, CaseAgrees, LedgerKept
<1> QED BY <1>5, <1>6, <1>7 DEF AgreeInv

----------------------------------------------------------------------------
(* Every step keeps memory and the disk agreed.                            *)

LEMMA RenameAgrees ==
  ASSUME FramesInv, AgreeInv, RenameState PROVE AgreeInv'
<1>1. /\ txn.phase = "writing" /\ Begun /\ Begun' /\ txn'.phase = "renamed" /\ Ends' = Ends
      /\ txn'.call = txn.call /\ txn'.snap = txn.snap /\ txn'.back = txn.back
      /\ undo' = disk /\ cm' = cm /\ dev' = dev
  BY RenamedTxn
<1>2. WrittenAgrees'
  BY <1>1 DEF AgreeInv, WrittenAgrees
<1>3. DiskAgrees' /\ CaseAgrees'
  BY <1>1 DEF AgreeInv, DiskAgrees, CaseAgrees
<1> QED BY <1>2, <1>3 DEF AgreeInv

LEMMA EndsSegment ==
  ASSUME FramesInv, MemoryInv, BeginEnd, NEW s, s = Call1.s
  PROVE  /\ s \in Segments /\ s \notin dev.durable /\ dev.jobs[s] = NoJob
         /\ dev.commits[s].step = "done" /\ ~dev.commits[s].stale
         /\ dev'.durable = dev.durable \cup {s} /\ dev'.commits = dev.commits
         /\ dev'.jobs = [dev.jobs EXCEPT ![s] = [status |-> "queued", file |-> dev.commits[s].file]]
<1>1. txn = NoTxn /\ tail # <<>> /\ Call1.op = "end"
  BY DEF BeginEnd, Starting, Call1
<1>2. s \in Segments /\ dev.commits[s].step = "done"
  BY <1>1, FirstCall DEF FramesInv, FramesHold, CallsHold, CallHolds, EndOps
<1>3. /\ MayEndSegment(cm, s) /\ ~CommitOf(s).stale /\ dev'.commits = dev.commits
      /\ dev'.durable = dev.durable \cup {s}
      /\ dev'.jobs = [dev.jobs EXCEPT ![s] = [status |-> "queued", file |-> CommitOf(s).file]]
  BY DevHasShape, BeginEndFields
<1>4. cm.seg[s].state = "receiving"
  <2>1. Good(cm) /\ cm.seg[s].pcm = FALSE
    BY <1>2, NoPcm
  <2>2. MayEndSegment(cm, s)
    BY <1>3
  <2>3. cm.seg[s].state = "receiving" /\ OneRow(cm, ReleaseAudio(EndSegment(cm, s), s), s, cm.seg[s].case, "queued")
    BY <1>2, <2>1, <2>2, CommittedRow
  <2> QED BY <2>3
<1>5. s \notin dev.durable
  BY <1>2, <1>4 DEF MemoryInv, Core, Sound, JobSound, Job, Statuses
<1> QED BY <1>2, <1>3, <1>5, NotDurable DEF CommitOf

\* What a case that starts forgets.
LEMMA CaseLedger ==
  ASSUME FramesInv, BeginCase
  PROVE  /\ dev'.durable \subseteq dev.durable
         /\ \A t \in Segments : dev'.jobs[t] \in {dev.jobs[t], NoJob}
         /\ txn'.back.jobs = dev.jobs
<1> DEFINE all == LeftFor(Call1.c)
<1>1. \/ Discards(dev, dev', all)
      \/ dev'.durable = dev.durable /\ dev'.jobs = dev.jobs
  BY DevHasShape, BeginCaseFields
<1> HIDE DEF all
<1>2. txn'.back = PersistentState
  BY DEF BeginCase, Persist, PersistFor
<1>3. txn'.back.jobs = dev.jobs
  BY <1>2 DEF PersistentState
<1> QED BY <1>1, <1>3 DEF Discards

LEMMA WorkLedger ==
  ASSUME FramesInv, BeginWork PROVE dev'.durable = dev.durable
<1>1. PICK status : dev' = SetStatus(dev, Call1.s, status)
  BY DEF BeginWork, BeginTranscribing, BeginSaved, BeginFailed
<1> QED BY <1>1, DevHasShape, StatusFields

LEMMA QuietTakes ==
  ASSUME FramesInv, MemoryInv, BeginHello \/ BeginForeign PROVE LedgerKept
BY AbandonLedger, LetsGoNothing DEF BeginHello, SupersedeActive, BeginForeign, LedgerKept

LEMMA TakenOp ==
  ASSUME Takes
  PROVE  /\ Call1.op = "hello" => BeginHello
         /\ Call1.op = "foreign" => BeginForeign
         /\ Call1.op = "case" => BeginCase
         /\ Call1.op = "end" => BeginEnd
         /\ Call1.op \notin {"hello", "foreign", "case", "end"} => BeginWork
<1>1. /\ BeginHello => Call1.op = "hello"
      /\ BeginForeign => Call1.op = "foreign"
      /\ BeginCase => Call1.op = "case"
      /\ BeginEnd => Call1.op = "end"
      /\ BeginWork => Call1.op \in {"begin", "saved", "failed"}
  BY DEF BeginHello, BeginForeign, BeginCase, BeginEnd, BeginWork, BeginTranscribing, BeginSaved,
         BeginFailed, Starting, Call1
<1> QED BY <1>1 DEF Takes, BeginWork

LEMMA TakesAgree ==
  ASSUME FramesInv, MemoryInv, RestoreInv, CoreStep, AgreeInv, [Next]_vars, Takes, writable,
         ~Exits, ~Recover
  PROVE  AgreeInv'
<1> DEFINE op == Call1.op
<1>1. /\ txn = NoTxn /\ mode = "up" /\ txn'.call = Call1 /\ txn'.phase = "writing"
      /\ txn'.snap = PersistentState' /\ disk' = disk /\ Begun' /\ ~Begun
  BY TakenTxn
<1>2. Agrees(cm, dev, disk)
  BY <1>1 DEF AgreeInv, DiskAgrees
<1>3. Agrees(cm', dev', txn'.snap)
  BY <1>1, CapturedAgrees DEF CoreStep, Core
<1>4. CASE op \in {"hello", "foreign"}
  <2>1. LedgerKept /\ ~BeginCase /\ ~UnwrittenCase
    <3>1. BeginHello \/ BeginForeign
      BY <1>4, TakenOp
    <3>2. ~BeginCase /\ ~UnwrittenCase
      BY <1>1, <1>4 DEF BeginCase, Starting, Call1, UnwrittenCase, Unwritten
    <3> QED BY <3>1, <3>2, QuietTakes
  <2>2. cm'.current = cm.current
    BY <2>1, CurrentSame
  <2>3. Agrees(cm', dev', disk')
    BY <1>1, <1>2, <2>1, <2>2, AgreesKept
  <2>4. HasDurable(dev', Ends', disk')
    BY <2>3 DEF Agrees, HasDurable
  <2>5. WrittenAgrees'
    BY <1>1, <1>3, <1>4, <2>3, <2>4 DEF WrittenAgrees
  <2> QED BY <1>1, <1>4, <2>5 DEF AgreeInv, DiskAgrees, CaseAgrees
<1>5. CASE op = "end"
  <2> DEFINE s == Call1.s
  <2>1. BeginEnd /\ ~BeginCase /\ ~UnwrittenCase
    BY <1>1, <1>5, TakenOp DEF BeginCase, Starting, Call1, UnwrittenCase, Unwritten
  <2>2. /\ s \in Segments /\ s \notin dev.durable /\ dev.jobs[s] = NoJob
        /\ dev'.durable = dev.durable \cup {s}
        /\ dev'.jobs = [dev.jobs EXCEPT ![s] = [status |-> "queued", file |-> dev.commits[s].file]]
    BY <2>1, EndsSegment
  <2>3. cm'.current = cm.current
    BY <2>1, CurrentSame
  <2>4. dev.jobs \in [Segments -> Job]
    BY DEF MemoryInv, Core, Sound
  <2>5. s \in Ends' /\ txn'.call.s = s
    BY <1>1, <1>5, <2>2 DEF Ends
  <2> HIDE DEF s
  <2>6. AgreesBut(cm', dev', disk', s)
    BY <1>1, <1>2, <2>2, <2>3, <2>4 DEF Agrees, AgreesBut
  <2>7. HasDurable(dev', Ends', disk')
    BY <2>2, <2>5, <2>6 DEF AgreesBut, HasDurable
  <2>8. WrittenAgrees'
    BY <1>1, <1>3, <1>5, <2>5, <2>6, <2>7 DEF WrittenAgrees
  <2> QED BY <1>1, <1>5, <2>8 DEF AgreeInv, DiskAgrees, CaseAgrees
<1>6. CASE op = "case"
  <2>1. BeginCase
    BY <1>6, TakenOp
  <2>2. /\ dev'.durable \subseteq dev.durable /\ txn'.back.jobs = dev.jobs
        /\ \A t \in Segments : dev'.jobs[t] \in {dev.jobs[t], NoJob}
    BY <2>1, CaseLedger
  <2>3. HasDurable(dev', Ends', disk')
    BY <1>1, <1>2, <2>2 DEF Agrees, HasDurable
  <2>4. WrittenAgrees'
    BY <1>1, <1>3, <1>6, <2>3 DEF WrittenAgrees
  <2>5. cm'.current[Device] = Call1.c
    BY <2>1, CaseBegins
  <2>6. CaseAgrees'
    BY <1>1, <2>2, <2>5 DEF CaseAgrees, Pending, NoJob
  <2> QED BY <1>1, <2>4, <2>6 DEF AgreeInv, DiskAgrees
<1>7. CASE op \notin {"hello", "foreign", "case", "end"}
  <2>1. dev'.durable = dev.durable
    BY <1>7, TakenOp, WorkLedger
  <2>2. HasDurable(dev', Ends', disk')
    BY <1>1, <1>2, <2>1 DEF Agrees, HasDurable
  <2>3. WrittenAgrees'
    BY <1>1, <1>3, <1>7, <2>2 DEF WrittenAgrees
  <2> QED BY <1>1, <1>7, <2>3 DEF AgreeInv, DiskAgrees, CaseAgrees
<1> QED BY <1>4, <1>5, <1>6, <1>7

LEMMA CleanAgrees ==
  ASSUME FramesInv, MemoryInv, CoreStep, AgreeInv, CleanAudio, writable
  PROVE  AgreeInv'
<1>1. /\ txn # NoTxn /\ txn'.call.op = "clean" /\ txn'.phase = "writing"
      /\ txn'.snap = PersistentState' /\ disk' = disk /\ Begun' /\ ~Begun
  BY CleanedTxn
<1>2. Agrees(cm, dev, disk)
  BY <1>1 DEF AgreeInv, DiskAgrees
<1>3. Agrees(cm', dev', txn'.snap)
  BY <1>1, CapturedAgrees DEF CoreStep, Core
<1>4. dev'.durable = dev.durable
  BY DevHasShape, CleanAudioFields
<1>5. HasDurable(dev', Ends', disk')
  BY <1>1, <1>2, <1>4 DEF Agrees, HasDurable
<1>6. WrittenAgrees'
  BY <1>1, <1>3, <1>5 DEF WrittenAgrees
<1> QED BY <1>1, <1>6 DEF AgreeInv, DiskAgrees, CaseAgrees

\* A transaction that ends leaves the disk with the ledger in memory.
LEMMA EndedAgrees ==
  ASSUME FramesInv, ControlInv, MemoryInv, AgreeInv, [Next]_vars, writable,
         ~Exits, ~Recover, txn # NoTxn, txn' = NoTxn
  PROVE  AgreeInv'
<1>1. ~Begun' /\ Ends' = {}
  BY NoTxnPhase, EndsFacts DEF Begun
<1>2. ~Takes /\ ~CleanAudio /\ ~RenameState
  BY <1>1, TakenTxn, CleanedTxn, RenamedTxn
<1>3. disk' = disk /\ LifeInv
  BY <1>2, StoreStays DEF ControlInv
<1> SUFFICES ASSUME writable', mode' = "up" PROVE Agrees(cm', dev', disk')
  BY <1>1 DEF AgreeInv, WrittenAgrees, DiskAgrees, CaseAgrees
<1>4. mode = "up"
  BY <1>3, UpStays
<1>5. ASSUME ~Writes, Agrees(cm, dev, disk) PROVE Agrees(cm', dev', disk')
  <2>1. LedgerKept /\ cm'.current = cm.current
    BY <1>5, QuietLedger
  <2> QED BY <1>3, <1>5, <2>1, AgreesKept
<1>6. CASE txn.phase = "renamed"
  <2>1. Agrees(cm, dev, disk)
    BY <1>6 DEF ControlInv, UndoInv, AgreeInv, WrittenAgrees, Begun
  <2>2. ~Writes
    <3>1. ~UnwrittenEnd /\ ~UnwrittenCase
      BY <1>6 DEF UnwrittenEnd, UnwrittenCase, Unwritten
    <3> QED BY <1>2, <3>1 DEF Writes, Takes, BeginWork
  <2> QED BY <1>5, <2>1, <2>2
<1>7. CASE txn.phase = "removing"
  <2>1. Agrees(cm, dev, disk)
    BY <1>4, <1>7 DEF AgreeInv, DiskAgrees, Begun
  <2>2. ~Writes
    <3>1. ~UnwrittenEnd /\ ~UnwrittenCase
      BY <1>7 DEF UnwrittenEnd, UnwrittenCase, Unwritten
    <3> QED BY <1>2, <3>1 DEF Writes, Takes, BeginWork
  <2> QED BY <1>5, <2>1, <2>2
<1>8. CASE txn.phase = "writing" /\ Fails
  <2>1. ~UnwrittenCase
    BY DEF UnwrittenCase, Halt
  <2>2. ~UnwrittenWork
    BY <1>4 DEF UnwrittenWork, HaltsFor, Halt
  <2>3. CASE UnwrittenHello \/ UnwrittenForeign
    <3>1. txn.call.op \in {"hello", "foreign"}
      BY <2>3 DEF UnwrittenHello, UnwrittenForeign, Unwritten
    <3>2. ~UnwrittenEnd
      BY <3>1 DEF UnwrittenEnd, Unwritten
    <3>3. ~Writes
      BY <1>2, <2>1, <3>2 DEF Writes, Takes, BeginWork
    <3>4. Agrees(cm, dev, disk)
      BY <1>8, <3>1 DEF AgreeInv, WrittenAgrees, Begun
    <3> QED BY <1>5, <3>3, <3>4
  <2>4. CASE UnwrittenEnd
    <3> DEFINE s == txn.call.s
    <3>1. Discards(dev, dev', {s})
      BY <1>4, <2>4, UnwrittenForgets
    <3>2. AgreesBut(cm, dev, disk, s)
      BY <1>8, <2>4 DEF AgreeInv, WrittenAgrees, Begun, UnwrittenEnd, Unwritten
    <3>3. cm'.current = cm.current
      <4>1. ~BeginCase
        BY <1>2 DEF Takes
      <4> QED BY <2>1, <4>1, CurrentSame
    <3> HIDE DEF s
    <3> QED BY <1>3, <3>1, <3>2, <3>3 DEF Discards, Agrees, AgreesBut
  <2> QED BY <1>8, <2>1, <2>2, <2>3, <2>4 DEF Fails
<1>9. \/ txn.phase = "renamed" \/ txn.phase = "removing"
      \/ txn.phase = "writing" /\ Fails
  BY <1>2, <1>3, TxnNext
<1> QED BY <1>6, <1>7, <1>8, <1>9

LEMMA NoneLost ==
  ASSUME KeepsWavs(disk.jobs, wavs) PROVE LostJobs = {}
BY DEF KeepsWavs, LostJobs

\* What a start restores is what it leaves on the disk.
LEMMA RecoveredAgrees ==
  ASSUME FramesInv, SnapOK(disk), KeepsWavs(disk.jobs, wavs), Recover, mode' = "up"
  PROVE  /\ Agrees(cm', dev', disk') /\ dev'.durable = disk.durable
         /\ cm'.current = disk.cm.current /\ Good(cm')
         /\ disk' = disk \/ disk' = PersistentState'
         /\ \A t \in Segments : dev'.commits[t] = NoCommit
         /\ dev'.active = NoStream
<1>1. mode = "down"
  BY DEF Recover
<1>2. PICK stuck \in SUBSET SettledFiles :
        LET dw == RecoveredDevice(stuck)
        IN /\ cm' = FailAllowed(RestoreState(disk.cm), LostJobs)
           /\ disk' = IF dw.jobs = disk.jobs THEN disk ELSE PersistentState'
           /\ \E order \in Orders(UnfinishedJobs(dw.jobs)) :
                dev' = [dw EXCEPT !.queue = RecoveredQueue(order, dw.jobs)]
  BY <1>1, RecoveredWork
<1> DEFINE dw == RecoveredDevice(stuck)
<1>3. PICK order \in Orders(UnfinishedJobs(dw.jobs)) :
             dev' = [dw EXCEPT !.queue = RecoveredQueue(order, dw.jobs)]
  BY <1>2
<1>4. Core(cm', dev', {})
  BY <1>2, <1>3, CoreRecovers
<1>5. /\ DevShape(dw) /\ \A t \in Segments : dw.commits[t] = NoCommit
      /\ dw.durable = disk.durable \ LostJobs /\ dw.active = NoStream
  BY RecoveredFields
<1>6. disk.durable \subseteq Segments /\ LostJobs = {}
  BY NoneLost DEF SnapOK, Sound
<1>7. PICK q : dev' = [dw EXCEPT !.queue = q]
  BY <1>3
<1>8. (disk' = disk /\ dw.jobs = disk.jobs) \/ disk' = PersistentState'
  BY <1>2
<1> HIDE DEF dw
<1>9. /\ dev'.durable = disk.durable /\ dev'.jobs = dw.jobs /\ dev'.active = NoStream
      /\ \A t \in Segments : dev'.commits[t] = NoCommit
  BY <1>5, <1>6, <1>7 DEF DevShape
<1>10. cm'.current = disk.cm.current
  <2>1. RestoreState(disk.cm) \in CaseManagerState /\ RestoreState(disk.cm).current = disk.cm.current
    BY RestoredRows DEF SnapOK, Good
  <2> QED BY <1>2, <2>1, CurrentKept
<1>11. Good(cm')
  BY <1>4 DEF Core
<1>12. Agrees(cm', dev', disk')
  <2>1. CASE disk' = PersistentState'
    BY <1>11, <2>1, CapturedAgrees
  <2>2. CASE disk' = disk /\ dw.jobs = disk.jobs
    BY <1>9, <1>10, <2>2 DEF Agrees
  <2> QED BY <1>8, <2>1, <2>2
<1> QED BY <1>8, <1>9, <1>10, <1>11, <1>12

LEMMA AgreeNext ==
  ASSUME Disciplined, LedgerInv, AgreeInv, KeepsWavs(disk.jobs, wavs), [Next]_vars
  PROVE  AgreeInv'
<1>1. FramesInv /\ ControlInv /\ LifeInv /\ WorkInv /\ RestoreInv /\ SnapOK(disk)
  BY DEF LedgerInv, ControlInv, RestoreInv, SnapsOK
<1>2. ASSUME ~Begun', ~(writable' /\ (mode' = "up" \/ txn' # NoTxn)) PROVE AgreeInv'
  BY <1>2 DEF AgreeInv, WrittenAgrees, DiskAgrees, CaseAgrees
<1>3. CASE Exits
  <2>1. mode' = "down" /\ txn' = NoTxn
    BY <1>3, ExitsForget DEF ForgetProcess
  <2> QED BY <1>2, <2>1, NoTxnPhase DEF Begun
<1>4. CASE Recover
  <2>1. txn' = NoTxn
    BY <1>1, <1>4 DEF Recover, FramesInv, DownIsEmpty
  <2>2. CASE mode' = "up"
    <3>1. Agrees(cm', dev', disk')
      BY <1>1, <1>4, <2>2, RecoveredAgrees
    <3> QED BY <2>1, <3>1, NoTxnPhase DEF AgreeInv, WrittenAgrees, DiskAgrees, CaseAgrees, Begun
  <2> QED BY <1>2, <2>1, <2>2, NoTxnPhase DEF Begun
<1>5. CASE ~Exits /\ ~Recover /\ ~writable
  <2>1. ~writable'
    BY <1>1, <1>5, WritableStays
  <2>2. txn = NoTxn /\ mode = "stopping"
    BY <1>1, <1>5 DEF LifeInv
  <2>3. ~Begun'
    BY <1>1, <1>5, <2>2, BegunStep, TakenTxn, CleanedTxn, NoTxnPhase DEF Begun
  <2> QED BY <1>2, <2>1, <2>3
<1>6. CASE ~Exits /\ ~Recover /\ writable
  <2>1. MemoryInv
    BY <1>1, <1>6 DEF RestoreInv
  <2>2. CASE txn' = txn
    BY <1>1, <1>6, <2>1, <2>2, GoesOn
  <2>3. CASE RenameState
    BY <1>1, <2>3, RenameAgrees
  <2>4. CASE CleanAudio \/ Takes
    <3>1. ~UnwrittenCase
      BY <2>4, TakenTxn, CleanedTxn, NoTxnPhase DEF UnwrittenCase, Unwritten
    <3>2. CoreStep
      BY <1>1, <1>6, <3>1, MemoryStep
    <3> QED BY <1>1, <1>6, <2>1, <2>4, <3>2, TakesAgree, CleanAgrees
  <2>5. CASE BeginRemoval /\ ~Begun' /\ txn = NoTxn /\ mode = "up"
    <3>1. ~Writes /\ ~RenameState
      BY <2>5, TakenTxn, CleanedTxn
         DEF Writes, BeginWork, Takes, UnwrittenEnd, UnwrittenCase, Unwritten, RenameState
    <3>2. LedgerKept /\ cm'.current = cm.current
      BY <1>6, <1>1, <2>1, <3>1, QuietLedger
    <3>3. disk' = disk
      BY <1>1, <1>6, <3>1, StoreStays
    <3>4. Agrees(cm, dev, disk)
      BY <1>6, <2>5, NoTxnPhase DEF AgreeInv, DiskAgrees, Begun
    <3>5. Agrees(cm', dev', disk')
      BY <3>2, <3>3, <3>4, AgreesKept
    <3> QED BY <2>5, <3>5 DEF AgreeInv, WrittenAgrees, DiskAgrees, CaseAgrees
  <2>6. CASE txn # NoTxn /\ txn' = NoTxn
    BY <1>1, <1>6, <2>1, <2>6, EndedAgrees
  <2> QED BY <1>1, <1>6, <2>2, <2>3, <2>4, <2>5, <2>6, TxnNext
<1> QED BY <1>3, <1>4, <1>5, <1>6

----------------------------------------------------------------------------
(* After a halt, and while the process stops.                              *)

\* What still runs after a halt.
LEMMA HaltedStep ==
  ASSUME mode = "stopping", txn = NoTxn, ~writable, [Next]_vars, ~Exits
  PROVE  \/ \E k \in Conns : CloseConnection(k) \/ ResumeStart(k)
         \/ \E s \in Segments : WriteWavFails(s)
         \/ StartWork \/ Recognise \/ RefuseTransaction \/ UNCHANGED vars
<1>1. ASSUME ConnectionStep PROVE \E k \in Conns : CloseConnection(k) \/ ResumeStart(k)
  <2>1. \A k \in Conns : ~Ready(k) /\ ~SendHello(k) /\ ~ForgetConnection(k)
    BY DEF Ready, SendHello, ForgetConnection
  <2>2. \A k \in Conns : \A c \in Cases : ~SendCaseStart(k, c)
    BY <2>1 DEF SendCaseStart
  <2>3. \A k \in Conns : \A i \in 0..MaxPcm : ~AppendSpeech(k, i)
    BY <2>1 DEF AppendSpeech
  <2>4. \A k \in Conns : \A s \in Segments : \A c \in Cases : ~StartSpeech(k, c, s)
    BY <2>1 DEF StartSpeech
  <2>5. \A k \in Conns : \A s \in Segments :
          ~WaitForCommit(k, s) /\ ~EndReplayed(k, s) /\ ~EndMismatch(k, s)
    BY <2>1 DEF WaitForCommit, EndReplayed, EndMismatch
  <2>6. \A k \in Conns : \A s \in Segments : ~EndMissing(k, s) /\ ~EndSpeech(k, s)
    BY <2>1 DEF EndMissing, EndSpeech
  <2> QED BY <1>1, <2>1, <2>2, <2>3, <2>4, <2>5, <2>6 DEF ConnectionStep
<1>2. ASSUME TransactionStep PROVE RefuseTransaction
  <2>1. \A op : ~Starting(op) /\ ~Returned(op)
    BY DEF Starting, Returned, Running
  <2>2. ~BeginHello /\ ~BeginCase /\ ~BeginRemoval /\ ~BeginEnd /\ ~BeginForeign
        /\ ~BeginTranscribing /\ ~BeginSaved /\ ~BeginFailed
    BY <2>1 DEF BeginHello, BeginCase, BeginRemoval, BeginEnd, BeginForeign, BeginTranscribing,
                BeginSaved, BeginFailed
  <2>3. ~HelloReturns /\ ~CaseReturns /\ ~EndReturns /\ ~TranscribingReturns /\ ~OutcomeReturns
        /\ ~CleanReturns /\ ~ForeignReturns
    BY <2>1 DEF HelloReturns, CaseReturns, EndReturns, TranscribingReturns, OutcomeReturns,
                CleanReturns, ForeignReturns
  <2>4. ~FinishFailCommit /\ ~CleanAudio /\ ~RenameState /\ ~WorkAborts
    BY DEF FinishFailCommit, CleanAudio, Removing, RenameState, WorkAborts
  <2> QED BY <1>2, <2>2, <2>3, <2>4 DEF TransactionStep
<1>3. ASSUME WorkStep PROVE StartWork \/ Recognise
  BY <1>3 DEF WorkStep, WriteWav
<1>4. ASSUME FaultStep PROVE \E s \in Segments : WriteWavFails(s)
  <2>1. ~CleanFails /\ ~CommitFailsVisible
    BY DEF CleanFails, Removing, CommitFailsVisible
  <2>2. \A ops : ~Unwritten(ops)
    BY DEF Unwritten
  <2> QED BY <1>4, <2>1, <2>2
          DEF FaultStep, Exits, UnwrittenHello, UnwrittenCase, UnwrittenEnd, UnwrittenWork,
              UnwrittenForeign
<1>5. ~LifeStep
  BY DEF LifeStep, SubmitForeign, Stop, BeginExit, Recover, Exits
<1> QED BY <1>1, <1>2, <1>3, <1>4, <1>5 DEF Next

\* After a halt the memory that is never written again only lets go of what was not durable.
LEMMA HaltedLedger ==
  ASSUME FramesInv, LifeInv, HaltInv, ~writable, [Next]_vars, ~Exits
  PROVE  /\ HaltInv' /\ txn' = NoTxn /\ exit' = exit
         /\ \A s \in Segments : Pending(dev.jobs[s]) => dev'.jobs[s] = dev.jobs[s]
<1>1. mode = "stopping" /\ txn = NoTxn
  BY DEF LifeInv
<1> USE <1>1
<1>2. ~Pending(NoJob)
  BY DEF Pending, NoJob
<1>3. CASE \E k \in Conns : CloseConnection(k)
  <2>1. PICK k \in Conns : CloseConnection(k)
    BY <1>3
  <2>2. UNCHANGED <<writable, txn, exit>>
    BY <2>1 DEF CloseConnection, proc
  <2>3. CASE dev' = dev
    BY <2>2, <2>3 DEF HaltInv
  <2>4. CASE dev.active # NoStream /\ AbandonActive
    <3>1. /\ dev'.active = NoStream
          /\ IF Abandonable(dev.active) THEN Discards(dev, dev', {dev.active.seg})
             ELSE SameLedger(dev, dev')
      BY <2>4, DevHasShape, AbandonFields
    <3>2. CASE Abandonable(dev.active)
      <4>1. ~dev.active.replay /\ dev.active.seg \notin dev.durable
        BY <2>4, <3>2 DEF HaltInv, Abandonable
      <4>2. /\ dev'.durable = dev.durable \ {dev.active.seg}
            /\ dev'.jobs = [t \in Segments |-> IF t \in {dev.active.seg} THEN NoJob ELSE dev.jobs[t]]
        BY <3>1, <3>2 DEF Discards
      <4> QED BY <1>2, <2>2, <3>1, <4>1, <4>2 DEF HaltInv
    <3>3. CASE ~Abandonable(dev.active)
      BY <2>2, <3>1, <3>3 DEF HaltInv, SameLedger
    <3> QED BY <3>2, <3>3
  <2> QED BY <2>1, <2>3, <2>4 DEF CloseConnection
<1>4. CASE \E k \in Conns : ResumeStart(k)
  <2>1. PICK k \in Conns : ResumeStart(k)
    BY <1>4
  <2> DEFINE s == conn[k].on
  <2>2. UNCHANGED <<writable, txn, exit>> /\ s \in Segments
    BY <2>1, ConnHasShape DEF ResumeStart, proc, Resumable, ConnsHold
  <2>3. CASE dev' = dev
    BY <2>2, <2>3 DEF HaltInv
  <2>4. CASE s \in dev.durable /\ dev' = [dev EXCEPT !.active = Recording(k, s, TRUE)]
    <3>1. dev'.active = Recording(k, s, TRUE) /\ SameLedger(dev, dev')
      BY <2>4, DevHasShape, ActiveFields
    <3>2. dev'.active.replay
      BY <3>1 DEF Recording
    <3> QED BY <2>2, <3>1, <3>2 DEF HaltInv, SameLedger
  <2>5. CASE s \notin dev.durable /\ \E c : OpenStream(k, c, s)
    <3>1. PICK c : OpenStream(k, c, s)
      BY <2>5
    <3>2. /\ dev'.durable = dev.durable /\ dev'.jobs = dev.jobs
          /\ \/ dev'.active = FirstStream(k, s)
             \/ ReplaysDurable(c, s)
      BY <2>2, <3>1, DevHasShape, OpenStreamFields
    <3>3. dev'.active = FirstStream(k, s)
      BY <2>5, <3>2 DEF ReplaysDurable
    <3>4. dev'.active.seg = s
      BY <3>3 DEF FirstStream, Recording
    <3> QED BY <2>2, <2>5, <3>2, <3>4 DEF HaltInv
  <2> QED BY <2>1, <2>3, <2>4, <2>5 DEF ResumeStart, RefuseStream
<1>5. CASE \E s \in Segments : WriteWavFails(s)
  <2>1. PICK s \in Segments : WriteWavFails(s)
    BY <1>5
  <2>2. dev' = [dev EXCEPT !.commits[s].step = "done"] /\ UNCHANGED <<writable, txn, exit>>
    BY <2>1 DEF WriteWavFails, proc
  <2>3. dev'.active = dev.active /\ dev'.jobs = dev.jobs /\ dev'.durable = dev.durable
    BY <2>2, DevHasShape DEF DevShape
  <2> QED BY <2>2, <2>3 DEF HaltInv
<1>6. CASE StartWork \/ Recognise \/ RefuseTransaction \/ UNCHANGED vars
  <2>1. dev' = dev \/ OnlyQueue(dev, dev')
    BY <1>6, QueueSteps
  <2>2. UNCHANGED <<txn, exit>>
    BY <1>6 DEF StartWork, Recognise, RefuseTransaction, Halt, vars, proc
  <2>3. dev'.active = dev.active /\ dev'.jobs = dev.jobs /\ dev'.durable = dev.durable
    BY <2>1 DEF OnlyQueue, SameLedger
  <2> QED BY <2>2, <2>3 DEF HaltInv
<1> QED BY <1>3, <1>4, <1>5, <1>6, HaltedStep

\* A case that could not be written brings back the ledger it began with.
LEMMA CaseRestored ==
  ASSUME FramesInv, UnwrittenCase
  PROVE  /\ dev'.active = NoStream /\ dev'.jobs = txn.back.jobs
         /\ dev'.durable = txn.back.durable /\ Restorable(txn.back)
         /\ Begun /\ txn.call.op = "case" /\ txn' = NoTxn /\ ~writable' /\ exit' = exit
<1> DEFINE dw == RestoredDevice(txn.back)
<1>1. /\ Restorable(txn.back) /\ txn.phase = "writing" /\ txn.call.op = "case" /\ txn' = NoTxn
      /\ ~writable' /\ exit' = exit
      /\ dev' = [dw EXCEPT !.commits = dev.commits, !.queue = dev.queue]
  BY DEF UnwrittenCase, Unwritten, Halt
<1>2. /\ DevShape(dw) /\ dw.durable = txn.back.durable /\ dw.jobs = txn.back.jobs
      /\ dw.active = NoStream
  BY RestoredFields
<1> HIDE DEF dw
<1>3. dev'.active = dw.active /\ dev'.jobs = dw.jobs /\ dev'.durable = dw.durable
  BY <1>1, <1>2 DEF DevShape
<1> QED BY <1>1, <1>2, <1>3 DEF Begun

LEMMA HaltNext ==
  ASSUME Disciplined, LedgerInv, HaltInv, [Next]_vars PROVE HaltInv'
<1>1. FramesInv /\ ControlInv /\ LifeInv /\ WorkInv /\ RestoreInv
  BY DEF LedgerInv, ControlInv
<1>2. CASE Exits
  BY <1>2, ExitsForget DEF ForgetProcess, HaltInv
<1>3. CASE Recover
  BY <1>1, <1>3 DEF Recover, LifeInv, HaltInv
<1>4. CASE ~Exits /\ ~writable
  BY <1>1, <1>4, HaltedLedger
<1>5. CASE UnwrittenCase
  <2>1. /\ dev'.active = NoStream /\ dev'.jobs = txn.back.jobs
        /\ dev'.durable = txn.back.durable /\ Restorable(txn.back)
    BY <1>1, <1>5, CaseRestored
  <2>2. \A s \in Segments : Pending(txn.back.jobs[s]) => s \in txn.back.durable
    BY <2>1 DEF Restorable, Pending
  <2> QED BY <2>1, <2>2 DEF HaltInv
<1>6. CASE ~Exits /\ ~Recover /\ ~UnwrittenCase /\ writable
  <2>1. Core(cm', dev', Ends')
    BY <1>1, <1>6, MemoryStep DEF CoreStep
  <2>2. \A s \in Segments : Pending(dev'.jobs[s]) => s \in dev'.durable
    BY <2>1 DEF Core, Sound, JobSound, Pending, NoJob
  <2>3. dev'.active # NoStream /\ ~dev'.active.replay => dev'.active.seg \notin dev'.durable
    BY <2>1 DEF Core, StreamSound
  <2> QED BY <2>2, <2>3 DEF HaltInv
<1> QED BY <1>2, <1>3, <1>4, <1>5, <1>6

\* Once the shutdown has taken its snapshot nothing writes the ledger, but a case whose
\* commit fails and brings back the ledger before it.
LEMMA StoppedWrites ==
  ASSUME LifeInv, mode = "stopping", txn.phase # "removing", Writes PROVE UnwrittenCase
<1>1. ~Takes
  BY TakenTxn
<1>2. ~CleanAudio
  BY CleanedTxn
<1> QED BY <1>1, <1>2 DEF Writes, BeginWork, Takes

LEMMA ExitNext ==
  ASSUME Disciplined, LedgerInv, AgreeInv, HaltInv, ExitInv, [Next]_vars PROVE ExitInv'
<1>1. FramesInv /\ ControlInv /\ LifeInv /\ WorkInv /\ RestoreInv
  BY DEF LedgerInv, ControlInv
<1>2. CASE Exits
  BY <1>2, ExitsForget DEF ForgetProcess, ExitInv
<1>3. CASE Recover
  BY <1>1, <1>3 DEF Recover, LifeInv, ExitInv
<1>4. CASE BeginExit
  <2>1. /\ writable /\ mode = "stopping" /\ txn' = txn /\ txn.phase # "removing"
        /\ exit' = PersistentState'
    BY <1>4, NoTxnPhase DEF BeginExit
  <2>2. MemoryInv /\ ~Exits /\ ~Recover
    BY <1>1, <2>1, <1>4 DEF RestoreInv, Exits, Crash, FinishExit, Recover, BeginExit, ForgetProcess
  <2>3. LedgerKept
    BY <1>1, <2>1, <2>2, SameTxn, QuietLedger
  <2>4. exit'.jobs = dev'.jobs
    BY <2>1 DEF PersistentState
  <2>5. Begun' /\ txn'.call.op = "case" =>
          \A s \in Segments : Pending(exit'.jobs[s]) => txn'.back.jobs[s] = exit'.jobs[s]
    BY <2>1, <2>3, <2>4 DEF AgreeInv, CaseAgrees, LedgerKept, Begun
  <2> QED BY <2>4, <2>5 DEF ExitInv
<1>5. CASE ~Exits /\ ~Recover /\ ~BeginExit /\ exit # None
  <2>1. mode = "stopping" /\ txn.phase # "removing"
    BY <1>1, <1>5 DEF LifeInv
  <2>2. exit' = exit
    <3>1. CASE RenameState
      BY <1>1, <3>1, RenamedTxn
    <3> QED BY <1>1, <1>5, <3>1, StoreStays
  <2>3. CASE ~writable
    BY <1>1, <1>5, <2>2, <2>3, HaltedLedger, WritableStays, NoTxnPhase DEF ExitInv, Begun
  <2>4. CASE UnwrittenCase
    <3>1. /\ dev'.jobs = txn.back.jobs /\ Begun /\ txn.call.op = "case" /\ txn' = NoTxn
          /\ ~writable'
      BY <1>1, <2>4, CaseRestored
    <3> QED BY <1>5, <2>2, <3>1, NoTxnPhase DEF ExitInv, Begun
  <2>5. CASE writable /\ ~UnwrittenCase
    <3>1. MemoryInv
      BY <1>1, <2>5 DEF RestoreInv
    <3>2. LedgerKept
      BY <1>1, <1>5, <2>1, <2>5, <3>1, StoppedWrites, QuietLedger
    <3>3. Begun' => Begun /\ txn'.call = txn.call /\ txn'.back = txn.back
      BY <1>1, <1>5, <2>1, BegunStep, RenamedTxn, TakenTxn, CleanedTxn
    <3> QED BY <1>5, <2>2, <2>5, <3>2, <3>3 DEF ExitInv, LedgerKept
  <2> QED BY <2>3, <2>4, <2>5
<1>6. CASE ~Exits /\ ~Recover /\ ~BeginExit /\ exit = None
  <2>1. exit' = None
    <3>1. CASE RenameState
      BY <1>1, <1>6, <3>1, RenamedTxn
    <3> QED BY <1>1, <1>6, <3>1, StoreStays
  <2> QED BY <2>1 DEF ExitInv
<1> QED BY <1>2, <1>3, <1>4, <1>5, <1>6

----------------------------------------------------------------------------
(* The WAVs that are needed stay.                                          *)

LEMMA PendingFile ==
  ASSUME MemoryInv, NEW s \in Segments, Pending(dev.jobs[s])
  PROVE  /\ FileOf(dev.jobs[s].file, s) /\ s \in dev.durable /\ dev.jobs[s].file # None
         /\ cm.current[Device] = CaseOf[s]
<1>1. ~Pending(NoJob)
  BY DEF Pending, NoJob
<1>2. FileOf(dev.jobs[s].file, s) /\ s \in dev.durable
  BY <1>1 DEF MemoryInv, Core, Sound, JobSound
<1>3. dev.jobs[s].file # None
  BY <1>2, PipelineAssumption DEF FileOf, Files
<1> QED BY <1>2, <1>3, DurableIsCurrent

LEMMA LiveFile ==
  ASSUME MemoryInv, NEW s \in Segments, LiveRow(dev.commits[s])
  PROVE  /\ FileOf(dev.commits[s].file, s) /\ ~Past(cm, s)
         /\ cm.current[Device] = CaseOf[s]
<1>1. FileOf(dev.commits[s].file, s) /\ Live(cm, s)
  BY DEF MemoryInv, Core, CommitSound, LiveRow
<1>2. cm.current[Device] = CaseOf[s] /\ CaseOf[s] \in Nat
  BY <1>1, LiveIsCurrent DEF Live
<1> QED BY <1>1, <1>2 DEF Past

\* What a step may not remove: the audio of the jobs to do and of the commits that remain.
WavsKept ==
  \A t \in Segments :
    /\ Pending(dev.jobs[t]) /\ dev.jobs[t].file \in wavs => dev.jobs[t].file \in wavs'
    /\ LiveRow(dev.commits[t]) /\ LiveRow(dev'.commits[t]) /\ dev.commits[t].file \in wavs =>
         dev.commits[t].file \in wavs'

LEMMA FailRemoves ==
  ASSUME FramesInv, MemoryInv, FinishFailCommit PROVE WavsKept
<1> DEFINE s == txn.call.s
<1>1. /\ txn # NoTxn /\ txn.call.op \in EndOps /\ s \in Segments
      /\ dev'.commits[s] = NoCommit /\ wavs' = wavs \ {dev.commits[s].file}
      /\ txn.phase = "removing"
  BY FailsCommit DEF FinishFailCommit, CommitOf, Removing
<1>2. dev.commits[s].step = "done" /\ s \notin Ends
  BY <1>1, CommitIs DEF Ends, Begun
<1> HIDE DEF s
<1>3. s \notin dev.durable
  BY <1>1, <1>2 DEF MemoryInv, Core, CommitSound
<1>4. dev.commits[s].file = None \/ dev.commits[s].file[2] = s
  BY <1>1 DEF MemoryInv, Core, CommitSound, FileOf
<1>5. ASSUME NEW t \in Segments, Pending(dev.jobs[t]), dev.jobs[t].file \in wavs
      PROVE  dev.jobs[t].file \in wavs'
  BY <1>1, <1>3, <1>4, <1>5, PendingFile DEF FileOf
<1>6. ASSUME NEW t \in Segments, LiveRow(dev.commits[t]), LiveRow(dev'.commits[t]),
             dev.commits[t].file \in wavs
      PROVE  dev.commits[t].file \in wavs'
  <2>1. t # s
    BY <1>1, <1>6 DEF LiveRow, NoCommit
  <2>2. dev.commits[t].file # None /\ dev.commits[t].file[2] = t
    BY <1>6, LiveFile DEF LiveRow, FileOf
  <2> QED BY <1>1, <1>4, <1>6, <2>1, <2>2
<1> QED BY <1>5, <1>6 DEF WavsKept

LEMMA CleanRemoves ==
  ASSUME FramesInv, MemoryInv, CallsOK, QueueOK, WorkHolds(Outstanding, dev.queue), CleanAudio
  PROVE  WavsKept
<1> DEFINE s == txn.call.s
<1>1. txn # NoTxn /\ txn.call.op = "clean" /\ wavs' = wavs \ {Head(dev.queue).file}
  BY DEF CleanAudio, Removing, Work
<1>2. 1 \in 1..Len(Outstanding) /\ Outstanding[1] = txn.call
  BY <1>1, RunningCall
<1>3. s \in Segments /\ Head(dev.queue).s = s /\ EntryOK(cm, dev, Head(dev.queue))
  BY <1>1, <1>2, AtWork DEF WorkOps
<1>4. ~Pending(dev.jobs[s])
  BY <1>1, <1>2 DEF CallsOK
<1> HIDE DEF s
<1>5. Head(dev.queue).file[2] = s /\ Held1(cm, dev, s)
  BY <1>3 DEF EntryOK, FileOf
<1>6. ASSUME NEW t \in Segments, Pending(dev.jobs[t]), dev.jobs[t].file \in wavs
      PROVE  dev.jobs[t].file \in wavs'
  BY <1>1, <1>4, <1>5, <1>6, PendingFile DEF FileOf
<1>7. ASSUME NEW t \in Segments, LiveRow(dev.commits[t]), dev.commits[t].file \in wavs
      PROVE  dev.commits[t].file \in wavs'
  <2>1. dev.commits[t].file[2] = t /\ ~Past(cm, t)
    BY <1>7, LiveFile DEF FileOf
  <2>2. t # s
    BY <1>5, <1>7, <2>1 DEF Held1, LiveRow
  <2> QED BY <1>1, <1>5, <1>7, <2>1, <2>2
<1> QED BY <1>6, <1>7 DEF WavsKept

LEMMA CaseRemoves ==
  ASSUME FramesInv, MemoryInv, AgreeInv, CaseReturns PROVE WavsKept
<1>1. Begun /\ txn.call.op = "case"
  BY DEF CaseReturns, Returned, Running, Begun
<1>2. cm.current[Device] = txn.call.c
  BY <1>1 DEF AgreeInv, CaseAgrees
<1>3. \A f \in wavs : f[1] = txn.call.c => f \in wavs'
  BY DEF CaseReturns
<1>4. \A t \in Segments : Pending(dev.jobs[t]) => dev.jobs[t].file[1] = txn.call.c
  BY <1>2, PendingFile DEF FileOf
<1>5. \A t \in Segments : LiveRow(dev.commits[t]) => dev.commits[t].file[1] = txn.call.c
  BY <1>2, LiveFile DEF FileOf
<1> QED BY <1>3, <1>4, <1>5 DEF WavsKept

\* Audio is removed by those three, the end of the process, and a start.
LEMMA WavsMove ==
  ASSUME [Next]_vars, ~Exits, ~Recover
  PROVE  wavs \subseteq wavs' \/ FinishFailCommit \/ CleanAudio \/ CaseReturns
<1>1. CASE ConnectionStep
  <2>1. PICK k \in Conns :
        \/ SendHello(k) \/ CloseConnection(k) \/ ForgetConnection(k)
        \/ ResumeStart(k)
        \/ \E c \in Cases : SendCaseStart(k, c)
        \/ \E sequence \in 0..MaxPcm : AppendSpeech(k, sequence)
        \/ \E s \in Segments :
             \/ \E c \in Cases : StartSpeech(k, c, s)
             \/ WaitForCommit(k, s)
             \/ EndReplayed(k, s) \/ EndMismatch(k, s)
             \/ EndMissing(k, s) \/ EndSpeech(k, s)
    BY <1>1 DEF ConnectionStep
  <2>2. UNCHANGED store
    BY <2>1 DEF SendHello, CloseConnection, ForgetConnection, ResumeStart, SendCaseStart,
         AppendSpeech, StartSpeech, WaitForCommit, EndReplayed, EndMismatch, EndMissing, EndSpeech
  <2> QED BY <2>2 DEF store
<1>2. CASE TransactionStep
  BY <1>2 DEF TransactionStep, BeginHello, BeginCase, BeginRemoval, BeginEnd, BeginForeign,
         BeginTranscribing, BeginSaved, BeginFailed, WorkAborts, RefuseTransaction, RenameState,
         HelloReturns, EndReturns, TranscribingReturns, OutcomeReturns, CleanReturns,
         ForeignReturns, store
<1>3. CASE WorkStep
  BY <1>3 DEF WorkStep, WriteWav, StartWork, Recognise, store
<1>4. CASE FaultStep
  BY <1>4 DEF FaultStep, WriteWavFails, CleanFails, UnwrittenHello, UnwrittenCase, UnwrittenEnd,
         UnwrittenWork, UnwrittenForeign, Unwritten, CommitFailsVisible, Exits, store
<1>5. CASE LifeStep
  BY <1>5 DEF LifeStep, SubmitForeign, Stop, BeginExit, Exits, store
<1>6. CASE UNCHANGED vars
  BY <1>6 DEF vars, store
<1> QED BY <1>1, <1>2, <1>3, <1>4, <1>5, <1>6 DEF Next

\* A job to do was one before the step, with the same audio, or its commit just began.
LEMMA WorkPending ==
  ASSUME FramesInv, MemoryInv, QueueOK, WorkHolds(Outstanding, dev.queue), CoreStep, BeginWork,
         NEW s \in Segments, Pending(dev'.jobs[s])
  PROVE  Pending(dev.jobs[s]) /\ dev'.jobs[s].file = dev.jobs[s].file
<1> DEFINE t == Call1.s
<1>1. /\ txn = NoTxn /\ tail # <<>> /\ Call1.op \in WorkOps
      /\ \E status : dev' = SetStatus(dev, t, status)
  BY DEF BeginWork, BeginTranscribing, BeginSaved, BeginFailed, Starting, Call1, WorkOps
<1>2. t \in Segments /\ Held1(cm, dev, t)
  BY <1>1, FirstCall, AtWork DEF EntryOK
<1>3. Pending(dev'.jobs[t]) => Pending(dev.jobs[t])
  BY <1>2 DEF CoreStep, Steady
<1> HIDE DEF t
<1>4. PICK status : dev' = SetStatus(dev, t, status)
  BY <1>1
<1>5. dev'.jobs = IF dev.jobs[t] = NoJob THEN dev.jobs ELSE [dev.jobs EXCEPT ![t].status = status]
  BY <1>4, DevHasShape, StatusJobs
<1>6. dev.jobs \in [Segments -> Job]
  BY DEF MemoryInv, Core, Sound
<1>7. dev.jobs[t] = [status |-> dev.jobs[t].status, file |-> dev.jobs[t].file]
  BY <1>2, <1>6 DEF Job
<1>8. dev'.jobs[t].file = dev.jobs[t].file /\ \A u \in Segments : u # t => dev'.jobs[u] = dev.jobs[u]
  BY <1>2, <1>5, <1>6, <1>7
<1> QED BY <1>3, <1>8

LEMMA CleanPending ==
  ASSUME FramesInv, MemoryInv, CallsOK, CleanAudio, NEW s \in Segments, Pending(dev'.jobs[s])
  PROVE  dev'.jobs[s] = dev.jobs[s]
<1> DEFINE t == txn.call.s
<1>1. dev'.jobs = IF dev.jobs[t] = NoJob THEN dev.jobs ELSE [dev.jobs EXCEPT ![t].file = None]
  BY DevHasShape, CleanAudioFields
<1>2. txn # NoTxn /\ txn.call.op = "clean"
  BY DEF CleanAudio, Removing
<1>3. ~Pending(dev.jobs[t])
  BY <1>2, RunningCall DEF CallsOK
<1> HIDE DEF t
<1>4. dev.jobs \in [Segments -> Job]
  BY DEF MemoryInv, Core, Sound
<1>5. CASE s = t
  <2>1. dev.jobs[s] = [status |-> dev.jobs[s].status, file |-> dev.jobs[s].file]
    BY <1>4 DEF Job
  <2>2. dev'.jobs[s].status = dev.jobs[s].status
    BY <1>1, <1>4, <1>5, <2>1
  <2> QED BY <1>3, <1>5, <2>2 DEF Pending
<1> QED BY <1>1, <1>4, <1>5

LEMMA PendingFrom ==
  ASSUME FramesInv, MemoryInv, CallsOK, QueueOK, WorkHolds(Outstanding, dev.queue), CoreStep,
         [Next]_vars, ~Exits, ~Recover, ~UnwrittenCase, NEW s \in Segments, Pending(dev'.jobs[s])
  PROVE  \/ Pending(dev.jobs[s]) /\ dev'.jobs[s].file = dev.jobs[s].file
         \/ BeginEnd /\ s = Call1.s
<1>1. ~Pending(NoJob)
  BY DEF Pending, NoJob
<1>2. CASE ~Writes
  BY <1>2, LedgerNext DEF LedgerKept
<1>3. CASE BeginCase
  BY <1>1, <1>3, CaseLedger
<1>4. CASE BeginEnd /\ s # Call1.s
  <2>1. dev'.jobs = [dev.jobs EXCEPT ![Call1.s] = [status |-> "queued",
                                                   file |-> dev.commits[Call1.s].file]]
    BY <1>4, EndsSegment
  <2>2. dev'.jobs[s] = dev.jobs[s]
    BY <1>4, <2>1 DEF MemoryInv, Core, Sound
  <2> QED BY <2>2
<1>5. CASE BeginWork
  BY <1>5, WorkPending
<1>6. CASE CleanAudio
  BY <1>6, CleanPending
<1>7. CASE UnwrittenEnd /\ mode = "up"
  <2>1. Discards(dev, dev', {txn.call.s})
    BY <1>7, UnwrittenForgets
  <2>2. dev'.jobs[s] \in {dev.jobs[s], NoJob}
    BY <2>1 DEF Discards
  <2> QED BY <1>1, <2>2
<1> QED BY <1>2, <1>3, <1>4, <1>5, <1>6, <1>7 DEF Writes

LEMMA WavsStep ==
  ASSUME FramesInv, MemoryInv, CallsOK, QueueOK, WorkHolds(Outstanding, dev.queue), AgreeInv,
         [Next]_vars, ~Exits, ~Recover
  PROVE  (wavs \subseteq wavs' \/ FinishFailCommit \/ CleanAudio \/ CaseReturns) /\ WavsKept
<1>1. wavs \subseteq wavs' => WavsKept
  BY DEF WavsKept
<1> QED BY <1>1, WavsMove, FailRemoves, CleanRemoves, CaseRemoves

LEMMA MemoryWavsNext ==
  ASSUME FramesInv, MemoryInv, CallsOK, QueueOK, WorkHolds(Outstanding, dev.queue), CoreStep,
         AgreeInv, [Next]_vars, ~Exits, ~Recover, ~UnwrittenCase, MemoryWavs
  PROVE  MemoryWavs'
<1>1. WavsKept
  BY WavsStep
<1>2. ASSUME NEW s \in Segments, Pending(dev'.jobs[s]) PROVE dev'.jobs[s].file \in wavs'
  <2>1. CASE Pending(dev.jobs[s]) /\ dev'.jobs[s].file = dev.jobs[s].file
    BY <1>1, <2>1 DEF WavsKept, MemoryWavs, KeepsWavs
  <2>2. CASE BeginEnd /\ s = Call1.s
    <3>1. /\ dev.commits[s].step = "done" /\ ~dev.commits[s].stale
          /\ dev'.jobs = [dev.jobs EXCEPT ![s] = [status |-> "queued", file |-> dev.commits[s].file]]
      BY <2>2, EndsSegment
    <3>2. txn = NoTxn /\ tail # <<>> /\ Call1.op = "end" /\ wavs' = wavs
      BY <2>2 DEF BeginEnd, Starting, Call1, store
    <3>3. dev.commits[s].file # None
      BY <2>2, <3>2, FirstCall DEF CallsOK, CommitOf
    <3>4. dev'.jobs[s].file = dev.commits[s].file
      BY <3>1 DEF MemoryInv, Core, Sound
    <3> QED BY <3>1, <3>2, <3>3, <3>4 DEF MemoryWavs, LiveRow
  <2> QED BY <1>2, <2>1, <2>2, PendingFrom
<1>3. ASSUME NEW s \in Segments, LiveRow(dev'.commits[s]) PROVE dev'.commits[s].file \in wavs'
  <2>1. CASE FilesKept
    <3>1. LiveRow(dev.commits[s]) /\ dev'.commits[s].file = dev.commits[s].file
      BY <1>3, <2>1 DEF FilesKept, LiveRow
    <3> QED BY <1>1, <1>3, <3>1 DEF WavsKept, MemoryWavs
  <2>2. CASE \E t \in Segments : WriteWav(t)
    <3>1. PICK t \in Segments : WriteWav(t)
      BY <2>2
    <3> DEFINE file == <<cm.seg[t].case, t, spent.tries[t] + 1>>
               row  == [k |-> CommitOf(t).k, stale |-> CommitOf(t).stale, file |-> file,
                        step |-> "done"]
    <3>2. dev' = SetCommit(dev, t, row) /\ wavs' = wavs \cup {file} /\ RowShape(row)
      <4>1. wavs' = wavs \cup {file}
        BY <3>1 DEF WriteWav
      <4> HIDE DEF row
      <4>2. dev' = SetCommit(dev, t, row) /\ RowShape(row)
        BY <3>1, WriteWavCommit DEF row
      <4> QED BY <4>1, <4>2
    <3>3. row.file = file
      OBVIOUS
    <3> HIDE DEF row, file
    <3>4. /\ dev'.commits[t] = row
          /\ \A u \in Segments : u # t => dev'.commits[u] = dev.commits[u]
      BY <3>1, <3>2, DevHasShape, CommitFields DEF OnlyCommit
    <3> QED BY <1>3, <3>2, <3>3, <3>4 DEF MemoryWavs
  <2> QED BY <2>1, <2>2, CommitsNext
<1> QED BY <1>2, <1>3 DEF MemoryWavs, KeepsWavs

LEMMA KeptOver ==
  ASSUME NEW jobs, KeepsWavs(jobs, wavs), wavs \subseteq wavs' \/ (WavsKept /\ jobs = dev.jobs)
  PROVE  KeepsWavs(jobs, wavs')
  BY DEF KeepsWavs, WavsKept

\* Whenever a file is removed, every state a restart may find has the jobs of memory.
LEMMA RemovedAgrees ==
  ASSUME FramesInv, ControlInv, AgreeInv, ExitInv, FinishFailCommit \/ CleanAudio \/ CaseReturns
  PROVE  /\ txn # NoTxn /\ writable /\ mode # "down" /\ disk' = disk /\ disk.jobs = dev.jobs
         /\ undo' = None /\ exit' = exit /\ (exit # None => exit.jobs = dev.jobs)
         /\ Begun' => CleanAudio
<1>1. txn # NoTxn /\ mode # "down" /\ disk' = disk /\ exit' = exit
  BY DEF FinishFailCommit, CleanAudio, CaseReturns, Removing, Returned, Running, proc
<1>2. writable
  BY <1>1 DEF ControlInv, LifeInv
<1>3. (FinishFailCommit \/ CleanAudio) => txn.phase = "removing" /\ undo' = undo
  BY DEF FinishFailCommit, CleanAudio, Removing
<1>4. Begun' => CleanAudio
  BY NoTxnPhase DEF Begun, FinishFailCommit, CaseReturns, Returned
<1>5. /\ disk.jobs = dev.jobs /\ undo' = None /\ (exit # None => exit.jobs = dev.jobs)
  <2>1. CASE CaseReturns
    <3>1. txn.phase = "renamed" /\ undo' = None
      BY <2>1 DEF CaseReturns, Returned
    <3>2. disk = txn.snap /\ Agrees(cm, dev, txn.snap)
      BY <3>1 DEF ControlInv, UndoInv, AgreeInv, WrittenAgrees, Begun
    <3> QED BY <1>2, <3>1, <3>2 DEF Agrees, ExitInv
  <2>2. CASE txn.phase = "removing" /\ undo' = undo
    <3>1. undo = None /\ ~Begun
      BY <2>2 DEF ControlInv, UndoInv, Begun
    <3>2. Agrees(cm, dev, disk)
      BY <1>1, <1>2, <3>1 DEF AgreeInv, DiskAgrees
    <3>3. exit = None
      BY <2>2 DEF ControlInv, LifeInv
    <3> QED BY <2>2, <3>1, <3>2, <3>3 DEF Agrees
  <2> QED BY <1>3, <2>1, <2>2
<1> QED BY <1>1, <1>2, <1>4, <1>5

LEMMA WavsExit ==
  ASSUME ExitInv, WavsInv, Exits PROVE WavsInv'
<1>1. mode' = "down" /\ txn' = NoTxn /\ exit' = None /\ undo' = None
  BY ExitsForget DEF ForgetProcess
<1>2. KeepsWavs(disk.jobs, wavs) /\ (undo # None => KeepsWavs(undo.jobs, wavs))
      /\ (exit # None => KeepsWavs(exit.jobs, wavs))
  BY DEF WavsInv
<1>3. KeepsWavs(disk'.jobs, wavs')
  <2>1. CASE Crash
    BY <1>2, <2>1 DEF Crash
  <2>2. CASE FinishExit
    <3>1. /\ exit # None /\ disk' = exit
          /\ wavs' = {f \in wavs : \E s \in Segments : dev.jobs[s].file = f}
      BY <2>2 DEF FinishExit
    <3> QED BY <1>2, <3>1 DEF KeepsWavs, ExitInv
  <2> QED BY <2>1, <2>2 DEF Exits
<1> QED BY <1>1, <1>3, NoTxnPhase DEF WavsInv, Begun

\* A start keeps the audio of the jobs it goes on with.
LEMMA WavsRecover ==
  ASSUME FramesInv, ControlInv, SnapOK(disk), WavsInv, Recover PROVE WavsInv'
<1>1. KeepsWavs(disk.jobs, wavs) /\ LostJobs = {}
  BY NoneLost DEF WavsInv
<1>2. PICK stuck \in SUBSET SettledFiles :
        LET dw == RecoveredDevice(stuck)
        IN /\ wavs' = {f \in wavs : \E s \in Segments : dw.jobs[s].file = f}
           /\ \/ /\ disk' = IF dw.jobs = disk.jobs THEN disk ELSE PersistentState'
                 /\ \E order : dev' = [dw EXCEPT !.queue = RecoveredQueue(order, dw.jobs)]
              \/ UNCHANGED <<mode, dev, disk>>
  BY DEF Recover
<1> DEFINE dw == RecoveredDevice(stuck)
<1>3. /\ wavs' = {f \in wavs : \E s \in Segments : dw.jobs[s].file = f}
      /\ \/ /\ disk' = disk \/ disk' = PersistentState'
            /\ \E q : dev' = [dw EXCEPT !.queue = q]
         \/ UNCHANGED <<mode, dev, disk>>
  BY <1>2
<1>4. /\ DevShape(dw) /\ dw.jobs = RecoveredJobs(stuck)
      /\ \A t \in Segments : dw.commits[t] = NoCommit
  BY RecoveredFields
<1> HIDE DEF dw
<1>5. \A t \in Segments : Pending(disk.jobs[t]) => dw.jobs[t] = disk.jobs[t]
  BY <1>1, <1>4 DEF RecoveredJobs
<1>6. \A t \in Segments : Pending(dw.jobs[t]) => Pending(disk.jobs[t])
  <2> SUFFICES ASSUME NEW t \in Segments, ~Pending(disk.jobs[t]) PROVE ~Pending(dw.jobs[t])
    OBVIOUS
  <2>1. disk.jobs[t] = [status |-> disk.jobs[t].status, file |-> disk.jobs[t].file]
    BY DEF SnapOK, Sound, Job
  <2>2. dw.jobs[t].status = disk.jobs[t].status
    BY <1>1, <1>4, <2>1 DEF RecoveredJobs
  <2> QED BY <2>2 DEF Pending
<1>7. KeepsWavs(disk.jobs, wavs') /\ KeepsWavs(dw.jobs, wavs')
  BY <1>1, <1>3, <1>5, <1>6 DEF KeepsWavs
<1>8. txn = NoTxn /\ undo = None /\ exit = None /\ mode = "down"
      /\ txn' = txn /\ undo' = undo /\ exit' = exit
  BY DEF Recover, FramesInv, DownIsEmpty, ControlInv, LifeInv, UndoInv
<1>9. CASE \E q : dev' = [dw EXCEPT !.queue = q]
  <2>1. dev'.jobs = dw.jobs /\ \A t \in Segments : dev'.commits[t] = NoCommit
    BY <1>4, <1>9 DEF DevShape
  <2>2. MemoryWavs'
    BY <1>7, <2>1 DEF MemoryWavs, LiveRow, NoCommit
  <2>3. KeepsWavs(disk'.jobs, wavs')
    BY <1>3, <1>7, <2>1 DEF PersistentState
  <2> QED BY <1>8, <2>2, <2>3, NoTxnPhase DEF WavsInv, Begun
<1>10. CASE UNCHANGED <<mode, dev, disk>>
  BY <1>7, <1>8, <1>10, NoTxnPhase DEF WavsInv, Begun
<1> QED BY <1>3, <1>9, <1>10

LEMMA WavsNext ==
  ASSUME Disciplined, LedgerInv, AgreeInv, ExitInv, WavsInv, [Next]_vars PROVE WavsInv'
<1> DEFINE Removes == FinishFailCommit \/ CleanAudio \/ CaseReturns
<1>1. FramesInv /\ ControlInv /\ LifeInv /\ WorkInv /\ RestoreInv /\ SnapOK(disk)
  BY DEF LedgerInv, ControlInv, RestoreInv, SnapsOK
<1>2. CASE Exits
  BY <1>2, WavsExit
<1>3. CASE Recover
  BY <1>1, <1>3, WavsRecover
<1>4. CASE ~Exits /\ ~Recover
  <2>1. writable => /\ MemoryInv /\ CallsOK /\ QueueOK /\ WorkHolds(Outstanding, dev.queue)
                    /\ WavsKept
    BY <1>1, <1>4, WavsStep DEF RestoreInv, WorkInv
  <2>2. (wavs \subseteq wavs' \/ Removes) /\ (writable' => writable) /\ (mode' # "down" => mode # "down")
    <3>1. RenameState => mode' = mode
      BY DEF RenameState, proc
    <3> QED BY <1>1, <1>4, <3>1, WavsMove, WritableStays, StoreStays
  <2>3. Removes =>
          /\ writable /\ disk' = disk /\ disk.jobs = dev.jobs /\ undo' = None /\ exit' = exit
          /\ exit # None => exit.jobs = dev.jobs
          /\ Begun' => CleanAudio
    BY <1>1, RemovedAgrees
  <2> HIDE DEF Removes
  <2>4. ASSUME NEW jobs, KeepsWavs(jobs, wavs), Removes => jobs = dev.jobs
        PROVE  KeepsWavs(jobs, wavs')
    BY <2>1, <2>2, <2>3, <2>4, KeptOver
  <2>5. writable' /\ mode' # "down" => MemoryWavs'
    <3> SUFFICES ASSUME writable', mode' # "down" PROVE MemoryWavs'
      OBVIOUS
    <3>1. ~UnwrittenCase
      BY <1>1, CaseRestored
    <3>2. CoreStep
      BY <1>1, <1>4, <2>2, <3>1, MemoryStep
    <3>3. MemoryWavs
      BY <2>2 DEF WavsInv
    <3> QED BY <1>1, <1>4, <2>1, <2>2, <3>1, <3>2, <3>3, MemoryWavsNext
  <2>6. KeepsWavs(disk'.jobs, wavs') /\ (undo' # None => KeepsWavs(undo'.jobs, wavs'))
    <3>1. CASE RenameState
      <4>1. /\ disk' = txn.snap /\ undo' = disk /\ wavs' = wavs /\ Begun
        BY <1>1, <3>1, RenamedTxn
      <4> QED BY <4>1 DEF WavsInv
    <3>2. CASE ~RenameState
      <4>1. disk' = disk /\ (undo' = undo \/ undo' = None)
        BY <1>1, <1>4, <3>2, StoreStays
      <4>2. KeepsWavs(disk.jobs, wavs')
        BY <2>3, <2>4 DEF WavsInv
      <4>3. CASE Removes
        BY <2>3, <4>1, <4>2, <4>3
      <4>4. CASE ~Removes
        BY <2>4, <4>1, <4>2, <4>4 DEF WavsInv
      <4> QED BY <4>3, <4>4
    <3> QED BY <3>1, <3>2
  <2>7. exit' # None => KeepsWavs(exit'.jobs, wavs')
    <3>1. CASE BeginExit
      <4>1. writable' /\ mode' # "down" /\ exit' = PersistentState'
        BY <3>1 DEF BeginExit
      <4> QED BY <2>5, <4>1 DEF PersistentState, MemoryWavs
    <3>2. CASE ~BeginExit
      <4>1. exit' = exit
        <5>1. CASE RenameState
          BY <1>1, <5>1, RenamedTxn
        <5> QED BY <1>1, <1>4, <3>2, <5>1, StoreStays
      <4> QED BY <2>3, <2>4, <4>1 DEF WavsInv
    <3> QED BY <3>1, <3>2
  <2>8. Begun' => KeepsWavs(txn'.snap.jobs, wavs')
    <3> SUFFICES ASSUME Begun' PROVE KeepsWavs(txn'.snap.jobs, wavs')
      OBVIOUS
    <3>1. CASE CleanAudio \/ Takes
      <4>1. txn'.snap = PersistentState' /\ mode' # "down" /\ writable' = writable /\ writable
        <5>1. CASE Takes
          <6>1. mode = "up" /\ mode' = mode /\ writable' = writable /\ txn'.snap = PersistentState'
            BY <5>1, TakenTxn
          <6> QED BY <1>1, <6>1 DEF LifeInv
        <5>2. CASE CleanAudio
          <6>1. txn # NoTxn /\ mode # "down" /\ mode' = mode /\ writable' = writable
                /\ txn'.snap = PersistentState'
            BY <5>2, CleanedTxn
          <6> QED BY <1>1, <6>1 DEF LifeInv
        <5> QED BY <3>1, <5>1, <5>2
      <4> QED BY <2>5, <4>1 DEF PersistentState, MemoryWavs
    <3>2. CASE ~CleanAudio /\ ~Takes
      <4>1. ~Removes /\ Begun /\ txn'.snap = txn.snap
        BY <1>1, <1>4, <2>3, <3>2, BegunStep, RenamedTxn
      <4> QED BY <2>4, <4>1 DEF WavsInv
    <3> QED BY <3>1, <3>2
  <2> QED BY <2>5, <2>6, <2>7, <2>8 DEF WavsInv
<1> QED BY <1>2, <1>3, <1>4

----------------------------------------------------------------------------
(* Whoever ends a recording has no commit of it.                           *)

\* A frame that goes on ends its wait for a transaction or for its own commit.
BusyKept ==
  \A j \in Conns : \/ conn'[j].busy = conn[j].busy
                   \/ conn'[j].busy = "no" /\ conn[j].busy \in {"txn", "commit"}

LEMMA TxnOwner ==
  ASSUME FramesInv, txn # NoTxn
  PROVE  /\ txn.call.op \in ConnOps => conn[txn.call.k].busy = "txn"
         /\ txn.call.op \in EndOps => conn[CommitOf(txn.call.s).k].busy = "commit"
<1>1. CallHolds(txn.call, conn, dev) /\ CommitsHold(conn, dev)
  BY RunningCall DEF FramesInv, FramesHold, CallsHold
<1> QED BY <1>1 DEF CallHolds, CommitsHold, CommitOf

LEMMA IdleBusy ==
  ASSUME FramesInv, NEW k, conn' = Idle(k), conn[k].busy \in {"txn", "commit"} PROVE BusyKept
  BY ConnHasShape, IdleHolds DEF BusyKept

LEMMA BusyNext ==
  ASSUME FramesInv, [Next]_vars, ~ConnectionStep, ~BeginHello, ~ForgetProcess
  PROVE  BusyKept
<1>1. conn' = conn => BusyKept
  BY DEF BusyKept
<1>2. CASE UnwrittenHello
  <2> DEFINE k  == txn.call.k
             cn == Idle(k)
  <2>1. /\ conn' = [cn EXCEPT ![k].phase = IF @ = "open" THEN "closing" ELSE @]
        /\ conn[k].busy = "txn"
    BY <1>2, TxnOwner DEF UnwrittenHello, Unwritten, ConnOps
  <2>2. /\ ConnsHold(cn)
        /\ \A j \in Conns : cn[j].busy = IF j = k THEN "no" ELSE conn[j].busy
    BY ConnHasShape, IdleHolds
  <2> HIDE DEF cn
  <2>3. \A j \in Conns : conn'[j].busy = cn[j].busy
    BY <2>1, <2>2 DEF ConnsHold, ConnShape
  <2> QED BY <2>1, <2>2, <2>3 DEF BusyKept
<1>3. CASE HelloReturns \/ CaseReturns \/ UnwrittenCase
  <2>1. txn # NoTxn /\ txn.call.op \in ConnOps /\ conn' = Idle(txn.call.k)
    BY <1>3 DEF HelloReturns, CaseReturns, Returned, Running, UnwrittenCase, Unwritten, ConnOps
  <2> QED BY <2>1, TxnOwner, IdleBusy
<1>4. CASE EndReturns \/ FinishFailCommit \/ UnwrittenEnd
  <2>1. txn # NoTxn /\ txn.call.op \in EndOps /\ conn' = Idle(CommitOf(txn.call.s).k)
    BY <1>4 DEF EndReturns, FinishFailCommit, Removing, Returned, Running, UnwrittenEnd, Unwritten,
                EndOps
  <2> QED BY <2>1, TxnOwner, IdleBusy
<1>5. CASE CommitFailsVisible
  <2>1. /\ txn # NoTxn
        /\ conn' = IF txn.call.op \in {"hello", "case"} THEN Idle(txn.call.k)
                   ELSE IF txn.call.op = "end" THEN Idle(CommitOf(txn.call.s).k) ELSE conn
    BY <1>5, Zenon DEF CommitFailsVisible
  <2> QED BY <1>1, <2>1, TxnOwner, IdleBusy DEF ConnOps, EndOps
<1>6. CASE TransactionStep
  BY <1>1, <1>3, <1>4, <1>6
     DEF TransactionStep, BeginCase, BeginRemoval, BeginEnd, BeginForeign,
         BeginTranscribing, BeginSaved, BeginFailed, WorkAborts, CleanAudio, RefuseTransaction,
         RenameState, TranscribingReturns, OutcomeReturns, CleanReturns, ForeignReturns
<1>7. CASE WorkStep
  BY <1>1, <1>7 DEF WorkStep, WriteWav, StartWork, Recognise
<1>8. CASE FaultStep
  BY <1>1, <1>2, <1>3, <1>4, <1>5, <1>8
     DEF FaultStep, WriteWavFails, CleanFails, UnwrittenWork, UnwrittenForeign, Crash
<1>9. CASE LifeStep
  BY <1>1, <1>9 DEF LifeStep, SubmitForeign, Stop, BeginExit, FinishExit, Recover
<1>10. CASE UNCHANGED vars
  BY <1>1, <1>10 DEF vars
<1> QED BY <1>6, <1>7, <1>8, <1>9, <1>10 DEF Next

\* What one connection's frame does to it.
LEMMA OnFreeFrame ==
  ASSUME FramesInv, OnFree(conn, dev), NEW k \in Conns,
         \A j \in Conns : j # k => conn'[j].busy = conn[j].busy /\ conn'[j].on = conn[j].on,
         current' = current \/ current' = None,
         \A t \in Segments :
           dev'.commits[t].step # "none" => dev.commits[t].step # "none" \/ current = k,
         /\ conn'[k].busy \in {"txn", "commit"} => conn'[k].on = None
         /\ current' = k /\ conn'[k].busy = "no" /\ conn'[k].on \in Segments =>
              dev'.commits[conn'[k].on].step = "none"
  PROVE  OnFree(conn, dev)'
<1>1. None \notin Conns
  BY PipelineAssumption
<1> SUFFICES ASSUME NEW j \in Conns, j # k
    PROVE  /\ conn'[j].busy \in {"txn", "commit"} => conn'[j].on = None
           /\ current' = j /\ conn'[j].busy = "no" /\ conn'[j].on \in Segments =>
                dev'.commits[conn'[j].on].step = "none"
  BY DEF OnFree
<1> QED BY <1>1 DEF OnFree

\* After the step the connection is in this handler, with this recording, and the
\* others are where they were.
FrameIs(k, busy, on) ==
  /\ conn'[k].busy = busy /\ conn'[k].on = on
  /\ \A j \in Conns : j # k => conn'[j].busy = conn[j].busy /\ conn'[j].on = conn[j].on

LEMMA FrameFields ==
  ASSUME FramesInv, NEW k \in Conns
  PROVE  /\ conn' = conn => FrameIs(k, conn[k].busy, conn[k].on)
         /\ \A phase : conn' = [conn EXCEPT ![k].phase = phase] => FrameIs(k, conn[k].busy, conn[k].on)
         /\ \A busy : conn' = [conn EXCEPT ![k].busy = busy] => FrameIs(k, busy, conn[k].on)
         /\ \A on : conn' = [conn EXCEPT ![k].on = on] => FrameIs(k, conn[k].busy, on)
         /\ \A busy, on : conn' = [conn EXCEPT ![k].busy = busy, ![k].on = on] => FrameIs(k, busy, on)
         /\ conn' = [conn EXCEPT ![k] = NoConn] => FrameIs(k, "no", None)
         /\ conn' = [conn EXCEPT ![k] = [phase |-> "hello", busy |-> "txn", on |-> None]] =>
              FrameIs(k, "txn", None)
<1>1. /\ conn = [j \in Conns |-> conn[j]]
      /\ \A j \in Conns : conn[j] = [phase |-> conn[j].phase, busy |-> conn[j].busy, on |-> conn[j].on]
  BY ConnHasShape DEF ConnsHold, ConnShape
<1>2. conn' = conn => FrameIs(k, conn[k].busy, conn[k].on)
  BY DEF FrameIs
<1>3. ASSUME NEW phase, conn' = [conn EXCEPT ![k].phase = phase]
      PROVE  FrameIs(k, conn[k].busy, conn[k].on)
  BY <1>1, <1>3 DEF FrameIs
<1>4. ASSUME NEW busy, conn' = [conn EXCEPT ![k].busy = busy] PROVE FrameIs(k, busy, conn[k].on)
  BY <1>1, <1>4 DEF FrameIs
<1>5. ASSUME NEW on, conn' = [conn EXCEPT ![k].on = on] PROVE FrameIs(k, conn[k].busy, on)
  BY <1>1, <1>5 DEF FrameIs
<1>6. ASSUME NEW busy, NEW on, conn' = [conn EXCEPT ![k].busy = busy, ![k].on = on]
      PROVE  FrameIs(k, busy, on)
  <2> DEFINE mid == [conn EXCEPT ![k].busy = busy]
  <2>1. /\ mid = [j \in Conns |-> mid[j]]
        /\ \A j \in Conns : /\ mid[j] = [phase |-> conn[j].phase,
                                         busy |-> IF j = k THEN busy ELSE conn[j].busy,
                                         on |-> conn[j].on]
    BY <1>1
  <2>2. conn' = [mid EXCEPT ![k].on = on]
    BY <1>6
  <2> HIDE DEF mid
  <2> QED BY <2>1, <2>2 DEF FrameIs
<1>7. conn' = [conn EXCEPT ![k] = NoConn] => FrameIs(k, "no", None)
  BY <1>1 DEF FrameIs, NoConn
<1>8. conn' = [conn EXCEPT ![k] = [phase |-> "hello", busy |-> "txn", on |-> None]] =>
        FrameIs(k, "txn", None)
  BY <1>1 DEF FrameIs
<1> QED BY <1>2, <1>3, <1>4, <1>5, <1>6, <1>7, <1>8

\* A frame leaves its connection without a recording whose commit is in progress,
\* unless its handler waits.
FrameEffect(k) ==
  \E busy, on :
    /\ FrameIs(k, busy, on)
    /\ \/ busy = conn[k].busy /\ on = conn[k].on
       \/ on = None \/ busy = "wait"
       \/ busy = "no" /\ dev.commits[on].step = "none"

LEMMA FrameHasEffect ==
  ASSUME Disciplined, FramesInv, NEW k \in Conns,
         \/ SendHello(k) \/ CloseConnection(k) \/ ForgetConnection(k)
         \/ ResumeStart(k)
         \/ \E c \in Cases : SendCaseStart(k, c)
         \/ \E sequence \in 0..MaxPcm : AppendSpeech(k, sequence)
         \/ \E s \in Segments :
              \/ \E c \in Cases : StartSpeech(k, c, s)
              \/ WaitForCommit(k, s)
              \/ EndReplayed(k, s) \/ EndMismatch(k, s)
              \/ EndMissing(k, s) \/ EndSpeech(k, s)
  PROVE  FrameEffect(k)
<1>1. CASE SendHello(k)
  <2>1. FrameIs(k, "txn", None)
    BY <1>1, FrameFields DEF SendHello
  <2> QED BY <2>1 DEF FrameEffect
<1>2. CASE CloseConnection(k) \/ \E sequence \in 0..MaxPcm : AppendSpeech(k, sequence)
  <2>1. FrameIs(k, conn[k].busy, conn[k].on)
    BY <1>2, FrameFields DEF CloseConnection, AppendSpeech
  <2> QED BY <2>1 DEF FrameEffect
<1>3. CASE ForgetConnection(k)
  <2>1. FrameIs(k, "no", None)
    BY <1>3, FrameFields DEF ForgetConnection
  <2> QED BY <2>1 DEF FrameEffect
<1>4. CASE ResumeStart(k)
  <2>1. conn' = [conn EXCEPT ![k].busy = "no"] /\ dev.commits[conn[k].on].step = "none"
    BY <1>4 DEF ResumeStart, Idle, Resumable, InCommit, CommitOf
  <2>2. FrameIs(k, "no", conn[k].on)
    BY <2>1, FrameFields
  <2> QED BY <2>1, <2>2 DEF FrameEffect
<1>5. CASE \E c \in Cases : SendCaseStart(k, c)
  <2>1. conn' = [conn EXCEPT ![k].busy = "txn"] /\ conn[k].on = None
    BY <1>5 DEF SendCaseStart
  <2>2. FrameIs(k, "txn", None)
    BY <2>1, FrameFields
  <2> QED BY <2>2 DEF FrameEffect
<1>6. CASE \E s \in Segments : \E c \in Cases : StartSpeech(k, c, s)
  <2>1. PICK s \in Segments : \E c \in Cases : StartSpeech(k, c, s)
    BY <1>6
  <2>2. conn' = [conn EXCEPT ![k].on = s] /\ conn[k].busy = "no" /\ dev.commits[s].step = "none"
    BY <2>1 DEF StartSpeech, Ready, InCommit, CommitOf
  <2>3. FrameIs(k, "no", s)
    BY <2>2, FrameFields
  <2> QED BY <2>2, <2>3 DEF FrameEffect
<1>7. CASE \E s \in Segments : WaitForCommit(k, s)
  <2>1. PICK s \in Segments : WaitForCommit(k, s)
    BY <1>7
  <2>2. FrameIs(k, "wait", s)
    BY <2>1, FrameFields DEF WaitForCommit
  <2> QED BY <2>2 DEF FrameEffect
<1>8. CASE \E s \in Segments : EndReplayed(k, s) \/ EndMismatch(k, s) \/ EndMissing(k, s)
  <2>1. conn' = [conn EXCEPT ![k].on = None]
    BY <1>8 DEF EndReplayed, EndMismatch, EndMissing
  <2>2. FrameIs(k, conn[k].busy, None)
    BY <2>1, FrameFields
  <2> QED BY <2>2 DEF FrameEffect
<1>9. CASE \E s \in Segments : EndSpeech(k, s)
  <2>1. FrameIs(k, "commit", None)
    BY <1>9, FrameFields DEF EndSpeech
  <2> QED BY <2>1 DEF FrameEffect
<1> QED BY <1>1, <1>2, <1>3, <1>4, <1>5, <1>6, <1>7, <1>8, <1>9

LEMMA ConnectionOnFree ==
  ASSUME Disciplined, FramesInv, OnFree(conn, dev), ConnectionStep
  PROVE  OnFree(conn, dev)'
<1>0. None \notin Segments /\ None \notin Conns
  BY PipelineAssumption
<1>1. ASSUME NEW k \in Conns, NEW s \in Segments, EndSpeech(k, s),
             \A t \in Segments : dev'.commits[t] = IF t = s THEN NewCommit(k, s)
                                                            ELSE dev.commits[t]
      PROVE  OnFree(conn, dev)'
  <2>1. /\ conn' = [conn EXCEPT ![k].busy = "commit", ![k].on = None]
        /\ current' = current /\ current = k
    BY <1>1 DEF EndSpeech, Ready
  <2>2. FrameIs(k, "commit", None)
    BY <2>1, FrameFields
  <2>3. \A t \in Segments :
          dev'.commits[t].step # "none" => dev.commits[t].step # "none" \/ current = k
    BY <2>1
  <2> QED BY <2>1, <2>2, <2>3, OnFreeFrame DEF FrameIs
<1>2. CASE dev'.commits = dev.commits
  <2>1. PICK k \in Conns :
          \/ SendHello(k) \/ CloseConnection(k) \/ ForgetConnection(k)
          \/ ResumeStart(k)
          \/ \E c \in Cases : SendCaseStart(k, c)
          \/ \E sequence \in 0..MaxPcm : AppendSpeech(k, sequence)
          \/ \E s \in Segments :
               \/ \E c \in Cases : StartSpeech(k, c, s)
               \/ WaitForCommit(k, s)
               \/ EndReplayed(k, s) \/ EndMismatch(k, s)
               \/ EndMissing(k, s) \/ EndSpeech(k, s)
    BY DEF ConnectionStep
  <2>2. PICK busy, on :
          /\ FrameIs(k, busy, on)
          /\ \/ busy = conn[k].busy /\ on = conn[k].on
             \/ on = None \/ busy = "wait"
             \/ busy = "no" /\ dev.commits[on].step = "none"
    BY <2>1, FrameHasEffect DEF FrameEffect
  <2>3. current' = current \/ current' = None
    BY <2>1 DEF SendHello, CloseConnection, ForgetConnection, ResumeStart, SendCaseStart,
         AppendSpeech, StartSpeech, WaitForCommit, EndReplayed, EndMismatch, EndMissing, EndSpeech
  <2>4. /\ conn'[k].busy = busy /\ conn'[k].on = on
        /\ \A j \in Conns : j # k => conn'[j].busy = conn[j].busy /\ conn'[j].on = conn[j].on
    BY <2>2 DEF FrameIs
  <2>5. /\ conn[k].busy \in {"txn", "commit"} => conn[k].on = None
        /\ current = k /\ conn[k].busy = "no" /\ conn[k].on \in Segments =>
             dev.commits[conn[k].on].step = "none"
    BY DEF OnFree
  <2>6. /\ conn'[k].busy \in {"txn", "commit"} => conn'[k].on = None
        /\ current' = k /\ conn'[k].busy = "no" /\ conn'[k].on \in Segments =>
             dev'.commits[conn'[k].on].step = "none"
    BY <1>0, <1>2, <2>2, <2>3, <2>4, <2>5
  <2> QED BY <1>2, <2>3, <2>4, <2>6, OnFreeFrame
<1> QED BY <1>1, <1>2, ConnectionLedger

LEMMA HelloOnFree ==
  ASSUME FramesInv, OnFree(conn, dev), BeginHello PROVE OnFree(conn, dev)'
<1> DEFINE k == Call1.k
<1>1. /\ txn = NoTxn /\ tail # <<>> /\ Call1.op = "hello" /\ current' = k
      /\ conn' = [j \in Conns |->
          IF j = k /\ conn[j].phase = "hello" THEN [conn[j] EXCEPT !.phase = "open"]
          ELSE IF j # k /\ conn[j].phase = "open"
          THEN [conn[j] EXCEPT !.phase = "closing"] ELSE conn[j]]
  BY DEF BeginHello, Starting, Call1
<1>2. k \in Conns /\ conn[k].busy = "txn"
  <2>1. CallHolds(Call1, conn, dev)
    BY <1>1, FirstCall DEF FramesInv, FramesHold, CallsHold
  <2> QED BY <1>1, <2>1 DEF CallHolds, ConnOps
<1> HIDE DEF k
<1>3. conn' = [j \in Conns |-> conn'[j]] /\ \A j \in Conns : OtherPhase(conn[j], conn'[j])
  BY <1>1 DEF OtherPhase
<1>4. \A j \in Conns : conn'[j].busy = conn[j].busy /\ conn'[j].on = conn[j].on
  BY <1>3, ConnHasShape, PhaseHolds
<1> QED BY <1>1, <1>2, <1>4 DEF OnFree

LEMMA ForgottenOnFree ==
  ASSUME ForgetProcess PROVE OnFree(conn, dev)'
<1>1. None \notin Conns
  BY PipelineAssumption
<1>2. current' = None /\ \A j \in Conns : conn'[j] = NoConn
  BY DEF ForgetProcess
<1> QED BY <1>1, <1>2 DEF OnFree, NoConn

LEMMA OnFreeNext ==
  ASSUME Disciplined, FramesInv, OnFree(conn, dev), [Next]_vars PROVE OnFree(conn, dev)'
<1>1. CASE ~ConnectionStep /\ ~BeginHello /\ ~ForgetProcess
  <2>1. StepsKept
    <3>1. \A k \in Conns, s \in Segments : ~EndSpeech(k, s)
      BY <1>1 DEF ConnectionStep
    <3> QED BY <3>1, CommitsNext
  <2>2. ConnKept /\ BusyKept
    BY <1>1, ConnNext, BusyNext
  <2>3. ASSUME NEW j \in Conns
        PROVE  /\ conn'[j].busy \in {"txn", "commit"} => conn'[j].on = None
               /\ current' = j /\ conn'[j].busy = "no" /\ conn'[j].on \in Segments =>
                    dev'.commits[conn'[j].on].step = "none"
    <3>0. None \notin Segments
      BY PipelineAssumption
    <3>1. conn'[j].on = conn[j].on /\ current' = current
      BY <2>2 DEF ConnKept
    <3>2. \/ conn'[j].busy = conn[j].busy
          \/ conn'[j].busy = "no" /\ conn[j].busy \in {"txn", "commit"}
      BY <2>2 DEF BusyKept
    <3> QED BY <2>1, <3>0, <3>1, <3>2 DEF OnFree, StepsKept
  <2> QED BY <2>3 DEF OnFree
<1> QED BY <1>1, ConnectionOnFree, HelloOnFree, ForgottenOnFree

----------------------------------------------------------------------------
(* What was sent is kept.                                                  *)

\* The durable ACK of a recording is sent: it is durable, and no commit of it is in progress.
Sends(s) ==
  /\ confirmed' = confirmed \cup {<<CaseOf[s], s>>}
  /\ mode' = "up" /\ s \in dev'.durable /\ dev'.commits[s].step = "none"

LEMMA SentNow ==
  ASSUME MemoryInv, NEW k, NEW s \in Segments, s \in dev.durable, SendDurable(k, s),
         mode' = mode, dev'.durable = dev.durable, dev'.commits[s].step = "none"
  PROVE  confirmed' = confirmed \/ Sends(s)
<1>1. cm.seg[s].case = CaseOf[s]
  BY DurableIsCurrent
<1> QED BY <1>1 DEF SendDurable, Delivers, Sends

LEMMA StartSends ==
  ASSUME FramesInv, MemoryInv, NEW k \in Conns, NEW c \in Cases, NEW s \in Segments,
         StartSpeech(k, c, s)
  PROVE  confirmed' = confirmed \/ Sends(s)
<1>1. mode' = mode /\ dev.commits[s].step = "none" /\ OpenStream(k, c, s)
  BY DEF StartSpeech, InCommit, CommitOf, proc
<1>2. dev'.commits = dev.commits /\ dev'.durable = dev.durable
  BY <1>1, DevHasShape, OpenStreamFields
<1>3. confirmed' = confirmed \/ (s \in dev.durable /\ SendDurable(k, s))
  BY <1>1 DEF OpenStream, ReplaysDurable
<1> QED BY <1>1, <1>2, <1>3, SentNow

LEMMA ReplaySends ==
  ASSUME Disciplined, FramesInv, MemoryInv, OnFree(conn, dev), NEW k \in Conns,
         NEW s \in Segments, EndReplayed(k, s)
  PROVE  confirmed' = confirmed \/ Sends(s)
<1>1. /\ mode' = mode /\ current = k /\ conn[k].busy = "no" /\ conn[k].on = s
      /\ End(s) \in dev.acks /\ SendDurable(k, s)
      /\ dev' = dev \/ dev' = [dev EXCEPT !.active = NoStream]
  BY DEF EndReplayed, Ready, MayEnd, proc
<1>2. s \in dev.durable
  BY <1>1 DEF MemoryInv, Core, StreamSound
<1>3. dev.commits[s].step = "none"
  BY <1>1 DEF OnFree
<1>4. dev'.commits = dev.commits /\ dev'.durable = dev.durable
  BY <1>1, StreamLedger DEF LedgerKept
<1> QED BY <1>1, <1>2, <1>3, <1>4, SentNow

LEMMA EndSends ==
  ASSUME FramesInv, MemoryInv, EndReturns
  PROVE  confirmed' = confirmed \/ \E s \in Segments : Sends(s)
<1> DEFINE s == txn.call.s
<1>1. /\ s \in Segments /\ SameLedger(dev, dev')
      /\ \A t \in Segments : dev'.commits[t] = IF t = s THEN NoCommit ELSE dev.commits[t]
  BY CommitFinishes
<1>2. s \in Ends
  BY <1>1 DEF Ends, EndReturns, Returned, Running, Begun
<1>3. s \in dev.durable
  BY <1>1, <1>2 DEF MemoryInv, Core, CommitSound
<1>4. mode' = mode /\ \E k : SendDurable(k, s)
  BY DEF EndReturns, proc
<1>5. dev'.commits[s].step = "none" /\ dev'.durable = dev.durable
  BY <1>1 DEF NoCommit, SameLedger
<1> HIDE DEF s
<1> QED BY <1>1, <1>3, <1>4, <1>5, SentNow

LEMMA ResumeSends ==
  ASSUME NEW k, ResumeStart(k) PROVE confirmed' = confirmed
<1> DEFINE s == conn[k].on
           c == cm.seg[s].case
<1>1. \/ confirmed' = confirmed
      \/ s \notin dev.durable /\ (OpenStream(k, c, s) \/ RefuseStream(k, c, s))
  BY DEF ResumeStart
<1> HIDE DEF s, c
<1> QED BY <1>1 DEF OpenStream, RefuseStream, ReplaysDurable

LEMMA ConfirmedNext ==
  ASSUME Disciplined, LedgerInv, OnFree(conn, dev), [Next]_vars
  PROVE  confirmed' = confirmed \/ \E s \in Segments : Sends(s)
<1>1. FramesInv /\ LifeInv
  BY DEF LedgerInv, ControlInv
<1>2. mode = "up" => MemoryInv
  BY <1>1 DEF LedgerInv, LifeInv, RestoreInv
<1>3. CASE ConnectionStep
  <2>1. PICK k \in Conns :
          \/ SendHello(k) \/ CloseConnection(k) \/ ForgetConnection(k)
          \/ ResumeStart(k)
          \/ \E c \in Cases : SendCaseStart(k, c)
          \/ \E sequence \in 0..MaxPcm : AppendSpeech(k, sequence)
          \/ \E s \in Segments :
               \/ \E c \in Cases : StartSpeech(k, c, s)
               \/ WaitForCommit(k, s)
               \/ EndReplayed(k, s) \/ EndMismatch(k, s)
               \/ EndMissing(k, s) \/ EndSpeech(k, s)
    BY <1>3 DEF ConnectionStep
  <2>2. CASE \E s \in Segments : \E c \in Cases : StartSpeech(k, c, s)
    <3>1. PICK s \in Segments, c \in Cases : StartSpeech(k, c, s)
      BY <2>2
    <3>2. MemoryInv
      BY <1>2, <3>1 DEF StartSpeech, Ready
    <3> QED BY <1>1, <3>1, <3>2, StartSends
  <2>3. CASE \E s \in Segments : EndReplayed(k, s)
    <3>1. PICK s \in Segments : EndReplayed(k, s)
      BY <2>3
    <3>2. MemoryInv
      BY <1>2, <3>1 DEF EndReplayed, Ready
    <3> QED BY <1>1, <3>1, <3>2, ReplaySends
  <2>4. ASSUME \/ SendHello(k) \/ CloseConnection(k) \/ ForgetConnection(k)
               \/ \E c \in Cases : SendCaseStart(k, c)
               \/ \E sequence \in 0..MaxPcm : AppendSpeech(k, sequence)
               \/ \E s \in Segments : \/ WaitForCommit(k, s) \/ EndMismatch(k, s)
                                      \/ EndMissing(k, s) \/ EndSpeech(k, s)
        PROVE  confirmed' = confirmed
    BY <2>4 DEF SendHello, CloseConnection, ForgetConnection, SendCaseStart, AppendSpeech,
         WaitForCommit, EndMismatch, EndMissing, EndSpeech
  <2> QED BY <2>1, <2>2, <2>3, <2>4, ResumeSends
<1>4. CASE EndReturns
  <2>1. confirmed' = confirmed \/ mode = "up"
    BY <1>4 DEF EndReturns, SendDurable, Delivers
  <2> QED BY <1>1, <1>2, <1>4, <2>1, EndSends
<1>5. CASE TransactionStep
  BY <1>4, <1>5
     DEF TransactionStep, BeginHello, BeginCase, BeginRemoval, FinishFailCommit, BeginEnd,
         BeginForeign, BeginTranscribing, BeginSaved, BeginFailed, WorkAborts, CleanAudio,
         RefuseTransaction, RenameState, HelloReturns, CaseReturns, TranscribingReturns,
         OutcomeReturns, CleanReturns, ForeignReturns
<1>6. CASE WorkStep \/ LifeStep
  BY <1>6 DEF WorkStep, LifeStep, WriteWav, StartWork, Recognise, SubmitForeign, Stop, BeginExit,
         FinishExit, Recover
<1>7. CASE FaultStep
  BY <1>7 DEF FaultStep, WriteWavFails, CleanFails, UnwrittenHello, UnwrittenCase, UnwrittenEnd,
         UnwrittenWork, UnwrittenForeign, Unwritten, CommitFailsVisible, Crash
<1>8. CASE UNCHANGED vars
  BY <1>8 DEF vars
<1> QED BY <1>3, <1>5, <1>6, <1>7, <1>8 DEF Next

\* What is exported from memory has the recordings that memory holds.
LEMMA CapturedHas ==
  ASSUME NEW s \in Segments, Good(cm'), Held1(cm', dev', s), NEW snap, snap = PersistentState'
  PROVE  Has(snap, s)
<1>1. Agrees(cm', dev', snap)
  BY CapturedAgrees
<1> QED BY <1>1 DEF Held1, Has, Past, Agrees

\* A recording that is durable when no commit of it is in progress is everywhere.
LEMMA SendsHas ==
  ASSUME FramesInv', ControlInv', AgreeInv', NEW s \in Segments, Sends(s) PROVE EveryHas(s)'
<1>1. /\ mode' = "up" /\ writable' /\ exit' = None
      /\ s \in dev'.durable /\ dev'.commits[s].step = "none"
  BY DEF Sends, ControlInv, LifeInv
<1>2. s \notin Ends'
  <2>1. SUFFICES ASSUME s \in Ends' PROVE FALSE
    OBVIOUS
  <2>2. Begun' /\ txn'.call.op = "end" /\ txn'.call.s = s
    BY <2>1 DEF Ends
  <2>3. /\ txn' # NoTxn /\ Outstanding' = <<txn'.call>> \o tail' /\ IsSeq(tail')
    BY <2>2, NoTxnPhase DEF Begun, Outstanding, FramesInv
  <2>4. Outstanding' # <<>> /\ Head(Outstanding') = txn'.call
    BY <2>3, SeqCons
  <2>5. IsSeq(Outstanding') /\ \A i \in 1..Len(Outstanding') : CallHolds(Outstanding'[i], conn', dev')
    BY DEF FramesInv, FramesHold, CallsHold
  <2>6. Len(Outstanding') \in Nat \ {0} /\ Outstanding'[1] = txn'.call
    BY <2>4, <2>5, SeqTail
  <2>7. CallHolds(txn'.call, conn', dev')
    BY <2>5, <2>6
  <2> QED BY <1>1, <2>2, <2>7 DEF CallHolds, EndOps
<1>3. ~Begun' => Has(disk', s) /\ undo' = None
  BY <1>1 DEF AgreeInv, DiskAgrees, Agrees, Has, ControlInv, UndoInv, Begun
<1>4. CASE Begun' /\ txn'.phase = "writing"
  <2>1. s \in disk'.durable /\ s \in txn'.snap.durable /\ undo' = None
    BY <1>1, <1>2, <1>4 DEF AgreeInv, WrittenAgrees, Agrees, HasDurable, ControlInv, UndoInv
  <2> QED BY <1>1, <2>1 DEF EveryHas, Has, Held1
<1>5. CASE Begun' /\ txn'.phase = "renamed"
  <2>1. s \in undo'.durable /\ s \in txn'.snap.durable /\ disk' = txn'.snap
    BY <1>1, <1>2, <1>5 DEF AgreeInv, WrittenAgrees, Agrees, HasDurable, ControlInv, UndoInv
  <2> QED BY <1>1, <2>1 DEF EveryHas, Has, Held1
<1>6. CASE ~Begun'
  BY <1>1, <1>3, <1>6 DEF EveryHas, Held1
<1> QED BY <1>4, <1>5, <1>6 DEF Begun

LEMMA ExitsHas ==
  ASSUME LifeInv, NEW s \in Segments, EveryHas(s), Exits, [Next]_vars PROVE EveryHas(s)'
<1>1. /\ mode' = "down" /\ undo' = None /\ exit' = None /\ ~Begun'
  BY ExitsForget, NoTxnPhase DEF ForgetProcess, Begun
<1>2. Has(disk', s)
  BY DEF EveryHas, Exits, Crash, FinishExit
<1> QED BY <1>1, <1>2 DEF EveryHas

LEMMA RecoverHas ==
  ASSUME FramesInv, SnapsOK, KeepsWavs(disk.jobs, wavs), NEW s \in Segments, EveryHas(s), Recover
  PROVE  EveryHas(s)'
<1>1. undo' = undo /\ exit' = exit /\ ~Begun' /\ SnapOK(disk)
  BY RecoverSnaps DEF SnapsOK
<1>2. CASE mode' = "up"
  <2>1. /\ Agrees(cm', dev', disk') /\ dev'.durable = disk.durable
        /\ cm'.current = disk.cm.current /\ dev'.commits[s] = NoCommit
    BY <1>1, <1>2, RecoveredAgrees
  <2>2. Has(disk', s) /\ Held1(cm', dev', s)
    BY <2>1 DEF EveryHas, Has, Past, Agrees, Held1, NoCommit
  <2> QED BY <1>1, <2>2 DEF EveryHas
<1>3. CASE mode' # "up"
  <2>1. disk' = disk /\ mode' = "down"
    BY <1>3 DEF Recover
  <2> QED BY <1>1, <2>1 DEF EveryHas
<1> QED BY <1>2, <1>3

LEMMA HasNext ==
  ASSUME Disciplined, LedgerInv, WavsInv, NEW s \in Segments, EveryHas(s), [Next]_vars
  PROVE  EveryHas(s)'
<1>1. FramesInv /\ ControlInv /\ LifeInv /\ WorkInv /\ RestoreInv /\ SnapsOK
  BY DEF LedgerInv, ControlInv, RestoreInv
<1>2. CASE Exits
  BY <1>1, <1>2, ExitsHas
<1>3. CASE Recover
  BY <1>1, <1>3, RecoverHas DEF WavsInv
<1>4. CASE ~Exits /\ ~Recover
  <2>1. mode' # "down" => mode # "down"
    <3>1. CASE RenameState
      BY <1>1, <3>1, RenamedTxn
    <3> QED BY <1>1, <1>4, <3>1, StoreStays
  <2>2. ASSUME writable', mode' # "down"
        PROVE  Held1(cm', dev', s) /\ Has(PersistentState', s)
    <3>1. writable /\ CoreStep
      BY <1>1, <1>4, <2>2, MemoryNext
    <3>2. Held1(cm', dev', s)
      BY <2>1, <2>2, <3>1 DEF EveryHas, CoreStep, Steady
    <3>3. Good(cm')
      BY <3>1 DEF CoreStep, Core
    <3> QED BY <3>2, <3>3, CapturedHas
  <2>3. Has(disk', s) /\ (undo' # None => Has(undo', s))
    BY <1>1, <1>4, StoreMoves DEF EveryHas
  <2>4. ASSUME exit' # None PROVE Has(exit', s)
    <3>1. CASE BeginExit
      <4>1. writable' /\ mode' # "down" /\ exit' = PersistentState'
        BY <3>1 DEF BeginExit
      <4> QED BY <2>2, <4>1
    <3> QED BY <1>1, <2>4, <3>1, StoreMoves DEF EveryHas
  <2>5. ASSUME Begun' PROVE Has(txn'.snap, s)
    <3>1. CASE txn' = txn /\ Begun
      BY <3>1 DEF EveryHas
    <3>2. CASE RenameState /\ Begun
      BY <1>1, <3>2, RenamedTxn DEF EveryHas
    <3>3. CASE CleanAudio
      <4>1. writable' /\ mode' # "down" /\ txn'.snap = PersistentState'
        BY <1>1, <3>3, CleanedTxn DEF LifeInv
      <4> QED BY <2>2, <4>1
    <3>4. CASE Takes
      <4>1. writable' /\ mode' # "down" /\ txn'.snap = PersistentState'
        BY <1>1, <3>4, TakenTxn DEF LifeInv
      <4> QED BY <2>2, <4>1
    <3> QED BY <1>1, <1>4, <2>5, <3>1, <3>2, <3>3, <3>4, BegunStep
  <2> QED BY <2>2, <2>3, <2>4, <2>5 DEF EveryHas
<1> QED BY <1>2, <1>3, <1>4

LEMMA SentNext ==
  ASSUME Disciplined, LedgerInv, FramesInv', ControlInv', AgreeInv', WavsInv, OnFree(conn, dev),
         SentInv, [Next]_vars
  PROVE  SentInv'
<1>1. confirmed' = confirmed \/ \E s \in Segments : Sends(s)
  BY ConfirmedNext
<1>2. confirmed' \subseteq {<<CaseOf[s], s>> : s \in Segments}
  BY <1>1 DEF SentInv, Sends
<1>3. ASSUME NEW s \in Segments, <<CaseOf[s], s>> \in confirmed' PROVE EveryHas(s)'
  <2>1. CASE <<CaseOf[s], s>> \in confirmed
    BY <2>1, HasNext DEF SentInv, Sent
  <2>2. CASE <<CaseOf[s], s>> \notin confirmed
    <3>1. PICK t \in Segments : Sends(t)
      BY <1>1, <1>3, <2>2
    <3>2. t = s
      BY <1>3, <2>2, <3>1 DEF Sends
    <3> QED BY <3>1, <3>2, SendsHas
  <2> QED BY <2>1, <2>2
<1> QED BY <1>2, <1>3 DEF SentInv, Sent

----------------------------------------------------------------------------
(* The invariant, and the theorem.                                         *)

AckInv == AgreeInv /\ ExitInv /\ HaltInv /\ WavsInv /\ OnFree(conn, dev) /\ SentInv

LEMMA AckInit == ASSUME Init PROVE AckInv
<1>1. /\ mode = "up" /\ writable /\ exit = None /\ txn = NoTxn /\ undo = None
      /\ cm = EmptyCaseManager /\ dev = FreshDevice /\ disk = EmptyDisk
      /\ current = None /\ confirmed = {} /\ ~Begun
      /\ \A k \in Conns : conn[k] = NoConn
  BY NoTxnPhase DEF Init, Begun
<1>2. /\ disk.durable = dev.durable /\ disk.jobs = dev.jobs /\ disk.cm = cm
      /\ \A s \in Segments : dev.jobs[s] = NoJob /\ dev.commits[s] = NoCommit
  BY <1>1 DEF FreshDevice, EmptyDisk
<1>3. AgreeInv
  BY <1>1, <1>2 DEF AgreeInv, WrittenAgrees, DiskAgrees, CaseAgrees, Agrees
<1>4. \A s \in Segments : ~Pending(dev.jobs[s]) /\ ~LiveRow(dev.commits[s])
  BY <1>2 DEF Pending, NoJob, LiveRow, NoCommit
<1>5. WavsInv
  BY <1>1, <1>2, <1>4 DEF WavsInv, KeepsWavs, MemoryWavs
<1>6. OnFree(conn, dev)
  BY <1>1, PipelineAssumption DEF OnFree, NoConn
<1>7. ExitInv /\ HaltInv
  BY <1>1 DEF ExitInv, HaltInv
<1>8. SentInv
  BY <1>1 DEF SentInv, Sent
<1> QED BY <1>3, <1>5, <1>6, <1>7, <1>8 DEF AckInv

LEMMA AckNext ==
  ASSUME Disciplined, LedgerInv, LedgerInv', AckInv, [Next]_vars PROVE AckInv'
<1>1. FramesInv /\ FramesInv' /\ ControlInv'
  BY DEF LedgerInv
<1>2. AgreeInv /\ ExitInv /\ HaltInv /\ WavsInv /\ OnFree(conn, dev) /\ SentInv
  BY DEF AckInv
<1>3. AgreeInv'
  BY <1>2, AgreeNext DEF WavsInv
<1>4. ExitInv' /\ HaltInv' /\ WavsInv'
  BY <1>2, ExitNext, HaltNext, WavsNext
<1>5. OnFree(conn, dev)'
  BY <1>1, <1>2, OnFreeNext
<1>6. SentInv'
  BY <1>1, <1>2, <1>3, SentNext
<1> QED BY <1>3, <1>4, <1>5, <1>6 DEF AckInv

\* What has the recording, in a snapshot that restores, has its WAV or its outcome.
LEMMA HasIsKept ==
  ASSUME NEW s \in Segments, NEW snap, SnapOK(snap), KeepsWavs(snap.jobs, wavs), Has(snap, s)
  PROVE  Replaced(snap, CaseOf[s]) \/ Kept(snap, CaseOf[s], s)
<1>1. CASE Past(snap.cm, s)
  BY <1>1 DEF Past, Replaced
<1>2. CASE s \in snap.durable
  <2>1. /\ snap.jobs[s].status # "none" /\ snap.cm.seg[s].state = snap.jobs[s].status
        /\ snap.jobs[s].status \in Statuses
    BY <1>2 DEF SnapOK, Sound, JobSound, Job
  <2>2. snap.cm.seg[s].case = CaseOf[s]
    BY <2>1 DEF SnapOK, Sound, RowSound, Statuses
  <2> QED BY <1>2, <2>1, <2>2 DEF Kept, KeepsWavs
<1> QED BY <1>1, <1>2 DEF Has

\* What is true of memory, of the disk and of the WAV files, and of what was confirmed.
LEMMA AckHolds == Disciplined => (Spec => [](LedgerInv /\ AckInv))
<1> SUFFICES ASSUME Disciplined PROVE Spec => [](LedgerInv /\ AckInv)
  OBVIOUS
<1>1. Init => AckInv
  BY AckInit
<1>2. LedgerInv /\ LedgerInv' /\ AckInv /\ [Next]_vars => AckInv'
  BY AckNext
<1>3. Spec => []LedgerInv
  BY LedgerIsSound
<1> QED BY <1>1, <1>2, <1>3, PTL DEF Spec, Safety

\* Once the device was sent the durable ACK of a recording, every state that a
\* restart may find has its WAV and a pending job, or the outcome of its
\* transcription, until the device itself replaces the case, whatever crashes,
\* power failures, disk errors, shutdowns and reconnections follow (endSpeech,
\* L1155-1335), for a device that follows the protocol.
THEOREM DurableAcksSurvive == Disciplined => (Spec => []DurableAckSurvives)
<1> SUFFICES ASSUME Disciplined PROVE Spec => []DurableAckSurvives
  OBVIOUS
<1>1. Spec => [](LedgerInv /\ AckInv)
  BY AckHolds
<1>2. LedgerInv /\ AckInv => DurableAckSurvives
  <2> SUFFICES ASSUME LedgerInv, AckInv, NEW m \in confirmed, NEW snap \in OnDisk
      PROVE  Replaced(snap, m[1]) \/ Kept(snap, m[1], m[2])
    BY DEF DurableAckSurvives
  <2>1. SnapsOK /\ WavsInv /\ SentInv
    BY DEF LedgerInv, RestoreInv, AckInv
  <2>2. PICK s \in Segments : m = <<CaseOf[s], s>>
    BY <2>1 DEF SentInv
  <2>3. EveryHas(s)
    BY <2>1, <2>2 DEF SentInv, Sent
  <2>4. SnapOK(snap) /\ KeepsWavs(snap.jobs, wavs) /\ Has(snap, s)
    BY <2>1, <2>3 DEF SnapsOK, WavsInv, EveryHas, OnDisk
  <2> QED BY <2>2, <2>4, HasIsKept
<1> QED BY <1>1, <1>2, PTL

----------------------------------------------------------------------------
(* The disk only advances.                                                 *)

\* What is durable in the snapshot is in memory, at its stage or a later one, unless its
\* case was replaced.
Behind(snap, m, dv) ==
  \A s \in snap.durable :
    \/ Past(m, s)
    \/ s \in dv.durable /\ Rank(snap.jobs[s].status) <= Rank(dv.jobs[s].status)

\* And in the snapshot that follows it.
Advances(a, b) ==
  \A s \in a.durable :
    \/ Past(b.cm, s)
    \/ s \in b.durable /\ Rank(a.jobs[s].status) <= Rank(b.jobs[s].status)

\* The disk is behind memory, and what the shutdown writes is ahead of the disk and of
\* the snapshot whose commit it overtakes.
AdvanceInv ==
  /\ writable /\ mode # "down" => Behind(disk, cm, dev)
  /\ exit # None => Advances(disk, exit) /\ (Begun => Advances(txn.snap, exit))

LEMMA RankIsNumber ==
  /\ \A status : Rank(status) \in 0..3
  /\ Rank("saved") = 3 /\ Rank("failed") = 3 /\ Rank("transcribing") = 2
  /\ Rank("queued") = 1
BY DEF Rank

LEMMA AgreesBehind ==
  ASSUME NEW m, NEW dv, NEW snap, Agrees(m, dv, snap) PROVE Behind(snap, m, dv)
<1>1. \A status : Rank(status) <= Rank(status)
  BY RankIsNumber
<1> QED BY <1>1 DEF Agrees, Behind

LEMMA BehindAdvances ==
  ASSUME NEW m, NEW dv, NEW a, NEW b, Behind(a, m, dv), Agrees(m, dv, b) PROVE Advances(a, b)
BY DEF Agrees, Behind, Advances, Past

\* The device does not go back to a case.
LEMMA PastStays ==
  ASSUME FramesInv, MemoryInv, mode = "up" => CasesOK, [Next]_vars, ~Exits, ~Recover,
         ~UnwrittenCase, NEW s \in Segments, Past(cm, s)
  PROVE  Past(cm', s)
<1>1. CASE BeginCase
  <2>1. /\ mode = "up" /\ txn = NoTxn /\ tail # <<>> /\ Call1.op = "case"
    BY <1>1 DEF BeginCase, Starting, Call1
  <2>2. cm'.current[Device] = Call1.c
    BY <1>1, <2>1, BeginCaseCore
  <2>3. Call1.c \in Cases /\ (cm.current[Device] # None => cm.current[Device] <= Call1.c)
    BY <2>1, FirstCall DEF CasesOK
  <2>4. cm.current[Device] \in Cases
    BY PipelineAssumption DEF Past, MemoryInv, Core, Good, CaseManagerState
  <2>5. /\ CaseOf[s] \in Nat /\ Call1.c \in Nat /\ Call1.c # None
        /\ cm.current[Device] \in Nat
    BY <2>3, <2>4, PipelineAssumption, NoneAssumption
  <2> QED BY <2>2, <2>3, <2>5 DEF Past
<1> QED BY <1>1, CurrentSame DEF Past

\* What is durable stays, at its stage or a later one, unless its case is replaced.
Forward ==
  \A s \in dev.durable :
    \/ Past(cm', s)
    \/ s \in dev'.durable /\ Rank(dev.jobs[s].status) <= Rank(dev'.jobs[s].status)

LEMMA KeptForward ==
  ASSUME LedgerKept PROVE Forward
<1>1. \A status : Rank(status) <= Rank(status)
  BY RankIsNumber
<1> QED BY <1>1 DEF LedgerKept, Forward

LEMMA CaseForward ==
  ASSUME FramesInv, MemoryInv, CasesOK, BeginCase PROVE Forward
<1>1. /\ mode = "up" /\ txn = NoTxn /\ tail # <<>> /\ Call1.op = "case"
  BY DEF BeginCase, Starting, Call1
<1>2. cm'.current[Device] = Call1.c
  BY BeginCaseCore
<1>3. Call1.c \in Cases /\ (cm.current[Device] # None => cm.current[Device] <= Call1.c)
  BY <1>1, FirstCall DEF CasesOK
<1>4. ASSUME NEW s \in dev.durable, Call1.c # cm.current[Device] PROVE Past(cm', s)
  <2>1. s \in Segments
    BY DEF MemoryInv, Core, Sound
  <2>2. cm.current[Device] = CaseOf[s]
    BY <2>1, DurableIsCurrent
  <2>3. CaseOf[s] \in Cases /\ CaseOf[s] \in Nat /\ Call1.c \in Nat /\ Call1.c # None
        /\ CaseOf[s] # None
    BY <2>1, <1>3, PipelineAssumption, NoneAssumption
  <2> QED BY <1>2, <1>3, <1>4, <2>2, <2>3 DEF Past
<1>5. CASE Call1.c = cm.current[Device]
  <2> DEFINE c == Call1.c
             all == LeftFor(c)
  <2>1. all = {}
    BY <1>5 DEF LeftFor
  <2>2. \/ Discards(dev, dev', all)
        \/ dev'.durable = dev.durable /\ dev'.jobs = dev.jobs
    BY DevHasShape, BeginCaseFields
  <2> HIDE DEF all
  <2>3. LedgerKept
    BY <2>1, <2>2 DEF Discards, LedgerKept, MemoryInv, Core, Sound
  <2> QED BY <2>3, KeptForward
<1> QED BY <1>4, <1>5 DEF Forward

LEMMA EndForward ==
  ASSUME FramesInv, MemoryInv, BeginEnd PROVE Forward
<1> DEFINE s == Call1.s
<1>1. /\ s \in Segments /\ s \notin dev.durable /\ dev'.durable = dev.durable \cup {s}
      /\ dev'.jobs = [dev.jobs EXCEPT ![s] = [status |-> "queued", file |-> dev.commits[s].file]]
  BY EndsSegment
<1>2. dev.jobs \in [Segments -> Job] /\ dev.durable \subseteq Segments
  BY DEF MemoryInv, Core, Sound
<1> HIDE DEF s
<1>3. \A t \in dev.durable : dev'.jobs[t] = dev.jobs[t]
  BY <1>1, <1>2
<1>4. \A status : Rank(status) <= Rank(status)
  BY RankIsNumber
<1> QED BY <1>1, <1>3, <1>4 DEF Forward

LEMMA WorkForward ==
  ASSUME FramesInv, MemoryInv, QueueOK, WorkHolds(Outstanding, dev.queue), CoreStep, BeginWork
  PROVE  Forward
<1>1. dev'.durable = dev.durable /\ dev.durable \subseteq Segments /\ dev.jobs \in [Segments -> Job]
  BY WorkLedger DEF MemoryInv, Core, Sound
<1> DEFINE t == Call1.s
<1>2. PICK status \in {"transcribing", "saved", "failed"} : dev' = SetStatus(dev, t, status)
  BY DEF BeginWork, BeginTranscribing, BeginSaved, BeginFailed
<1> HIDE DEF t
<1>3. dev'.jobs = IF dev.jobs[t] = NoJob THEN dev.jobs ELSE [dev.jobs EXCEPT ![t].status = status]
  BY <1>2, DevHasShape, StatusJobs
<1>4. ASSUME NEW s \in dev.durable
      PROVE  Rank(dev.jobs[s].status) <= Rank(dev'.jobs[s].status)
  <2>1. s \in Segments /\ dev.jobs[s] \in Job
    BY <1>1
  <2>2. dev.jobs[s] = [status |-> dev.jobs[s].status, file |-> dev.jobs[s].file]
    BY <2>1 DEF Job
  <2>3. dev'.jobs[s].status \in {dev.jobs[s].status, status}
    BY <1>1, <1>3, <2>1, <2>2
  <2>4. Pending(dev'.jobs[s]) => Pending(dev.jobs[s])
    BY <2>1, WorkPending
  <2> QED BY <1>2, <2>3, <2>4, RankIsNumber DEF Pending
<1> QED BY <1>1, <1>4 DEF Forward

LEMMA CleanForward ==
  ASSUME FramesInv, MemoryInv, CleanAudio PROVE Forward
<1> DEFINE t == txn.call.s
<1>1. /\ dev'.jobs = IF dev.jobs[t] = NoJob THEN dev.jobs ELSE [dev.jobs EXCEPT ![t].file = None]
      /\ dev'.durable = dev.durable
  BY DevHasShape, CleanAudioFields
<1>2. dev.durable \subseteq Segments /\ dev.jobs \in [Segments -> Job]
  BY DEF MemoryInv, Core, Sound
<1> HIDE DEF t
<1>3. ASSUME NEW s \in dev.durable PROVE dev'.jobs[s].status = dev.jobs[s].status
  <2>1. dev.jobs[s] = [status |-> dev.jobs[s].status, file |-> dev.jobs[s].file]
    BY <1>2 DEF Job
  <2> QED BY <1>1, <1>2, <2>1
<1>4. \A status : Rank(status) <= Rank(status)
  BY RankIsNumber
<1> QED BY <1>1, <1>3, <1>4 DEF Forward

LEMMA ForwardNext ==
  ASSUME FramesInv, MemoryInv, QueueOK, WorkHolds(Outstanding, dev.queue), CoreStep,
         mode = "up" => CasesOK, [Next]_vars, ~Exits, ~Recover, ~UnwrittenCase,
         ~(UnwrittenEnd /\ mode = "up")
  PROVE  Forward
<1>1. CASE ~Writes
  BY <1>1, LedgerNext, KeptForward
<1>2. CASE BeginCase
  <2>1. mode = "up"
    BY <1>2 DEF BeginCase, Starting
  <2> QED BY <1>2, <2>1, CaseForward
<1> QED BY <1>1, <1>2, EndForward, WorkForward, CleanForward DEF Writes

LEMMA MemoryBehind ==
  ASSUME Disciplined, LedgerInv, AckInv, AckInv', AdvanceInv, [Next]_vars, ~Exits, ~Recover,
         writable', mode' # "down"
  PROVE  Behind(disk', cm', dev')
<1>1. FramesInv /\ ControlInv /\ LifeInv /\ WorkInv /\ RestoreInv /\ SnapOK(disk)
      /\ AgreeInv /\ AgreeInv'
  BY DEF LedgerInv, ControlInv, RestoreInv, SnapsOK, AckInv
<1>2. CASE RenameState
  <2>1. disk' = txn.snap /\ cm' = cm /\ dev' = dev /\ Begun
    BY <1>1, <1>2, RenamedTxn
  <2>2. Agrees(cm, dev, txn.snap)
    BY <1>1, <2>1 DEF AgreeInv, WrittenAgrees
  <2> QED BY <2>1, <2>2, AgreesBehind
<1>3. CASE UnwrittenEnd /\ mode = "up"
  <2>1. mode' = "up" /\ ~Begun'
    BY <1>3, NoTxnPhase DEF UnwrittenEnd, Unwritten, Begun, proc
  <2>2. Agrees(cm', dev', disk')
    BY <1>1, <2>1 DEF AgreeInv, DiskAgrees
  <2> QED BY <2>2, AgreesBehind
<1>4. CASE ~RenameState /\ ~(UnwrittenEnd /\ mode = "up")
  <2>1. disk' = disk /\ mode # "down"
    BY <1>1, <1>4, StoreStays
  <2>2. /\ writable /\ MemoryInv /\ CallsOK /\ QueueOK /\ WorkHolds(Outstanding, dev.queue)
        /\ CoreStep
    BY <1>1, MemoryNext
  <2>3. ~UnwrittenCase /\ (mode = "up" => CasesOK)
    BY <1>1 DEF UnwrittenCase, Halt, RestoreInv
  <2>4. Forward
    BY <1>1, <1>4, <2>2, <2>3, ForwardNext
  <2>5. Behind(disk, cm, dev)
    BY <2>1, <2>2 DEF AdvanceInv
  <2>6. ASSUME NEW s \in disk.durable
        PROVE  \/ Past(cm', s)
               \/ s \in dev'.durable /\ Rank(disk.jobs[s].status) <= Rank(dev'.jobs[s].status)
    <3>1. s \in Segments
      BY <1>1 DEF SnapOK, Sound
    <3>2. CASE Past(cm, s)
      BY <1>1, <2>2, <2>3, <3>1, <3>2, PastStays
    <3>3. CASE ~Past(cm, s)
      <4>1. s \in dev.durable /\ Rank(disk.jobs[s].status) <= Rank(dev.jobs[s].status)
        BY <2>5, <3>3 DEF Behind
      <4>2. \/ Past(cm', s)
            \/ s \in dev'.durable /\ Rank(dev.jobs[s].status) <= Rank(dev'.jobs[s].status)
        BY <2>4, <4>1 DEF Forward
      <4>3. /\ Rank(disk.jobs[s].status) \in 0..3 /\ Rank(dev.jobs[s].status) \in 0..3
            /\ Rank(dev'.jobs[s].status) \in 0..3
        BY RankIsNumber
      <4> QED BY <4>1, <4>2, <4>3
    <3> QED BY <3>2, <3>3
  <2> QED BY <2>1, <2>6 DEF Behind
<1> QED BY <1>2, <1>3, <1>4

LEMMA AdvanceNext ==
  ASSUME Disciplined, LedgerInv, AckInv, AckInv', AdvanceInv, [Next]_vars
  PROVE  AdvanceInv'
<1>1. FramesInv /\ ControlInv /\ LifeInv /\ WorkInv /\ RestoreInv /\ SnapOK(disk) /\ AgreeInv'
      /\ KeepsWavs(disk.jobs, wavs)
  BY DEF LedgerInv, ControlInv, RestoreInv, SnapsOK, AckInv, WavsInv
<1>2. CASE Exits
  <2>1. mode' = "down" /\ exit' = None
    BY <1>2, ExitsForget DEF ForgetProcess
  <2> QED BY <2>1 DEF AdvanceInv
<1>3. CASE Recover
  <2>1. exit' = None
    BY <1>1, <1>3 DEF Recover, LifeInv
  <2>2. mode' # "down" => mode' = "up"
    BY <1>3 DEF Recover
  <2>3. mode' = "up" => Behind(disk', cm', dev')
    BY <1>1, <1>3, RecoveredAgrees, AgreesBehind
  <2> QED BY <2>1, <2>2, <2>3 DEF AdvanceInv
<1>4. CASE ~Exits /\ ~Recover /\ exit' # None
  <2>1. CASE BeginExit
    <3>1. /\ writable' /\ mode' # "down" /\ exit' = PersistentState'
      BY <2>1 DEF BeginExit
    <3>2. Behind(disk', cm', dev')
      BY <1>4, <3>1, MemoryBehind
    <3>3. Good(cm')
      BY <1>1, <1>4, <3>1, MemoryNext DEF CoreStep, Core
    <3>4. Agrees(cm', dev', exit')
      BY <3>1, <3>3, CapturedAgrees
    <3>5. Advances(disk', exit')
      BY <3>2, <3>4, BehindAdvances
    <3>6. ASSUME Begun' PROVE Advances(txn'.snap, exit')
      <4>1. Agrees(cm', dev', txn'.snap)
        BY <1>1, <3>6 DEF AgreeInv, WrittenAgrees
      <4>2. Behind(txn'.snap, cm', dev')
        BY <4>1, AgreesBehind
      <4> QED BY <3>4, <4>2, BehindAdvances
    <3> QED BY <3>2, <3>5, <3>6 DEF AdvanceInv
  <2>2. CASE RenameState
    <3>1. /\ disk' = txn.snap /\ txn'.snap = txn.snap /\ exit' = exit /\ Begun
      BY <1>1, <2>2, RenamedTxn
    <3>2. Advances(disk', exit') /\ Advances(txn'.snap, exit')
      BY <1>4, <3>1 DEF AdvanceInv
    <3> QED BY <1>4, <3>2, MemoryBehind DEF AdvanceInv
  <2>3. CASE ~BeginExit /\ ~RenameState
    <3>1. disk' = disk /\ exit' = exit
      BY <1>1, <1>4, <2>3, StoreStays
    <3>2. mode = "stopping" /\ txn.phase # "removing"
      BY <1>1, <1>4, <3>1 DEF LifeInv
    <3>3. Advances(disk', exit')
      BY <1>4, <3>1 DEF AdvanceInv
    <3>4. ~Takes /\ ~CleanAudio
      BY <3>2, TakenTxn, CleanedTxn
    <3>5. ASSUME Begun' PROVE Advances(txn'.snap, exit')
      <4>1. txn' = txn /\ Begun
        BY <1>1, <1>4, <2>3, <3>4, <3>5, BegunStep
      <4> QED BY <1>4, <3>1, <4>1 DEF AdvanceInv
    <3> QED BY <1>4, <3>3, <3>5, MemoryBehind DEF AdvanceInv
  <2> QED BY <2>1, <2>2, <2>3
<1>5. CASE ~Exits /\ ~Recover /\ exit' = None
  BY <1>5, MemoryBehind DEF AdvanceInv
<1> QED BY <1>2, <1>3, <1>4, <1>5

LEMMA RecoverAdvances ==
  ASSUME FramesInv, SnapOK(disk), KeepsWavs(disk.jobs, wavs), Recover, disk' # disk
  PROVE  Advances(disk, disk')
<1>1. PICK stuck \in SUBSET SettledFiles :
        LET dw == RecoveredDevice(stuck)
        IN /\ mode' = "up"
           /\ \E order \in Orders(UnfinishedJobs(dw.jobs)) :
                dev' = [dw EXCEPT !.queue = RecoveredQueue(order, dw.jobs)]
  BY RecoveredWork
<1> DEFINE dw == RecoveredDevice(stuck)
<1>2. \E q : dev' = [dw EXCEPT !.queue = q]
  BY <1>1
<1>3. DevShape(dw) /\ dw.jobs = RecoveredJobs(stuck)
  BY RecoveredFields
<1> HIDE DEF dw
<1>4. dev'.jobs = RecoveredJobs(stuck)
  BY <1>2, <1>3 DEF DevShape
<1>5. /\ Agrees(cm', dev', disk') /\ dev'.durable = disk.durable
  BY <1>1, RecoveredAgrees
<1>6. LostJobs = {} /\ disk.durable \subseteq Segments /\ disk.jobs \in [Segments -> Job]
  BY NoneLost DEF SnapOK, Sound
<1>7. ASSUME NEW s \in disk.durable PROVE dev'.jobs[s].status = disk.jobs[s].status
  <2>1. disk.jobs[s] = [status |-> disk.jobs[s].status, file |-> disk.jobs[s].file]
    BY <1>6 DEF Job
  <2> QED BY <1>4, <1>6, <2>1 DEF RecoveredJobs
<1>8. \A status : Rank(status) <= Rank(status)
  BY RankIsNumber
<1> QED BY <1>5, <1>7, <1>8 DEF Advances, Agrees

LEMMA DiskAdvances ==
  ASSUME LedgerInv, SnapOK(disk'), AckInv, AdvanceInv, [Next]_vars, disk' # disk,
         (undo' # None /\ undo' = disk) \/ disk' = exit,
         NEW s \in disk.durable, Live(disk'.cm, s)
  PROVE  s \in disk'.durable /\ Rank(disk.jobs[s].status) <= Rank(disk'.jobs[s].status)
<1>1. FramesInv /\ LifeInv /\ SnapOK(disk) /\ AgreeInv /\ KeepsWavs(disk.jobs, wavs)
  BY DEF LedgerInv, ControlInv, RestoreInv, SnapsOK, AckInv, WavsInv
<1>2. Advances(disk, disk')
  <2>1. CASE RenameState
    <3>1. disk' = txn.snap /\ Begun /\ txn # NoTxn /\ mode # "down"
      BY <1>1, <2>1, RenamedTxn
    <3>2. writable
      BY <1>1, <3>1 DEF LifeInv
    <3>3. Behind(disk, cm, dev) /\ Agrees(cm, dev, txn.snap)
      BY <1>1, <3>1, <3>2 DEF AdvanceInv, AgreeInv, WrittenAgrees
    <3> QED BY <3>1, <3>3, BehindAdvances
  <2>2. CASE Recover
    BY <1>1, <2>2, RecoverAdvances
  <2>3. CASE Exits /\ ~RenameState /\ ~Recover
    <3>1. undo' = None
      BY <2>3, ExitsForget
    <3>2. exit # None /\ disk' = exit
      BY <1>1, <2>3, <3>1, StoreMoves
    <3> QED BY <3>2 DEF AdvanceInv
  <2>4. CASE ~Exits /\ ~RenameState /\ ~Recover
    BY <1>1, <2>4, StoreStays
  <2> QED BY <2>1, <2>2, <2>3, <2>4
<1>3. s \in Segments
  BY <1>1 DEF SnapOK, Sound
<1>4. ~Past(disk'.cm, s)
  <2>1. disk'.cm.current[Device] = CaseOf[s]
    BY <1>3 DEF Live, SnapOK, Sound, RowSound
  <2>2. CaseOf[s] \in Nat
    BY <1>3, PipelineAssumption
  <2> QED BY <2>1, <2>2 DEF Past
<1> QED BY <1>2, <1>4 DEF Advances

LEMMA AdvanceInit == ASSUME Init PROVE AdvanceInv
<1>1. disk.durable = {} /\ exit = None
  BY DEF Init, EmptyDisk
<1> QED BY <1>1 DEF AdvanceInv, Behind

\* No state commit moves a recording of the current case backwards: a durable one
\* stays durable, and its job never returns to an earlier stage, for a device that
\* follows the protocol.
THEOREM TheDiskOnlyAdvances == Disciplined => (Spec => DiskOnlyAdvances)
<1> SUFFICES ASSUME Disciplined PROVE Spec => DiskOnlyAdvances
  OBVIOUS
<1>1. Init => AdvanceInv
  BY AdvanceInit
<1>2. (LedgerInv /\ AckInv) /\ (LedgerInv /\ AckInv)' /\ AdvanceInv /\ [Next]_vars => AdvanceInv'
  BY AdvanceNext
<1>3. Spec => [](LedgerInv /\ AckInv)
  BY AckHolds
<1>4. LedgerInv' => SnapOK(disk')
  BY DEF LedgerInv, RestoreInv, SnapsOK
<1>5. (LedgerInv /\ AckInv) /\ (LedgerInv /\ AckInv)' /\ AdvanceInv /\ [Next]_vars =>
        (disk' # disk /\ ((undo' # None /\ undo' = disk) \/ disk' = exit) =>
           \A s \in disk.durable : Live(disk'.cm, s) =>
             /\ s \in disk'.durable
             /\ Rank(disk.jobs[s].status) <= Rank(disk'.jobs[s].status))
  BY <1>4, DiskAdvances
<1> QED BY <1>1, <1>2, <1>3, <1>5, PTL DEF Spec, Safety, DiskOnlyAdvances
=============================================================================
