------------------------- MODULE BridgeState_proofs -------------------------
(***************************************************************************)
(* The state that the Bridge keeps: the object of CaseManager and the file *)
(* it is saved in.                                                         *)
(*                                                                         *)
(* What holds of the object for every number of devices, cases, segments   *)
(* and calls follows from the lemmas about its methods.  Good(cm) is the   *)
(* inductive invariant: each property below needs the relations between    *)
(* the object's maps that it is made of.                                   *)
(*                                                                         *)
(* What the store promises for every number of commits: a success is       *)
(* durable, a failure before the rename is invisible, and every step of    *)
(* the file system calls is a step of the register or leaves it alone.     *)
(* The argument is the order of the numbers: what is on the disk is not    *)
(* newer than what is named, which is not newer than the commit that runs, *)
(* which is older than every one that waits; and none of the commits that  *)
(* run or wait has ended.                                                  *)
(***************************************************************************)
EXTENDS CaseRegistry, CaseManager_proofs, AtomicJsonStateStore

----------------------------------------------------------------------------
(* The object (CaseRegistry).                                              *)

(* Every call and restart keeps the maps of the object consistent with     *)
(* each other (case-manager.mjs, whole class).                             *)
THEOREM AlwaysGood == RegistrySpec => []Good(cm)
<1>1. RegistryInit => Good(cm)
  BY EmptyGood DEF RegistryInit
<1>2. Good(cm) /\ [RegistryNext]_cm => Good(cm)'
  <2> SUFFICES ASSUME Good(cm), [RegistryNext]_cm
               PROVE  Good(cm')
    BY DEF Good, CaseManagerState, GoodRows, Shape
  <2>1. CASE CaseStep
    BY <2>1, StartCaseGood DEF CaseStep, StartsCase
  <2>2. CASE SegmentStep
    <3> PICK s \in Segments :
          \/ \E c \in Cases, p \in Speakers : StartsSegment(c, s, p)
          \/ \E sequence \in 0..MaxPcm, payload \in Payloads :
               AppendsChunk(s, sequence, payload)
          \/ EndsSegment(s)
          \/ ReleasesAudio(s)
          \/ BeginsTranscription(s)
          \/ \E text \in Transcripts : SavesTranscript(s, text)
          \/ \E failure \in Failures : FailsSegment(s, failure)
      BY <2>2 DEF SegmentStep
    <3>1. CASE \E c \in Cases, p \in Speakers : StartsSegment(c, s, p)
      BY <3>1, StartSegmentGood DEF StartsSegment
    <3>2. CASE \E sequence \in 0..MaxPcm, payload \in Payloads :
                 AppendsChunk(s, sequence, payload)
      <4>1. \A sequence \in 0..MaxPcm : sequence \in Nat
        OBVIOUS
      <4> QED
        BY <3>2, <4>1, AppendChunkGood DEF AppendsChunk
    <3>3. CASE EndsSegment(s)
      BY <3>3, EndSegmentGood DEF EndsSegment
    <3>4. CASE ReleasesAudio(s)
      BY <3>4, ReleaseAudioGood DEF ReleasesAudio
    <3>5. CASE BeginsTranscription(s)
      BY <3>5, BeginTranscriptionGood DEF BeginsTranscription
    <3>6. CASE \E text \in Transcripts : SavesTranscript(s, text)
      BY <3>6, SaveTranscriptGood DEF SavesTranscript
    <3>7. CASE \E failure \in Failures : FailsSegment(s, failure)
      BY <3>7, FailSegmentGood DEF FailsSegment
    <3> QED
      BY <3>1, <3>2, <3>3, <3>4, <3>5, <3>6, <3>7
  <2>3. CASE Restart
    BY <2>3, RestartGood DEF Restart
  <2>4. CASE UNCHANGED cm
    BY <2>4
  <2> QED
    BY <2>1, <2>2, <2>3, <2>4 DEF RegistryNext
<1> QED
  BY <1>1, <1>2, PTL DEF RegistrySpec

(* Whatever the calls and restarts were, the object keeps the shape its    *)
(* constructor and methods give it.                                        *)
THEOREM TypeCorrect == RegistrySpec => []TypeOK
<1>1. Good(cm) => TypeOK
  BY DEF Good, TypeOK
<1> QED
  BY <1>1, AlwaysGood, PTL

(* No call leaves a case in memory that is not the current one of its      *)
(* device, so that what the object holds is bounded by the devices         *)
(* (startCase, evictCase).                                                 *)
THEOREM CasesAreCurrent == RegistrySpec => []HeldCasesAreCurrent
<1>1. Good(cm) => HeldCasesAreCurrent
  BY DEF Good, Shape, HeldCurrent, HeldCasesAreCurrent
<1> QED
  BY <1>1, AlwaysGood, PTL

(* The byte count by which appendChunk limits a recording is the length of *)
(* what it holds, also after it was reopened.                              *)
THEOREM BytesAreExact == RegistrySpec => []ByteCountIsExact
<1>1. Good(cm) => ByteCountIsExact
  BY DEF Good, GoodRows, GoodRow, ByteCountIsExact
<1> QED
  BY <1>1, AlwaysGood, PTL

(* A case that snapshot reports as ready for mediation holds no audio.     *)
THEOREM ReadyCasesAreSilent == RegistrySpec => []ReadyCaseHoldsNoAudio
<1>1. Good(cm) => ReadyCaseHoldsNoAudio
  <2> SUFFICES ASSUME Good(cm), NEW c \in Cases, CanMediate(cm, c),
                      NEW i \in DOMAIN Roll(cm, c)
               PROVE  LET row == cm.seg[Roll(cm, c)[i]]
                      IN row.chunks = <<>> /\ ~row.pcm
    BY DEF ReadyCaseHoldsNoAudio, Held
  <2>1. Roll(cm, c)[i] \in Segments
    BY RollType DEF Good
  <2>2. cm.seg[Roll(cm, c)[i]].state \notin ActiveStates
    BY DEF CanMediate
  <2> QED
    BY <2>1, <2>2 DEF Good, GoodRows, GoodRow
<1> QED
  BY <1>1, AlwaysGood, PTL

(* A late failure, a second transcript, a repeated start or a restart      *)
(* leaves a saved transcript as it is (startSegment, saveTranscript,       *)
(* failSegment, restoreState).                                             *)
THEOREM SavedIsFinal == RegistrySpec => SavedTranscriptStays
<1> DEFINE Kept == \A s \in Segments : cm.seg[s].state = "saved" /\ Live(cm', s) =>
                     /\ cm'.seg[s].state = "saved"
                     /\ cm'.seg[s].transcript = cm.seg[s].transcript
<1>1. Good(cm) /\ [RegistryNext]_cm => [Kept]_cm
  <2> SUFFICES ASSUME Good(cm), RegistryNext
               PROVE  Kept
    OBVIOUS
  <2>1. ASSUME NEW t \in Segments, NEW row,
               cm.seg[t].state = "saved" => /\ row.state = "saved"
                                            /\ row.transcript = cm.seg[t].transcript,
               cm'.seg = [cm.seg EXCEPT ![t] = row]
        PROVE  Kept
    <3>1. \A s \in Segments : cm'.seg[s] = IF s = t THEN row ELSE cm.seg[s]
      BY <2>1 DEF Good, CaseManagerState
    <3> QED
      BY <2>1, <3>1
  <2>2. CASE CaseStep
    <3>1. \A s \in Segments : Live(cm', s) => cm'.seg[s] = cm.seg[s]
      <4>1. PICK d \in Devices, c \in Cases : cm' = StartCase(cm, d, c)
        BY <2>2 DEF CaseStep, StartsCase
      <4>2. ASSUME NEW e, NEW s \in Segments, Live(EvictCase(cm, e), s)
            PROVE  EvictCase(cm, e).seg[s] = cm.seg[s]
        BY <4>2 DEF EvictCase, Live, NoSegment, Good, CaseManagerState
      <4>3. \/ cm'.seg = cm.seg
            \/ cm'.seg = EvictCase(cm, cm.current[d]).seg
        BY <4>1 DEF StartCase, EvictCase, Good, CaseManagerState
      <4> QED
        BY <4>2, <4>3 DEF Live
    <3> QED
      BY <3>1
  <2>3. CASE SegmentStep
    <3> PICK s \in Segments :
          \/ \E c \in Cases, p \in Speakers : StartsSegment(c, s, p)
          \/ \E sequence \in 0..MaxPcm, payload \in Payloads :
               AppendsChunk(s, sequence, payload)
          \/ EndsSegment(s)
          \/ ReleasesAudio(s)
          \/ BeginsTranscription(s)
          \/ \E text \in Transcripts : SavesTranscript(s, text)
          \/ \E failure \in Failures : FailsSegment(s, failure)
      BY <2>3 DEF SegmentStep
    <3> DEFINE old == cm.seg[s]
    <3>1. old \in Segment /\ GoodRow(old)
      BY DEF Good, GoodRows, CaseManagerState
    <3>2. CASE cm' = cm
      BY <3>2
    <3>3. CASE \E row : /\ cm'.seg = [cm.seg EXCEPT ![s] = row]
                        /\ old.state # "saved"
      BY <2>1, <3>3
    <3>4. ASSUME NEW c \in Cases, NEW p \in Speakers, StartsSegment(c, s, p)
          PROVE  \/ cm' = cm
                 \/ \E row : /\ cm'.seg = [cm.seg EXCEPT ![s] = row]
                             /\ old.state # "saved"
      <4>1. CASE Live(cm, s) /\ old.state = "failed"
        BY <3>4, <4>1 DEF StartsSegment, StartSegment, Good, CaseManagerState
      <4>2. CASE Live(cm, s) /\ old.state # "failed"
        BY <3>4, <4>2 DEF StartsSegment, StartSegment
      <4>3. CASE ~Live(cm, s)
        BY <3>4, <4>3
           DEF StartsSegment, StartSegment, Live, Good, CaseManagerState
      <4> QED
        BY <4>1, <4>2, <4>3
    <3>5. ASSUME NEW sequence \in 0..MaxPcm, NEW payload \in Payloads,
                 AppendsChunk(s, sequence, payload)
          PROVE  \/ cm' = cm
                 \/ \E row : /\ cm'.seg = [cm.seg EXCEPT ![s] = row]
                             /\ old.state # "saved"
      BY <3>5 DEF AppendsChunk, MayAppendChunk, AppendChunk, Good,
                  CaseManagerState
    <3>6. ASSUME EndsSegment(s)
          PROVE  \/ cm' = cm
                 \/ \E row : /\ cm'.seg = [cm.seg EXCEPT ![s] = row]
                             /\ old.state # "saved"
      BY <3>6 DEF EndsSegment, EndSegment, Good, CaseManagerState
    <3>7. CASE ReleasesAudio(s)
      <4> DEFINE row == Released(old)
      <4>1. row.state = old.state /\ row.transcript = old.transcript
        BY <3>1, Zenon DEF Released, Segment
      <4>2. cm'.seg = [cm.seg EXCEPT ![s] = row]
        BY <3>7 DEF ReleasesAudio, ReleaseAudio, Good, CaseManagerState
      <4> HIDE DEF row
      <4> QED
        BY <2>1, <4>1, <4>2
    <3>8. CASE BeginsTranscription(s)
      BY <3>3, <3>8 DEF BeginsTranscription, MayBeginTranscription,
                        BeginTranscription, Good, CaseManagerState
    <3>9. ASSUME NEW text \in Transcripts, SavesTranscript(s, text)
          PROVE  \/ cm' = cm
                 \/ \E row : /\ cm'.seg = [cm.seg EXCEPT ![s] = row]
                             /\ old.state # "saved"
      BY <3>9 DEF SavesTranscript, SaveTranscript, Good, CaseManagerState
    <3>10. ASSUME NEW failure \in Failures, FailsSegment(s, failure)
           PROVE  \/ cm' = cm
                  \/ \E row : /\ cm'.seg = [cm.seg EXCEPT ![s] = row]
                              /\ old.state # "saved"
      BY <3>10 DEF FailsSegment, MayFailSegment, FailSegment, ActiveStates,
                   Good, CaseManagerState
    <3> HIDE DEF Kept
    <3> QED
      BY <3>2, <3>3, <3>4, <3>5, <3>6, <3>7, <3>8, <3>9, <3>10
  <2>4. CASE Restart
    <3>1. \A s \in Segments : /\ cm.seg[s] \in Segment /\ GoodRow(cm.seg[s])
                              /\ cm'.seg[s] = RestoredRow(ExportedRow(cm.seg[s]))
      BY <2>4 DEF Restart, RestoreState, ExportState, Good, GoodRows,
                  CaseManagerState
    <3> QED
      BY <3>1, RestoredRowGood
  <2> QED
    BY <2>2, <2>3, <2>4 DEF RegistryNext
<1> QED
  BY <1>1, AlwaysGood, PTL DEF RegistrySpec, SavedTranscriptStays

(* A Bridge that wrote its state can start from it: after any sequence of  *)
(* calls and restarts, validateRestoredState accepts the export.           *)
THEOREM ExportsRestore == RegistrySpec => []ExportIsRestorable
<1>1. Good(cm) => ExportIsRestorable
  BY GoodWithinLimits, GoodIsValid DEF ExportIsRestorable, MayRestoreState
<1> QED
  BY <1>1, AlwaysGood, PTL

----------------------------------------------------------------------------
(* The file (AtomicJsonStateStore).                                        *)

States == 0..MaxCommits

StoreType ==
  /\ calls \in States
  /\ tail \in Seq(Commits)
  /\ running \in States
  /\ pc \in Steps
  /\ content \in {"absent", "partial", "full"}
  /\ synced \in BOOLEAN
  /\ visible \in States /\ stable \in States

\* A commit ends after its call, and once.
EndedType ==
  /\ settled \subseteq 1..calls
  /\ confirmed \subseteq Commits
  /\ failedPre \subseteq settled

\* The calls that wait are newer than the file and than each other.
TailIsAhead ==
  /\ \A i \in 1..Len(tail) :
       /\ tail[i] > visible /\ tail[i] > running /\ tail[i] <= calls
       /\ tail[i] \notin settled
  /\ \A i, j \in 1..Len(tail) : i < j => tail[i] < tail[j]

\* The commit that runs has not ended; the file names it from the rename on,
\* and an older one before.
RunningIsAhead ==
  /\ running = 0 <=> pc = "idle"
  /\ running <= calls /\ running \notin settled
  /\ visible <= calls
  /\ pc = "syncDirectory" => visible = running
  /\ pc \in {"open", "write", "sync", "rename"} => visible < running

\* What gets a name is complete and on the disk.
PartIsReady ==
  /\ pc = "sync" => content = "full"
  /\ pc = "rename" => content = "full" /\ synced

\* Both names are those of complete files, and no success is newer.
NamesAreWhole ==
  /\ {visible, stable} \subseteq whole \cap onDisk
  /\ stable <= visible
  /\ \A n \in confirmed : n <= stable
  /\ PreRenameFailureIsInvisible

StoreInv ==
  /\ StoreType
  /\ EndedType
  /\ TailIsAhead
  /\ RunningIsAhead
  /\ PartIsReady
  /\ NamesAreWhole

USE CommitBound DEF Commits, States, Steps

LEMMA NoTail == <<>> \in Seq(Commits) /\ Len(<<>>) = 0
  OBVIOUS

LEMMA InitInv == Init => StoreInv
<1> SUFFICES ASSUME Init
             PROVE  StoreInv
  OBVIOUS
<1> USE DEF Init
<1>1. StoreType
  <2>1. calls \in States /\ running \in States /\ visible \in States /\ stable \in States
    OBVIOUS
  <2>2. pc \in Steps /\ content \in {"absent", "partial", "full"} /\ synced \in BOOLEAN
    OBVIOUS
  <2> QED
    BY <2>1, <2>2, NoTail DEF StoreType
<1>2. EndedType
  BY DEF EndedType
<1>3. TailIsAhead /\ RunningIsAhead
  BY DEF TailIsAhead, RunningIsAhead
<1>4. PartIsReady /\ NamesAreWhole
  BY DEF PartIsReady, NamesAreWhole, PreRenameFailureIsInvisible
<1> QED
  BY <1>1, <1>2, <1>3, <1>4 DEF StoreInv

\* The steps of one commit's file system calls before its rename.
LEMMA WritingInv == StoreInv /\ (Open \/ WriteFile \/ Sync) => StoreInv'
  BY DEF StoreInv, StoreType, EndedType, TailIsAhead, RunningIsAhead, PartIsReady,
         NamesAreWhole, PreRenameFailureIsInvisible, Open, WriteFile, Sync,
         naming, outcome

\* A call queues a state newer than all the others.
LEMMA CommitInv == StoreInv /\ Commit => StoreInv'
<1> SUFFICES ASSUME StoreInv, Commit
             PROVE  StoreInv'
  OBVIOUS
<1> USE DEF StoreInv, Commit, naming, outcome, file
<1>1. StoreType' /\ EndedType'
  BY DEF StoreType, EndedType
<1>2. TailIsAhead'
  <2>1. /\ Len(tail') = Len(tail) + 1
        /\ \A i \in 1..Len(tail) : tail'[i] = tail[i]
        /\ tail'[Len(tail) + 1] = calls + 1
    BY DEF StoreType
  <2>2. calls + 1 \notin settled /\ calls + 1 > visible /\ calls + 1 > running
    BY DEF StoreType, EndedType, RunningIsAhead
  <2> QED
    BY <2>1, <2>2 DEF TailIsAhead, StoreType
<1>3. RunningIsAhead' /\ PartIsReady' /\ NamesAreWhole'
  BY DEF StoreType, EndedType, RunningIsAhead, PartIsReady, NamesAreWhole,
         PreRenameFailureIsInvisible
<1> QED
  BY <1>1, <1>2, <1>3

\* The oldest of the waiting calls runs next.
LEMMA StartInv == StoreInv /\ Start => StoreInv'
<1> SUFFICES ASSUME StoreInv, Start
             PROVE  StoreInv'
  OBVIOUS
<1> USE DEF StoreInv, Start, naming, outcome, file
<1>1. /\ Len(tail) >= 1 /\ Len(tail') = Len(tail) - 1
      /\ \A i \in 1..Len(tail') : tail'[i] = tail[i + 1]
      /\ running' = tail[1] /\ tail' \in Seq(Commits)
  BY DEF StoreType
<1>2. StoreType' /\ EndedType'
  BY <1>1 DEF StoreType, EndedType
<1>3. TailIsAhead'
  BY <1>1 DEF TailIsAhead, StoreType
<1>4. RunningIsAhead' /\ PartIsReady' /\ NamesAreWhole'
  BY <1>1 DEF TailIsAhead, StoreType, EndedType, RunningIsAhead, PartIsReady,
              NamesAreWhole, PreRenameFailureIsInvisible
<1> QED
  BY <1>2, <1>3, <1>4

\* However a commit ends, nothing of it is left.
LEMMA FinishType ==
  ASSUME StoreType, Finish, UNCHANGED calls, tail' \in {tail, <<>>},
         visible' \in {visible, stable}, UNCHANGED stable
  PROVE  StoreType'
<1>1. tail' \in Seq(Commits)
  BY NoTail DEF StoreType
<1>2. (calls \in States /\ running \in States)'
  BY DEF StoreType, Finish
<1>3. (visible \in States /\ stable \in States)'
  BY DEF StoreType
<1>4. (pc \in Steps /\ content \in {"absent", "partial", "full"} /\ synced \in BOOLEAN)'
  BY DEF Finish
<1> QED
  BY <1>1, <1>2, <1>3, <1>4 DEF StoreType

\* The rename names a file that is complete and on the disk.
LEMMA RenameInv == StoreInv /\ Rename => StoreInv'
<1> SUFFICES ASSUME StoreInv, Rename
             PROVE  StoreInv'
  OBVIOUS
<1> USE DEF StoreInv, StoreType, Rename, outcome
<1>1. StoreType'
  OBVIOUS
<1>2. EndedType'
  BY DEF EndedType, RunningIsAhead
<1>3. TailIsAhead'
  BY DEF EndedType, TailIsAhead, RunningIsAhead
<1>4. RunningIsAhead'
  BY DEF EndedType, TailIsAhead, RunningIsAhead
<1>5. PartIsReady' /\ NamesAreWhole'
  BY DEF EndedType, RunningIsAhead, PartIsReady, NamesAreWhole,
         PreRenameFailureIsInvisible
<1> QED
  BY <1>1, <1>2, <1>3, <1>4, <1>5

\* A success is given to the commit that is named on the disk.
LEMMA SyncDirectoryInv == StoreInv /\ SyncDirectory => StoreInv'
<1> SUFFICES ASSUME StoreInv, SyncDirectory
             PROVE  StoreInv'
  OBVIOUS
<1> USE DEF StoreInv, SyncDirectory, Finish, naming
<1>1. StoreType'
  BY FinishType
<1>2. EndedType'
  BY DEF StoreType, EndedType, RunningIsAhead
<1>3. TailIsAhead'
  BY NoTail DEF StoreType, EndedType, TailIsAhead, RunningIsAhead
<1>4. RunningIsAhead'
  BY NoTail DEF StoreType, EndedType, TailIsAhead, RunningIsAhead
<1>5. PartIsReady' /\ NamesAreWhole'
  BY DEF StoreType, EndedType, RunningIsAhead, PartIsReady, NamesAreWhole,
         PreRenameFailureIsInvisible
<1> QED
  BY <1>1, <1>2, <1>3, <1>4, <1>5

\* A commit that fails before its rename is named nowhere.
LEMMA CommitFailsInv == StoreInv /\ CommitFails => StoreInv'
<1> SUFFICES ASSUME StoreInv, CommitFails
             PROVE  StoreInv'
  OBVIOUS
<1> USE DEF StoreInv, CommitFails, Finish, naming
<1>1. StoreType'
  BY FinishType
<1>2. EndedType'
  <2>1. running \in 1..calls
    BY DEF StoreType, RunningIsAhead
  <2> QED
    BY <2>1 DEF EndedType
<1>3. TailIsAhead'
  BY NoTail DEF StoreType, EndedType, TailIsAhead, RunningIsAhead
<1>4. RunningIsAhead'
  BY NoTail DEF StoreType, EndedType, TailIsAhead, RunningIsAhead
<1>5. PartIsReady' /\ NamesAreWhole'
  BY DEF StoreType, EndedType, RunningIsAhead, PartIsReady, NamesAreWhole,
         PreRenameFailureIsInvisible
<1> QED
  BY <1>1, <1>2, <1>3, <1>4, <1>5

LEMMA WriteBackInv == StoreInv /\ WriteBack => StoreInv'
  BY DEF StoreInv, StoreType, EndedType, EndedType, TailIsAhead, RunningIsAhead,
         PartIsReady, NamesAreWhole, PreRenameFailureIsInvisible, WriteBack,
         file, outcome

\* A crash ends every call.
LEMMA CrashInv == StoreInv /\ CrashAndRestart => StoreInv'
<1> SUFFICES ASSUME StoreInv, CrashAndRestart
             PROVE  StoreInv'
  OBVIOUS
<1> USE DEF StoreInv, CrashAndRestart, Die, Finish, naming
<1>1. StoreType'
  BY FinishType
<1>2. EndedType'
  BY DEF StoreType, EndedType, RunningIsAhead
<1>3. TailIsAhead'
  BY NoTail DEF StoreType, EndedType, TailIsAhead, RunningIsAhead
<1>4. RunningIsAhead'
  BY NoTail DEF StoreType, EndedType, TailIsAhead, RunningIsAhead
<1>5. PartIsReady' /\ NamesAreWhole'
  BY DEF StoreType, EndedType, RunningIsAhead, PartIsReady, NamesAreWhole,
         PreRenameFailureIsInvisible
<1> QED
  BY <1>1, <1>2, <1>3, <1>4, <1>5

\* A power failure does too, and goes back to the name on the disk.
LEMMA PowerFailureInv == StoreInv /\ PowerFailureAndRestart => StoreInv'
<1> SUFFICES ASSUME StoreInv, PowerFailureAndRestart
             PROVE  StoreInv'
  OBVIOUS
<1> USE DEF StoreInv, PowerFailureAndRestart, Die, Finish
<1>1. StoreType'
  BY FinishType
<1>2. EndedType'
  BY DEF StoreType, EndedType, RunningIsAhead
<1>3. TailIsAhead'
  BY NoTail DEF StoreType, EndedType, TailIsAhead, RunningIsAhead
<1>4. RunningIsAhead'
  BY DEF StoreType, EndedType, RunningIsAhead, NamesAreWhole
<1>5. PartIsReady' /\ NamesAreWhole'
  BY DEF StoreType, EndedType, RunningIsAhead, PartIsReady, NamesAreWhole,
         PreRenameFailureIsInvisible
<1> QED
  BY <1>1, <1>2, <1>3, <1>4, <1>5

(* Whatever is called, fails or is cut off, the numbers stay in order      *)
(* (AtomicJsonStateStore, commit and #commitSerialized).                   *)
THEOREM StoreIsConsistent == Spec => []StoreInv
<1>1. StoreInv /\ [Next]_vars => StoreInv'
  <2> SUFFICES ASSUME StoreInv, [Next]_vars
               PROVE  StoreInv'
    OBVIOUS
  <2>1. CASE Next
    BY <2>1, WritingInv, CommitInv, StartInv, RenameInv, SyncDirectoryInv,
       CommitFailsInv, WriteBackInv, CrashInv, PowerFailureInv DEF Next, FileCall
  <2>2. CASE UNCHANGED vars
    BY <2>2 DEF vars, StoreInv, StoreType, EndedType, TailIsAhead, RunningIsAhead,
                PartIsReady, NamesAreWhole, PreRenameFailureIsInvisible
  <2> QED
    BY <2>1, <2>2
<1> QED
  BY <1>1, InitInv, PTL DEF Spec

(* What commit() confirmed, a power failure does not take back, and load() *)
(* never finds a torn file: the durable ACKs rest on this.                 *)
THEOREM ConfirmedIsDurable == Spec => []ConfirmedSurvives
<1>1. StoreInv => ConfirmedSurvives
  BY DEF StoreInv, StoreType, EndedType, NamesAreWhole, ConfirmedSurvives
<1> QED
  BY <1>1, StoreIsConsistent, PTL

(* commitPhase "pre-rename" is the truth: the gateway may roll back.       *)
THEOREM PreRenameIsInvisible == Spec => []PreRenameFailureIsInvisible
<1>1. StoreInv => PreRenameFailureIsInvisible
  BY DEF StoreInv, NamesAreWhole
<1> QED
  BY <1>1, StoreIsConsistent, PTL

----------------------------------------------------------------------------
\* Until its rename nothing of a commit shows.
LEMMA HiddenSteps ==
  Commit \/ Start \/ Open \/ WriteFile \/ Sync => UNCHANGED Register!vars
  BY DEF Commit, Start, Open, WriteFile, Sync, naming, outcome, file,
         Register!vars

\* The rename is the point at which a commit takes effect, and its end is one
\* of the register's ends.
LEMMA CommitStepsImplement ==
  StoreInv /\ (Rename \/ SyncDirectory \/ CommitFails) => Register!Next
<1> SUFFICES ASSUME StoreInv, Rename \/ SyncDirectory \/ CommitFails
             PROVE  Register!Next
  OBVIOUS
<1>1. running \in Register!Commits /\ running \notin settled
  BY DEF StoreInv, StoreType, EndedType, RunningIsAhead, Register!Commits, Rename,
         SyncDirectory, CommitFails
<1>2. CASE Rename
  <2>1. Register!TakeEffect(running)
    BY <1>1, <1>2 DEF Rename, StoreInv, StoreType, EndedType, RunningIsAhead, outcome,
                      Register!TakeEffect
  <2> QED
    BY <1>1, <2>1 DEF Register!Next
<1>3. CASE SyncDirectory
  <2>1. Register!Confirm(running)
    BY <1>1, <1>3 DEF SyncDirectory, StoreInv, RunningIsAhead, naming,
                      Register!Confirm
  <2> QED
    BY <1>1, <2>1 DEF Register!Next
<1>4. CASE CommitFails
  <2>1. Register!Abandon(running)
    BY <1>1, <1>4 DEF CommitFails, naming, Register!Abandon
  <2> QED
    BY <1>1, <2>1 DEF Register!Next
<1> QED
  BY <1>2, <1>3, <1>4

\* A restart finds what was named or what was on the disk.
LEMMA CrashImplements ==
  StoreInv /\ (CrashAndRestart \/ PowerFailureAndRestart) => Register!Next
<1> SUFFICES ASSUME StoreInv, CrashAndRestart \/ PowerFailureAndRestart
             PROVE  Register!Crash
  BY DEF Register!Next
<1>1. settled' \in {S \in SUBSET Register!Commits : settled \subseteq S}
  <2>1. settled' = settled \cup 1..calls
    BY DEF CrashAndRestart, PowerFailureAndRestart, Die
  <2>2. settled \cup 1..calls \subseteq Register!Commits
    BY DEF StoreInv, StoreType, EndedType, Register!Commits
  <2> QED
    BY <2>1, <2>2
<1> QED
  BY <1>1 DEF CrashAndRestart, PowerFailureAndRestart, Die, naming,
              Register!Crash

(* The store is a register: commits take effect in the order of the calls, *)
(* each at one point, and none after it has ended (commit, load).          *)
THEOREM StoreIsRegister == Spec => ImplementsRegister
<1>1. Init => Register!Init
  BY DEF Init, Register!Init
<1>2. StoreInv /\ [Next]_vars => [Register!Next]_Register!vars
  <2> SUFFICES ASSUME StoreInv, [Next]_vars
               PROVE  [Register!Next]_Register!vars
    OBVIOUS
  <2>1. CASE WriteBack
    BY <2>1 DEF WriteBack, outcome, Register!Stabilise, Register!Next
  <2>2. CASE UNCHANGED vars
    BY <2>2 DEF vars, Register!vars
  <2> QED
    BY <2>1, <2>2, HiddenSteps, CommitStepsImplement, CrashImplements DEF Next, FileCall
<1> QED
  BY <1>1, <1>2, StoreIsConsistent, PTL
     DEF Spec, ImplementsRegister, Register!Spec
=============================================================================
