--------------------------- MODULE CaseRegistry ----------------------------
(***************************************************************************)
(* One CaseManager object under every sequence of calls: one action per    *)
(* public method that changes the object, and a restart, which exports the *)
(* object and builds a new one from the export.  A call that throws takes  *)
(* no step.  The audio a caller reads out of the object is not state.      *)
(***************************************************************************)
EXTENDS CaseManager

VARIABLE cm

RegistryInit == cm = EmptyCaseManager

StartsCase(d, c) ==
  MayStartCase(cm, d, c) /\ cm' = StartCase(cm, d, c)

StartsSegment(c, s, p) ==
  MayStartSegment(cm, c, s, p) /\ cm' = StartSegment(cm, c, s, p)

AppendsChunk(s, sequence, payload) ==
  /\ MayAppendChunk(cm, s, sequence, payload)
  /\ cm' = AppendChunk(cm, s, sequence, payload)

EndsSegment(s) ==
  MayEndSegment(cm, s) /\ cm' = EndSegment(cm, s)

ReleasesAudio(s) ==
  MayReleaseAudio(cm, s) /\ cm' = ReleaseAudio(cm, s)

BeginsTranscription(s) ==
  MayBeginTranscription(cm, s) /\ cm' = BeginTranscription(cm, s)

SavesTranscript(s, text) ==
  MaySaveTranscript(cm, s, text) /\ cm' = SaveTranscript(cm, s, text)

FailsSegment(s, failure) ==
  MayFailSegment(cm, s, failure) /\ cm' = FailSegment(cm, s, failure)

(* exportState in one process, restoreState in the next.  A restart from   *)
(* an older export reaches the states that a restart at that time reached. *)
Restart ==
  /\ MayRestoreState(ExportState(cm))
  /\ cm' = RestoreState(ExportState(cm))

CaseStep    == \E d \in Devices, c \in Cases : StartsCase(d, c)
SegmentStep ==
  \E s \in Segments :
    \/ \E c \in Cases, p \in Speakers : StartsSegment(c, s, p)
    \/ \E sequence \in 0..MaxPcm, payload \in Payloads :
         AppendsChunk(s, sequence, payload)
    \/ EndsSegment(s)
    \/ ReleasesAudio(s)
    \/ BeginsTranscription(s)
    \/ \E text \in Transcripts : SavesTranscript(s, text)
    \/ \E failure \in Failures : FailsSegment(s, failure)

RegistryNext == CaseStep \/ SegmentStep \/ Restart

RegistrySpec == RegistryInit /\ [][RegistryNext]_cm

----------------------------------------------------------------------------
(* The object's state has the shape its constructor and methods give it.   *)
TypeOK == cm \in CaseManagerState

(* Whatever the calls were, restoreState accepts what exportState returns: *)
(* a Bridge that was able to write its state can start from it again       *)
(* (validateRestoredState, L300-404).                                      *)
ExportIsRestorable == MayRestoreState(ExportState(cm))

(* A device has one case in memory, its current one: startCase evicts the  *)
(* previous case before it adds the next, and no call leaves a case that   *)
(* nothing will ever evict.                                                *)
HeldCasesAreCurrent ==
  \A c \in Cases, d \in Devices : cm.owner[c] = d <=> cm.current[d] = c

(* A case that is ready for mediation holds no audio any more: every path  *)
(* to saved or failed releases the recording, and one reopened after a     *)
(* failure makes its case not ready.                                       *)
ReadyCaseHoldsNoAudio ==
  \A c \in Held(cm) : CanMediate(cm, c) =>
    \A i \in DOMAIN Roll(cm, c) :
      LET row == cm.seg[Roll(cm, c)[i]] IN row.chunks = <<>> /\ ~row.pcm

(* The running byte count of a recording is that of the chunks it holds,   *)
(* also for one reopened after a failure, so that the limit on its length  *)
(* neither refuses a short recording nor admits one that is too long.      *)
ByteCountIsExact ==
  \A s \in Segments : cm.seg[s].state = "receiving" =>
    cm.seg[s].bytes = Len(cm.seg[s].chunks) /\ cm.seg[s].bytes <= MaxPcm

(* A saved transcript is never replaced, cleared or reopened while its     *)
(* case lives: a late failure, a second transcript or a repeated start of  *)
(* the segment leaves it as it is.                                         *)
SavedTranscriptStays ==
  [][\A s \in Segments : cm.seg[s].state = "saved" /\ Live(cm', s) =>
       /\ cm'.seg[s].state = "saved"
       /\ cm'.seg[s].transcript = cm.seg[s].transcript]_cm
=============================================================================
