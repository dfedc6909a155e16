---------------------------- MODULE CaseManager ----------------------------
(***************************************************************************)
(* The class CaseManager of bridge/src/case-manager.mjs as a value: the    *)
(* record cm below is the object's state, and each public method is a pair *)
(* of operators, MayX (the call does not throw) and X (the object after a  *)
(* call that returns).  A call that throws leaves the object as it was.    *)
(* The gateway calls several methods in one step of the event loop and     *)
(* exports and restores the whole object, so it is a value rather than a   *)
(* set of variables.  CaseRegistry runs it alone, SegmentPipeline inside   *)
(* the gateway.                                                            *)
(***************************************************************************)
EXTENDS Naturals, Sequences, FiniteSets

CONSTANTS
  Devices,            \* device identifiers
  Cases,              \* case identifiers
  Segments,           \* segment (recording) identifiers
  Payloads,           \* contents of one audio chunk, each one unit long
  Transcripts,        \* texts the speech recogniser may return
  BlankTranscripts,   \* those of them that are empty once trimmed
  Failures,           \* failure texts
  None,               \* null, undefined, or a key a Map does not hold
  MaxPcm,             \* MAX_PCM_BYTES_PER_SEGMENT, in payloads
  MaxSegments,        \* MAX_SEGMENTS_PER_CASE
  MaxTombstones,      \* segmentTombstoneLimit
  MaxCases            \* MAX_RETAINED_CASES

(* The failure restoreState gives to a recording that was being received.  *)
Interrupted == "interrupted"

ASSUME NoneAssumption ==
  /\ None \notin Devices
  /\ None \notin Cases
  /\ None \notin Transcripts
  /\ None \notin Failures

ASSUME TextAssumption ==
  /\ BlankTranscripts \subseteq Transcripts
  /\ Interrupted \in Failures

ASSUME FiniteAssumption ==
  /\ IsFiniteSet(Devices)
  /\ IsFiniteSet(Cases)
  /\ IsFiniteSet(Segments)

(* The gateway keeps the record of a device that has a case, and admits no *)
(* more devices than MAX_RETAINED_CASES (device-gateway.mjs, L829-840 and  *)
(* L2012-2022); Devices are those that may have a case at one time.        *)
ASSUME DeviceBound == Cardinality(Devices) <= MaxCases

ASSUME LimitAssumption ==
  /\ MaxPcm \in Nat
  /\ MaxSegments \in Nat
  /\ MaxTombstones \in Nat \ {0}
  /\ MaxCases \in Nat

Speakers == {"A", "B"}

ActiveStates   == {"receiving", "queued", "transcribing"}
TerminalStates == {"saved", "failed"}
LiveStates     == ActiveStates \cup TerminalStates

(* A row of the segment table; state "absent" when the Map has no such key. *)
Segment ==
  [case       : Cases \cup {None},
   speaker    : Speakers,
   state      : LiveStates \cup {"absent"},
   chunks     : Seq(Payloads),
   bytes      : Nat,
   pcm        : BOOLEAN,
   transcript : Transcripts \cup {None},
   failure    : Failures \cup {None}]

NoSegment ==
  [case |-> None, speaker |-> "A", state |-> "absent", chunks |-> <<>>,
   bytes |-> 0, pcm |-> FALSE, transcript |-> None, failure |-> None]

(* What an evicted segment leaves behind.  The tombstone Map is kept in    *)
(* insertion order: age counts the bindings inserted after this one.       *)
Tombstone == [case : Cases \cup {None}, speaker : Speakers, age : Nat]

NoTombstone == [case |-> None, speaker |-> "A", age |-> 0]

NoSpeakers == [p \in Speakers |-> <<>>]

CaseManagerState ==
  [owner   : [Cases -> Devices \cup {None}],
   listed  : [Cases -> [Speakers -> Seq(Segments)]],
   current : [Devices -> Cases \cup {None}],
   seg     : [Segments -> Segment],
   tomb    : [Segments -> Tombstone]]

EmptyCaseManager ==
  [owner   |-> [c \in Cases |-> None],
   listed  |-> [c \in Cases |-> NoSpeakers],
   current |-> [d \in Devices |-> None],
   seg     |-> [s \in Segments |-> NoSegment],
   tomb    |-> [s \in Segments |-> NoTombstone]]

Live(cm, s)   == cm.seg[s].state # "absent"
Buried(cm, s) == cm.tomb[s].case # None
Held(cm)      == {c \in Cases : cm.owner[c] # None}

SameMeta(row, c, p) == row.case = c /\ row.speaker = p

(* All segments of a case, speaker A's first, in order of their start.     *)
Roll(cm, c) == cm.listed[c]["A"] \o cm.listed[c]["B"]

Elements(q) == {q[i] : i \in DOMAIN q}

(***************************************************************************)
(* startCase, with the eviction of the device's previous case              *)
(***************************************************************************)

BeyondLimit(age) == age >= MaxTombstones

(* A binding outlives the bindings inserted before it: of those that stay, *)
(* each is older by the length of the roll, and the oldest ones beyond the *)
(* limit are dropped.                                                      *)
Remember(cm, roll) ==
  LET newer(s) == {t \in Segments : /\ Buried(cm, t)
                                    /\ t \notin Elements(roll)
                                    /\ cm.tomb[t].age < cm.tomb[s].age}
      aged(s)  == IF s \in Elements(roll)
                  THEN LET at == CHOOSE i \in DOMAIN roll : roll[i] = s
                       IN [case    |-> cm.seg[s].case,
                           speaker |-> cm.seg[s].speaker,
                           age     |-> Len(roll) - at]
                  ELSE IF Buried(cm, s)
                  THEN [cm.tomb[s] EXCEPT
                          !.age = Len(roll) + Cardinality(newer(s))]
                  ELSE NoTombstone
  IN [s \in Segments |-> IF BeyondLimit(aged(s).age) THEN NoTombstone
                                                     ELSE aged(s)]

EvictCase(cm, c) ==
  [cm EXCEPT
     !.owner[c]  = None,
     !.listed[c] = NoSpeakers,
     !.current   = [d \in Devices |-> IF d = cm.owner[c] /\ cm.current[d] = c
                                      THEN None ELSE cm.current[d]],
     !.seg  = [s \in Segments |-> IF s \in Elements(Roll(cm, c))
                                  THEN NoSegment ELSE cm.seg[s]],
     !.tomb = Remember(cm, Roll(cm, c))]

MayStartCase(cm, d, c) == cm.owner[c] \in {d, None}

(* Mutant: the device's previous case stays.                               *)
StartCaseBeside(cm, d, c) ==
  IF cm.owner[c] # None THEN cm
  ELSE [cm EXCEPT !.owner[c] = d, !.listed[c] = NoSpeakers, !.current[d] = c]

StartCase(cm, d, c) ==
  IF cm.owner[c] # None THEN cm
  ELSE LET previous == cm.current[d]
           base     == IF previous # None THEN EvictCase(cm, previous) ELSE cm
       IN [base EXCEPT !.owner[c]   = d,
                       !.listed[c]  = NoSpeakers,
                       !.current[d] = c]

(***************************************************************************)
(* Recording a segment                                                     *)
(***************************************************************************)

Full(cm, c) == Len(Roll(cm, c)) >= MaxSegments

(* Mutant: tombstones are not looked at.                                   *)
MayStartBuriedSegment(cm, c, s, p) ==
  IF Live(cm, s) THEN SameMeta(cm.seg[s], c, p)
                 ELSE cm.owner[c] # None /\ ~Full(cm, c)

MayStartSegment(cm, c, s, p) ==
  /\ Buried(cm, s) => SameMeta(cm.tomb[s], c, p)
  /\ IF Live(cm, s) THEN SameMeta(cm.seg[s], c, p)
                    ELSE cm.owner[c] # None /\ ~Full(cm, c)

Receiving(c, p) ==
  [NoSegment EXCEPT !.case = c, !.speaker = p, !.state = "receiving"]

(* Mutant: a reopened segment keeps the byte count of its failed recording.*)
StartSegmentCounting(cm, c, s, p) ==
  IF Live(cm, s)
  THEN IF cm.seg[s].state = "failed"
       THEN [cm EXCEPT !.seg[s] = [Receiving(c, p) EXCEPT !.bytes = cm.seg[s].bytes]]
       ELSE cm
  ELSE [cm EXCEPT !.seg[s]       = Receiving(c, p),
                  !.listed[c][p] = Append(@, s)]

(* Mutant: a saved segment is reopened.                                    *)
StartSegmentAgain(cm, c, s, p) ==
  IF Live(cm, s)
  THEN IF cm.seg[s].state \in TerminalStates
       THEN [cm EXCEPT !.seg[s] = Receiving(c, p)]
       ELSE cm
  ELSE [cm EXCEPT !.seg[s]       = Receiving(c, p),
                  !.listed[c][p] = Append(@, s)]

StartSegment(cm, c, s, p) ==
  IF Live(cm, s)
  THEN IF cm.seg[s].state = "failed"
       THEN [cm EXCEPT !.seg[s] = Receiving(c, p)]
       ELSE cm
  ELSE [cm EXCEPT !.seg[s]       = Receiving(c, p),
                  !.listed[c][p] = Append(@, s)]

(* sequence counts from 0: the chunk it names is chunks[sequence + 1].     *)
MayAppendChunk(cm, s, sequence, payload) ==
  /\ Live(cm, s)
  /\ LET row == cm.seg[s]
     IN IF sequence < Len(row.chunks) THEN row.chunks[sequence + 1] = payload
        ELSE /\ row.state = "receiving"
             /\ row.bytes + 1 <= MaxPcm
             /\ sequence = Len(row.chunks)

(* Mutant: the sequence number is stored for the payload.                  *)
AppendSequence(cm, s, sequence, payload) ==
  IF sequence < Len(cm.seg[s].chunks) THEN cm
  ELSE [cm EXCEPT !.seg[s].chunks = Append(@, sequence),
                  !.seg[s].bytes  = @ + 1]

AppendChunk(cm, s, sequence, payload) ==
  IF sequence < Len(cm.seg[s].chunks) THEN cm
  ELSE [cm EXCEPT !.seg[s].chunks = Append(@, payload),
                  !.seg[s].bytes  = @ + 1]

MayEndSegment(cm, s) ==
  /\ Live(cm, s)
  /\ cm.seg[s].state = "receiving" \/ cm.seg[s].pcm

EndSegment(cm, s) ==
  IF cm.seg[s].state = "receiving"
  THEN [cm EXCEPT !.seg[s].pcm = TRUE, !.seg[s].state = "queued"]
  ELSE cm

MayCopyReceivingAudio(cm, s) == cm.seg[s].state = "receiving"

MayReleaseAudio(cm, s) == Live(cm, s) /\ cm.seg[s].state # "receiving"

Released(row) == [row EXCEPT !.chunks = <<>>, !.pcm = FALSE]

ReleaseAudio(cm, s) == [cm EXCEPT !.seg[s] = Released(@)]

(***************************************************************************)
(* Transcription                                                           *)
(***************************************************************************)

MayBeginTranscription(cm, s) == cm.seg[s].state \in {"queued", "transcribing"}

BeginTranscription(cm, s) == [cm EXCEPT !.seg[s].state = "transcribing"]

MaySaveTranscript(cm, s, text) ==
  \/ cm.seg[s].state \in {"queued", "transcribing"}
  \/ cm.seg[s].state = "saved" /\ cm.seg[s].transcript = text

(* Mutant: the audio is not released.                                      *)
SaveTranscriptOnly(cm, s, text) ==
  IF cm.seg[s].state = "saved" THEN cm
  ELSE [cm EXCEPT !.seg[s].transcript = text, !.seg[s].state = "saved"]

SaveTranscript(cm, s, text) ==
  IF cm.seg[s].state = "saved" THEN cm
  ELSE [cm EXCEPT !.seg[s] =
          Released([@ EXCEPT !.transcript = text, !.state = "saved"])]

MayFailSegment(cm, s, failure) ==
  \/ cm.seg[s].state \in ActiveStates
  \/ cm.seg[s].state = "failed" /\ cm.seg[s].failure = failure

FailSegment(cm, s, failure) ==
  IF cm.seg[s].state = "failed" THEN cm
  ELSE [cm EXCEPT !.seg[s] =
          Released([@ EXCEPT !.failure = failure, !.state = "failed"])]

(* Snapshot's canMediate: nothing is still being recorded or transcribed,  *)
(* and each speaker has at least one transcript with words in it.          *)
CanMediate(cm, c) ==
  /\ \A i \in DOMAIN Roll(cm, c) :
       cm.seg[Roll(cm, c)[i]].state \notin ActiveStates
  /\ \A p \in Speakers :
       \E i \in DOMAIN cm.listed[c][p] :
         LET row == cm.seg[cm.listed[c][p][i]]
         IN row.state = "saved" /\ row.transcript \notin BlankTranscripts

(***************************************************************************)
(* exportState and restoreState.  The export holds the whole object but    *)
(* the audio; restoreState refuses an export that fails validation.        *)
(***************************************************************************)

ExportedRow(row) ==
  [row EXCEPT !.chunks = <<>>, !.bytes = 0, !.pcm = FALSE]

ExportState(cm) ==
  [cm EXCEPT !.seg = [s \in Segments |-> ExportedRow(cm.seg[s])]]

(* What validateRestoredState makes of one exported row.                   *)
RestoredRow(row) ==
  IF row.state = "receiving"
  THEN [row EXCEPT !.state = "failed", !.transcript = None,
                   !.failure = Interrupted]
  ELSE row

RestoreState(ex) ==
  [ex EXCEPT !.seg = [s \in Segments |-> RestoredRow(ex.seg[s])]]

WithinLimits(ex) ==
  /\ Cardinality({d \in Devices : ex.current[d] # None}) <= MaxCases
  /\ Cardinality(Held(ex)) <= MaxCases
  /\ Cardinality({s \in Segments : Live(ex, s)}) <= MaxCases * MaxSegments
  /\ Cardinality({s \in Segments : Buried(ex, s)}) <= MaxTombstones

RollsAreValid(ex) ==
  \A c \in Held(ex) :
    /\ \A i, j \in DOMAIN Roll(ex, c) : Roll(ex, c)[i] = Roll(ex, c)[j] => i = j
    /\ Len(Roll(ex, c)) <= MaxSegments
    /\ \A i \in DOMAIN Roll(ex, c) : Live(ex, Roll(ex, c)[i])

RowsAreValid(ex) ==
  \A s \in Segments : Live(ex, s) =>
    LET row == RestoredRow(ex.seg[s])
    IN /\ row.case \in Held(ex)
       /\ s \in Elements(ex.listed[row.case][row.speaker])
       /\ row.state = "saved"  <=> row.transcript # None
       /\ row.state = "failed" <=> row.failure # None

CurrentCasesAreValid(ex) ==
  \A d \in Devices : ex.current[d] # None => ex.owner[ex.current[d]] = d

TombstonesAreValid(ex) ==
  \A s \in Segments : Live(ex, s) /\ Buried(ex, s) =>
    SameMeta(ex.seg[s], ex.tomb[s].case, ex.tomb[s].speaker)

MayRestoreState(ex) ==
  /\ WithinLimits(ex)
  /\ RollsAreValid(ex)
  /\ RowsAreValid(ex)
  /\ CurrentCasesAreValid(ex)
  /\ TombstonesAreValid(ex)
=============================================================================
