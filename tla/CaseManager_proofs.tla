------------------------- MODULE CaseManager_proofs ------------------------
(***************************************************************************)
(* Lemmas about the methods of CaseManager as functions on its state: the  *)
(* shape of the object they return, and the relations between its maps     *)
(* that they preserve.                                                     *)
(***************************************************************************)
EXTENDS CaseManager, FiniteSetTheorems, SequenceTheorems, TLAPS

(* A roll is a sequence of segments.                                       *)
LEMMA RollType ==
  ASSUME NEW m \in CaseManagerState, NEW c \in Cases
  PROVE  Roll(m, c) \in Seq(Segments)
  BY DEF CaseManagerState, Roll, Speakers

(* Speaker A's segments come first in it, then speaker B's.                *)
LEMMA RollLen ==
  ASSUME NEW m \in CaseManagerState, NEW c \in Cases
  PROVE  /\ Len(Roll(m, c)) = Len(m.listed[c]["A"]) + Len(m.listed[c]["B"])
         /\ \A i \in 1..Len(Roll(m, c)) :
              Roll(m, c)[i] = IF i <= Len(m.listed[c]["A"])
                              THEN m.listed[c]["A"][i]
                              ELSE m.listed[c]["B"][i - Len(m.listed[c]["A"])]
<1>1. m.listed[c]["A"] \in Seq(Segments) /\ m.listed[c]["B"] \in Seq(Segments)
  BY DEF CaseManagerState, Speakers
<1> QED
  BY <1>1, ConcatProperties DEF Roll

(* The tombstones after an eviction are tombstones: ages are lengths and   *)
(* cardinalities of finite sets.                                           *)
LEMMA RememberType ==
  ASSUME NEW m \in CaseManagerState, NEW roll \in Seq(Segments)
  PROVE  Remember(m, roll) \in [Segments -> Tombstone]
<1> DEFINE newer(s) == {t \in Segments : /\ Buried(m, t)
                                         /\ t \notin Elements(roll)
                                         /\ m.tomb[t].age < m.tomb[s].age}
           at(s)    == CHOOSE i \in DOMAIN roll : roll[i] = s
<1>1. ASSUME NEW s \in Segments
      PROVE  Cardinality(newer(s)) \in Nat
  <2>1. newer(s) \in SUBSET Segments
    OBVIOUS
  <2>2. IsFiniteSet(newer(s))
    BY <2>1, FS_Subset, FiniteAssumption
  <2> QED
    BY <2>2, FS_CardinalityType
<1>2. ASSUME NEW s \in Segments, s \in Elements(roll)
      PROVE  Len(roll) - at(s) \in Nat
  <2>1. at(s) \in DOMAIN roll
    BY <1>2 DEF Elements
  <2> QED
    BY <2>1
<1>3. ASSUME NEW s \in Segments, s \in Elements(roll)
      PROVE  [case    |-> m.seg[s].case,
              speaker |-> m.seg[s].speaker,
              age     |-> Len(roll) - at(s)] \in Tombstone
  BY <1>2, <1>3 DEF Tombstone, CaseManagerState, Segment
<1>4. ASSUME NEW s \in Segments
      PROVE  [m.tomb[s] EXCEPT !.age = Len(roll) + Cardinality(newer(s))]
                \in Tombstone
  <2>1. m.tomb[s] \in Tombstone
    BY DEF CaseManagerState
  <2>2. Len(roll) + Cardinality(newer(s)) \in Nat
    BY <1>1
  <2> HIDE DEF newer
  <2> QED
    BY <2>1, <2>2 DEF Tombstone
<1>5. NoTombstone \in Tombstone
  BY DEF NoTombstone, Tombstone, Speakers
<1> HIDE DEF newer, at
<1> QED
  BY <1>3, <1>4, <1>5 DEF Remember, newer, at

LEMMA EmptyType == EmptyCaseManager \in CaseManagerState
  BY DEF EmptyCaseManager, CaseManagerState, NoSpeakers, NoSegment, NoTombstone,
         Segment, Tombstone, Speakers, LiveStates

LEMMA EvictCaseType ==
  ASSUME NEW m \in CaseManagerState, NEW e \in Cases
  PROVE  EvictCase(m, e) \in CaseManagerState
<1>1. Remember(m, Roll(m, e)) \in [Segments -> Tombstone]
  BY RollType, RememberType
<1>2. NoSpeakers \in [Speakers -> Seq(Segments)]
  BY DEF NoSpeakers
<1>3. NoSegment \in Segment
  BY DEF NoSegment, Segment, Speakers
<1> QED
  BY <1>1, <1>2, <1>3 DEF EvictCase, CaseManagerState

LEMMA StartCaseType ==
  ASSUME NEW m \in CaseManagerState, NEW d \in Devices, NEW c \in Cases
  PROVE  StartCase(m, d, c) \in CaseManagerState
<1>1. NoSpeakers \in [Speakers -> Seq(Segments)]
  BY DEF NoSpeakers
<1>2. m.current[d] \in Cases \cup {None}
  BY DEF CaseManagerState
<1> QED
  BY <1>1, <1>2, EvictCaseType DEF StartCase, CaseManagerState

LEMMA StartSegmentType ==
  ASSUME NEW m \in CaseManagerState, NEW c \in Cases,
         NEW s \in Segments, NEW p \in Speakers
  PROVE  StartSegment(m, c, s, p) \in CaseManagerState
<1>1. Receiving(c, p) \in Segment
  <2>1. NoSegment \in Segment
    BY DEF NoSegment, Segment, Speakers
  <2>2. "receiving" \in LiveStates \cup {"absent"}
    BY DEF LiveStates, ActiveStates
  <2> QED
    BY <2>1, <2>2, Zenon DEF Receiving, Segment
<1>2. Append(m.listed[c][p], s) \in Seq(Segments)
  BY DEF CaseManagerState
<1> QED
  BY <1>1, <1>2 DEF StartSegment, CaseManagerState

LEMMA AppendedType ==
  ASSUME NEW row \in Segment, NEW payload \in Payloads
  PROVE  [row EXCEPT !.chunks = Append(@, payload), !.bytes = @ + 1] \in Segment
<1>1. Append(row.chunks, payload) \in Seq(Payloads)
  BY DEF Segment
<1>2. row.bytes + 1 \in Nat
  BY DEF Segment
<1> QED
  BY <1>1, <1>2, Zenon DEF Segment

LEMMA AppendChunkType ==
  ASSUME NEW m \in CaseManagerState, NEW s \in Segments,
         NEW sequence, NEW payload \in Payloads
  PROVE  AppendChunk(m, s, sequence, payload) \in CaseManagerState
<1>1. [m.seg[s] EXCEPT !.chunks = Append(@, payload), !.bytes = @ + 1]
         \in Segment
  BY AppendedType DEF CaseManagerState
<1> QED
  BY <1>1 DEF AppendChunk, CaseManagerState

(* Methods that replace one row of the segment table.                      *)
LEMMA RowType ==
  ASSUME NEW m \in CaseManagerState, NEW s \in Segments, NEW row \in Segment
  PROVE  [m EXCEPT !.seg[s] = row] \in CaseManagerState
  BY DEF CaseManagerState

LEMMA ReleasedType ==
  ASSUME NEW row \in Segment
  PROVE  Released(row) \in Segment
<1>1. <<>> \in Seq(Payloads) /\ FALSE \in BOOLEAN
  OBVIOUS
<1> QED
  BY <1>1, Zenon DEF Released, Segment

(* A row whose state, and perhaps text, changes stays a row.               *)
LEMMA StateType ==
  ASSUME NEW row \in Segment, NEW state \in LiveStates
  PROVE  /\ [row EXCEPT !.state = state] \in Segment
         /\ [row EXCEPT !.pcm = TRUE, !.state = state] \in Segment
<1>1. state \in LiveStates \cup {"absent"} /\ TRUE \in BOOLEAN
  OBVIOUS
<1> QED
  BY <1>1, Zenon DEF Segment

LEMMA TextType ==
  ASSUME NEW row \in Segment, NEW text \in Transcripts
  PROVE  [row EXCEPT !.transcript = text] \in Segment
<1>1. text \in Transcripts \cup {None}
  OBVIOUS
<1> QED
  BY <1>1, Zenon DEF Segment

LEMMA FailureType ==
  ASSUME NEW row \in Segment, NEW failure \in Failures
  PROVE  [row EXCEPT !.failure = failure] \in Segment
<1>1. failure \in Failures \cup {None}
  OBVIOUS
<1> QED
  BY <1>1, Zenon DEF Segment

LEMMA StateNames ==
  {"receiving", "queued", "transcribing", "saved", "failed"} = LiveStates
  BY DEF LiveStates, ActiveStates, TerminalStates

LEMMA EndSegmentType ==
  ASSUME NEW m \in CaseManagerState, NEW s \in Segments
  PROVE  EndSegment(m, s) \in CaseManagerState
<1>1. m.seg[s] \in Segment
  BY DEF CaseManagerState
<1>2. [m.seg[s] EXCEPT !.pcm = TRUE, !.state = "queued"] \in Segment
  BY <1>1, StateType, StateNames
<1> QED
  BY <1>2 DEF EndSegment, CaseManagerState

LEMMA ReleaseAudioType ==
  ASSUME NEW m \in CaseManagerState, NEW s \in Segments
  PROVE  ReleaseAudio(m, s) \in CaseManagerState
<1>1. m.seg[s] \in Segment
  BY DEF CaseManagerState
<1> QED
  BY <1>1, ReleasedType DEF ReleaseAudio, CaseManagerState

LEMMA BeginTranscriptionType ==
  ASSUME NEW m \in CaseManagerState, NEW s \in Segments
  PROVE  BeginTranscription(m, s) \in CaseManagerState
<1>1. m.seg[s] \in Segment
  BY DEF CaseManagerState
<1>2. [m.seg[s] EXCEPT !.state = "transcribing"] \in Segment
  BY <1>1, StateType, StateNames
<1> QED
  BY <1>2 DEF BeginTranscription, CaseManagerState

LEMMA SaveTranscriptType ==
  ASSUME NEW m \in CaseManagerState, NEW s \in Segments,
         NEW text \in Transcripts
  PROVE  SaveTranscript(m, s, text) \in CaseManagerState
<1>1. [m.seg[s] EXCEPT !.transcript = text, !.state = "saved"] \in Segment
  <2>1. [m.seg[s] EXCEPT !.transcript = text] \in Segment
    BY TextType DEF CaseManagerState
  <2> QED
    BY <2>1, StateType, StateNames
<1> QED
  BY <1>1, ReleasedType DEF SaveTranscript, CaseManagerState

LEMMA FailSegmentType ==
  ASSUME NEW m \in CaseManagerState, NEW s \in Segments,
         NEW failure \in Failures
  PROVE  FailSegment(m, s, failure) \in CaseManagerState
<1>1. [m.seg[s] EXCEPT !.failure = failure, !.state = "failed"] \in Segment
  <2>1. [m.seg[s] EXCEPT !.failure = failure] \in Segment
    BY FailureType DEF CaseManagerState
  <2> QED
    BY <2>1, StateType, StateNames
<1> QED
  BY <1>1, ReleasedType DEF FailSegment, CaseManagerState

LEMMA ExportedType ==
  ASSUME NEW row \in Segment
  PROVE  ExportedRow(row) \in Segment /\ RestoredRow(row) \in Segment
<1>1. <<>> \in Seq(Payloads) /\ 0 \in Nat /\ FALSE \in BOOLEAN
  OBVIOUS
<1>2. "failed" \in LiveStates \cup {"absent"}
  BY StateNames
<1>3. None \in Transcripts \cup {None} /\ Interrupted \in Failures \cup {None}
  BY TextAssumption
<1> QED
  BY <1>1, <1>2, <1>3, Zenon DEF ExportedRow, RestoredRow, Segment

LEMMA RestartType ==
  ASSUME NEW m \in CaseManagerState
  PROVE  RestoreState(ExportState(m)) \in CaseManagerState
<1>1. ExportState(m) \in CaseManagerState
  BY ExportedType DEF ExportState, CaseManagerState
<1> QED
  BY <1>1, ExportedType DEF RestoreState, CaseManagerState

(***************************************************************************)
(* The inductive invariant.  GoodRow speaks of one row of the segment      *)
(* table; the parts of Shape relate the maps to each other.                *)
(***************************************************************************)

(* Texts go with states, audio only with states that still need it, and    *)
(* the byte count of a recording is that of its chunks.                    *)
GoodRow(row) ==
  /\ row.state = "saved" <=> row.transcript # None
  /\ row.state = "failed" <=> row.failure # None
  /\ row.state \notin ActiveStates => row.chunks = <<>> /\ ~row.pcm
  /\ row.state = "receiving" =>
       row.bytes = Len(row.chunks) /\ row.bytes <= MaxPcm

GoodRows(m) == \A s \in Segments : GoodRow(m.seg[s])

(* A device has the one case it is current for.                            *)
HeldCurrent(m) ==
  \A c \in Cases, d \in Devices : m.owner[c] = d <=> m.current[d] = c

(* A listed segment has a row of the case and speaker that list it.        *)
ListedRows(m) ==
  \A c \in Cases, p \in Speakers : \A i \in DOMAIN m.listed[c][p] :
    LET s == m.listed[c][p][i] IN Live(m, s) /\ SameMeta(m.seg[s], c, p)

ListedOnce(m) ==
  \A c \in Cases, p \in Speakers : \A i, j \in DOMAIN m.listed[c][p] :
    m.listed[c][p][i] = m.listed[c][p][j] => i = j

(* A row belongs to a case that is held and lists it.                      *)
RowsListed(m) ==
  \A s \in Segments : Live(m, s) =>
    LET row == m.seg[s]
    IN /\ row.case \in Held(m)
       /\ \E i \in DOMAIN m.listed[row.case][row.speaker] :
            m.listed[row.case][row.speaker][i] = s

ListsWithinLimit(m) == \A c \in Cases : Len(Roll(m, c)) <= MaxSegments

TombstonesMatch(m) ==
  \A s \in Segments : Live(m, s) /\ Buried(m, s) =>
    SameMeta(m.seg[s], m.tomb[s].case, m.tomb[s].speaker)

(* The ages of tombstones are distinct and below the limit.                *)
TombstonesOrdered(m) ==
  \A s \in Segments : Buried(m, s) =>
    /\ m.tomb[s].age < MaxTombstones
    /\ \A t \in Segments : Buried(m, t) /\ m.tomb[t].age = m.tomb[s].age => t = s

Shape(m) ==
  /\ HeldCurrent(m)
  /\ ListedRows(m)
  /\ ListedOnce(m)
  /\ RowsListed(m)
  /\ ListsWithinLimit(m)
  /\ TombstonesMatch(m)
  /\ TombstonesOrdered(m)

Good(m) == m \in CaseManagerState /\ GoodRows(m) /\ Shape(m)

LEMMA EmptyGood == Good(EmptyCaseManager)
<1> DEFINE m == EmptyCaseManager
<1>1. m \in CaseManagerState
  BY EmptyType
<1>2. GoodRows(m)
  BY Zenon DEF EmptyCaseManager, GoodRows, GoodRow, NoSegment
<1>3. \A s \in Segments : ~Live(m, s) /\ ~Buried(m, s)
  BY DEF EmptyCaseManager, Live, NoSegment, Buried, NoTombstone
<1>4. HeldCurrent(m)
  BY NoneAssumption DEF EmptyCaseManager, HeldCurrent
<1>5. \A c \in Cases, p \in Speakers : m.listed[c][p] = <<>>
  BY DEF EmptyCaseManager, NoSpeakers
<1>6. ListedRows(m) /\ ListedOnce(m)
  BY <1>5 DEF ListedRows, ListedOnce
<1>7. ListsWithinLimit(m)
  <2>1. ASSUME NEW c \in Cases
        PROVE  Len(Roll(m, c)) = 0
    <3>1. m.listed[c]["A"] = <<>> /\ m.listed[c]["B"] = <<>>
      BY <1>5 DEF Speakers
    <3>2. Len(Roll(m, c)) = Len(<<>>) + Len(<<>>)
      BY <1>1, <3>1, RollLen
    <3> QED
      BY <3>2
  <2> QED
    BY <2>1, LimitAssumption DEF ListsWithinLimit
<1> QED
  BY <1>1, <1>2, <1>3, <1>4, <1>6, <1>7
     DEF Good, Shape, RowsListed, TombstonesMatch, TombstonesOrdered

(* A method that changes rows but keeps their cases and speakers, and      *)
(* neither adds nor removes one, leaves the relations between maps alone.  *)
LEMMA SameShape ==
  ASSUME NEW m, NEW n, Shape(m),
         n.owner = m.owner, n.listed = m.listed, n.current = m.current,
         n.tomb = m.tomb,
         \A s \in Segments : /\ n.seg[s].case = m.seg[s].case
                             /\ n.seg[s].speaker = m.seg[s].speaker
                             /\ Live(n, s) <=> Live(m, s),
         m \in CaseManagerState
  PROVE  Shape(n)
<1>1. \A s \in Segments : Buried(n, s) <=> Buried(m, s)
  BY DEF Buried
<1>2. \A c \in Cases, p \in Speakers : \A i \in DOMAIN m.listed[c][p] :
        m.listed[c][p][i] \in Segments
  BY DEF CaseManagerState
<1>3. HeldCurrent(n)
  BY DEF HeldCurrent, Shape
<1>4. ListedRows(n)
  BY <1>2 DEF ListedRows, Shape, SameMeta
<1>5. ListedOnce(n)
  BY DEF ListedOnce, Shape
<1>6. RowsListed(n)
  BY DEF RowsListed, Shape, Held
<1>7. ListsWithinLimit(n)
  BY DEF ListsWithinLimit, Shape, Roll
<1>8. TombstonesMatch(n)
  BY <1>1 DEF TombstonesMatch, Shape, SameMeta
<1>9. TombstonesOrdered(n)
  BY <1>1 DEF TombstonesOrdered, Shape
<1> QED
  BY <1>3, <1>4, <1>5, <1>6, <1>7, <1>8, <1>9 DEF Shape

(* The same for a method that replaces one row.                            *)
LEMMA OneRowGood ==
  ASSUME NEW m, Good(m), NEW s \in Segments, NEW row \in Segment,
         GoodRow(row),
         row.case = m.seg[s].case, row.speaker = m.seg[s].speaker,
         row.state = "absent" <=> m.seg[s].state = "absent"
  PROVE  Good([m EXCEPT !.seg[s] = row])
<1> DEFINE n == [m EXCEPT !.seg[s] = row]
<1>1. n \in CaseManagerState
  BY RowType DEF Good
<1>2. /\ n.owner = m.owner /\ n.listed = m.listed /\ n.current = m.current
      /\ n.tomb = m.tomb
      /\ \A t \in Segments : n.seg[t] = IF t = s THEN row ELSE m.seg[t]
  BY DEF Good, CaseManagerState
<1> HIDE DEF n
<1>3. GoodRows(n)
  BY <1>2 DEF Good, GoodRows
<1>4. Shape(n)
  BY <1>2, SameShape DEF Good, Live
<1> QED
  BY <1>1, <1>3, <1>4 DEF Good, n

LEMMA AppendChunkGood ==
  ASSUME NEW m, Good(m), NEW s \in Segments, NEW sequence \in Nat,
         NEW payload \in Payloads, MayAppendChunk(m, s, sequence, payload)
  PROVE  Good(AppendChunk(m, s, sequence, payload))
<1>1. CASE sequence < Len(m.seg[s].chunks)
  BY <1>1 DEF AppendChunk
<1>2. CASE ~(sequence < Len(m.seg[s].chunks))
  <2> DEFINE old == m.seg[s]
             row == [old EXCEPT !.chunks = Append(@, payload), !.bytes = @ + 1]
  <2>1. old \in Segment /\ GoodRow(old)
    BY DEF Good, GoodRows, CaseManagerState
  <2>2. old.state = "receiving" /\ old.bytes + 1 <= MaxPcm
    BY <1>2 DEF MayAppendChunk
  <2>3. /\ row.case = old.case /\ row.speaker = old.speaker
        /\ row.state = old.state /\ row.transcript = old.transcript
        /\ row.failure = old.failure
        /\ row.chunks = Append(old.chunks, payload) /\ row.bytes = old.bytes + 1
    BY <2>1 DEF Segment
  <2>4. row \in Segment
    BY AppendedType DEF Good, CaseManagerState
  <2>5. old.chunks \in Seq(Payloads)
    BY <2>1 DEF Segment
  <2>6. row.bytes = Len(row.chunks) /\ row.bytes <= MaxPcm
    BY <2>1, <2>2, <2>3, <2>5 DEF GoodRow
  <2>7. GoodRow(row)
    BY <2>1, <2>2, <2>3, <2>6, Zenon DEF GoodRow, ActiveStates
  <2>8. AppendChunk(m, s, sequence, payload) = [m EXCEPT !.seg[s] = row]
    BY <1>2 DEF AppendChunk, Good, CaseManagerState
  <2> HIDE DEF row
  <2> QED
    BY <2>3, <2>4, <2>7, <2>8, OneRowGood
<1> QED
  BY <1>1, <1>2

LEMMA EndSegmentGood ==
  ASSUME NEW m, Good(m), NEW s \in Segments, MayEndSegment(m, s)
  PROVE  Good(EndSegment(m, s))
<1>1. CASE m.seg[s].state # "receiving"
  BY <1>1 DEF EndSegment
<1>2. CASE m.seg[s].state = "receiving"
  <2> DEFINE old == m.seg[s]
             row == [old EXCEPT !.pcm = TRUE, !.state = "queued"]
  <2>1. old \in Segment /\ GoodRow(old)
    BY DEF Good, GoodRows, CaseManagerState
  <2>2. /\ row.case = old.case /\ row.speaker = old.speaker
        /\ row.state = "queued" /\ row.transcript = old.transcript
        /\ row.failure = old.failure
    BY <2>1 DEF Segment
  <2>3. row \in Segment
    BY <2>1, StateType, StateNames
  <2>4. GoodRow(row)
    BY <1>2, <2>1, <2>2, Zenon DEF GoodRow, ActiveStates
  <2>5. EndSegment(m, s) = [m EXCEPT !.seg[s] = row]
    BY <1>2 DEF EndSegment, Good, CaseManagerState
  <2> HIDE DEF row
  <2> QED
    BY <1>2, <2>2, <2>3, <2>4, <2>5, OneRowGood
<1> QED
  BY <1>1, <1>2

LEMMA ReleaseAudioGood ==
  ASSUME NEW m, Good(m), NEW s \in Segments, MayReleaseAudio(m, s)
  PROVE  Good(ReleaseAudio(m, s))
<1> DEFINE old == m.seg[s]
           row == Released(old)
<1>1. old \in Segment /\ GoodRow(old)
  BY DEF Good, GoodRows, CaseManagerState
<1>2. /\ row.case = old.case /\ row.speaker = old.speaker
      /\ row.state = old.state /\ row.transcript = old.transcript
      /\ row.failure = old.failure
      /\ row.chunks = <<>> /\ row.pcm = FALSE
  BY <1>1, Zenon DEF Segment, Released
<1>3. row \in Segment
  BY <1>1, ReleasedType
<1>4. GoodRow(row)
  BY <1>1, <1>2, Zenon DEF GoodRow, MayReleaseAudio
<1>5. ReleaseAudio(m, s) = [m EXCEPT !.seg[s] = row]
  BY DEF ReleaseAudio, Good, CaseManagerState
<1> QED
  BY <1>2, <1>3, <1>4, <1>5, OneRowGood

LEMMA BeginTranscriptionGood ==
  ASSUME NEW m, Good(m), NEW s \in Segments, MayBeginTranscription(m, s)
  PROVE  Good(BeginTranscription(m, s))
<1> DEFINE old == m.seg[s]
           row == [old EXCEPT !.state = "transcribing"]
<1>1. old \in Segment /\ GoodRow(old)
  BY DEF Good, GoodRows, CaseManagerState
<1>2. /\ row.case = old.case /\ row.speaker = old.speaker
      /\ row.state = "transcribing" /\ row.transcript = old.transcript
      /\ row.failure = old.failure
  BY <1>1 DEF Segment
<1>3. row \in Segment
  BY <1>1, StateType, StateNames
<1>4. old.state \in {"queued", "transcribing"}
  BY DEF MayBeginTranscription
<1>5. GoodRow(row)
  BY <1>1, <1>2, <1>4, Zenon DEF GoodRow, ActiveStates
<1>6. BeginTranscription(m, s) = [m EXCEPT !.seg[s] = row]
  BY DEF BeginTranscription, Good, CaseManagerState
<1> HIDE DEF row
<1> QED
  BY <1>2, <1>3, <1>4, <1>5, <1>6, OneRowGood

LEMMA SaveTranscriptGood ==
  ASSUME NEW m, Good(m), NEW s \in Segments, NEW text \in Transcripts,
         MaySaveTranscript(m, s, text)
  PROVE  Good(SaveTranscript(m, s, text))
<1>1. CASE m.seg[s].state = "saved"
  BY <1>1 DEF SaveTranscript
<1>2. CASE m.seg[s].state # "saved"
  <2> DEFINE old == m.seg[s]
             row == Released([old EXCEPT !.transcript = text, !.state = "saved"])
  <2>1. old \in Segment /\ GoodRow(old)
    BY DEF Good, GoodRows, CaseManagerState
  <2>2. /\ row.case = old.case /\ row.speaker = old.speaker
        /\ row.state = "saved" /\ row.transcript = text
        /\ row.failure = old.failure
        /\ row.chunks = <<>> /\ row.pcm = FALSE
    BY <2>1, Zenon DEF Segment, Released
  <2>3. row \in Segment
    <3>1. [old EXCEPT !.transcript = text] \in Segment
      BY <2>1, TextType
    <3>2. [old EXCEPT !.transcript = text, !.state = "saved"] \in Segment
      BY <3>1, StateType, StateNames
    <3> QED
      BY <3>2, ReleasedType
  <2>4. old.state \in {"queued", "transcribing"}
    BY <1>2 DEF MaySaveTranscript
  <2>5. text # None
    BY NoneAssumption
  <2>6. GoodRow(row)
    BY <2>1, <2>2, <2>4, <2>5, Zenon DEF GoodRow, ActiveStates
  <2>7. SaveTranscript(m, s, text) = [m EXCEPT !.seg[s] = row]
    BY <1>2 DEF SaveTranscript, Good, CaseManagerState
  <2> HIDE DEF row
  <2> QED
    BY <2>2, <2>3, <2>4, <2>6, <2>7, OneRowGood
<1> QED
  BY <1>1, <1>2

LEMMA FailSegmentGood ==
  ASSUME NEW m, Good(m), NEW s \in Segments, NEW failure \in Failures,
         MayFailSegment(m, s, failure)
  PROVE  Good(FailSegment(m, s, failure))
<1>1. CASE m.seg[s].state = "failed"
  BY <1>1 DEF FailSegment
<1>2. CASE m.seg[s].state # "failed"
  <2> DEFINE old == m.seg[s]
             row == Released([old EXCEPT !.failure = failure, !.state = "failed"])
  <2>1. old \in Segment /\ GoodRow(old)
    BY DEF Good, GoodRows, CaseManagerState
  <2>2. /\ row.case = old.case /\ row.speaker = old.speaker
        /\ row.state = "failed" /\ row.transcript = old.transcript
        /\ row.failure = failure
        /\ row.chunks = <<>> /\ row.pcm = FALSE
    BY <2>1, Zenon DEF Segment, Released
  <2>3. row \in Segment
    <3>1. [old EXCEPT !.failure = failure] \in Segment
      BY <2>1, FailureType
    <3>2. [old EXCEPT !.failure = failure, !.state = "failed"] \in Segment
      BY <3>1, StateType, StateNames
    <3> QED
      BY <3>2, ReleasedType
  <2>4. old.state \in {"receiving", "queued", "transcribing"}
    BY <1>2 DEF MayFailSegment, ActiveStates
  <2>5. failure # None
    BY NoneAssumption
  <2>6. GoodRow(row)
    BY <2>1, <2>2, <2>4, <2>5, Zenon DEF GoodRow, ActiveStates
  <2>7. FailSegment(m, s, failure) = [m EXCEPT !.seg[s] = row]
    BY <1>2 DEF FailSegment, Good, CaseManagerState
  <2> HIDE DEF row
  <2> QED
    BY <2>2, <2>3, <2>4, <2>6, <2>7, OneRowGood
<1> QED
  BY <1>1, <1>2

(* What a restart makes of a good row.                                     *)
LEMMA RestoredRowGood ==
  ASSUME NEW row \in Segment, GoodRow(row)
  PROVE  LET new == RestoredRow(ExportedRow(row))
         IN /\ GoodRow(new)
            /\ new.case = row.case /\ new.speaker = row.speaker
            /\ new.state = "absent" <=> row.state = "absent"
            /\ new.state = IF row.state = "receiving" THEN "failed" ELSE row.state
            /\ row.state # "receiving" => new.transcript = row.transcript
<1> DEFINE ex  == ExportedRow(row)
           new == RestoredRow(ex)
<1>1. /\ ex.case = row.case /\ ex.speaker = row.speaker
      /\ ex.state = row.state /\ ex.transcript = row.transcript
      /\ ex.failure = row.failure
      /\ ex.chunks = <<>> /\ ex.pcm = FALSE
  BY Zenon DEF Segment, ExportedRow
<1>2. ex \in Segment
  BY ExportedType
<1> HIDE DEF ex
<1>3. CASE row.state = "receiving"
  <2>1. /\ new.case = ex.case /\ new.speaker = ex.speaker
        /\ new.state = "failed" /\ new.transcript = None
        /\ new.failure = Interrupted
        /\ new.chunks = ex.chunks /\ new.pcm = ex.pcm
    BY <1>1, <1>2, <1>3, Zenon DEF Segment, RestoredRow
  <2>2. Interrupted # None
    BY NoneAssumption, TextAssumption
  <2>3. GoodRow(new)
    BY <1>1, <2>1, <2>2, Zenon DEF GoodRow, ActiveStates
  <2> HIDE DEF new
  <2>4. new.state # "absent" /\ row.state # "absent"
    BY <1>3, <2>1
  <2> QED
    BY <1>1, <1>3, <2>1, <2>3, <2>4 DEF new, ex
<1>4. CASE row.state # "receiving"
  <2>1. new = ex
    BY <1>1, <1>4 DEF RestoredRow
  <2>2. GoodRow(ex)
    BY <1>1, <1>4, Zenon DEF GoodRow
  <2> HIDE DEF new
  <2> QED
    BY <1>1, <1>4, <2>1, <2>2 DEF new, ex
<1> QED
  BY <1>3, <1>4

LEMMA RestartGood ==
  ASSUME NEW m, Good(m)
  PROVE  Good(RestoreState(ExportState(m)))
<1> DEFINE n == RestoreState(ExportState(m))
<1>1. n \in CaseManagerState
  BY RestartType DEF Good
<1>2. /\ n.owner = m.owner /\ n.listed = m.listed /\ n.current = m.current
      /\ n.tomb = m.tomb
      /\ \A s \in Segments : n.seg[s] = RestoredRow(ExportedRow(m.seg[s]))
  BY DEF Good, CaseManagerState, RestoreState, ExportState
<1>3. \A s \in Segments : m.seg[s] \in Segment /\ GoodRow(m.seg[s])
  BY DEF Good, GoodRows, CaseManagerState
<1> HIDE DEF n
<1>4. GoodRows(n)
  BY <1>2, <1>3, RestoredRowGood DEF GoodRows
<1>5. Shape(n)
  BY <1>2, <1>3, RestoredRowGood, SameShape DEF Good, Live
<1> QED
  BY <1>1, <1>4, <1>5 DEF Good, n
(***************************************************************************)
(* startSegment: a failed row is reopened in place; a new one is listed    *)
(***************************************************************************)

LEMMA ReceivingGood ==
  ASSUME NEW c \in Cases, NEW p \in Speakers
  PROVE  LET row == Receiving(c, p)
         IN /\ row \in Segment
            /\ row.case = c /\ row.speaker = p /\ row.state = "receiving"
            /\ GoodRow(row)
<1> DEFINE row == Receiving(c, p)
<1>1. NoSegment \in Segment
  BY DEF NoSegment, Segment, Speakers
<1>2. "receiving" \in LiveStates \cup {"absent"}
  BY StateNames
<1>3. row \in Segment
  BY <1>1, <1>2, Zenon DEF Receiving, Segment
<1>4. /\ row.case = c /\ row.speaker = p /\ row.state = "receiving"
      /\ row.chunks = <<>> /\ row.bytes = 0
      /\ row.transcript = None /\ row.failure = None
  BY DEF Receiving, NoSegment
<1> HIDE DEF row
<1>5. row.bytes = Len(row.chunks) /\ row.bytes <= MaxPcm
  BY <1>4, LimitAssumption
<1>6. GoodRow(row)
  BY <1>4, <1>5, Zenon DEF GoodRow, ActiveStates
<1> QED
  BY <1>3, <1>4, <1>6 DEF row

LEMMA ReopenSegmentGood ==
  ASSUME NEW m, Good(m), NEW c \in Cases, NEW s \in Segments,
         NEW p \in Speakers, MayStartSegment(m, c, s, p), Live(m, s)
  PROVE  Good(StartSegment(m, c, s, p))
<1>1. CASE m.seg[s].state # "failed"
  BY <1>1 DEF StartSegment
<1>2. CASE m.seg[s].state = "failed"
  <2> DEFINE row == Receiving(c, p)
  <2>1. StartSegment(m, c, s, p) = [m EXCEPT !.seg[s] = row]
    BY <1>2 DEF StartSegment
  <2>2. m.seg[s].case = c /\ m.seg[s].speaker = p
    BY DEF MayStartSegment, SameMeta
  <2>3. /\ row \in Segment /\ GoodRow(row)
        /\ row.case = c /\ row.speaker = p /\ row.state = "receiving"
    BY ReceivingGood
  <2> HIDE DEF row
  <2>4. Good([m EXCEPT !.seg[s] = row])
    BY <1>2, <2>2, <2>3, OneRowGood
  <2> QED
    BY <2>1, <2>4
<1> QED
  BY <1>1, <1>2

LEMMA NewSegmentGood ==
  ASSUME NEW m, Good(m), NEW c \in Cases, NEW s \in Segments,
         NEW p \in Speakers, MayStartSegment(m, c, s, p), ~Live(m, s)
  PROVE  Good(StartSegment(m, c, s, p))
<1> DEFINE n == StartSegment(m, c, s, p)
           row == Receiving(c, p)
<1>1. n \in CaseManagerState
  BY StartSegmentType DEF Good
<1>2. /\ n.owner = m.owner /\ n.current = m.current /\ n.tomb = m.tomb
      /\ \A t \in Segments : n.seg[t] = IF t = s THEN row ELSE m.seg[t]
      /\ \A e \in Cases, q \in Speakers :
           n.listed[e][q] = IF e = c /\ q = p THEN Append(m.listed[e][q], s)
                                              ELSE m.listed[e][q]
  BY DEF Good, CaseManagerState, StartSegment
<1>3. /\ row \in Segment /\ GoodRow(row)
      /\ row.case = c /\ row.speaker = p /\ row.state = "receiving"
  BY ReceivingGood
<1>4. /\ m.owner[c] # None
      /\ ~Full(m, c)
      /\ Buried(m, s) => SameMeta(m.tomb[s], c, p)
  BY DEF MayStartSegment
<1> HIDE DEF n, row
<1>5. /\ GoodRows(m) /\ HeldCurrent(m) /\ ListedRows(m) /\ ListedOnce(m)
      /\ RowsListed(m) /\ ListsWithinLimit(m) /\ TombstonesMatch(m)
      /\ TombstonesOrdered(m) /\ m \in CaseManagerState
  BY DEF Good, Shape
<1>6. \A e \in Cases, q \in Speakers :
        /\ m.listed[e][q] \in Seq(Segments)
        /\ \A i \in DOMAIN m.listed[e][q] : m.listed[e][q][i] # s
  BY <1>5 DEF CaseManagerState, ListedRows
<1>7. \A t \in Segments : Live(n, t) <=> t = s \/ Live(m, t)
  BY <1>2, <1>3 DEF Live
<1>8. \A t \in Segments : Buried(n, t) <=> Buried(m, t)
  BY <1>2 DEF Buried
<1> DEFINE old == m.listed[c][p]
           new == n.listed[c][p]
<1>9. /\ Len(old) \in Nat
      /\ DOMAIN old = 1..Len(old)
      /\ DOMAIN new = 1..(Len(old) + 1)
      /\ \A i \in 1..Len(old) : new[i] = old[i]
      /\ new[Len(old) + 1] = s
      /\ Len(new) = Len(old) + 1
  <2>1. old \in Seq(Segments)
    BY <1>6
  <2>2. new = Append(old, s)
    BY <1>2
  <2> HIDE DEF old, new
  <2> QED
    BY <2>1, <2>2, AppendProperties
<1>10. \A e \in Cases, q \in Speakers :
        /\ e = c /\ q = p => m.listed[e][q] = old /\ n.listed[e][q] = new
        /\ ~(e = c /\ q = p) => n.listed[e][q] = m.listed[e][q]
  BY <1>2
<1>11. \A i \in DOMAIN old : old[i] # s
  BY <1>6
<1> HIDE DEF old, new
<1>12. GoodRows(n)
  BY <1>2, <1>3, <1>5 DEF GoodRows
<1>13. HeldCurrent(n)
  BY <1>2, <1>5 DEF HeldCurrent
<1>14. ListedRows(n)
  <2> SUFFICES ASSUME NEW e \in Cases, NEW q \in Speakers,
                      NEW i \in DOMAIN n.listed[e][q]
               PROVE  LET t == n.listed[e][q][i]
                      IN Live(n, t) /\ SameMeta(n.seg[t], e, q)
    BY DEF ListedRows
  <2> DEFINE t == n.listed[e][q][i]
  <2>1. CASE t = s /\ e = c /\ q = p
    BY <1>2, <1>3, <1>7, <2>1 DEF SameMeta
  <2>2. CASE ~(t = s /\ e = c /\ q = p)
    <3>1. i \in DOMAIN m.listed[e][q] /\ t = m.listed[e][q][i]
      <4>1. CASE e = c /\ q = p
        <5>1. m.listed[e][q] = old /\ n.listed[e][q] = new
          BY <1>10, <4>1
        <5>2. i \in 1..(Len(old) + 1) /\ new[i] # s
          BY <1>9, <2>2, <4>1, <5>1
        <5>3. i \in 1..Len(old)
          BY <1>9, <5>2
        <5> QED
          BY <1>9, <5>1, <5>3
      <4>2. CASE ~(e = c /\ q = p)
        BY <1>10, <4>2
      <4> QED
        BY <4>1, <4>2
    <3>2. t \in Segments /\ t # s
      BY <1>6, <3>1
    <3>3. Live(m, t) /\ SameMeta(m.seg[t], e, q)
      BY <1>5, <3>1 DEF ListedRows
    <3> HIDE DEF t
    <3>4. Live(n, t) /\ SameMeta(n.seg[t], e, q)
      BY <1>2, <1>7, <3>2, <3>3
    <3> QED
      BY <3>4 DEF t
  <2> QED
    BY <2>1, <2>2
<1>15. ListedOnce(n)
  <2> SUFFICES ASSUME NEW e \in Cases, NEW q \in Speakers,
                      NEW i \in DOMAIN n.listed[e][q],
                      NEW j \in DOMAIN n.listed[e][q],
                      n.listed[e][q][i] = n.listed[e][q][j]
               PROVE  i = j
    BY DEF ListedOnce
  <2>1. CASE e = c /\ q = p
    <3>1. m.listed[e][q] = old /\ n.listed[e][q] = new
      BY <1>10, <2>1
    <3>2. i \in 1..(Len(old) + 1) /\ j \in 1..(Len(old) + 1) /\ new[i] = new[j]
      BY <1>9, <3>1
    <3>3. CASE i = Len(old) + 1 \/ j = Len(old) + 1
      BY <1>9, <1>11, <3>2, <3>3
    <3>4. CASE i # Len(old) + 1 /\ j # Len(old) + 1
      <4>1. i \in DOMAIN old /\ j \in DOMAIN old /\ old[i] = old[j]
        BY <1>9, <3>2, <3>4
      <4> QED
        BY <1>5, <2>1, <3>1, <4>1 DEF ListedOnce
    <3> QED
      BY <3>3, <3>4
  <2>2. CASE ~(e = c /\ q = p)
    BY <1>2, <1>5, <2>2 DEF ListedOnce
  <2> QED
    BY <2>1, <2>2
<1>16. RowsListed(n)
  <2> SUFFICES ASSUME NEW t \in Segments, Live(n, t)
               PROVE  /\ n.seg[t].case \in Held(n)
                      /\ \E i \in DOMAIN n.listed[n.seg[t].case][n.seg[t].speaker] :
                           n.listed[n.seg[t].case][n.seg[t].speaker][i] = t
    BY DEF RowsListed
  <2>1. CASE t = s
    <3>1. n.seg[t].case = c /\ n.seg[t].speaker = p
      BY <1>2, <1>3, <2>1
    <3>2. Len(old) + 1 \in DOMAIN n.listed[c][p] /\ n.listed[c][p][Len(old) + 1] = t
      BY <1>9, <2>1 DEF new
    <3> QED
      BY <1>2, <1>4, <3>1, <3>2 DEF Held
  <2>2. CASE t # s
    <3> DEFINE e == m.seg[t].case
               q == m.seg[t].speaker
    <3>1. n.seg[t] = m.seg[t] /\ Live(m, t)
      BY <1>2, <1>7, <2>2
    <3>2. e \in Held(m) /\ q \in Speakers
      BY <1>5, <3>1 DEF RowsListed, CaseManagerState, Segment
    <3>3. PICK i \in DOMAIN m.listed[e][q] : m.listed[e][q][i] = t
      BY <1>5, <3>1 DEF RowsListed
    <3>4. e \in Cases /\ e \in Held(n)
      BY <1>2, <3>2 DEF Held
    <3> HIDE DEF e, q
    <3>5. i \in DOMAIN n.listed[e][q] /\ n.listed[e][q][i] = t
      <4>1. CASE e = c /\ q = p
        <5>1. m.listed[e][q] = old /\ n.listed[e][q] = new
          BY <1>10, <4>1
        <5> QED
          BY <1>9, <3>3, <5>1
      <4>2. CASE ~(e = c /\ q = p)
        BY <1>10, <3>2, <3>3, <3>4, <4>2
      <4> QED
        BY <4>1, <4>2
    <3> QED
      BY <3>1, <3>4, <3>5 DEF e, q
  <2> QED
    BY <2>1, <2>2
<1>17. ListsWithinLimit(n)
  <2> SUFFICES ASSUME NEW e \in Cases
               PROVE  Len(Roll(n, e)) <= MaxSegments
    BY DEF ListsWithinLimit
  <2>1. /\ Len(Roll(n, e)) = Len(n.listed[e]["A"]) + Len(n.listed[e]["B"])
        /\ Len(Roll(m, e)) = Len(m.listed[e]["A"]) + Len(m.listed[e]["B"])
    BY <1>1, <1>5, RollLen
  <2>2. CASE e = c
    <3>1. \A q \in Speakers : q # p => n.listed[c][q] = m.listed[c][q]
      BY <1>2
    <3>2. \A q \in Speakers : Len(m.listed[c][q]) \in Nat
      BY <1>6
    <3>3. /\ p = "A" => n.listed[c]["B"] = m.listed[c]["B"]
          /\ p = "B" => n.listed[c]["A"] = m.listed[c]["A"]
          /\ p \in {"A", "B"}
          /\ Len(m.listed[c]["A"]) \in Nat /\ Len(m.listed[c]["B"]) \in Nat
      BY <3>1, <3>2 DEF Speakers
    <3>4. Len(Roll(n, c)) = Len(Roll(m, c)) + 1
      <4> DEFINE nA == Len(n.listed[c]["A"])
                 nB == Len(n.listed[c]["B"])
                 mA == Len(m.listed[c]["A"])
                 mB == Len(m.listed[c]["B"])
      <4>1. Len(Roll(n, c)) = nA + nB /\ Len(Roll(m, c)) = mA + mB
        BY <2>1, <2>2
      <4>2. p = "A" => nA = mA + 1 /\ nB = mB
        BY <1>9, <3>3 DEF old, new
      <4>3. p = "B" => nA = mA /\ nB = mB + 1
        BY <1>9, <3>3 DEF old, new
      <4>4. mA \in Nat /\ mB \in Nat /\ p \in {"A", "B"}
        BY <3>3
      <4> HIDE DEF nA, nB, mA, mB
      <4>5. nA + nB = mA + mB + 1
        BY <4>2, <4>3, <4>4
      <4> QED
        BY <4>1, <4>5
    <3>5. Len(Roll(m, c)) < MaxSegments /\ Len(Roll(m, c)) \in Nat
      BY <1>4, <1>5, RollType, LimitAssumption DEF Full
    <3> QED
      BY <2>2, <3>4, <3>5, LimitAssumption
  <2>3. CASE e # c
    BY <1>2, <1>5, <2>1, <2>3 DEF ListsWithinLimit, Speakers
  <2> QED
    BY <2>2, <2>3
<1>18. TombstonesMatch(n)
  <2> SUFFICES ASSUME NEW t \in Segments, Live(n, t), Buried(n, t)
               PROVE  SameMeta(n.seg[t], n.tomb[t].case, n.tomb[t].speaker)
    BY DEF TombstonesMatch
  <2>1. CASE t = s
    BY <1>2, <1>3, <1>4, <1>8, <2>1 DEF SameMeta
  <2>2. CASE t # s
    BY <1>2, <1>5, <1>7, <1>8, <2>2 DEF TombstonesMatch
  <2> QED
    BY <2>1, <2>2
<1>19. TombstonesOrdered(n)
  BY <1>2, <1>5, <1>8 DEF TombstonesOrdered
<1> QED
  BY <1>1, <1>12, <1>13, <1>14, <1>15, <1>16, <1>17, <1>18, <1>19
     DEF Good, Shape, n

LEMMA StartSegmentGood ==
  ASSUME NEW m, Good(m), NEW c \in Cases, NEW s \in Segments,
         NEW p \in Speakers, MayStartSegment(m, c, s, p)
  PROVE  Good(StartSegment(m, c, s, p))
  BY ReopenSegmentGood, NewSegmentGood
(***************************************************************************)
(* startCase: the previous case of the device is evicted, then the new one *)
(* is added                                                                *)
(***************************************************************************)

(* A roll names each row of its case once.                                 *)
LEMMA RollRows ==
  ASSUME NEW m, Good(m), NEW c \in Cases
  PROVE  /\ \A s \in Segments :
              s \in Elements(Roll(m, c)) <=> Live(m, s) /\ m.seg[s].case = c
         /\ \A i, j \in 1..Len(Roll(m, c)) :
              Roll(m, c)[i] = Roll(m, c)[j] => i = j
<1> DEFINE a == m.listed[c]["A"]
           b == m.listed[c]["B"]
           roll == Roll(m, c)
<1>1. m \in CaseManagerState /\ ListedRows(m) /\ ListedOnce(m) /\ RowsListed(m)
  BY DEF Good, Shape
<1>2. "A" \in Speakers /\ "B" \in Speakers /\ \A p \in Speakers : p \in {"A", "B"}
  BY DEF Speakers
<1>3. /\ roll \in Seq(Segments) /\ a \in Seq(Segments) /\ b \in Seq(Segments)
      /\ Len(roll) = Len(a) + Len(b)
      /\ \A i \in 1..Len(roll) :
           roll[i] = IF i <= Len(a) THEN a[i] ELSE b[i - Len(a)]
  <2>1. a \in Seq(Segments) /\ b \in Seq(Segments)
    BY <1>1, <1>2 DEF CaseManagerState
  <2> QED
    BY <1>1, <2>1, RollType, RollLen
<1>4. /\ \A i \in DOMAIN a : Live(m, a[i]) /\ SameMeta(m.seg[a[i]], c, "A")
      /\ \A i \in DOMAIN b : Live(m, b[i]) /\ SameMeta(m.seg[b[i]], c, "B")
      /\ \A i, j \in DOMAIN a : a[i] = a[j] => i = j
      /\ \A i, j \in DOMAIN b : b[i] = b[j] => i = j
  BY <1>1, <1>2 DEF ListedRows, ListedOnce
<1>5. /\ DOMAIN roll = 1..Len(roll) /\ DOMAIN a = 1..Len(a) /\ DOMAIN b = 1..Len(b)
      /\ Len(a) \in Nat /\ Len(b) \in Nat
  <2> HIDE DEF a, b, roll
  <2> QED
    BY <1>3
<1>6. ASSUME NEW s \in Segments, Live(m, s), m.seg[s].case = c
      PROVE  (\E i \in DOMAIN a : a[i] = s) \/ (\E i \in DOMAIN b : b[i] = s)
  <2>1. m.seg[s].speaker \in {"A", "B"}
    BY <1>1 DEF CaseManagerState, Segment, Speakers
  <2> QED
    BY <1>1, <1>6, <2>1 DEF RowsListed
<1> HIDE DEF a, b, roll
<1>7. \A i \in DOMAIN roll :
        \/ i \in DOMAIN a /\ roll[i] = a[i]
        \/ i - Len(a) \in DOMAIN b /\ roll[i] = b[i - Len(a)]
  BY <1>3, <1>5
<1>8. ASSUME NEW s \in Segments
      PROVE  s \in Elements(roll) <=> Live(m, s) /\ m.seg[s].case = c
  <2>1. ASSUME s \in Elements(roll)
        PROVE  Live(m, s) /\ m.seg[s].case = c
    BY <1>4, <1>7, <2>1 DEF Elements, SameMeta
  <2>2. ASSUME Live(m, s), m.seg[s].case = c
        PROVE  s \in Elements(roll)
    <3>1. CASE \E i \in DOMAIN a : a[i] = s
      <4>1. PICK i \in DOMAIN a : a[i] = s
        BY <3>1
      <4>2. i \in DOMAIN roll /\ roll[i] = s
        BY <1>3, <1>5, <4>1
      <4> QED
        BY <4>2 DEF Elements
    <3>2. CASE \E i \in DOMAIN b : b[i] = s
      <4>1. PICK i \in DOMAIN b : b[i] = s
        BY <3>2
      <4>2. i + Len(a) \in DOMAIN roll /\ roll[i + Len(a)] = s
        BY <1>3, <1>5, <4>1
      <4> QED
        BY <4>2 DEF Elements
    <3> QED
      BY <1>6, <2>2, <3>1, <3>2
  <2> QED
    BY <2>1, <2>2
<1>9. ASSUME NEW i \in 1..Len(roll), NEW j \in 1..Len(roll), roll[i] = roll[j]
      PROVE  i = j
  <2>1. CASE i <= Len(a) /\ j <= Len(a)
    <3>1. i \in DOMAIN a /\ j \in DOMAIN a /\ a[i] = a[j]
      BY <1>3, <1>5, <1>9, <2>1
    <3> QED
      BY <1>4, <3>1
  <2>2. CASE i > Len(a) /\ j > Len(a)
    <3>1. /\ i - Len(a) \in DOMAIN b /\ j - Len(a) \in DOMAIN b
          /\ b[i - Len(a)] = b[j - Len(a)]
      BY <1>3, <1>5, <1>9, <2>2
    <3>2. i - Len(a) = j - Len(a)
      BY <1>4, <3>1
    <3> QED
      BY <1>5, <3>2
  <2>3. ASSUME NEW k \in DOMAIN a, NEW l \in DOMAIN b
        PROVE  a[k] # b[l]
    BY <1>4, <2>3 DEF SameMeta
  <2>4. ASSUME NEW k \in 1..Len(roll), NEW l \in 1..Len(roll),
               k <= Len(a), l > Len(a)
        PROVE  roll[k] # roll[l]
    <3>1. k \in DOMAIN a /\ roll[k] = a[k]
      BY <1>3, <1>5, <2>4
    <3>2. l - Len(a) \in DOMAIN b /\ roll[l] = b[l - Len(a)]
      BY <1>3, <1>5, <2>4
    <3> QED
      BY <2>3, <3>1, <3>2
  <2>5. (i <= Len(a) \/ i > Len(a)) /\ (j <= Len(a) \/ j > Len(a))
    BY <1>5
  <2> QED
    BY <1>9, <2>1, <2>2, <2>4, <2>5
<1> QED
  BY <1>8, <1>9 DEF roll
(* The ages an eviction gives are distinct: those of the evicted segments  *)
(* count down to zero, and the tombstones that stay keep their order above *)
(* them.                                                                   *)
LEMMA RememberOrdered ==
  ASSUME NEW m \in CaseManagerState, NEW roll \in Seq(Segments),
         \A i, j \in 1..Len(roll) : roll[i] = roll[j] => i = j,
         \A s \in Segments : s \in Elements(roll) => m.seg[s].case # None,
         TombstonesOrdered(m)
  PROVE  LET tomb == Remember(m, roll)
         IN \A s \in Segments : tomb[s].case # None =>
              /\ tomb[s].age < MaxTombstones
              /\ \A t \in Segments :
                   tomb[t].case # None /\ tomb[t].age = tomb[s].age => t = s
<1> DEFINE newer(s) == {t \in Segments : /\ Buried(m, t)
                                         /\ t \notin Elements(roll)
                                         /\ m.tomb[t].age < m.tomb[s].age}
           at(s)    == CHOOSE i \in DOMAIN roll : roll[i] = s
           tomb     == Remember(m, roll)
           In(s)    == s \in Elements(roll)
           num(s)   == Cardinality(newer(s))
<1>1. ASSUME NEW s \in Segments
      PROVE  IsFiniteSet(newer(s)) /\ num(s) \in Nat
  <2>1. newer(s) \in SUBSET Segments
    OBVIOUS
  <2> HIDE DEF newer
  <2> QED
    BY <2>1, FS_Subset, FS_CardinalityType, FiniteAssumption
<1>2. ASSUME NEW s \in Segments, In(s)
      PROVE  at(s) \in 1..Len(roll) /\ roll[at(s)] = s
  <2>1. \E i \in DOMAIN roll : roll[i] = s
    BY <1>2 DEF Elements
  <2>2. at(s) \in DOMAIN roll /\ roll[at(s)] = s
    BY <2>1
  <2> QED
    BY <2>2
<1>3. ASSUME NEW s \in Segments, tomb[s].case # None
      PROVE  /\ tomb[s].age < MaxTombstones
             /\ In(s) \/ Buried(m, s)
             /\ tomb[s].age = IF In(s) THEN Len(roll) - at(s)
                                       ELSE Len(roll) + num(s)
  <2> DEFINE aged == IF In(s)
                     THEN [case    |-> m.seg[s].case,
                           speaker |-> m.seg[s].speaker,
                           age     |-> Len(roll) - at(s)]
                     ELSE IF Buried(m, s)
                     THEN [m.tomb[s] EXCEPT !.age = Len(roll) + num(s)]
                     ELSE NoTombstone
  <2>1. tomb[s] = IF BeyondLimit(aged.age) THEN NoTombstone ELSE aged
    BY Zenon DEF Remember
  <2>2. NoTombstone.case = None
    BY DEF NoTombstone
  <2>3. ~BeyondLimit(aged.age) /\ tomb[s] = aged
    BY <1>3, <2>1, <2>2
  <2>4. m.tomb[s] \in Tombstone
    BY DEF CaseManagerState
  <2> HIDE DEF tomb, num, at, In
  <2>5. /\ In(s) \/ Buried(m, s)
        /\ aged.age = IF In(s) THEN Len(roll) - at(s) ELSE Len(roll) + num(s)
    BY <1>3, <2>2, <2>3, <2>4 DEF Tombstone
  <2> HIDE DEF aged
  <2>6. aged.age \in Int
    <3>1. num(s) \in Nat
      BY <1>1
    <3>2. In(s) => at(s) \in Nat
      BY <1>2
    <3>3. Len(roll) \in Nat
      OBVIOUS
    <3> QED
      BY <2>5, <3>1, <3>2, <3>3
  <2> QED
    BY <2>3, <2>5, <2>6, LimitAssumption DEF BeyondLimit
<1>4. ASSUME NEW s \in Segments, NEW t \in Segments,
             Buried(m, s), ~In(s), Buried(m, t), ~In(t),
             m.tomb[s].age < m.tomb[t].age
      PROVE  num(s) < num(t)
  <2>1. m.tomb[s].age \in Nat /\ m.tomb[t].age \in Nat
    BY DEF CaseManagerState, Tombstone
  <2>2. \A u \in Segments : m.tomb[u].age \in Nat
    BY DEF CaseManagerState, Tombstone
  <2>3. newer(s) \in SUBSET newer(t)
    BY <1>4, <2>1, <2>2
  <2>4. s \in newer(t) /\ s \notin newer(s)
    BY <1>4, <2>1
  <2>5. num(s) \in Nat /\ num(t) \in Nat /\ IsFiniteSet(newer(t))
    BY <1>1
  <2> HIDE DEF newer
  <2>6. num(s) <= num(t) /\ num(s) # num(t)
    BY <2>3, <2>4, <2>5, FS_Subset
  <2> HIDE DEF num
  <2> QED
    BY <2>5, <2>6
<1> HIDE DEF num, at, tomb
<1>5. ASSUME NEW s \in Segments, NEW t \in Segments,
             tomb[s].case # None, tomb[t].case # None,
             tomb[t].age = tomb[s].age
      PROVE  t = s
  <2>1. Len(roll) \in Nat
    OBVIOUS
  <2>2. CASE In(s) /\ In(t)
    <3>1. Len(roll) - at(s) = Len(roll) - at(t)
      BY <1>3, <1>5, <2>2
    <3>2. /\ at(s) \in 1..Len(roll) /\ at(t) \in 1..Len(roll)
          /\ roll[at(s)] = s /\ roll[at(t)] = t
      BY <1>2, <2>2
    <3>3. at(s) = at(t)
      BY <2>1, <3>1, <3>2
    <3> QED
      BY <3>2, <3>3
  <2>3. CASE ~In(s) /\ ~In(t)
    <3>1. Len(roll) + num(s) = Len(roll) + num(t)
      BY <1>3, <1>5, <2>3
    <3>2. num(s) = num(t) /\ num(s) \in Nat
      <4>1. num(s) \in Nat /\ num(t) \in Nat
        BY <1>1
      <4> QED
        BY <2>1, <3>1, <4>1
    <3>3. Buried(m, s) /\ Buried(m, t)
      BY <1>3, <1>5, <2>3
    <3>4. ~(m.tomb[s].age < m.tomb[t].age) /\ ~(m.tomb[t].age < m.tomb[s].age)
      BY <1>4, <2>3, <3>2, <3>3
    <3>5. m.tomb[s].age \in Nat /\ m.tomb[t].age \in Nat
      BY DEF CaseManagerState, Tombstone
    <3>6. m.tomb[s].age = m.tomb[t].age
      BY <3>4, <3>5
    <3> QED
      BY <3>3, <3>6 DEF TombstonesOrdered
  <2>4. ASSUME NEW u \in Segments, NEW v \in Segments, In(u), ~In(v),
               tomb[u].case # None, tomb[v].case # None
        PROVE  tomb[u].age # tomb[v].age
    <3>1. tomb[u].age = Len(roll) - at(u) /\ at(u) \in 1..Len(roll)
      BY <1>2, <1>3, <2>4
    <3>2. tomb[v].age = Len(roll) + num(v) /\ num(v) \in Nat
      BY <1>1, <1>3, <2>4
    <3> QED
      BY <2>1, <3>1, <3>2
  <2> QED
    BY <1>5, <2>2, <2>3, <2>4
<1> QED
  BY <1>3, <1>5 DEF tomb

(* A tombstone that stays keeps its meta.                                  *)
LEMMA RememberKeeps ==
  ASSUME NEW m \in CaseManagerState, NEW roll \in Seq(Segments),
         NEW s \in Segments, s \notin Elements(roll),
         Remember(m, roll)[s].case # None
  PROVE  /\ m.tomb[s].case # None
         /\ Remember(m, roll)[s].case = m.tomb[s].case
         /\ Remember(m, roll)[s].speaker = m.tomb[s].speaker
<1> DEFINE newer == {t \in Segments : /\ Buried(m, t)
                                      /\ t \notin Elements(roll)
                                      /\ m.tomb[t].age < m.tomb[s].age}
           stays == [m.tomb[s] EXCEPT !.age = Len(roll) + Cardinality(newer)]
           aged  == IF Buried(m, s) THEN stays ELSE NoTombstone
<1>1. Remember(m, roll)[s] = IF BeyondLimit(aged.age) THEN NoTombstone ELSE aged
  BY Zenon DEF Remember
<1>2. NoTombstone.case = None
  BY DEF NoTombstone
<1>3. m.tomb[s] \in Tombstone
  BY DEF CaseManagerState
<1>4. stays.case = m.tomb[s].case /\ stays.speaker = m.tomb[s].speaker
  BY <1>3 DEF Tombstone
<1> HIDE DEF stays
<1> QED
  BY <1>1, <1>2, <1>4 DEF Buried

LEMMA EmptyRowGood == GoodRow(NoSegment)
  BY Zenon DEF GoodRow, NoSegment

LEMMA EvictCaseGood ==
  ASSUME NEW m, Good(m), NEW e \in Cases, NEW d \in Devices, m.current[d] = e
  PROVE  LET n == EvictCase(m, e)
         IN /\ Good(n)
            /\ n.current[d] = None
            /\ \A c \in Cases : n.owner[c] = IF c = e THEN None ELSE m.owner[c]
<1> DEFINE n == EvictCase(m, e)
           roll == Roll(m, e)
           In(s) == s \in Elements(roll)
<1>1. /\ GoodRows(m) /\ HeldCurrent(m) /\ ListedRows(m) /\ ListedOnce(m)
      /\ RowsListed(m) /\ ListsWithinLimit(m) /\ TombstonesMatch(m)
      /\ TombstonesOrdered(m) /\ m \in CaseManagerState
  BY DEF Good, Shape
<1>2. m.owner[e] = d /\ d # None
  BY <1>1, NoneAssumption DEF HeldCurrent
<1>3. roll \in Seq(Segments)
  BY <1>1, RollType
<1>4. /\ \A s \in Segments : In(s) <=> Live(m, s) /\ m.seg[s].case = e
      /\ \A i, j \in 1..Len(roll) : roll[i] = roll[j] => i = j
  BY RollRows
<1>5. /\ \A c \in Cases : n.owner[c] = IF c = e THEN None ELSE m.owner[c]
      /\ \A c \in Cases : n.listed[c] = IF c = e THEN NoSpeakers ELSE m.listed[c]
      /\ \A b \in Devices : n.current[b] = IF b = d THEN None ELSE m.current[b]
      /\ \A s \in Segments : n.seg[s] = IF In(s) THEN NoSegment ELSE m.seg[s]
      /\ n.tomb = Remember(m, roll)
  BY <1>1, <1>2 DEF EvictCase, CaseManagerState
<1>6. n \in CaseManagerState
  BY <1>1, EvictCaseType
<1> HIDE DEF n, In, roll
<1>7. \A s \in Segments : Live(n, s) <=> Live(m, s) /\ ~In(s)
  BY <1>5 DEF Live, NoSegment
<1>8. \A s \in Segments : Live(n, s) => n.seg[s] = m.seg[s] /\ m.seg[s].case # e
  BY <1>4, <1>5, <1>7
<1>9. GoodRows(n)
  BY <1>1, <1>5, EmptyRowGood DEF GoodRows
<1>10. HeldCurrent(n)
  BY <1>1, <1>2, <1>5, NoneAssumption DEF HeldCurrent
<1>11. \A c \in Cases, p \in Speakers :
         n.listed[c][p] = IF c = e THEN <<>> ELSE m.listed[c][p]
  BY <1>5 DEF NoSpeakers
<1>12. ListedRows(n)
  <2> SUFFICES ASSUME NEW c \in Cases, NEW p \in Speakers,
                      NEW i \in DOMAIN n.listed[c][p]
               PROVE  LET s == n.listed[c][p][i]
                      IN Live(n, s) /\ SameMeta(n.seg[s], c, p)
    BY DEF ListedRows
  <2> DEFINE s == n.listed[c][p][i]
  <2>1. c # e /\ i \in DOMAIN m.listed[c][p] /\ s = m.listed[c][p][i]
    BY <1>11
  <2>2. m.listed[c][p] \in Seq(Segments)
    BY <1>1 DEF CaseManagerState
  <2>3. s \in Segments
    BY <2>1, <2>2
  <2>4. Live(m, s) /\ SameMeta(m.seg[s], c, p)
    BY <1>1, <2>1 DEF ListedRows
  <2> HIDE DEF s
  <2>5. Live(n, s) /\ n.seg[s] = m.seg[s]
    BY <1>4, <1>7, <1>8, <2>1, <2>3, <2>4 DEF SameMeta
  <2>6. Live(n, s) /\ SameMeta(n.seg[s], c, p)
    BY <2>4, <2>5
  <2> QED
    BY <2>6 DEF s
<1>13. ListedOnce(n)
  BY <1>1, <1>11 DEF ListedOnce
<1>14. RowsListed(n)
  <2> SUFFICES ASSUME NEW s \in Segments, Live(n, s)
               PROVE  /\ n.seg[s].case \in Held(n)
                      /\ \E i \in DOMAIN n.listed[n.seg[s].case][n.seg[s].speaker] :
                           n.listed[n.seg[s].case][n.seg[s].speaker][i] = s
    BY DEF RowsListed
  <2> DEFINE c == m.seg[s].case
             p == m.seg[s].speaker
  <2>1. n.seg[s] = m.seg[s] /\ c # e /\ Live(m, s)
    BY <1>7, <1>8
  <2>2. p \in Speakers
    BY <1>1 DEF CaseManagerState, Segment
  <2>3. c \in Held(m) /\ \E i \in DOMAIN m.listed[c][p] : m.listed[c][p][i] = s
    BY <1>1, <2>1 DEF RowsListed
  <2> HIDE DEF c, p
  <2>4. c \in Held(n) /\ n.listed[c][p] = m.listed[c][p]
    BY <1>5, <1>11, <2>1, <2>2, <2>3 DEF Held
  <2>5. /\ c \in Held(n)
        /\ \E i \in DOMAIN n.listed[c][p] : n.listed[c][p][i] = s
    BY <2>3, <2>4
  <2> QED
    BY <2>1, <2>5 DEF c, p
<1>15. ListsWithinLimit(n)
  <2> SUFFICES ASSUME NEW c \in Cases
               PROVE  Len(Roll(n, c)) <= MaxSegments
    BY DEF ListsWithinLimit
  <2>1. CASE c = e
    <3>1. n.listed[c]["A"] = <<>> /\ n.listed[c]["B"] = <<>>
      BY <1>11, <2>1 DEF Speakers
    <3>2. Len(Roll(n, c)) = Len(<<>>) + Len(<<>>)
      BY <1>6, <3>1, RollLen
    <3> QED
      BY <3>2, LimitAssumption
  <2>2. CASE c # e
    <3>1. Roll(n, c) = Roll(m, c)
      BY <1>11, <2>2 DEF Roll, Speakers
    <3> QED
      BY <1>1, <3>1 DEF ListsWithinLimit
  <2> QED
    BY <2>1, <2>2
<1>16. TombstonesMatch(n)
  <2> SUFFICES ASSUME NEW s \in Segments, Live(n, s), Buried(n, s)
               PROVE  SameMeta(n.seg[s], n.tomb[s].case, n.tomb[s].speaker)
    BY DEF TombstonesMatch
  <2>1. ~In(s) /\ Live(m, s) /\ n.seg[s] = m.seg[s]
    BY <1>7, <1>8
  <2>2. /\ Buried(m, s)
        /\ n.tomb[s].case = m.tomb[s].case /\ n.tomb[s].speaker = m.tomb[s].speaker
    <3>1. n.tomb[s].case # None
      BY DEF Buried
    <3> QED
      BY <1>1, <1>3, <1>5, <2>1, <3>1, RememberKeeps DEF In, Buried
  <2> QED
    BY <1>1, <2>1, <2>2 DEF TombstonesMatch
<1>17. TombstonesOrdered(n)
  <2>1. \A s \in Segments : s \in Elements(roll) => m.seg[s].case # None
    BY <1>4, NoneAssumption DEF In
  <2>2. \A s \in Segments : n.tomb[s].case # None =>
          /\ n.tomb[s].age < MaxTombstones
          /\ \A t \in Segments :
               n.tomb[t].case # None /\ n.tomb[t].age = n.tomb[s].age => t = s
    BY <1>1, <1>3, <1>4, <1>5, <2>1, RememberOrdered
  <2> QED
    BY <2>2 DEF TombstonesOrdered, Buried
<1>18. Good(n)
  BY <1>6, <1>9, <1>10, <1>12, <1>13, <1>14, <1>15, <1>16, <1>17
     DEF Good, Shape
<1> QED
  BY <1>5, <1>18 DEF n

(* A case that no one holds is added for a device that has none.           *)
LEMMA AddCaseGood ==
  ASSUME NEW m, Good(m), NEW d \in Devices, NEW c \in Cases,
         m.owner[c] = None, m.current[d] = None
  PROVE  Good([m EXCEPT !.owner[c] = d, !.listed[c] = NoSpeakers,
                        !.current[d] = c])
<1> DEFINE n == [m EXCEPT !.owner[c] = d, !.listed[c] = NoSpeakers,
                          !.current[d] = c]
<1>1. /\ GoodRows(m) /\ HeldCurrent(m) /\ ListedRows(m) /\ ListedOnce(m)
      /\ RowsListed(m) /\ ListsWithinLimit(m) /\ TombstonesMatch(m)
      /\ TombstonesOrdered(m) /\ m \in CaseManagerState
  BY DEF Good, Shape
<1>2. NoSpeakers \in [Speakers -> Seq(Segments)]
  BY DEF NoSpeakers
<1>3. n \in CaseManagerState
  BY <1>1, <1>2 DEF CaseManagerState
<1>4. /\ \A e \in Cases : n.owner[e] = IF e = c THEN d ELSE m.owner[e]
      /\ \A e \in Cases : n.listed[e] = IF e = c THEN NoSpeakers ELSE m.listed[e]
      /\ \A b \in Devices : n.current[b] = IF b = d THEN c ELSE m.current[b]
      /\ n.seg = m.seg /\ n.tomb = m.tomb
  BY <1>1 DEF CaseManagerState
<1> HIDE DEF n
<1>5. m.listed[c] = NoSpeakers
  <2>1. ASSUME NEW p \in Speakers
        PROVE  m.listed[c][p] = <<>>
    <3>1. m.listed[c][p] \in Seq(Segments)
      BY <1>1 DEF CaseManagerState
    <3>2. ASSUME m.listed[c][p] # <<>>
          PROVE  FALSE
      <4>1. 1 \in DOMAIN m.listed[c][p]
        BY <3>1, <3>2
      <4>2. m.listed[c][p][1] \in Segments
        BY <3>1, <4>1
      <4>3. /\ Live(m, m.listed[c][p][1])
            /\ m.seg[m.listed[c][p][1]].case = c
        BY <1>1, <4>1 DEF ListedRows, SameMeta
      <4> QED
        BY <1>1, <4>2, <4>3 DEF RowsListed, Held
    <3> QED
      BY <3>2
  <2>2. m.listed[c] \in [Speakers -> Seq(Segments)]
    BY <1>1 DEF CaseManagerState
  <2> QED
    BY <2>1, <2>2 DEF NoSpeakers
<1>6. \A e \in Cases : n.listed[e] = m.listed[e]
  BY <1>4, <1>5
<1>7. HeldCurrent(n)
  BY <1>1, <1>4, NoneAssumption DEF HeldCurrent
<1>8. GoodRows(n)
  BY <1>1, <1>4 DEF GoodRows
<1>9. ListedRows(n) /\ ListedOnce(n)
  BY <1>1, <1>4, <1>6 DEF ListedRows, ListedOnce, Live
<1>10. RowsListed(n)
  BY <1>1, <1>4, <1>6, NoneAssumption DEF RowsListed, Held, Live
<1>11. ListsWithinLimit(n)
  BY <1>1, <1>6 DEF ListsWithinLimit, Roll
<1>12. TombstonesMatch(n) /\ TombstonesOrdered(n)
  BY <1>1, <1>4 DEF TombstonesMatch, TombstonesOrdered, Live, Buried
<1> QED
  BY <1>3, <1>7, <1>8, <1>9, <1>10, <1>11, <1>12 DEF Good, Shape, n

LEMMA StartCaseGood ==
  ASSUME NEW m, Good(m), NEW d \in Devices, NEW c \in Cases
  PROVE  Good(StartCase(m, d, c))
<1>1. CASE m.owner[c] # None
  BY <1>1 DEF StartCase
<1>2. CASE m.owner[c] = None /\ m.current[d] = None
  BY <1>2, AddCaseGood DEF StartCase
<1>3. CASE m.owner[c] = None /\ m.current[d] # None
  <2> DEFINE e == m.current[d]
             n == EvictCase(m, e)
  <2>1. e \in Cases
    BY <1>3 DEF Good, CaseManagerState
  <2>2. Good(n) /\ n.current[d] = None /\ n.owner[c] = None
    BY <1>3, <2>1, EvictCaseGood
  <2>3. StartCase(m, d, c) = [n EXCEPT !.owner[c] = d, !.listed[c] = NoSpeakers,
                                       !.current[d] = c]
    BY <1>3 DEF StartCase
  <2> HIDE DEF n
  <2>4. Good([n EXCEPT !.owner[c] = d, !.listed[c] = NoSpeakers,
                       !.current[d] = c])
    BY <2>2, AddCaseGood
  <2> QED
    BY <2>3, <2>4
<1> QED
  BY <1>1, <1>2, <1>3

(***************************************************************************)
(* exportState returns what restoreState accepts                           *)
(***************************************************************************)

(* A set that maps one to one into a finite set is no larger.              *)
LEMMA OneToOneBound ==
  ASSUME NEW S, IsFiniteSet(S), NEW T, IsFiniteSet(T), NEW f \in [S -> T],
         \A x, y \in S : f[x] = f[y] => x = y
  PROVE  Cardinality(S) <= Cardinality(T)
<1>1. Cardinality(S) \in Nat /\ Cardinality(T) \in Nat
  BY FS_CardinalityType
<1>2. ~(Cardinality(T) < Cardinality(S))
  BY FS_PigeonHole
<1> QED
  BY <1>1, <1>2

(* The limits validateRestoredState checks: current cases, held cases,     *)
(* segments and tombstones.                                                *)
LEMMA GoodWithinLimits ==
  ASSUME NEW m, Good(m)
  PROVE  WithinLimits(ExportState(m))
<1> DEFINE ex == ExportState(m)
           Cur == {d \in Devices : m.current[d] # None}
           Liv == {s \in Segments : Live(m, s)}
           Bur == {s \in Segments : Buried(m, s)}
<1>1. /\ HeldCurrent(m) /\ RowsListed(m) /\ ListsWithinLimit(m)
      /\ TombstonesOrdered(m) /\ m \in CaseManagerState
  BY DEF Good, Shape
<1>2. /\ ex.owner = m.owner /\ ex.current = m.current /\ ex.tomb = m.tomb
      /\ \A s \in Segments : ex.seg[s].state = m.seg[s].state
  <2>1. \A s \in Segments : ExportedRow(m.seg[s]).state = m.seg[s].state
    BY <1>1, Zenon DEF ExportedRow, CaseManagerState, Segment
  <2> QED
    BY <1>1, <2>1 DEF ExportState, CaseManagerState
<1> HIDE DEF ex
<1>3. /\ {d \in Devices : ex.current[d] # None} = Cur
      /\ Held(ex) = Held(m)
      /\ {s \in Segments : Live(ex, s)} = Liv
      /\ {s \in Segments : Buried(ex, s)} = Bur
  BY <1>2 DEF Held, Live, Buried
<1>4. /\ IsFiniteSet(Cur) /\ IsFiniteSet(Held(m))
      /\ IsFiniteSet(Liv) /\ IsFiniteSet(Bur)
  <2>1. /\ Cur \in SUBSET Devices /\ Held(m) \in SUBSET Cases
        /\ Liv \in SUBSET Segments /\ Bur \in SUBSET Segments
    BY DEF Held
  <2> HIDE DEF Cur, Liv, Bur
  <2> QED
    BY <2>1, FS_Subset, FiniteAssumption
<1>5. Cardinality(Cur) <= MaxCases
  <2>1. Cur \in SUBSET Devices
    OBVIOUS
  <2> HIDE DEF Cur
  <2>2. Cardinality(Cur) <= Cardinality(Devices)
    BY <2>1, FS_Subset, FiniteAssumption
  <2>3. Cardinality(Cur) \in Nat /\ Cardinality(Devices) \in Nat
    BY <1>4, FS_CardinalityType, FiniteAssumption
  <2> QED
    BY <2>2, <2>3, DeviceBound, LimitAssumption
<1>6. Cardinality(Held(m)) <= MaxCases
  <2> DEFINE f == [c \in Held(m) |-> m.owner[c]]
  <2>1. f \in [Held(m) -> Devices]
    BY <1>1 DEF Held, CaseManagerState
  <2>2. \A c, e \in Held(m) : f[c] = f[e] => c = e
    <3>1. \A c \in Held(m) : m.owner[c] \in Devices /\ m.current[m.owner[c]] = c
      BY <1>1 DEF Held, CaseManagerState, HeldCurrent
    <3> QED
      BY <3>1
  <2> HIDE DEF f
  <2>3. Cardinality(Held(m)) <= Cardinality(Devices)
    BY <1>4, <2>1, <2>2, OneToOneBound, FiniteAssumption
  <2>4. Cardinality(Held(m)) \in Nat /\ Cardinality(Devices) \in Nat
    BY <1>4, FS_CardinalityType, FiniteAssumption
  <2> QED
    BY <2>3, <2>4, DeviceBound, LimitAssumption
<1>7. Cardinality(Liv) <= MaxCases * MaxSegments
  <2> DEFINE at(s) == CHOOSE i \in 1..MaxSegments :
                        /\ i \in 1..Len(Roll(m, m.seg[s].case))
                        /\ Roll(m, m.seg[s].case)[i] = s
             f == [s \in Liv |-> <<m.seg[s].case, at(s)>>]
  <2>1. ASSUME NEW s \in Liv
        PROVE  /\ m.seg[s].case \in Held(m)
               /\ at(s) \in 1..MaxSegments
               /\ Roll(m, m.seg[s].case)[at(s)] = s
    <3> DEFINE c == m.seg[s].case
    <3>1. c \in Held(m) /\ c \in Cases
      BY <1>1 DEF RowsListed, Held
    <3>2. Roll(m, c) \in Seq(Segments) /\ Len(Roll(m, c)) <= MaxSegments
      BY <1>1, <3>1, RollType DEF ListsWithinLimit
    <3>3. s \in Elements(Roll(m, c))
      BY <3>1, RollRows
    <3>4. PICK i \in DOMAIN Roll(m, c) : Roll(m, c)[i] = s
      BY <3>3 DEF Elements
    <3>5. i \in 1..Len(Roll(m, c)) /\ i \in 1..MaxSegments
      BY <3>2, <3>4, LimitAssumption
    <3>6. /\ at(s) \in 1..MaxSegments
          /\ Roll(m, c)[at(s)] = s
      BY <3>4, <3>5
    <3> QED
      BY <3>1, <3>6
  <2> HIDE DEF at
  <2>2. f \in [Liv -> Held(m) \X (1..MaxSegments)]
    BY <2>1
  <2>3. \A s, t \in Liv : f[s] = f[t] => s = t
    BY <2>1
  <2> HIDE DEF f, Liv
  <2>4. /\ IsFiniteSet(1..MaxSegments) /\ Cardinality(1..MaxSegments) = MaxSegments
    BY FS_Interval, LimitAssumption
  <2>5. /\ IsFiniteSet(Held(m) \X (1..MaxSegments))
        /\ Cardinality(Held(m) \X (1..MaxSegments))
             = Cardinality(Held(m)) * MaxSegments
    BY <1>4, <2>4, FS_Product
  <2>6. Cardinality(Liv) <= Cardinality(Held(m)) * MaxSegments
    BY <1>4, <2>2, <2>3, <2>5, OneToOneBound
  <2>7. Cardinality(Held(m)) \in Nat /\ Cardinality(Liv) \in Nat
    BY <1>4, FS_CardinalityType
  <2>8. \A k, n, l \in Nat : k <= n => k * l <= n * l
    OBVIOUS
  <2>9. Cardinality(Held(m)) * MaxSegments <= MaxCases * MaxSegments
    BY <1>6, <2>7, <2>8, LimitAssumption
  <2>10. /\ Cardinality(Held(m)) * MaxSegments \in Nat
         /\ MaxCases * MaxSegments \in Nat
    BY <2>7, LimitAssumption
  <2> QED
    BY <2>6, <2>7, <2>9, <2>10
<1>8. Cardinality(Bur) <= MaxTombstones
  <2> DEFINE f == [s \in Bur |-> m.tomb[s].age]
  <2>1. \A s \in Segments : m.tomb[s].age \in Nat
    BY <1>1 DEF CaseManagerState, Tombstone
  <2>2. f \in [Bur -> 0..(MaxTombstones - 1)]
    BY <1>1, <2>1, LimitAssumption DEF TombstonesOrdered
  <2>3. \A s, t \in Bur : f[s] = f[t] => s = t
    BY <1>1 DEF TombstonesOrdered
  <2> HIDE DEF f, Bur
  <2>4. /\ IsFiniteSet(0..(MaxTombstones - 1))
        /\ Cardinality(0..(MaxTombstones - 1)) = MaxTombstones
    BY FS_Interval, LimitAssumption
  <2> QED
    BY <1>4, <2>2, <2>3, <2>4, OneToOneBound
<1> HIDE DEF Cur, Liv, Bur
<1> QED
  BY <1>3, <1>5, <1>6, <1>7, <1>8 DEF WithinLimits, ex

(* The relations it checks between cases, segments and tombstones.         *)
LEMMA GoodIsValid ==
  ASSUME NEW m, Good(m)
  PROVE  LET ex == ExportState(m)
         IN /\ RollsAreValid(ex) /\ RowsAreValid(ex)
            /\ CurrentCasesAreValid(ex) /\ TombstonesAreValid(ex)
<1> DEFINE ex == ExportState(m)
<1>1. /\ HeldCurrent(m) /\ RowsListed(m) /\ ListsWithinLimit(m)
      /\ TombstonesMatch(m) /\ GoodRows(m) /\ m \in CaseManagerState
  BY DEF Good, Shape
<1>2. \A s \in Segments : m.seg[s] \in Segment /\ GoodRow(m.seg[s])
  BY <1>1 DEF GoodRows, CaseManagerState
<1>3. /\ ex.owner = m.owner /\ ex.current = m.current
      /\ ex.tomb = m.tomb /\ ex.listed = m.listed
      /\ \A s \in Segments : ex.seg[s] = ExportedRow(m.seg[s])
  BY <1>1 DEF ExportState, CaseManagerState
<1>4. \A s \in Segments : /\ ex.seg[s].case = m.seg[s].case
                          /\ ex.seg[s].speaker = m.seg[s].speaker
                          /\ ex.seg[s].state = m.seg[s].state
  BY <1>2, <1>3, Zenon DEF ExportedRow, Segment
<1> HIDE DEF ex
<1>5. Held(ex) = Held(m) /\ \A c \in Cases : Roll(ex, c) = Roll(m, c)
  BY <1>3 DEF Held, Roll
<1>6. \A s \in Segments : /\ Live(ex, s) <=> Live(m, s)
                          /\ Buried(ex, s) <=> Buried(m, s)
  BY <1>3, <1>4 DEF Live, Buried
<1>7. RollsAreValid(ex)
  <2> SUFFICES ASSUME NEW c \in Cases
               PROVE  /\ \A i, j \in DOMAIN Roll(m, c) :
                           Roll(m, c)[i] = Roll(m, c)[j] => i = j
                      /\ Len(Roll(m, c)) <= MaxSegments
                      /\ \A i \in DOMAIN Roll(m, c) : Live(ex, Roll(m, c)[i])
    BY <1>5 DEF RollsAreValid, Held
  <2>1. Roll(m, c) \in Seq(Segments)
    BY <1>1, RollType
  <2>2. DOMAIN Roll(m, c) = 1..Len(Roll(m, c))
    BY <2>1
  <2>3. \A i \in DOMAIN Roll(m, c) :
          Roll(m, c)[i] \in Segments /\ Roll(m, c)[i] \in Elements(Roll(m, c))
    BY <2>1 DEF Elements
  <2> QED
    BY <1>1, <1>6, <2>2, <2>3, RollRows DEF ListsWithinLimit
<1>8. RowsAreValid(ex)
  <2> SUFFICES ASSUME NEW s \in Segments, Live(m, s)
               PROVE  LET row == RestoredRow(ex.seg[s])
                      IN /\ row.case \in Held(ex)
                         /\ s \in Elements(ex.listed[row.case][row.speaker])
                         /\ row.state = "saved"  <=> row.transcript # None
                         /\ row.state = "failed" <=> row.failure # None
    BY <1>6 DEF RowsAreValid
  <2> DEFINE row == RestoredRow(ex.seg[s])
  <2>1. /\ GoodRow(row)
        /\ row.case = m.seg[s].case /\ row.speaker = m.seg[s].speaker
    BY <1>2, <1>3, RestoredRowGood
  <2> HIDE DEF row
  <2>2. row.case \in Held(ex) /\ s \in Elements(ex.listed[row.case][row.speaker])
    BY <1>1, <1>3, <1>5, <2>1 DEF RowsListed, Elements
  <2>3. /\ row.state = "saved"  <=> row.transcript # None
        /\ row.state = "failed" <=> row.failure # None
    BY <2>1 DEF GoodRow
  <2> QED
    BY <2>2, <2>3 DEF row
<1>9. CurrentCasesAreValid(ex)
  <2>1. \A d \in Devices : m.current[d] \in Cases \cup {None}
    BY <1>1 DEF CaseManagerState
  <2> QED
    BY <1>1, <1>3, <2>1 DEF CurrentCasesAreValid, HeldCurrent
<1>10. TombstonesAreValid(ex)
  BY <1>1, <1>3, <1>4, <1>6
     DEF TombstonesAreValid, TombstonesMatch, SameMeta
<1> QED
  BY <1>7, <1>8, <1>9, <1>10 DEF ex

LEMMA GoodMayRestore ==
  ASSUME NEW m, Good(m) PROVE MayRestoreState(ExportState(m))
  BY GoodWithinLimits, GoodIsValid DEF MayRestoreState
=============================================================================
